----------------------------- MODULE QueryService -----------------------------
(***************************************************************************)
(* What HTTP_Query_Task promises Payment_Processor and HistoryActivity     *)
(* ("perform an http query, and then execute a callback fcn"): the queries *)
(* are carried out in the order in which they were made, each at most      *)
(* once, and the client is called back for each once, in that order.  It   *)
(* is given the response only if the service has carried the query out; an *)
(* empty answer says nothing: the service may have carried it out or not.  *)
(***************************************************************************)
EXTENDS Naturals

CONSTANT MaxQueries      \* how many queries are made (bounds the model)

Queries == 1..MaxQueries

VARIABLES asked,         \* number of queries made so far
          served,        \* the queries the service has carried out
          answer         \* answer[q]: what the client of q was called back with

serviceVars == <<asked, served, answer>>

ServiceInit ==
  /\ asked = 0
  /\ served = {}
  /\ answer = [q \in Queries |-> "none"]

Unanswered == {q \in 1..asked : answer[q] = "none"}

MakeQuery ==
  /\ asked < MaxQueries
  /\ asked' = asked + 1
  /\ UNCHANGED <<served, answer>>

(* The service acts on q, never after q's answer or after a later query. *)
Serve(q) ==
  /\ q \in Unanswered
  /\ \A s \in served : s < q
  /\ served' = served \cup {q}
  /\ UNCHANGED <<asked, answer>>

CallBack(q, reply) ==
  /\ q \in Unanswered
  /\ \A r \in Unanswered : q <= r
  /\ reply = "response" => q \in served
  /\ answer' = [answer EXCEPT ![q] = reply]
  /\ UNCHANGED <<asked, served>>

ServiceNext ==
  \/ MakeQuery
  \/ \E q \in Queries : Serve(q) \/ \E reply \in {"response", "empty"} : CallBack(q, reply)

ServiceSpec == ServiceInit /\ [][ServiceNext]_serviceVars
=============================================================================
