--------------------------- MODULE PaymentRequests ---------------------------
(***************************************************************************)
(* What Payment_Processor promises the activities that call it, seen from  *)
(* outside: a request (Payment_Processor.send or .refresh_balance) is      *)
(* answered at most once, through payment_result or balance_result of its  *)
(* client.  A request can also end without an answer: its client cancels   *)
(* it before the processor has begun it (cancel_messages), or another      *)
(* request fails and everything still queued is flushed with it.           *)
(***************************************************************************)
EXTENDS Naturals

CONSTANTS Clients,       \* the activities that make requests
          MaxMessages    \* how many requests are made (bounds the model)

Messages == 1..MaxMessages

Outcomes == {"new", "pending", "answered", "cancelled", "flushed"}

VARIABLES client,        \* client[m]: who made request m
          outcome        \* outcome[m]: what has become of request m

requestVars == <<client, outcome>>

RequestsInit ==
  /\ client \in [Messages -> Clients]
  /\ outcome = [m \in Messages |-> "new"]

Pending == {m \in Messages : outcome[m] = "pending"}

Become(S, o) == outcome' = [m \in Messages |-> IF m \in S THEN o ELSE outcome[m]]

(* An activity makes its request. *)
Submit(m) ==
  /\ outcome[m] = "new"
  /\ Become({m}, "pending")
  /\ UNCHANGED client

(* The client of m gets its payment_result or balance_result. *)
Answer(m) ==
  /\ m \in Pending
  /\ Become({m}, "answered")
  /\ UNCHANGED client

(* Client c withdraws requests of its own, and nobody else's. *)
Withdraw(c) ==
  /\ \E S \in SUBSET {m \in Pending : client[m] = c} : Become(S, "cancelled")
  /\ UNCHANGED client

(* A failing request m takes others down with it, but never itself: m has  *)
(* still to be answered.                                                   *)
Flush(m) ==
  /\ m \in Pending
  /\ \E S \in SUBSET (Pending \ {m}) : Become(S, "flushed")
  /\ UNCHANGED client

RequestsNext ==
  \/ \E m \in Messages : Submit(m) \/ Answer(m) \/ Flush(m)
  \/ \E c \in Clients : Withdraw(c)

RequestsSpec == RequestsInit /\ [][RequestsNext]_requestVars
=============================================================================
