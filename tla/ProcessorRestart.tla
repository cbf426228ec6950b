-------------------------- MODULE ProcessorRestart --------------------------
(***************************************************************************)
(* Payment_Processor in an app that Android may kill at any time.          *)
(*                                                                         *)
(* The preferences are written with SharedPreferences.Editor.apply(): the  *)
(* new values are read back at once, and reach the file later.  A killed   *)
(* process takes the queues, the current messages, the query and the       *)
(* values that had not reached the file with it.  What it had sent to the  *)
(* node stays sent, and a broadcast on its way may still arrive.           *)
(***************************************************************************)
EXTENDS PaymentProcessor

CONSTANT MaxKills        \* times the app is killed (bounds the model)

ASSUME RestartAssumption == MaxKills \in Nat

VARIABLES
  file,      \* the preferences in the file of the app
  kills,     \* times the app has been killed
  in_flight  \* broadcasts of killed processes on their way to the node

restartVars == <<processorVars, file, kills, in_flight>>

RestartInit ==
  /\ ProcessorInit
  /\ file = prefs
  /\ kills = 0
  /\ in_flight = {}

(* The file catches up with the preferences. *)
WriteFile ==
  /\ file # prefs
  /\ file' = prefs
  /\ UNCHANGED <<processorVars, kills, in_flight>>

(* Mutant: the nonces read from the file are taken one too high. *)
MutRestarted == [file EXCEPT !.verified_nonce = @ + 1, !.last_tx_nonce = @ + 1]

(* getSharedPreferences in a new process reads the file. *)
Restarted == file

(* The broadcast the node has not seen yet. *)
Unserved ==
  IF query.of = "broadcast" /\ query.answer = "none"
  THEN {[of |-> current_message["send"], nonce |-> query.nonce]}
  ELSE {}

(* The process is killed and started again: the constructor of             *)
(* Payment_Processor makes new lists, no message is current, and           *)
(* gas_price_history is empty.                                             *)
Kill ==
  /\ kills < MaxKills
  /\ kills' = kills + 1
  /\ prefs' = Restarted
  /\ message_list' = [k \in Message_Type |-> {}]
  /\ current_message' = [k \in Message_Type |-> NoMessage]
  /\ client_map' = [c \in Clients |-> 0]
  /\ timer' = [m \in Messages |-> NotWaiting]
  /\ http' = [m \in Messages |-> 0]
  /\ run_pc' = "loop"
  /\ delivering' = [t \in Threads |-> NoMessage]
  /\ Become({m \in Messages : outcome[m] = "pending"}, "flushed")
  /\ gas_samples' = 0
  /\ query' = NoQuery
  /\ in_flight' = in_flight \cup Unserved
  /\ UNCHANGED <<last_message, client, is_suspended, process_count, nonce, result,
                 now_sec, chainVars, file>>

(* A broadcast of a killed process arrives, is refused, or is lost: there  *)
(* is nobody left to answer.                                               *)
Arrive(b) ==
  /\ b \in in_flight
  /\ in_flight' = in_flight \ {b}
  /\ NodeAccepts(b.of, b.nonce) \/ UNCHANGED chainVars
  /\ UNCHANGED <<vars, prefs, clientVars, query, now_sec, file, kills>>

RestartNext ==
  \/ ProcessorNext /\ UNCHANGED <<file, kills, in_flight>>
  \/ WriteFile
  \/ Kill
  \/ \E b \in in_flight : Arrive(b)

RestartSpec == RestartInit /\ [][RestartNext]_restartVars

-----------------------------------------------------------------------------
(* Properties.                                                             *)

(* However the app is killed, a payment is accepted by the network at most *)
(* once: the app never makes a payment of its own again, because nothing   *)
(* of it is left.                                                          *)
PaidOnce == \A m \in Messages : Cardinality({n \in Nonces : tx[n] = m}) <= 1
=============================================================================
