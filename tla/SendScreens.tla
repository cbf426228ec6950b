---------------------------- MODULE SendScreens ----------------------------
(***************************************************************************)
(* The SendActivity screens and the payments made from them, on top of     *)
(* what PaymentRequests promises.                                          *)
(*                                                                         *)
(* Every screen is an object of its own: opened from the scanned address,  *)
(* recreated by an item of its options menu or by a rotation of the device *)
(* (the manifest does not exclude it), destroyed when the user leaves it.  *)
(* The payment it made is still answered to the object that made it.       *)
(*                                                                         *)
(* payment_result is called on the UI thread when an answer of the network *)
(* settles the payment, and on the processor thread when create_transaction*)
(* fails the first time send_guts runs.  An AlertDialog can only be made   *)
(* on a thread with a Looper and shown by an activity that is not          *)
(* destroyed; otherwise Android throws, and the app ends.                  *)
(*                                                                         *)
(* All payments cost the same here; the screens are the clients.           *)
(***************************************************************************)
EXTENDS PaymentRequests, Integers, FiniteSets

CONSTANTS StartBalance,  \* the balance in the preferences
          Cost,          \* size_wei + gas_limit * gas_price of a payment
          Balances       \* balances the node may answer (bounds the model)

ASSUME SendScreensAssumption ==
  /\ StartBalance \in Nat /\ Cost \in Nat /\ Balances \subseteq Nat
  /\ Clients = 1..Cardinality(Clients)

VARIABLES
  opened,        \* number of screens created so far
  screen,        \* screen[c]: "new", "open" or "destroyed"
  eth_balance,   \* eth_balance[c], read in onCreate
  send_is_done,  \* send_is_done[c]
  dialog,        \* dialog[c]: the result dialog is shown
  balance,       \* the preference
  refreshing,    \* MainActivity waits for its balance
  outdated,      \* history: a screen was created while a payment was pending, or
                 \* the balance fell under a screen or a payment
  died           \* why the app has ended, "" while it has not

screenVars == <<requestVars, opened, screen, eth_balance, send_is_done, dialog,
                balance, refreshing, outdated, died>>

SendInit ==
  /\ RequestsInit
  /\ opened = 0
  /\ screen = [c \in Clients |-> "new"]
  /\ eth_balance = [c \in Clients |-> 0]
  /\ send_is_done = [c \in Clients |-> FALSE]
  /\ dialog = [c \in Clients |-> FALSE]
  /\ balance = StartBalance
  /\ refreshing = FALSE
  /\ outdated = FALSE
  /\ died = ""

Alive == died = ""

OnTop == {c \in Clients : screen[c] = "open"}

-----------------------------------------------------------------------------
(* The screens.                                                            *)

(* Mutant: the screen that is replaced stays. *)
MutCreate(S) ==
  /\ opened + 1 \in Clients
  /\ opened' = opened + 1
  /\ screen' = [screen EXCEPT ![opened + 1] = "open"]
  /\ eth_balance' = [eth_balance EXCEPT ![opened + 1] = balance]
  /\ outdated' = (outdated \/ Pending # {})
  /\ UNCHANGED <<send_is_done, requestVars, balance, refreshing, died>>

(* onCreate of the next screen, in place of those in S. *)
Create(S) ==
  /\ opened + 1 \in Clients
  /\ opened' = opened + 1
  /\ screen' = [c \in Clients |-> IF c = opened + 1 THEN "open"
                                  ELSE IF c \in S THEN "destroyed" ELSE screen[c]]
  /\ eth_balance' = [eth_balance EXCEPT ![opened + 1] = balance]
  /\ outdated' = (outdated \/ Pending # {})
  /\ UNCHANGED <<send_is_done, requestVars, balance, refreshing, died>>

(* ScanActivity starts a SendActivity. *)
Open ==
  /\ Alive
  /\ OnTop = {}
  /\ Create({})
  /\ UNCHANGED dialog

(* recreate(), or a rotation: a new object from the same intent. *)
Recreate(c) ==
  /\ Alive
  /\ screen[c] = "open"
  /\ Create({c})
  /\ dialog' = [dialog EXCEPT ![c] = FALSE]

(* The back key, or OK in the result dialog. *)
Leave(c) ==
  /\ Alive
  /\ screen[c] = "open"
  /\ screen' = [screen EXCEPT ![c] = "destroyed"]
  /\ dialog' = [dialog EXCEPT ![c] = FALSE]
  /\ UNCHANGED <<requestVars, opened, eth_balance, send_is_done, balance,
                 refreshing, outdated, died>>

(* The dialog is cancelable: the screen stays. *)
CancelDialog(c) ==
  /\ Alive
  /\ dialog[c]
  /\ dialog' = [dialog EXCEPT ![c] = FALSE]
  /\ UNCHANGED <<requestVars, opened, screen, eth_balance, send_is_done, balance,
                 refreshing, outdated, died>>

FirstNew(m) == \A l \in Messages : outcome[l] = "new" => m <= l

(* Mutant: the button stays active. *)
MutDone(c) == UNCHANGED send_is_done

Done(c) == send_is_done' = [send_is_done EXCEPT ![c] = TRUE]

(* Mutant: the gas is left out of the sum. *)
MutSufficient(c) == Cost - 1 <= eth_balance[c]

(* "ensure sufficient funds". *)
Sufficient(c) == Cost <= eth_balance[c]

(* do_pay. *)
Pay(c, m) ==
  /\ Alive
  /\ screen[c] = "open"
  /\ ~dialog[c]
  /\ ~send_is_done[c]
  /\ Sufficient(c)
  /\ client[m] = c
  /\ FirstNew(m)
  /\ Submit(m)
  /\ Done(c)
  /\ UNCHANGED <<opened, screen, eth_balance, dialog, balance, refreshing, outdated, died>>

-----------------------------------------------------------------------------
(* The answers of Payment_Processor, which works on one payment at a time, *)
(* the first that was made.                                                *)

Current(m) == m \in Pending /\ \A l \in Pending : m <= l

(* payment_result on the UI thread or the processor thread. *)
PaymentResult(m, thread) ==
  \/ /\ thread = "run"
     /\ died' = "dialog made on the processor thread"
     /\ UNCHANGED dialog
  \/ /\ thread = "ui"
     /\ screen[client[m]] = "destroyed"
     /\ died' = "dialog of a destroyed activity"
     /\ UNCHANGED dialog
  \/ /\ thread = "ui"
     /\ screen[client[m]] = "open"
     /\ dialog' = [dialog EXCEPT ![client[m]] = TRUE]
     /\ UNCHANGED died

(* The node has accepted the payment. *)
Paid(m) ==
  /\ Alive
  /\ Current(m)
  /\ Answer(m)
  /\ balance' = balance - Cost
  /\ PaymentResult(m, "ui")
  /\ UNCHANGED <<opened, screen, eth_balance, send_is_done, refreshing, outdated>>

(* The payment has failed, and all that was queued behind it is flushed,   *)
(* the refresh too: Flush(m) and Answer(m) in one.                         *)
Failed(m) ==
  /\ Alive
  /\ Current(m)
  /\ outcome' = [l \in Messages |-> IF l = m THEN "answered"
                                    ELSE IF l \in Pending THEN "flushed" ELSE outcome[l]]
  /\ refreshing' \in {refreshing, FALSE}
  /\ \E thread \in {"ui", "run"} : PaymentResult(m, thread)
  /\ UNCHANGED <<client, opened, screen, eth_balance, send_is_done, balance, outdated>>

-----------------------------------------------------------------------------
(* The refresh of MainActivity, whose answers may come when a screen is    *)
(* on top.                                                                 *)

refreshKeeps == <<opened, screen, eth_balance, send_is_done, dialog, died>>

(* do_refresh. *)
Refresh ==
  /\ Alive
  /\ OnTop = {}
  /\ ~refreshing
  /\ refreshing' = TRUE
  /\ UNCHANGED <<requestVars, balance, outdated, refreshKeeps>>

(* The answer may be adopted, and more may be asked for. *)
BalanceAnswered ==
  /\ Alive
  /\ refreshing
  /\ refreshing' \in BOOLEAN
  /\ balance' \in {balance} \cup Balances
  /\ outdated' = (outdated \/ (balance' < balance /\ (Pending # {} \/ OnTop # {})))
  /\ UNCHANGED <<requestVars, refreshKeeps>>

(* All queued payments are flushed, and no screen is told.  The payment    *)
(* the processor has begun is not queued any more.                         *)
RefreshFails ==
  /\ Alive
  /\ refreshing
  /\ refreshing' = FALSE
  /\ \E S \in {Pending, {m \in Pending : ~Current(m)}} : Become(S, "flushed")
  /\ UNCHANGED <<client, balance, outdated, refreshKeeps>>

SendNext ==
  \/ Open
  \/ \E c \in Clients : Recreate(c) \/ Leave(c) \/ CancelDialog(c)
  \/ \E c \in Clients, m \in Messages : Pay(c, m)
  \/ \E m \in Messages : Paid(m) \/ Failed(m)
  \/ Refresh \/ BalanceAnswered \/ RefreshFails

SendSpec == SendInit /\ [][SendNext]_screenVars

-----------------------------------------------------------------------------
(* Properties.                                                             *)

(* Types; only one screen is on top. *)
SendTypeOK ==
  /\ opened \in {0} \cup Clients
  /\ screen \in [Clients -> {"new", "open", "destroyed"}]
  /\ \A c \in Clients : screen[c] = "new" <=> c > opened
  /\ Cardinality(OnTop) <= 1
  /\ eth_balance \in [Clients -> Int]
  /\ send_is_done \in [Clients -> BOOLEAN]
  /\ dialog \in [Clients -> BOOLEAN]
  /\ balance \in Int
  /\ refreshing \in BOOLEAN

(* A screen pays once, however often its button is touched and its dialog  *)
(* cancelled.                                                              *)
PaysOnce ==
  \A c \in Clients : Cardinality({m \in Messages : client[m] = c /\ outcome[m] # "new"}) <= 1

Promised == Cost * Cardinality(Pending)

(* "ensure sufficient funds" (SendActivity.java:352): the payments that    *)
(* have been promised are covered by the balance the app knows of.         *)
FundsCovered == Promised <= balance

(* They are as long as no screen is created while a payment is pending and *)
(* no answer lowers the balance behind a screen that has read it.          *)
CoveredUnlessOutdated == outdated \/ FundsCovered
=============================================================================
