-------------------------- MODULE PaymentScheduler --------------------------
(***************************************************************************)
(* The message scheduling of Payment_Processor: two queues, one current    *)
(* message of each kind, and the threads that work on them.                *)
(*                                                                         *)
(*  - the UI thread (Android's main looper) queues and cancels messages,   *)
(*    and runs handle_http_rsp, because HTTP_Query_Task.onPostExecute is   *)
(*    called there.  Whatever handle_http_rsp calls -- send_guts,          *)
(*    refresh_balance_guts, dispose_current_message, the client's result   *)
(*    callback -- runs on the UI thread too;                               *)
(*  - the processor thread executes Payment_Processor.run;                 *)
(*  - one HTTP_Query_Task per query carries it out in the background.      *)
(*                                                                         *)
(* What the guts of a message decide (ask the network again, wait, or      *)
(* finish) is left open here: every choice they can make is a disjunct.    *)
(* PaymentProcessor extends this module and makes the choices.             *)
(*                                                                         *)
(* A message is numbered in the order in which queue_message received it,  *)
(* so a LinkedList of messages that is only appended to and removed from   *)
(* is the set of its members: its first element is the smallest.           *)
(***************************************************************************)
EXTENDS Integers, FiniteSets

CONSTANTS Payers,        \* the SendActivity objects: they call send
          Wallets,       \* the MainActivity objects: they call refresh_balance,
                         \* and cancel_messages when they stop
          MaxMessages,   \* how many messages are ever queued (bounds the model)
          RetryDelay     \* call_next_callback's delay_sec when it is not 0

ASSUME SchedulerAssumption ==
  /\ Payers \cap Wallets = {}
  /\ MaxMessages \in Nat
  /\ RetryDelay \in Nat \ {0}

Clients      == Payers \cup Wallets
Messages     == 1..MaxMessages
NoMessage    == 0
Message_Type == {"send", "balance"}
Threads      == {"run", "ui"}
NotWaiting   == -1

VARIABLES
  last_message,     \* number of messages queued so far
  client,           \* client[m]: field client of message m
  message_list,     \* send_message_list and balance_message_list
  current_message,  \* current_send_message and current_balance_message
  client_map,       \* client_map[c]; no entry is 0, as every reader takes it
  is_suspended,     \* field is_suspended of each message
  timer,            \* wait_until_sec - now_sec while positive, 0 once it has
                    \* passed, NotWaiting when wait_until_sec = 0
  http,             \* http[m]: HTTP_Query_Tasks begun for m, not yet handled
  run_pc,           \* where the processor thread is in run
  delivering,       \* delivering[t]: the message whose client thread t is
                    \* about to call back, after dispose's monitor block
  outcome           \* history: what has become of each request

vars == <<last_message, client, message_list, current_message,
          client_map, is_suspended, timer, http, run_pc, delivering, outcome>>

(* client is set by Payment_Message's constructor and never changes: the   *)
(* initial state already chooses it for the messages to come.              *)
Init ==
  /\ last_message = 0
  /\ client \in [Messages -> Clients]
  /\ message_list = [k \in Message_Type |-> {}]
  /\ current_message = [k \in Message_Type |-> NoMessage]
  /\ client_map = [c \in Clients |-> 0]
  /\ is_suspended = [m \in Messages |-> TRUE]
  /\ timer = [m \in Messages |-> NotWaiting]
  /\ http = [m \in Messages |-> 0]
  /\ run_pc = "loop"
  /\ delivering = [t \in Threads |-> NoMessage]
  /\ outcome = [m \in Messages |-> "new"]

-----------------------------------------------------------------------------
(* The pieces the handlers are made of.                                    *)

(* Which queue a message belongs to follows from who made it. *)
Kind(m) == IF client[m] \in Wallets THEN "balance" ELSE "send"

(* Mutant: Math.max forgotten. *)
MutMax0(n) == n

Max0(n) == IF n > 0 THEN n ELSE 0

Queued == message_list["send"] \cup message_list["balance"]

Active(k) == /\ current_message[k] # NoMessage
             /\ ~is_suspended[current_message[k]]

(* Mutant: run looks at the current payment only. *)
MutAnyActive == Active("send")

AnyActive == \E k \in Message_Type : Active(k)

(* Mutant: monitor.notify forgotten. *)
MutNotified == run_pc

(* monitor.notify(): only the processor thread ever waits on the monitor. *)
Notified == IF run_pc = "waiting" THEN "loop" ELSE run_pc

Become(S, o) == outcome' = [m \in Messages |-> IF m \in S THEN o ELSE outcome[m]]

(* dispose_current_message on thread t, up to the end of its monitor block; *)
(* the client is called back afterwards, by Deliver(t).                    *)
Dispose(t, k, flush_all) ==
  LET m == current_message[k] IN
  /\ IF flush_all
     THEN /\ client_map' = [c \in Clients |-> 0]
          /\ message_list' = [j \in Message_Type |-> {}]
          /\ Become(Queued, "flushed")
     ELSE /\ client_map' = [client_map EXCEPT ![client[m]] = Max0(@ - 1)]
          /\ UNCHANGED <<message_list, outcome>>
  /\ current_message' = [current_message EXCEPT ![k] = NoMessage]
  /\ delivering' = [delivering EXCEPT ![t] = m]

-----------------------------------------------------------------------------
(* The UI thread: the public entry points.                                 *)

UiFree == delivering["ui"] = NoMessage

(* send and refresh_balance, down to queue_message. *)
QueueMessage(m) ==
  /\ UiFree
  /\ m = last_message + 1
  /\ last_message' = m
  /\ client_map' = [client_map EXCEPT ![client[m]] = @ + 1]
  /\ message_list' = [message_list EXCEPT ![Kind(m)] = @ \cup {m}]
  /\ run_pc' = Notified
  /\ Become({m}, "pending")
  /\ UNCHANGED <<client, current_message, is_suspended, timer, http, delivering>>

(* The first n elements of a queue. *)
FirstOf(S, n) == {m \in S : Cardinality({l \in S : l <= m}) <= n}

(* Mutant: the test of the client forgotten. *)
MutQueuedOf(c, k) == message_list[k]

(* What cancel_client_messages removes for c: as many of its queued        *)
(* messages as client_map counts, those of the send queue first.           *)
QueuedOf(c, k) == {m \in message_list[k] : client[m] = c}

Cancellable(c) ==
  FirstOf(QueuedOf(c, "send"), client_map[c])
    \cup FirstOf(QueuedOf(c, "balance"),
                 client_map[c] - Cardinality(QueuedOf(c, "send")))

(* Mutant: the count is not written back. *)
MutCancelMessages(c) ==
  /\ UiFree
  /\ message_list' = [k \in Message_Type |-> message_list[k] \ Cancellable(c)]
  /\ Become(Cancellable(c), "cancelled")
  /\ UNCHANGED <<last_message, client, client_map, current_message, is_suspended,
                 timer, http, run_pc, delivering>>

(* cancel_messages, called by MainActivity.onStop. *)
CancelMessages(c) ==
  /\ UiFree
  /\ message_list' = [k \in Message_Type |-> message_list[k] \ Cancellable(c)]
  /\ client_map' = [client_map EXCEPT
        ![c] = Max0(@ - Cardinality(QueuedOf(c, "send") \cup QueuedOf(c, "balance")))]
  /\ Become(Cancellable(c), "cancelled")
  /\ UNCHANGED <<last_message, client, current_message, is_suspended,
                 timer, http, run_pc, delivering>>

-----------------------------------------------------------------------------
(* The UI thread: handle_http_rsp.  The callback string of a query names   *)
(* the kind of its message, not the message: the handler works on whatever *)
(* is the current message of that kind.                                    *)

Respond(m) ==
  /\ UiFree
  /\ http[m] > 0

(* The response leads straight to another query. *)
RspQuery(m) ==
  /\ Respond(m)
  /\ http' = [l \in Messages |->
                 (IF l = m THEN http[l] - 1 ELSE http[l])
                   + (IF l = current_message[Kind(m)] THEN 1 ELSE 0)]
  /\ UNCHANGED <<last_message, client, message_list, current_message, client_map,
                 is_suspended, timer, run_pc, delivering, outcome>>

(* Mutant: the message is given its wait but stays active. *)
MutRspSuspend(m) ==
  /\ Respond(m)
  /\ http' = [http EXCEPT ![m] = @ - 1]
  /\ timer' = [timer EXCEPT ![current_message[Kind(m)]] = RetryDelay]
  /\ run_pc' = Notified
  /\ UNCHANGED <<last_message, client, message_list, current_message, client_map,
                 is_suspended, delivering, outcome>>

(* call_next_callback with a delay: the message is put aside. *)
RspSuspend(m) ==
  LET now == current_message[Kind(m)] IN
  /\ Respond(m)
  /\ http' = [http EXCEPT ![m] = @ - 1]
  /\ is_suspended' = [is_suspended EXCEPT ![now] = TRUE]
  /\ timer' = [timer EXCEPT ![now] = RetryDelay]
  /\ run_pc' = Notified
  /\ UNCHANGED <<last_message, client, message_list, current_message, client_map,
                 delivering, outcome>>

(* The response settles the message, or fails it and flushes the queues. *)
RspDispose(m, flush_all) ==
  /\ Respond(m)
  /\ http' = [http EXCEPT ![m] = @ - 1]
  /\ Dispose("ui", Kind(m), flush_all)
  /\ run_pc' = Notified
  /\ UNCHANGED <<last_message, client, is_suspended, timer>>

(* client.payment_result or client.balance_result. *)
Deliver(t) ==
  /\ delivering[t] # NoMessage
  /\ delivering' = [delivering EXCEPT ![t] = NoMessage]
  /\ Become({delivering[t]}, "answered")
  /\ UNCHANGED <<last_message, client, message_list, current_message, client_map,
                 is_suspended, timer, http, run_pc>>

-----------------------------------------------------------------------------
(* The processor thread.  One pass of run is its monitor block, which      *)
(* selects a message or waits, and then the guts of the selected message.  *)

RunLoop == run_pc = "loop" /\ delivering["run"] = NoMessage

Ready(k) == current_message[k] # NoMessage /\ timer[current_message[k]] <= 0

Takeable(k) == current_message[k] = NoMessage /\ message_list[k] # {}

AnyReady == \E k \in Message_Type : Ready(k)

(* Mutant: wait_until_sec is not reset. *)
MutSelectSuspended(k) ==
  /\ RunLoop /\ ~AnyActive /\ Ready(k)
  /\ k = "balance" => ~Ready("send")
  /\ run_pc' = "selected"
  /\ UNCHANGED <<last_message, client, message_list, current_message, client_map,
                 is_suspended, timer, http, delivering, outcome>>

(* A suspended current message whose wait is over, sends first. *)
SelectSuspended(k) ==
  /\ RunLoop
  /\ ~AnyActive
  /\ Ready(k)
  /\ k = "balance" => ~Ready("send")
  /\ timer' = [timer EXCEPT ![current_message[k]] = NotWaiting]
  /\ run_pc' = "selected"
  /\ UNCHANGED <<last_message, client, message_list, current_message, client_map,
                 is_suspended, http, delivering, outcome>>

(* Mutant: the first message is read but not removed. *)
MutSelectNew(k) ==
  /\ RunLoop /\ ~AnyActive /\ ~AnyReady /\ Takeable(k)
  /\ k = "balance" => ~Takeable("send")
  /\ \E head \in message_list[k] :
       /\ \A m \in message_list[k] : head <= m
       /\ current_message' = [current_message EXCEPT ![k] = head]
  /\ run_pc' = "selected"
  /\ UNCHANGED <<last_message, client, message_list, client_map, is_suspended, timer,
                 http, delivering, outcome>>

(* Otherwise the first message of a queue, sends first. *)
SelectNew(k) ==
  /\ RunLoop
  /\ ~AnyActive
  /\ ~AnyReady
  /\ Takeable(k)
  /\ k = "balance" => ~Takeable("send")
  /\ \E head \in message_list[k] :
       /\ \A m \in message_list[k] : head <= m
       /\ current_message' = [current_message EXCEPT ![k] = head]
       /\ message_list' = [message_list EXCEPT ![k] = @ \ {head}]
  /\ run_pc' = "selected"
  /\ UNCHANGED <<last_message, client, client_map, is_suspended, timer, http,
                 delivering, outcome>>

(* Otherwise monitor.wait, for the time to the next wait_until_sec and at  *)
(* most 15 seconds.                                                        *)
WaitOnMonitor ==
  /\ RunLoop
  /\ AnyActive \/ (~AnyReady /\ \A k \in Message_Type : ~Takeable(k))
  /\ run_pc' = "waiting"
  /\ UNCHANGED <<last_message, client, message_list, current_message, client_map,
                 is_suspended, timer, http, delivering, outcome>>

(* The wait ends without a notify (15 seconds at most, or spuriously). *)
WaitTimeout ==
  /\ run_pc = "waiting"
  /\ run_pc' = "loop"
  /\ UNCHANGED <<last_message, client, message_list, current_message, client_map,
                 is_suspended, timer, http, delivering, outcome>>

(* After the monitor block: which guts are called is decided again, from   *)
(* wait_until_sec alone.                                                   *)
Unwaiting(k) == /\ current_message[k] # NoMessage
                /\ timer[current_message[k]] = NotWaiting

Dispatches(k) ==
  /\ run_pc = "selected"
  /\ Unwaiting(k)
  /\ k = "balance" => ~Unwaiting("send")

(* send_guts or refresh_balance_guts begins a query. *)
RunQuery(k) ==
  /\ Dispatches(k)
  /\ is_suspended' = [is_suspended EXCEPT ![current_message[k]] = FALSE]
  /\ http' = [http EXCEPT ![current_message[k]] = @ + 1]
  /\ run_pc' = "loop"
  /\ UNCHANGED <<last_message, client, message_list, current_message, client_map,
                 timer, delivering, outcome>>

(* Or it finishes the message at once: a payment that cannot be encoded    *)
(* fails and flushes the queues, a balance that is up to date is reported. *)
RunDispose(k) ==
  /\ Dispatches(k)
  /\ is_suspended' = [is_suspended EXCEPT ![current_message[k]] = FALSE]
  /\ Dispose("run", k, k = "send")
  /\ run_pc' = "loop"
  /\ UNCHANGED <<last_message, client, timer, http>>

-----------------------------------------------------------------------------
(* A second passes. *)
Tick ==
  /\ \E m \in Messages : timer[m] > 0
  /\ timer' = [m \in Messages |-> IF timer[m] > 0 THEN timer[m] - 1 ELSE timer[m]]
  /\ UNCHANGED <<last_message, client, message_list, current_message, client_map,
                 is_suspended, http, run_pc, delivering, outcome>>

UiNext ==
  \/ \E m \in Messages :
       \/ QueueMessage(m)
       \/ RspQuery(m)
       \/ RspSuspend(m)
       \/ \E flush_all \in BOOLEAN : RspDispose(m, flush_all)
  \/ \E c \in Wallets : CancelMessages(c)
  \/ Deliver("ui")

RunNext ==
  \/ \E k \in Message_Type :
       SelectSuspended(k) \/ SelectNew(k) \/ RunQuery(k) \/ RunDispose(k)
  \/ WaitOnMonitor
  \/ WaitTimeout
  \/ Deliver("run")

Next == UiNext \/ RunNext \/ Tick

Spec == Init /\ [][Next]_vars

-----------------------------------------------------------------------------
(* Fairness of what the device itself does: the processor thread and the   *)
(* UI thread are scheduled, and time passes.  Nothing is assumed of the    *)
(* answers: a read without a timeout may never end, and a gas price query  *)
(* that fails is repeated at once, for ever.                               *)
Fairness ==
  /\ WF_vars(RunNext)
  /\ WF_vars(Deliver("ui"))
  /\ WF_vars(Tick)

FairSpec == Spec /\ Fairness

-----------------------------------------------------------------------------
(* Properties.                                                             *)

(* The variables have the values Payment_Processor's fields can have: the  *)
(* current message of a kind is a message of that kind.                    *)
TypeOK ==
  /\ last_message \in 0..MaxMessages
  /\ client \in [Messages -> Clients]
  /\ message_list \in [Message_Type -> SUBSET Messages]
  /\ current_message \in [Message_Type -> Messages \cup {NoMessage}]
  /\ client_map \in [Clients -> Nat]
  /\ is_suspended \in [Messages -> BOOLEAN]
  /\ timer \in [Messages -> {NotWaiting} \cup 0..RetryDelay]
  /\ http \in [Messages -> Nat]
  /\ run_pc \in {"loop", "waiting", "selected"}
  /\ delivering \in [Threads -> Messages \cup {NoMessage}]
  /\ outcome \in [Messages -> {"new", "pending", "answered", "cancelled", "flushed"}]
  /\ \A k \in Message_Type :
       /\ \A m \in message_list[k] : Kind(m) = k
       /\ current_message[k] # NoMessage => Kind(current_message[k]) = k

(* handle_http_rsp is told the kind of its message only, and takes the     *)
(* current message of that kind.  It is the right one: the app never has   *)
(* more than one query outstanding, it is the query of a current message   *)
(* that is not suspended, and no message is active without one (the        *)
(* processor thread would wait for it for ever).                           *)
OneConversation ==
  /\ \A m \in Messages : http[m] > 0 =>
        /\ http[m] = 1
        /\ current_message[Kind(m)] = m
        /\ ~is_suspended[m]
  /\ \A k \in Message_Type : Active(k) => http[current_message[k]] = 1
  /\ ~(Active("send") /\ Active("balance"))

(* run decides twice which message to work on: in its monitor block, and   *)
(* again after it, when the UI thread may have queued or cancelled and the *)
(* clock moved on.  The second decision always finds a message that is     *)
(* still suspended, and only one, so it cannot miss what the first found.  *)
SelectionStands ==
  run_pc = "selected" =>
    \E k \in Message_Type :
      /\ Unwaiting(k)
      /\ is_suspended[current_message[k]]
      /\ \A j \in Message_Type : Unwaiting(j) => j = k

(* While the processor thread waits with no query outstanding there is no  *)
(* new message it should have taken: every queue_message, suspension and   *)
(* disposal that makes work for it has notified it.                        *)
NoLostWakeup ==
  run_pc = "waiting" /\ ~AnyActive => \A k \in Message_Type : ~Takeable(k)

(* A request that has still to be answered is in exactly one place -- in   *)
(* the queue of its kind, current, or on its way to the client -- and no   *)
(* other request is anywhere: none is lost, processed twice, or processed  *)
(* after it was cancelled or flushed.                                      *)
Places(m) ==
  {<<"queue", k>> : k \in {j \in Message_Type : m \in message_list[j]}}
    \cup {<<"current", k>> : k \in {j \in Message_Type : current_message[j] = m}}
    \cup {<<"delivering", t>> : t \in {j \in Threads : delivering[j] = m}}

OnePlace ==
  \A m \in Messages :
    IF outcome[m] = "pending"
    THEN \E p \in Places(m) : Places(m) = {p}
    ELSE Places(m) = {}

(* has_message(c) is never true of a client that has nothing queued or     *)
(* current: MainActivity.do_refresh, which only asks for a refresh when    *)
(* has_message is false, would never refresh again.                        *)
Held(c) == {m \in Queued \cup {current_message[k] : k \in Message_Type} :
              m # NoMessage /\ client[m] = c}

NoPhantomRequests == \A c \in Clients : client_map[c] <= Cardinality(Held(c))

(* The scheduling implements the promise to the clients: a request is      *)
(* answered at most once, and never after it was cancelled or flushed;     *)
(* nobody withdraws another client's request.                              *)
Requests == INSTANCE PaymentRequests

ImplementsRequests == Requests!RequestsSpec

(* Only a query can hold a request up: at every moment a request that has  *)
(* still to be answered comes to its end, or to a moment at which a query  *)
(* is under way (its own or that of the message before it).  The processor *)
(* thread, which waits while a message is active (263-303), is never left  *)
(* waiting for a message nobody asks about.                                *)
OnlyQueriesHoldUp ==
  \A m \in Messages :
    outcome[m] = "pending" ~> (outcome[m] # "pending" \/ \E l \in Messages : http[l] > 0)
=============================================================================
