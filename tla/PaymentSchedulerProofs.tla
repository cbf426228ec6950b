----------------------- MODULE PaymentSchedulerProofs -----------------------
(***************************************************************************)
(* Proofs about PaymentScheduler, for any number of activities, messages   *)
(* and any delay: its type invariant, that the processor only ever holds   *)
(* one conversation with the network, that every request that has still to *)
(* be answered is in exactly one place, and that each step of the threads  *)
(* is a step of what PaymentRequests promises the clients.                 *)
(***************************************************************************)
EXTENDS PaymentScheduler, FiniteSetTheorems, TLAPS

(* A message that has not been taken from its queue is as its constructor  *)
(* left it, and is not current.                                            *)
Untouched(m) == m > last_message \/ m \in Queued

Fresh ==
  /\ \A m \in Queued : m <= last_message
  /\ \A m \in Messages : Untouched(m) =>
       /\ is_suspended[m]
       /\ timer[m] = NotWaiting
       /\ \A k \in Message_Type : current_message[k] # m

(* Between two selections every suspended current message has a time to    *)
(* wait for; a selection clears the time of exactly one.                   *)
Selection ==
  /\ run_pc = "selected" => ~AnyActive /\ SelectionStands
  /\ run_pc # "selected" =>
       \A k \in Message_Type :
         current_message[k] # NoMessage /\ ~Active(k) => ~Unwaiting(k)

ConversationInv == TypeOK /\ Fresh /\ OneConversation /\ Selection

-----------------------------------------------------------------------------
(* The facts about numbers and definitions the proofs keep using.          *)
LEMMA Basics ==
  /\ NoMessage \notin Messages
  /\ Messages \subseteq Nat
  /\ Message_Type = {"send", "balance"}
  /\ MaxMessages \in Nat
  /\ RetryDelay \in Nat
  /\ RetryDelay # 0
BY SchedulerAssumption DEF Messages, NoMessage, Message_Type

(* Math.max(n, 0) is a count. *)
LEMMA Max0Nat == ASSUME NEW n \in Int PROVE Max0(n) \in Nat
BY DEF Max0

(* Adding one to a count keeps it a count. *)
LEMMA CountOneMore ==
  ASSUME NEW S, NEW f \in [S -> Nat], NEW x \in S
  PROVE  [f EXCEPT ![x] = f[x] + 1] \in [S -> Nat]
OBVIOUS

(* What cancel_client_messages finds of a client is a number of messages. *)
LEMMA QueuedOfFinite ==
  ASSUME TypeOK, NEW c
  PROVE  Cardinality(QueuedOf(c, "send") \cup QueuedOf(c, "balance")) \in Nat
<1> DEFINE S == QueuedOf(c, "send") \cup QueuedOf(c, "balance")
<1>1. S \subseteq Messages
  BY DEF QueuedOf, TypeOK, Message_Type
<1>2. IsFiniteSet(Messages)
  BY FS_Interval, SchedulerAssumption DEF Messages
<1>3. IsFiniteSet(S)
  BY <1>1, <1>2, FS_Subset
<1> QED BY <1>3, FS_CardinalityType

(* Every step leaves the variables with values their fields can have.      *)
LEMMA TypeStep == TypeOK /\ [Next]_vars => TypeOK'
<1> SUFFICES ASSUME TypeOK, [Next]_vars
             PROVE  TypeOK'
  OBVIOUS
<1> USE Basics
<1>1. ASSUME NEW m \in Messages, QueueMessage(m)
      PROVE  TypeOK'
  <2>1. client[m] \in Clients /\ Kind(m) \in Message_Type
    BY DEF TypeOK, Kind
  <2>2. /\ last_message' \in 0..MaxMessages
        /\ client_map' \in [Clients -> Nat]
        /\ run_pc' \in {"loop", "waiting", "selected"}
    BY <1>1, <2>1 DEF QueueMessage, TypeOK, Notified, Messages
  <2>3. outcome' \in [Messages -> {"new", "pending", "answered", "cancelled", "flushed"}]
    BY <1>1 DEF QueueMessage, TypeOK, Become
  <2>4. /\ message_list' \in [Message_Type -> SUBSET Messages]
        /\ \A k \in Message_Type : \A l \in message_list'[k] : Kind(l)' = k
    BY <1>1, <2>1 DEF QueueMessage, TypeOK, Kind
  <2>5. \A k \in Message_Type :
          current_message'[k] # NoMessage => Kind(current_message[k])' = k
    BY <1>1 DEF QueueMessage, TypeOK, Kind
  <2>6. UNCHANGED <<client, current_message, is_suspended, timer, http, delivering>>
    BY <1>1 DEF QueueMessage
  <2> QED BY <2>2, <2>3, <2>4, <2>5, <2>6 DEF TypeOK
<1>2. ASSUME NEW c \in Wallets, CancelMessages(c)
      PROVE  TypeOK'
  <2> DEFINE n == client_map[c]
                    - Cardinality(QueuedOf(c, "send") \cup QueuedOf(c, "balance"))
  <2>1. n \in Int
    BY QueuedOfFinite DEF TypeOK, Clients
  <2>2. Max0(n) \in Nat
    BY <2>1, Max0Nat
  <2>3. client_map' = [client_map EXCEPT ![c] = Max0(n)]
    BY <1>2 DEF CancelMessages
  <2>4. client_map' \in [Clients -> Nat]
    BY <2>2, <2>3 DEF TypeOK
  <2> HIDE DEF n
  <2> QED BY <1>2, <2>4 DEF TypeOK, CancelMessages, Become, Kind
<1>3. ASSUME NEW m \in Messages, RspQuery(m)
      PROVE  TypeOK'
  BY <1>3 DEF TypeOK, RspQuery, Respond, Kind
<1>4. ASSUME NEW m \in Messages, RspSuspend(m)
      PROVE  TypeOK'
  <2>1. http' \in [Messages -> Nat]
    BY <1>4 DEF TypeOK, RspSuspend, Respond
  <2>2. timer' \in [Messages -> {NotWaiting} \cup 0..RetryDelay]
    <3> DEFINE T == {NotWaiting} \cup 0..RetryDelay
    <3>1. timer \in [Messages -> T] /\ RetryDelay \in T
      BY DEF TypeOK
    <3>2. timer' = [timer EXCEPT ![current_message[Kind(m)]] = RetryDelay]
      BY <1>4 DEF RspSuspend
    <3> HIDE DEF T
    <3>3. timer' \in [Messages -> T]
      BY <3>1, <3>2
    <3> QED BY <3>3 DEF T
  <2>3. is_suspended' \in [Messages -> BOOLEAN]
    BY <1>4 DEF TypeOK, RspSuspend
  <2>4. run_pc' \in {"loop", "waiting", "selected"}
    BY <1>4 DEF TypeOK, RspSuspend, Notified
  <2> QED BY <1>4, <2>1, <2>2, <2>3, <2>4 DEF TypeOK, RspSuspend, Kind
<1>5. ASSUME NEW t \in Threads, NEW k \in Message_Type, NEW flush_all \in BOOLEAN,
             Dispose(t, k, flush_all),
             UNCHANGED <<last_message, client, timer>>,
             is_suspended' \in [Messages -> BOOLEAN],
             http' \in [Messages -> Nat],
             run_pc' \in {"loop", "waiting", "selected"}
      PROVE  TypeOK'
  <2>1. client_map' \in [Clients -> Nat]
    BY <1>5, Max0Nat DEF TypeOK, Dispose
  <2>2. current_message' = [current_message EXCEPT ![k] = NoMessage]
    BY <1>5 DEF Dispose
  <2>3. delivering' \in [Threads -> Messages \cup {NoMessage}]
    BY <1>5 DEF TypeOK, Dispose
  <2>4. /\ message_list' \in [Message_Type -> SUBSET Messages]
        /\ \A j \in Message_Type : message_list'[j] \subseteq message_list[j]
    BY <1>5 DEF TypeOK, Dispose
  <2>5. outcome' \in [Messages -> {"new", "pending", "answered", "cancelled", "flushed"}]
    BY <1>5 DEF TypeOK, Dispose, Become
  <2>6. \A m \in Messages : Kind(m)' = Kind(m)
    BY <1>5 DEF Kind
  <2>7. \A j \in Message_Type :
          /\ \A m \in message_list'[j] : Kind(m)' = j
          /\ (current_message[j] # NoMessage => Kind(current_message[j]) = j)'
    <3> SUFFICES ASSUME NEW j \in Message_Type
                 PROVE  /\ \A m \in message_list'[j] : Kind(m)' = j
                        /\ (current_message[j] # NoMessage => Kind(current_message[j]) = j)'
      OBVIOUS
    <3>1. /\ \A m \in message_list[j] : m \in Messages /\ Kind(m) = j
          /\ current_message[j] # NoMessage =>
               current_message[j] \in Messages /\ Kind(current_message[j]) = j
      BY DEF TypeOK
    <3>2. current_message'[j] # NoMessage => current_message'[j] = current_message[j]
      BY <2>2 DEF TypeOK
    <3> QED BY <2>4, <2>6, <3>1, <3>2
  <2>8. current_message' \in [Message_Type -> Messages \cup {NoMessage}]
    BY <2>2 DEF TypeOK
  <2> QED BY <1>5, <2>1, <2>3, <2>4, <2>5, <2>7, <2>8 DEF TypeOK
<1>6. ASSUME NEW m \in Messages, NEW flush_all \in BOOLEAN, RspDispose(m, flush_all)
      PROVE  TypeOK'
  <2>1. Kind(m) \in Message_Type
    BY DEF Kind, Message_Type
  <2>2. /\ Dispose("ui", Kind(m), flush_all)
        /\ UNCHANGED <<last_message, client, timer, is_suspended>>
    BY <1>6 DEF RspDispose
  <2>3. http' \in [Messages -> Nat]
    BY <1>6 DEF TypeOK, RspDispose, Respond
  <2>4. run_pc' \in {"loop", "waiting", "selected"}
    BY <1>6 DEF TypeOK, RspDispose, Notified
  <2>5. is_suspended' \in [Messages -> BOOLEAN]
    BY <2>2 DEF TypeOK
  <2> QED BY <2>1, <2>2, <2>3, <2>4, <2>5, <1>5 DEF Threads
<1>7. ASSUME NEW t \in Threads, Deliver(t)
      PROVE  TypeOK'
  BY <1>7 DEF TypeOK, Deliver, Become, Kind
<1>8. ASSUME NEW k \in Message_Type, SelectSuspended(k)
      PROVE  TypeOK'
  BY <1>8 DEF TypeOK, SelectSuspended, Kind
<1>9. ASSUME NEW k \in Message_Type, SelectNew(k)
      PROVE  TypeOK'
  BY <1>9 DEF TypeOK, SelectNew, Kind
<1>10. ASSUME NEW k \in Message_Type, RunQuery(k)
       PROVE  TypeOK'
  <2>1. current_message[k] \in Messages
    BY <1>10 DEF TypeOK, RunQuery, Dispatches, Unwaiting
  <2>2. http' \in [Messages -> Nat]
    <3>1. http \in [Messages -> Nat]
      BY DEF TypeOK
    <3>2. http' = [http EXCEPT ![current_message[k]] = http[current_message[k]] + 1]
      BY <1>10 DEF RunQuery
    <3> QED BY <2>1, <3>1, <3>2, CountOneMore
  <2>3. is_suspended' \in [Messages -> BOOLEAN]
    BY <1>10 DEF TypeOK, RunQuery
  <2> QED BY <1>10, <2>2, <2>3 DEF TypeOK, RunQuery, Kind
<1>11. ASSUME NEW k \in Message_Type, RunDispose(k)
       PROVE  TypeOK'
  <2>2. Dispose("run", k, k = "send")
    BY <1>11 DEF RunDispose
  <2>3. /\ UNCHANGED <<last_message, client, timer>>
        /\ is_suspended' \in [Messages -> BOOLEAN]
        /\ http' \in [Messages -> Nat]
        /\ run_pc' \in {"loop", "waiting", "selected"}
    BY <1>11 DEF TypeOK, RunDispose
  <2> QED BY <2>2, <2>3, <1>5 DEF Threads
<1>12. ASSUME WaitOnMonitor \/ WaitTimeout
       PROVE  TypeOK'
  BY <1>12 DEF TypeOK, WaitOnMonitor, WaitTimeout, Kind
<1>13. ASSUME Tick
       PROVE  TypeOK'
  BY <1>13 DEF TypeOK, Tick, Kind, NotWaiting
<1>14. ASSUME UNCHANGED vars
       PROVE  TypeOK'
  BY <1>14 DEF TypeOK, vars, Kind
<1> QED
  BY <1>1, <1>2, <1>3, <1>4, <1>6, <1>7, <1>8, <1>9, <1>10, <1>11, <1>12, <1>13, <1>14
  DEF Next, UiNext, RunNext, Threads

(* The constructor leaves the fields with such values. *)
LEMMA TypeInit == Init => TypeOK
BY Basics DEF Init, TypeOK, NotWaiting, Threads

(* The variables of every reachable state have the values the fields can   *)
(* have, whatever the activities, the messages and the delay.              *)
THEOREM TypeCorrect == Spec => []TypeOK
BY TypeInit, TypeStep, PTL DEF Spec

-----------------------------------------------------------------------------
(* One conversation with the network at a time.                            *)

(* The constructor starts with no conversation. *)
LEMMA ConversationInit == Init => ConversationInv
<1> SUFFICES ASSUME Init PROVE ConversationInv
  OBVIOUS
<1>1. TypeOK
  BY TypeInit
<1>2. Fresh
  BY Basics DEF Init, Fresh, Untouched, Queued
<1>3. OneConversation
  BY Basics DEF Init, OneConversation, Active
<1>4. Selection
  BY Basics DEF Init, Selection
<1> QED BY <1>1, <1>2, <1>3, <1>4 DEF ConversationInv

(* A query outstanding is that of the active message, so nothing is        *)
(* selected meanwhile and no other message is active.                      *)
LEMMA RespondContext ==
  ASSUME ConversationInv, NEW m \in Messages, Respond(m)
  PROVE  /\ Kind(m) \in Message_Type
         /\ current_message[Kind(m)] = m
         /\ Active(Kind(m))
         /\ http[m] = 1
         /\ run_pc # "selected"
         /\ \A l \in Messages \ {m} : http[l] = 0
         /\ \A k \in Message_Type \ {Kind(m)} : ~Active(k)
<1> USE Basics
<1>1. Kind(m) \in Message_Type
  BY DEF Kind
<1>2. http[m] = 1 /\ current_message[Kind(m)] = m /\ Active(Kind(m))
  BY DEF ConversationInv, OneConversation, Respond, Active
<1>3. run_pc # "selected"
  BY <1>1, <1>2 DEF ConversationInv, Selection, AnyActive
<1>4. \A k \in Message_Type \ {Kind(m)} : ~Active(k)
  BY <1>1, <1>2 DEF ConversationInv, OneConversation
<1>5. ASSUME NEW l \in Messages \ {m}, http[l] # 0
      PROVE  FALSE
  <2>1. http[l] > 0
    BY <1>5 DEF ConversationInv, TypeOK
  <2>2. current_message[Kind(l)] = l /\ Active(Kind(l)) /\ Kind(l) \in Message_Type
    BY <2>1 DEF ConversationInv, OneConversation, Active, Kind
  <2> QED BY <1>2, <1>4, <2>2
<1> QED BY <1>1, <1>2, <1>3, <1>4, <1>5

(* When a message has been selected no query is outstanding. *)
LEMMA DispatchContext ==
  ASSUME ConversationInv, NEW k \in Message_Type, Dispatches(k)
  PROVE  /\ current_message[k] \in Messages
         /\ Kind(current_message[k]) = k
         /\ \A m \in Messages : http[m] = 0
         /\ \A j \in Message_Type : ~Active(j)
         /\ \A j \in Message_Type \ {k} : ~Unwaiting(j)
<1> USE Basics
<1>1. current_message[k] \in Messages /\ Kind(current_message[k]) = k
  BY DEF Dispatches, Unwaiting, ConversationInv, TypeOK
<1>2. \A j \in Message_Type : ~Active(j)
  BY DEF Dispatches, ConversationInv, Selection, AnyActive
<1>3. \A j \in Message_Type \ {k} : ~Unwaiting(j)
  BY DEF Dispatches, ConversationInv, Selection, SelectionStands
<1>4. ASSUME NEW m \in Messages, http[m] # 0
      PROVE  FALSE
  <2>1. http[m] > 0
    BY <1>4 DEF ConversationInv, TypeOK
  <2>2. Active(Kind(m)) /\ Kind(m) \in Message_Type
    BY <2>1 DEF ConversationInv, OneConversation, Active, Kind
  <2> QED BY <1>2, <2>2
<1> QED BY <1>1, <1>2, <1>3, <1>4

(* Untouched messages stay untouched when nothing is queued and only       *)
(* current messages change.                                                *)
LEMMA FreshStep ==
  ASSUME ConversationInv, TypeOK',
         last_message' = last_message,
         Queued' \subseteq Queued,
         \A m \in Messages :
           (\A k \in Message_Type : current_message[k] # m) /\ m \notin Queued' =>
             is_suspended'[m] = is_suspended[m] /\ timer'[m] = timer[m],
         \A m \in Queued' : is_suspended'[m] = is_suspended[m] /\ timer'[m] = timer[m],
         \A k \in Message_Type : current_message'[k] # current_message[k] =>
           \/ current_message'[k] = NoMessage
           \/ current_message'[k] \in Queued \ Queued'
  PROVE  Fresh'
<1> USE Basics
<1> SUFFICES ASSUME NEW m \in Messages, Untouched(m)'
             PROVE  /\ is_suspended'[m]
                    /\ timer'[m] = NotWaiting
                    /\ \A k \in Message_Type : current_message'[k] # m
  BY DEF Fresh, ConversationInv
<1>1. Untouched(m)
  BY DEF Untouched
<1>2. /\ is_suspended[m]
      /\ timer[m] = NotWaiting
      /\ \A k \in Message_Type : current_message[k] # m
  BY <1>1 DEF ConversationInv, Fresh
<1>3. is_suspended'[m] = is_suspended[m] /\ timer'[m] = timer[m]
  BY <1>2
<1>4. \A k \in Message_Type : current_message'[k] # m
  <2> SUFFICES ASSUME NEW k \in Message_Type, current_message'[k] = m
               PROVE  FALSE
    OBVIOUS
  <2>1. m \in Queued \ Queued'
    BY <1>2
  <2>2. m > last_message /\ m <= last_message
    BY <2>1 DEF Untouched, Fresh, ConversationInv
  <2> QED BY <2>2 DEF TypeOK, ConversationInv
<1> QED BY <1>2, <1>3, <1>4

(* What the steps that leave the conversation alone have in common. *)
LEMMA QuietStep ==
  ASSUME ConversationInv, TypeOK', Fresh',
         UNCHANGED <<client, current_message, is_suspended, http>>,
         run_pc' = "selected" => run_pc = "selected",
         run_pc' # run_pc => run_pc # "selected",
         \A m \in Messages : timer'[m] = NotWaiting <=> timer[m] = NotWaiting
  PROVE  ConversationInv'
<1> USE Basics
<1>1. \A k \in Message_Type : Active(k)' <=> Active(k)
  BY DEF Active
<1>2. \A k \in Message_Type : Unwaiting(k)' <=> Unwaiting(k)
  BY DEF Unwaiting, ConversationInv, TypeOK
<1>3. OneConversation'
  BY <1>1 DEF ConversationInv, OneConversation, Kind
<1>4. Selection'
  BY <1>1, <1>2 DEF ConversationInv, Selection, SelectionStands, AnyActive
<1> QED BY <1>3, <1>4 DEF ConversationInv

(* When the message of kind k has been settled, nobody talks any more. *)
LEMMA DisposedStep ==
  ASSUME ConversationInv, TypeOK',
         NEW k \in Message_Type, NEW t \in Threads, NEW flush_all \in BOOLEAN,
         current_message[k] \in Messages,
         Dispose(t, k, flush_all),
         UNCHANGED <<last_message, client, timer>>,
         run_pc' # "selected",
         \A m \in Messages \ {current_message[k]} : is_suspended'[m] = is_suspended[m],
         \A m \in Messages : http'[m] = 0,
         \A j \in Message_Type \ {k} : ~Active(j) /\ ~Unwaiting(j)
  PROVE  ConversationInv'
<1> USE Basics
<1>1. /\ current_message'[k] = NoMessage
      /\ \A j \in Message_Type \ {k} : current_message'[j] = current_message[j]
  BY DEF Dispose, ConversationInv, TypeOK
<1>2. Queued' \subseteq Queued
  BY DEF Dispose, Queued, ConversationInv, TypeOK
<1>3. \A m \in Queued : m \in Messages /\ m # current_message[k]
  BY DEF ConversationInv, Fresh, Untouched, Queued, TypeOK
<1>4. Fresh'
  <2>1. \A m \in Messages : m # current_message[k] =>
           is_suspended'[m] = is_suspended[m] /\ timer'[m] = timer[m]
    OBVIOUS
  <2>2. \A j \in Message_Type : current_message'[j] # current_message[j] =>
           current_message'[j] = NoMessage
    BY <1>1
  <2>3. \A m \in Queued' : is_suspended'[m] = is_suspended[m] /\ timer'[m] = timer[m]
    BY <1>2, <1>3, <2>1
  <2> QED BY <1>2, <2>1, <2>2, <2>3, FreshStep
<1>5. \A j \in Message_Type : current_message'[j] # NoMessage =>
        /\ j # k
        /\ current_message'[j] = current_message[j]
        /\ current_message[j] \in Messages \ {current_message[k]}
        /\ is_suspended'[current_message[j]] = is_suspended[current_message[j]]
  <2> SUFFICES ASSUME NEW j \in Message_Type, current_message'[j] # NoMessage
               PROVE  /\ j # k
                      /\ current_message'[j] = current_message[j]
                      /\ current_message[j] \in Messages \ {current_message[k]}
                      /\ is_suspended'[current_message[j]] = is_suspended[current_message[j]]
    OBVIOUS
  <2>1. j # k /\ current_message'[j] = current_message[j]
    BY <1>1
  <2>2. /\ current_message[j] \in Messages
        /\ Kind(current_message[j]) = j
        /\ Kind(current_message[k]) = k
    BY <2>1 DEF ConversationInv, TypeOK
  <2> QED BY <2>1, <2>2
<1>6. \A j \in Message_Type : ~Active(j)' /\ ~Unwaiting(j)'
  BY <1>5 DEF Active, Unwaiting
<1>7. OneConversation'
  <2>1. ASSUME NEW m \in Messages
        PROVE  ~(http'[m] > 0)
    <3>1. http'[m] = 0
      OBVIOUS
    <3> QED BY ONLY <3>1, SMT
  <2>2. ~Active("send")' /\ ~Active("balance")'
    BY <1>6
  <2> QED BY <1>6, <2>1, <2>2 DEF OneConversation
<1>8. Selection'
  BY <1>6 DEF Selection
<1> QED BY <1>4, <1>7, <1>8 DEF ConversationInv

(* No step starts a second conversation, loses one, or makes run miss what *)
(* it has selected.                                                        *)
LEMMA ConversationStep == ConversationInv /\ [Next]_vars => ConversationInv'
<1> SUFFICES ASSUME ConversationInv, [Next]_vars
             PROVE  ConversationInv'
  OBVIOUS
<1> USE Basics
<1>0. TypeOK /\ TypeOK' /\ Fresh
  BY TypeStep DEF ConversationInv
<1>1. ASSUME NEW m \in Messages, QueueMessage(m)
      PROVE  ConversationInv'
  <2>1. Queued' = Queued \cup {m}
    BY <1>0, <1>1 DEF QueueMessage, Queued, TypeOK, Kind
  <2>2. m > last_message /\ last_message' = m
    BY <1>0, <1>1 DEF QueueMessage, TypeOK
  <2>3. \A l \in Messages : Untouched(l)' => Untouched(l)
    BY <2>1, <2>2, <1>0 DEF Untouched, TypeOK
  <2>4. \A l \in Queued' : l <= last_message'
    BY <2>1, <2>2, <1>0 DEF Fresh, TypeOK, Queued
  <2>5. Fresh'
    BY <2>3, <2>4, <1>0, <1>1 DEF Fresh, QueueMessage
  <2> QED BY <1>0, <1>1, <2>5, QuietStep DEF QueueMessage, Notified
<1>2. ASSUME NEW c \in Wallets, CancelMessages(c)
      PROVE  ConversationInv'
  <2>1. Queued' \subseteq Queued
    BY <1>1, <1>2 DEF CancelMessages, Queued
  <2>2. Fresh'
    BY <1>0, <1>2, <2>1, FreshStep DEF CancelMessages
  <2> QED BY <1>0, <1>2, <2>2, QuietStep DEF CancelMessages
<1>3. ASSUME NEW m \in Messages, RspQuery(m)
      PROVE  ConversationInv'
  <2>1. current_message[Kind(m)] = m
    BY <1>3, RespondContext DEF RspQuery
  <2>2. http' = http
    BY <1>0, <1>3, <2>1 DEF RspQuery, TypeOK
  <2>3. Fresh'
    BY <1>0, <1>3 DEF RspQuery, Fresh, Untouched, Queued
  <2> QED BY <1>0, <1>3, <2>2, <2>3, QuietStep DEF RspQuery
<1>4. ASSUME NEW m \in Messages, RspSuspend(m)
      PROVE  ConversationInv'
  <2>1. /\ Kind(m) \in Message_Type
        /\ current_message[Kind(m)] = m
        /\ http[m] = 1
        /\ run_pc # "selected"
        /\ \A l \in Messages \ {m} : http[l] = 0
        /\ \A k \in Message_Type \ {Kind(m)} : ~Active(k)
    BY <1>4, RespondContext DEF RspSuspend
  <2>2. /\ is_suspended'[m]
        /\ timer'[m] = RetryDelay
        /\ \A l \in Messages \ {m} : is_suspended'[l] = is_suspended[l] /\ timer'[l] = timer[l]
        /\ \A l \in Messages : http'[l] = 0
    BY <1>0, <1>4, <2>1 DEF RspSuspend, TypeOK
  <2>3. m \notin Queued
    BY <1>0, <2>1 DEF Fresh, Untouched
  <2>4. Fresh'
    <3>1. Queued' = Queued /\ Queued \subseteq Messages
      BY <1>0, <1>4 DEF RspSuspend, Queued, TypeOK
    <3>2. \A l \in Queued' : is_suspended'[l] = is_suspended[l] /\ timer'[l] = timer[l]
      BY <2>2, <2>3, <3>1
    <3>3. \A l \in Messages : (\A k \in Message_Type : current_message[k] # l) =>
             is_suspended'[l] = is_suspended[l] /\ timer'[l] = timer[l]
      BY <2>1, <2>2
    <3>4. last_message' = last_message /\ current_message' = current_message
      BY <1>4 DEF RspSuspend
    <3> QED BY <1>0, <3>1, <3>2, <3>3, <3>4, FreshStep
  <2>5. \A k \in Message_Type : ~Active(k)'
    BY <1>0, <1>4, <2>1, <2>2 DEF Active, RspSuspend, TypeOK
  <2>6. \A k \in Message_Type : ~Unwaiting(k)'
    <3>1. current_message' = current_message
      BY <1>4 DEF RspSuspend
    <3>2. \A k \in Message_Type \ {Kind(m)} : ~Unwaiting(k)
      BY <2>1 DEF ConversationInv, Selection, Unwaiting
    <3>3. \A k \in Message_Type \ {Kind(m)} : current_message[k] # NoMessage =>
             current_message[k] \in Messages \ {m}
      BY <1>0, <2>1 DEF TypeOK
    <3>4. \A k \in Message_Type : k = Kind(m) => ~Unwaiting(k)'
      BY <2>1, <2>2, <3>1 DEF Unwaiting, NotWaiting
    <3>5. \A k \in Message_Type \ {Kind(m)} : ~Unwaiting(k)'
      BY <2>2, <3>1, <3>2, <3>3 DEF Unwaiting
    <3> QED BY <3>4, <3>5
  <2>7. run_pc' # "selected"
    BY <1>4, <2>1 DEF RspSuspend, Notified
  <2>8. OneConversation' /\ Selection'
    BY <2>2, <2>5, <2>6, <2>7 DEF OneConversation, Selection
  <2> QED BY <1>0, <2>4, <2>8 DEF ConversationInv
<1>5. ASSUME NEW m \in Messages, NEW flush_all \in BOOLEAN, RspDispose(m, flush_all)
      PROVE  ConversationInv'
  <2>1. /\ Kind(m) \in Message_Type
        /\ current_message[Kind(m)] = m
        /\ http[m] = 1
        /\ run_pc # "selected"
        /\ \A l \in Messages \ {m} : http[l] = 0
        /\ \A k \in Message_Type \ {Kind(m)} : ~Active(k)
    BY <1>5, RespondContext DEF RspDispose
  <2>2. \A l \in Messages : http'[l] = 0
    BY <1>0, <1>5, <2>1 DEF RspDispose, TypeOK
  <2>3. \A k \in Message_Type \ {Kind(m)} : ~Unwaiting(k)
    BY <2>1 DEF ConversationInv, Selection, Unwaiting
  <2>4. run_pc' # "selected"
    BY <1>5, <2>1 DEF RspDispose, Notified
  <2>5. /\ Dispose("ui", Kind(m), flush_all)
        /\ UNCHANGED <<last_message, client, timer, is_suspended>>
    BY <1>5 DEF RspDispose
  <2> QED BY <1>0, <2>1, <2>2, <2>3, <2>4, <2>5, DisposedStep DEF Threads
<1>6. ASSUME NEW t \in Threads, Deliver(t)
      PROVE  ConversationInv'
  <2>1. Fresh'
    BY <1>0, <1>6 DEF Deliver, Fresh, Untouched, Queued
  <2> QED BY <1>0, <1>6, <2>1, QuietStep DEF Deliver
<1>7. ASSUME NEW k \in Message_Type, SelectSuspended(k)
      PROVE  ConversationInv'
  <2>1. /\ current_message[k] \in Messages
        /\ current_message' = current_message
        /\ is_suspended' = is_suspended
        /\ http' = http /\ client' = client
        /\ timer'[current_message[k]] = NotWaiting
        /\ \A m \in Messages \ {current_message[k]} : timer'[m] = timer[m]
        /\ run_pc # "selected" /\ run_pc' = "selected"
        /\ ~AnyActive
    BY <1>0, <1>7 DEF SelectSuspended, Ready, RunLoop, TypeOK
  <2>2. Fresh'
    <3>1. current_message[k] \notin Queued
      BY <1>0, <2>1 DEF Fresh, Untouched
    <3>2. Queued' = Queued /\ Queued \subseteq Messages
      BY <1>0, <1>7 DEF SelectSuspended, Queued, TypeOK
    <3>3. \A m \in Queued' : is_suspended'[m] = is_suspended[m] /\ timer'[m] = timer[m]
      BY <2>1, <3>1, <3>2
    <3>4. last_message' = last_message
      BY <1>7 DEF SelectSuspended
    <3> QED BY <1>0, <2>1, <3>2, <3>3, <3>4, FreshStep
  <2>3. \A j \in Message_Type : Active(j)' <=> Active(j)
    BY <2>1 DEF Active
  <2>4. OneConversation'
    BY <2>1, <2>3 DEF ConversationInv, OneConversation, Kind
  <2>5. \A j \in Message_Type : ~Active(j)
    BY <2>1 DEF AnyActive
  <2>6. \A j \in Message_Type \ {k} : ~Unwaiting(j)'
    <3>1. \A j \in Message_Type \ {k} : ~Unwaiting(j)
      BY <2>1, <2>5 DEF ConversationInv, Selection, Unwaiting
    <3>2. \A j \in Message_Type \ {k} : current_message[j] # NoMessage =>
             current_message[j] \in Messages \ {current_message[k]}
      BY <1>0, <2>1 DEF TypeOK
    <3> QED BY <2>1, <3>1, <3>2 DEF Unwaiting
  <2>7. Unwaiting(k)' /\ is_suspended'[current_message'[k]]
    BY <2>1, <2>5 DEF Unwaiting, Active
  <2>8. Selection'
    BY <2>1, <2>3, <2>5, <2>6, <2>7 DEF Selection, SelectionStands, AnyActive
  <2> QED BY <1>0, <2>2, <2>4, <2>8 DEF ConversationInv
<1>8. ASSUME NEW k \in Message_Type, SelectNew(k)
      PROVE  ConversationInv'
  <2>1. PICK head \in message_list[k] :
          /\ current_message' = [current_message EXCEPT ![k] = head]
          /\ message_list' = [message_list EXCEPT ![k] = @ \ {head}]
    BY <1>8 DEF SelectNew
  <2>2. /\ head \in Messages
        /\ head \in Queued
        /\ head \notin Queued'
        /\ Queued' \subseteq Queued
        /\ Kind(head) = k
    BY <1>0, <2>1 DEF TypeOK, Queued
  <2>3. /\ current_message[k] = NoMessage
        /\ current_message'[k] = head
        /\ \A j \in Message_Type \ {k} : current_message'[j] = current_message[j]
        /\ UNCHANGED <<last_message, client, is_suspended, timer, http>>
        /\ run_pc # "selected" /\ run_pc' = "selected"
        /\ \A j \in Message_Type : ~Active(j)
    BY <1>0, <1>8, <2>1 DEF SelectNew, Takeable, RunLoop, AnyActive, TypeOK
  <2>4. is_suspended[head] /\ timer[head] = NotWaiting
    BY <1>0, <2>2 DEF Fresh, Untouched
  <2>5. Fresh'
    <3>1. \A j \in Message_Type : current_message'[j] # current_message[j] =>
            current_message'[j] \in Queued \ Queued'
      BY <2>2, <2>3
    <3> QED BY <1>0, <2>2, <2>3, <3>1, FreshStep
  <2>6. \A j \in Message_Type : ~Active(j)'
    BY <2>3, <2>4 DEF Active
  <2>7. \A m \in Messages : http'[m] = 0
    <3> SUFFICES ASSUME NEW m \in Messages, http[m] # 0
                 PROVE  FALSE
      BY <2>3
    <3>1. http[m] > 0
      BY <1>0 DEF TypeOK
    <3>2. Active(Kind(m)) /\ Kind(m) \in Message_Type
      BY <3>1 DEF ConversationInv, OneConversation, Active, Kind
    <3> QED BY <2>3, <3>2
  <2>8. OneConversation'
    BY <2>6, <2>7 DEF OneConversation
  <2>9. \A j \in Message_Type \ {k} : ~Unwaiting(j)'
    BY <2>3 DEF ConversationInv, Selection, Unwaiting
  <2>10. Unwaiting(k)' /\ is_suspended'[current_message'[k]]
    BY <2>2, <2>3, <2>4 DEF Unwaiting
  <2>11. Selection'
    BY <2>3, <2>6, <2>9, <2>10 DEF Selection, SelectionStands, AnyActive
  <2> QED BY <1>0, <2>5, <2>8, <2>11 DEF ConversationInv
<1>9. ASSUME NEW k \in Message_Type, RunQuery(k)
      PROVE  ConversationInv'
  <2> DEFINE c == current_message[k]
  <2>1. /\ c \in Messages
        /\ Kind(c) = k
        /\ \A m \in Messages : http[m] = 0
        /\ \A j \in Message_Type : ~Active(j)
        /\ \A j \in Message_Type \ {k} : ~Unwaiting(j)
    BY <1>9, DispatchContext DEF RunQuery
  <2>2. /\ UNCHANGED <<last_message, client, message_list, current_message, timer>>
        /\ run_pc' # "selected"
        /\ http'[c] = 1 /\ ~is_suspended'[c]
        /\ \A m \in Messages \ {c} : http'[m] = 0 /\ is_suspended'[m] = is_suspended[m]
    <3>1. /\ http' = [http EXCEPT ![c] = http[c] + 1]
          /\ is_suspended' = [is_suspended EXCEPT ![c] = FALSE]
      BY <1>9 DEF RunQuery
    <3>2. /\ http \in [Messages -> Nat] /\ http[c] = 0
          /\ is_suspended \in [Messages -> BOOLEAN]
      BY <1>0, <2>1 DEF TypeOK
    <3>3. http'[c] = 1 /\ ~is_suspended'[c]
      BY <2>1, <3>1, <3>2
    <3>4. \A m \in Messages \ {c} : http'[m] = 0 /\ is_suspended'[m] = is_suspended[m]
      BY <2>1, <3>1, <3>2
    <3> QED BY <1>9, <3>3, <3>4 DEF RunQuery
  <2>3. c \notin Queued
    BY <1>0, <2>1 DEF Fresh, Untouched
  <2>4. Fresh'
    <3>1. Queued' = Queued /\ Queued \subseteq Messages
      BY <1>0, <2>2 DEF Queued, TypeOK
    <3>2. \A m \in Queued' : is_suspended'[m] = is_suspended[m] /\ timer'[m] = timer[m]
      BY <2>2, <2>3, <3>1
    <3> QED BY <1>0, <2>2, <3>1, <3>2, FreshStep
  <2>5. \A j \in Message_Type \ {k} : current_message[j] # NoMessage =>
           current_message[j] \in Messages \ {c}
    BY <1>0, <2>1 DEF TypeOK
  <2>6. Active(k)'
    BY <2>1, <2>2 DEF Active
  <2>7. \A j \in Message_Type \ {k} : ~Active(j)' /\ ~Unwaiting(j)'
    BY <2>1, <2>2, <2>5 DEF Active, Unwaiting
  <2>8. \A m \in Messages : Kind(m)' = Kind(m)
    BY <2>2 DEF Kind
  <2>9. OneConversation'
    BY <2>1, <2>2, <2>6, <2>7, <2>8 DEF OneConversation
  <2>10. Selection'
    BY <2>2, <2>6, <2>7 DEF Selection
  <2> QED BY <1>0, <2>4, <2>9, <2>10 DEF ConversationInv
<1>10. ASSUME NEW k \in Message_Type, RunDispose(k)
       PROVE  ConversationInv'
  <2>1. /\ current_message[k] \in Messages
        /\ \A m \in Messages : http[m] = 0
        /\ \A j \in Message_Type \ {k} : ~Active(j) /\ ~Unwaiting(j)
    BY <1>10, DispatchContext DEF RunDispose
  <2>2. /\ Dispose("run", k, k = "send")
        /\ UNCHANGED <<last_message, client, timer, http>>
        /\ run_pc' # "selected"
        /\ \A m \in Messages \ {current_message[k]} : is_suspended'[m] = is_suspended[m]
    BY <1>0, <1>10, <2>1 DEF RunDispose, TypeOK
  <2> QED BY <1>0, <2>1, <2>2, DisposedStep DEF Threads
<1>11. ASSUME WaitOnMonitor \/ WaitTimeout
       PROVE  ConversationInv'
  <2>1. Fresh'
    BY <1>0, <1>11 DEF WaitOnMonitor, WaitTimeout, Fresh, Untouched, Queued
  <2> QED BY <1>0, <1>11, <2>1, QuietStep DEF WaitOnMonitor, WaitTimeout, RunLoop
<1>12. ASSUME Tick
       PROVE  ConversationInv'
  <2>1. \A m \in Messages : timer'[m] = NotWaiting <=> timer[m] = NotWaiting
    BY <1>0, <1>12 DEF Tick, TypeOK, NotWaiting
  <2>2. Fresh'
    BY <1>0, <1>12, <2>1 DEF Tick, Fresh, Untouched, Queued
  <2> QED BY <1>0, <1>12, <2>1, <2>2, QuietStep DEF Tick
<1>13. ASSUME UNCHANGED vars
       PROVE  ConversationInv'
  <2>1. Fresh'
    BY <1>0, <1>13 DEF vars, Fresh, Untouched, Queued
  <2> QED BY <1>0, <1>13, <2>1, QuietStep DEF vars
<1> QED
  BY <1>1, <1>2, <1>3, <1>4, <1>5, <1>6, <1>7, <1>8, <1>9, <1>10, <1>11, <1>12, <1>13
  DEF Next, UiNext, RunNext, Threads

(* handle_http_rsp always finds the message its response is for: at most   *)
(* one query is outstanding, it is that of a current, active message, and  *)
(* no message is active without one.                                       *)
THEOREM OneConversationAtATime == Spec => []OneConversation
<1>1. ConversationInv => OneConversation
  BY DEF ConversationInv
<1> QED BY <1>1, ConversationInit, ConversationStep, PTL DEF Spec

(* What run selects in its monitor block is what it processes after it.    *)
THEOREM SelectionAlwaysStands == Spec => []SelectionStands
<1>1. ConversationInv => SelectionStands
  BY DEF ConversationInv, Selection, SelectionStands
<1> QED BY <1>1, ConversationInit, ConversationStep, PTL DEF Spec

-----------------------------------------------------------------------------
(* No wakeup is lost.                                                      *)

(* A step that makes work for the processor thread, by queueing a message  *)
(* or by ending what was active, leaves it awake.                          *)
LEMMA WakeupStep == TypeOK /\ NoLostWakeup /\ [Next]_vars => NoLostWakeup'
<1> SUFFICES ASSUME TypeOK, NoLostWakeup, [Next]_vars
             PROVE  NoLostWakeup'
  OBVIOUS
<1>1. ASSUME run_pc' # "waiting"
      PROVE  NoLostWakeup'
  BY <1>1 DEF NoLostWakeup
<1>2. ASSUME UNCHANGED <<current_message, is_suspended, run_pc>>,
             \A k \in Message_Type : message_list'[k] \subseteq message_list[k]
      PROVE  NoLostWakeup'
  <2>1. \A k \in Message_Type : (Active(k)' <=> Active(k)) /\ (Takeable(k)' => Takeable(k))
    BY <1>2 DEF Active, Takeable
  <2> QED BY <1>2, <2>1 DEF NoLostWakeup, AnyActive
<1>3. ASSUME NEW m \in Messages,
             QueueMessage(m) \/ RspSuspend(m) \/ \E f \in BOOLEAN : RspDispose(m, f)
      PROVE  run_pc' # "waiting"
  BY <1>3 DEF QueueMessage, RspSuspend, RspDispose, Notified
<1>4. ASSUME NEW m \in Messages, RspQuery(m)
      PROVE  NoLostWakeup'
  BY <1>2, <1>4 DEF RspQuery
<1>5. ASSUME NEW c \in Wallets, CancelMessages(c)
      PROVE  NoLostWakeup'
  BY <1>2, <1>5 DEF CancelMessages
<1>6. ASSUME NEW t \in Threads, Deliver(t)
      PROVE  NoLostWakeup'
  BY <1>2, <1>6 DEF Deliver
<1>7. ASSUME NEW k \in Message_Type,
             SelectSuspended(k) \/ SelectNew(k) \/ RunQuery(k) \/ RunDispose(k)
      PROVE  run_pc' # "waiting"
  BY <1>7 DEF SelectSuspended, SelectNew, RunQuery, RunDispose
<1>8. ASSUME WaitOnMonitor
      PROVE  NoLostWakeup'
  <2>1. AnyActive \/ \A k \in Message_Type : ~Takeable(k)
    BY <1>8 DEF WaitOnMonitor
  <2>2. UNCHANGED <<current_message, is_suspended, message_list>>
    BY <1>8 DEF WaitOnMonitor
  <2>3. \A k \in Message_Type : (Active(k)' <=> Active(k)) /\ (Takeable(k)' <=> Takeable(k))
    BY <2>2 DEF Active, Takeable
  <2> QED BY <2>1, <2>3 DEF NoLostWakeup, AnyActive
<1>9. ASSUME WaitTimeout
      PROVE  run_pc' # "waiting"
  BY <1>9 DEF WaitTimeout
<1>10. ASSUME Tick \/ UNCHANGED vars
       PROVE  NoLostWakeup'
  BY <1>2, <1>10 DEF Tick, vars
<1> QED
  BY <1>1, <1>3, <1>4, <1>5, <1>6, <1>7, <1>8, <1>9, <1>10
  DEF Next, UiNext, RunNext, Threads

(* When the processor thread waits on the monitor and no query is out,     *)
(* there is no new message it should have taken: every notify that is      *)
(* needed is there.                                                        *)
THEOREM NoWakeupIsLost == Spec => []NoLostWakeup
<1>1. Init => NoLostWakeup
  BY DEF Init, NoLostWakeup
<1> QED BY <1>1, TypeInit, TypeStep, WakeupStep, PTL DEF Spec

-----------------------------------------------------------------------------
(* No client is believed to wait for a request it does not have.           *)

HeldInv == ConversationInv /\ NoPhantomRequests

(* Any set of messages is finite, so its members can be counted. *)
LEMMA MessagesFinite ==
  ASSUME NEW S \in SUBSET Messages
  PROVE  IsFiniteSet(S) /\ Cardinality(S) \in Nat
<1>1. IsFiniteSet(Messages)
  BY FS_Interval, SchedulerAssumption DEF Messages
<1>2. IsFiniteSet(S)
  BY <1>1, FS_Subset
<1> QED BY <1>2, FS_CardinalityType

(* What a client has queued or current can be counted. *)
LEMMA HeldFinite ==
  ASSUME TypeOK, NEW c
  PROVE  IsFiniteSet(Held(c)) /\ Cardinality(Held(c)) \in Nat
<1>1. Held(c) \subseteq Messages
  BY Basics DEF Held, Queued, TypeOK
<1> QED BY <1>1, MessagesFinite

(* So can what it has after a step. *)
LEMMA HeldFiniteNext ==
  ASSUME TypeOK', NEW c
  PROVE  IsFiniteSet(Held(c)') /\ Cardinality(Held(c)') \in Nat
<1>1. Held(c)' \subseteq Messages
  BY Basics DEF Held, Queued, TypeOK
<1> QED BY <1>1, MessagesFinite

(* A step that keeps what every client has, and counts nothing up. *)
LEMMA HeldKept ==
  ASSUME TypeOK, TypeOK', NoPhantomRequests,
         \A c \in Clients : client_map'[c] <= client_map[c] /\ Held(c)' = Held(c)
  PROVE  NoPhantomRequests'
<1> SUFFICES ASSUME NEW c \in Clients
             PROVE  client_map'[c] <= Cardinality(Held(c)')
  BY DEF NoPhantomRequests
<1>1. client_map[c] <= Cardinality(Held(c))
  BY DEF NoPhantomRequests
<1>2. client_map[c] \in Nat /\ client_map'[c] \in Nat /\ Cardinality(Held(c)) \in Nat
  BY HeldFinite DEF TypeOK
<1> QED BY <1>1, <1>2

(* dispose_current_message takes one message from its client and one from  *)
(* the count of the client, or clears every count.                         *)
LEMMA HeldDisposed ==
  ASSUME ConversationInv, TypeOK', NoPhantomRequests,
         NEW t \in Threads, NEW k \in Message_Type, NEW flush_all \in BOOLEAN,
         current_message[k] \in Messages, Dispose(t, k, flush_all), client' = client
  PROVE  NoPhantomRequests'
<1> USE Basics
<1> DEFINE m == current_message[k]
<1>1. TypeOK /\ m \in Messages /\ client[m] \in Clients
  BY DEF ConversationInv, TypeOK
<1> SUFFICES ASSUME NEW c \in Clients
             PROVE  client_map'[c] <= Cardinality(Held(c)')
  BY DEF NoPhantomRequests
<1>2. IsFiniteSet(Held(c)) /\ Cardinality(Held(c)) \in Nat /\ Cardinality(Held(c)') \in Nat
  BY <1>1, HeldFinite, HeldFiniteNext
<1>3. client_map[c] \in Nat /\ client_map[c] <= Cardinality(Held(c))
  BY <1>1 DEF NoPhantomRequests, TypeOK
<1>4. CASE flush_all
  <2>1. client_map'[c] = 0
    BY <1>4 DEF Dispose
  <2> QED BY <1>2, <2>1
<1>5. CASE ~flush_all
  <2>1. /\ client_map' = [client_map EXCEPT ![client[m]] = Max0(client_map[client[m]] - 1)]
        /\ message_list' = message_list
        /\ current_message' = [current_message EXCEPT ![k] = NoMessage]
    BY <1>5 DEF Dispose
  <2>2. m \notin Queued
    BY DEF ConversationInv, Fresh, Untouched
  <2>3. \A j \in Message_Type : j # k /\ current_message[j] # NoMessage => current_message[j] # m
    BY <1>1 DEF TypeOK
  <2>4. {current_message'[j] : j \in Message_Type} \ {NoMessage}
          = {current_message[j] : j \in Message_Type} \ {NoMessage, m}
    BY <1>1, <2>1, <2>3 DEF TypeOK
  <2>5. Held(c)' = Held(c) \ {m}
    BY <2>1, <2>2, <2>4 DEF Held, Queued
  <2>6. CASE client[m] = c
    <3>1. m \in Held(c)
      BY <1>1, <2>6 DEF Held
    <3>2. Cardinality(Held(c)') = Cardinality(Held(c)) - 1
      <4>1. Cardinality(Held(c) \ {m}) = Cardinality(Held(c)) - 1
        BY <1>2, <3>1, FS_RemoveElement
      <4> QED BY <2>5, <4>1
    <3>3. client_map'[c] = Max0(client_map[c] - 1)
      BY <1>1, <2>1, <2>6 DEF TypeOK
    <3> QED BY <1>2, <1>3, <3>2, <3>3 DEF Max0
  <2>7. CASE client[m] # c
    <3>1. Held(c)' = Held(c)
      BY <2>5, <2>7 DEF Held
    <3>2. client_map'[c] = client_map[c]
      BY <1>1, <2>1, <2>7 DEF TypeOK
    <3> QED BY <1>3, <3>1, <3>2
  <2> QED BY <2>6, <2>7
<1> QED BY <1>4, <1>5

(* cancel_client_messages takes at least as much from the count as it      *)
(* takes messages from the queues.                                         *)
LEMMA HeldCancelled ==
  ASSUME ConversationInv, TypeOK', NoPhantomRequests, NEW w \in Wallets, CancelMessages(w)
  PROVE  NoPhantomRequests'
<1> USE Basics
<1> DEFINE Q == QueuedOf(w, "send") \cup QueuedOf(w, "balance")
<1>1. TypeOK /\ w \in Clients
  BY DEF ConversationInv, Clients
<1>2. /\ client_map' = [client_map EXCEPT ![w] = Max0(client_map[w] - Cardinality(Q))]
      /\ message_list' = [k \in Message_Type |-> message_list[k] \ Cancellable(w)]
      /\ UNCHANGED <<client, current_message>>
  BY DEF CancelMessages
<1>3. Cancellable(w) \subseteq Q
  BY DEF Cancellable, FirstOf
<1>4. Q \subseteq Held(w) /\ \A m \in Q : client[m] = w
  BY <1>1 DEF QueuedOf, Held, Queued, TypeOK
<1> SUFFICES ASSUME NEW c \in Clients
             PROVE  client_map'[c] <= Cardinality(Held(c)')
  BY DEF NoPhantomRequests
<1>5. /\ IsFiniteSet(Held(c)) /\ Cardinality(Held(c)) \in Nat
      /\ IsFiniteSet(Held(c)') /\ Cardinality(Held(c)') \in Nat
  BY <1>1, HeldFinite, HeldFiniteNext
<1>6. client_map[c] \in Nat /\ client_map[c] <= Cardinality(Held(c))
  BY <1>1 DEF NoPhantomRequests, TypeOK
<1>7. CASE c # w
  <2>1. client_map'[c] = client_map[c]
    BY <1>1, <1>2, <1>7 DEF TypeOK
  <2>2. Held(c)' = Held(c)
    BY <1>2, <1>3, <1>4, <1>7 DEF Held, Queued
  <2> QED BY <1>6, <2>1, <2>2
<1>8. CASE c = w
  <2>1. client_map'[c] = Max0(client_map[c] - Cardinality(Q))
    BY <1>1, <1>2, <1>8 DEF TypeOK
  <2>2. Held(c) \ Q \subseteq Held(c)'
    BY <1>2, <1>3 DEF Held, Queued
  <2>3. IsFiniteSet(Q) /\ Cardinality(Q) \in Nat
    BY <1>4, <1>5, <1>8, FS_Subset, FS_CardinalityType
  <2>4. Cardinality(Held(c) \ Q) = Cardinality(Held(c)) - Cardinality(Q)
    <3>1. Cardinality(Held(c) \ Q) = Cardinality(Held(c)) - Cardinality(Held(c) \cap Q)
      BY <1>5, FS_Difference
    <3>2. Held(c) \cap Q = Q
      BY <1>4, <1>8
    <3> QED BY <3>1, <3>2
  <2>5. Cardinality(Held(c) \ Q) <= Cardinality(Held(c)')
    BY <1>5, <2>2, FS_Subset
  <2> HIDE DEF Q
  <2> QED BY <1>5, <1>6, <2>1, <2>3, <2>4, <2>5 DEF Max0
<1> QED BY <1>7, <1>8

(* queue_message counts the message it gives its client. *)
LEMMA HeldQueued ==
  ASSUME ConversationInv, TypeOK', NoPhantomRequests, NEW m \in Messages, QueueMessage(m)
  PROVE  NoPhantomRequests'
<1> USE Basics
<1>1. TypeOK /\ client[m] \in Clients
  BY DEF ConversationInv, TypeOK
<1>2. /\ client_map' = [client_map EXCEPT ![client[m]] = client_map[client[m]] + 1]
      /\ message_list' = [message_list EXCEPT ![Kind(m)] = message_list[Kind(m)] \cup {m}]
      /\ UNCHANGED <<client, current_message>>
  BY DEF QueueMessage
<1>3. m = last_message + 1
  BY DEF QueueMessage
<1>4. m > last_message
  BY <1>1, <1>3 DEF TypeOK
<1>5. m \notin Queued /\ \A k \in Message_Type : current_message[k] # m
  BY <1>1, <1>4 DEF ConversationInv, Fresh, Untouched, TypeOK
<1>6. Queued' = Queued \cup {m}
  BY <1>1, <1>2 DEF Queued, Kind, TypeOK
<1> SUFFICES ASSUME NEW c \in Clients
             PROVE  client_map'[c] <= Cardinality(Held(c)')
  BY DEF NoPhantomRequests
<1>7. IsFiniteSet(Held(c)) /\ Cardinality(Held(c)) \in Nat
  BY <1>1, HeldFinite
<1>8. client_map[c] \in Nat /\ client_map[c] <= Cardinality(Held(c))
  BY <1>1 DEF NoPhantomRequests, TypeOK
<1>9. CASE c # client[m]
  <2>1. client_map'[c] = client_map[c]
    BY <1>1, <1>2, <1>9 DEF TypeOK
  <2>2. Held(c)' = Held(c)
    BY <1>2, <1>6, <1>9 DEF Held
  <2> QED BY <1>8, <2>1, <2>2
<1>10. CASE c = client[m]
  <2>1. client_map'[c] = client_map[c] + 1
    BY <1>1, <1>2, <1>10 DEF TypeOK
  <2>2. Held(c)' = Held(c) \cup {m} /\ m \notin Held(c)
    BY <1>2, <1>5, <1>6, <1>10 DEF Held
  <2>3. Cardinality(Held(c)') = Cardinality(Held(c)) + 1
    BY <1>7, <2>2, FS_AddElement
  <2> QED BY <1>7, <1>8, <2>1, <2>3
<1> QED BY <1>9, <1>10

(* No step counts a request for a client that does not have it. *)
LEMMA HeldStep == HeldInv /\ [Next]_vars => HeldInv'
<1> SUFFICES ASSUME HeldInv, [Next]_vars
             PROVE  HeldInv'
  OBVIOUS
<1> USE Basics
<1>0. ConversationInv /\ ConversationInv' /\ TypeOK /\ TypeOK' /\ NoPhantomRequests
  BY ConversationStep DEF HeldInv, ConversationInv
<1>1. ASSUME UNCHANGED <<client, client_map, message_list, current_message>>
      PROVE  NoPhantomRequests'
  BY <1>1 DEF NoPhantomRequests, Held, Queued, HeldInv
<1>2. ASSUME NEW m \in Messages, RspQuery(m) \/ RspSuspend(m)
      PROVE  NoPhantomRequests'
  BY <1>1, <1>2 DEF RspQuery, RspSuspend
<1>3. ASSUME NEW m \in Messages, NEW flush_all \in BOOLEAN, RspDispose(m, flush_all)
      PROVE  NoPhantomRequests'
  <2>1. Kind(m) \in Message_Type /\ current_message[Kind(m)] \in Messages
    BY <1>0, <1>3, RespondContext DEF RspDispose
  <2>2. Dispose("ui", Kind(m), flush_all) /\ client' = client /\ "ui" \in Threads
    BY <1>3 DEF RspDispose, Threads
  <2> QED BY <1>0, <2>1, <2>2, HeldDisposed
<1>4. ASSUME NEW k \in Message_Type, RunDispose(k)
      PROVE  NoPhantomRequests'
  <2>1. current_message[k] \in Messages
    BY <1>0, <1>4, DispatchContext DEF RunDispose
  <2>2. /\ Dispose("run", k, k = "send") /\ client' = client
        /\ "run" \in Threads /\ (k = "send") \in BOOLEAN
    BY <1>4 DEF RunDispose, Threads
  <2> QED BY <1>0, <2>1, <2>2, HeldDisposed
<1>5. ASSUME NEW k \in Message_Type, SelectNew(k)
      PROVE  NoPhantomRequests'
  <2>1. PICK head \in message_list[k] :
          /\ current_message' = [current_message EXCEPT ![k] = head]
          /\ message_list' = [message_list EXCEPT ![k] = message_list[k] \ {head}]
    BY <1>5 DEF SelectNew
  <2>2. current_message[k] = NoMessage /\ UNCHANGED <<client, client_map>>
    BY <1>5 DEF SelectNew, Takeable
  <2>3. Queued' \cup {current_message'[j] : j \in Message_Type} \cup {NoMessage}
          = Queued \cup {current_message[j] : j \in Message_Type} \cup {NoMessage}
    BY <1>0, <2>1, <2>2 DEF Queued, TypeOK
  <2>4. \A c \in Clients : Held(c)' = Held(c)
    BY <2>2, <2>3 DEF Held
  <2>5. \A c \in Clients : client_map'[c] <= client_map[c]
    BY <1>0, <2>2 DEF TypeOK
  <2> QED BY <1>0, <2>4, <2>5, HeldKept
<1>6. ASSUME NEW t \in Threads, Deliver(t)
      PROVE  NoPhantomRequests'
  BY <1>1, <1>6 DEF Deliver
<1>7. ASSUME NEW k \in Message_Type, SelectSuspended(k) \/ RunQuery(k)
      PROVE  NoPhantomRequests'
  BY <1>1, <1>7 DEF SelectSuspended, RunQuery
<1>8. ASSUME WaitOnMonitor \/ WaitTimeout \/ Tick \/ UNCHANGED vars
      PROVE  NoPhantomRequests'
  BY <1>1, <1>8 DEF WaitOnMonitor, WaitTimeout, Tick, vars
<1>9. NoPhantomRequests'
  BY <1>0, <1>2, <1>3, <1>4, <1>5, <1>6, <1>7, <1>8, HeldQueued, HeldCancelled
  DEF Next, UiNext, RunNext, Threads
<1> QED BY <1>0, <1>9 DEF HeldInv

(* has_message is never true of a client that has nothing queued or        *)
(* current, so do_refresh never skips its refresh for a request that will  *)
(* not come.                                                               *)
THEOREM NoRequestIsPhantom == Spec => []NoPhantomRequests
<1>1. Init => HeldInv
  <2> SUFFICES ASSUME Init PROVE HeldInv
    OBVIOUS
  <2>1. TypeOK /\ ConversationInv
    BY TypeInit, ConversationInit
  <2>2. \A c \in Clients : client_map[c] = 0 /\ Cardinality(Held(c)) \in Nat
    BY <2>1, HeldFinite DEF Init
  <2> QED BY <2>1, <2>2 DEF HeldInv, NoPhantomRequests
<1>2. HeldInv => NoPhantomRequests
  BY DEF HeldInv
<1> QED BY <1>1, <1>2, HeldStep, PTL DEF Spec

-----------------------------------------------------------------------------
(* Where the requests are.                                                 *)

(* Where a message is, told apart only as far as the steps do. *)
IsCurrent(m) == \E k \in Message_Type : current_message[k] = m
IsGiven(m)   == \E t \in Threads : delivering[t] = m

(* A message that is about to be handed to its client has left the queue   *)
(* and is no longer current, and the two threads hand over different ones. *)
GivenApart ==
  /\ \A m \in Messages : IsGiven(m) => m \notin Queued /\ ~IsCurrent(m)
  /\ \A s, t \in Threads : delivering[s] # NoMessage /\ s # t => delivering[s] # delivering[t]

(* The pending requests are the messages that are somewhere. *)
PendingSomewhere ==
  \A m \in Messages :
    outcome[m] = "pending" <=> m \in Queued \/ IsCurrent(m) \/ IsGiven(m)

(* The requests nobody has made yet are the messages still to be numbered. *)
NewUnnumbered ==
  \A m \in Messages : outcome[m] = "new" <=> m > last_message

(* The processor thread calls back before it selects again. *)
RunCallsBackFirst == run_pc = "selected" => delivering["run"] = NoMessage

PlacesInv ==
  GivenApart /\ PendingSomewhere /\ NewUnnumbered /\ RunCallsBackFirst

-----------------------------------------------------------------------------
(* Every pending request is in exactly one place.                          *)

(* The constructor has given no message a place. *)
LEMMA PlacesInit == Init => PlacesInv
<1> SUFFICES ASSUME Init PROVE PlacesInv
  OBVIOUS
<1> USE Basics
<1>1. Queued = {} /\ (\A m \in Messages : ~IsCurrent(m) /\ ~IsGiven(m))
  BY DEF Init, Queued, IsCurrent, IsGiven
<1>2. GivenApart
  BY <1>1 DEF Init, GivenApart
<1>3. PendingSomewhere
  BY <1>1 DEF Init, PendingSomewhere
<1>4. NewUnnumbered
  BY DEF Init, NewUnnumbered, Messages
<1>5. RunCallsBackFirst
  BY DEF Init, RunCallsBackFirst, Threads
<1> QED BY <1>2, <1>3, <1>4, <1>5 DEF PlacesInv

(* A message that has a place has been numbered, and a queued message is   *)
(* not current.                                                            *)
LEMMA PlacedNumbered ==
  ASSUME ConversationInv, PlacesInv, NEW m \in Messages
  PROVE  /\ m \in Queued \/ IsCurrent(m) \/ IsGiven(m) => m <= last_message
         /\ m \in Queued => ~IsCurrent(m)
<1> USE Basics
<1>1. m \in Queued => ~IsCurrent(m)
  BY DEF ConversationInv, Fresh, Untouched, IsCurrent
<1>2. outcome[m] = "pending" => ~(m > last_message)
  BY DEF PlacesInv, NewUnnumbered
<1>3. m \in Queued \/ IsCurrent(m) \/ IsGiven(m) => ~(m > last_message)
  BY <1>2 DEF PlacesInv, PendingSomewhere
<1>4. last_message \in Nat
  BY DEF ConversationInv, TypeOK
<1> QED BY <1>1, <1>3, <1>4

(* What the steps that move no message have in common. *)
LEMMA NothingMoves ==
  ASSUME PlacesInv, UNCHANGED <<last_message, message_list, current_message, delivering, outcome>>,
         run_pc' = "selected" => run_pc = "selected" \/ delivering["run"] = NoMessage
  PROVE  PlacesInv'
<1>1. /\ Queued' = Queued
      /\ \A m \in Messages : (IsCurrent(m)' <=> IsCurrent(m)) /\ (IsGiven(m)' <=> IsGiven(m))
  BY DEF Queued, IsCurrent, IsGiven
<1>2. GivenApart'
  BY <1>1 DEF PlacesInv, GivenApart
<1>3. PendingSomewhere'
  BY <1>1 DEF PlacesInv, PendingSomewhere
<1>4. NewUnnumbered'
  BY DEF PlacesInv, NewUnnumbered
<1>5. RunCallsBackFirst'
  BY DEF PlacesInv, RunCallsBackFirst
<1> QED BY <1>2, <1>3, <1>4, <1>5 DEF PlacesInv

(* The disposed message moves from current to the disposing thread, which  *)
(* has no other message to deliver; a flush empties the queues.            *)
LEMMA DisposeMoves ==
  ASSUME ConversationInv, PlacesInv,
         NEW t \in Threads, NEW k \in Message_Type, NEW flush_all \in BOOLEAN,
         current_message[k] \in Messages, delivering[t] = NoMessage,
         Dispose(t, k, flush_all), last_message' = last_message,
         run_pc' # "selected"
  PROVE  PlacesInv'
<1> USE Basics
<1> DEFINE m == current_message[k]
<1>1. TypeOK
  BY DEF ConversationInv
<1>2. \A l \in Messages : IsCurrent(l)' <=> IsCurrent(l) /\ l # m
  <2>1. current_message' = [current_message EXCEPT ![k] = NoMessage]
    BY DEF Dispose
  <2>2. \A j \in Message_Type : j # k /\ current_message[j] # NoMessage => current_message[j] # m
    BY <1>1 DEF TypeOK
  <2> QED BY <1>1, <2>1, <2>2 DEF IsCurrent, TypeOK
<1>3. \A l \in Messages : IsGiven(l)' <=> IsGiven(l) \/ l = m
  <2>1. delivering' = [delivering EXCEPT ![t] = m]
    BY DEF Dispose
  <2> QED BY <1>1, <2>1 DEF IsGiven, TypeOK
<1>4. IsCurrent(m) /\ m \notin Queued /\ ~IsGiven(m)
  BY PlacedNumbered DEF IsCurrent, PlacesInv, GivenApart
<1>5. \/ Queued' = Queued /\ outcome' = outcome
      \/ Queued' = {} /\ Become(Queued, "flushed")
  BY DEF Dispose, Queued
<1>6. GivenApart'
  <2>1. \A l \in Messages : IsGiven(l)' => l \notin Queued' /\ ~IsCurrent(l)'
    BY <1>2, <1>3, <1>4, <1>5 DEF PlacesInv, GivenApart
  <2>2. \A s \in Threads : s # t => delivering'[s] = delivering[s] /\ delivering[s] # m
    BY <1>1, <1>4 DEF Dispose, IsGiven, TypeOK
  <2>3. delivering'[t] = m
    BY <1>1 DEF Dispose, TypeOK
  <2>4. \A s, u \in Threads : delivering'[s] # NoMessage /\ s # u => delivering'[s] # delivering'[u]
    BY <2>2, <2>3 DEF PlacesInv, GivenApart
  <2> QED BY <2>1, <2>4 DEF GivenApart
<1>7. PendingSomewhere'
  <2> SUFFICES ASSUME NEW l \in Messages
               PROVE  outcome'[l] = "pending" <=> l \in Queued' \/ IsCurrent(l)' \/ IsGiven(l)'
    BY DEF PendingSomewhere
  <2>1. outcome[l] = "pending" <=> l \in Queued \/ IsCurrent(l) \/ IsGiven(l)
    BY DEF PlacesInv, PendingSomewhere
  <2>2. l \in Queued => ~IsCurrent(l) /\ ~IsGiven(l) /\ l # m
    BY <1>4, PlacedNumbered DEF PlacesInv, GivenApart
  <2>3. IsCurrent(l)' \/ IsGiven(l)' <=> IsCurrent(l) \/ IsGiven(l)
    BY <1>2, <1>3, <1>4
  <2> QED BY <1>5, <2>1, <2>2, <2>3 DEF Become
<1>8. NewUnnumbered'
  <2>1. \A l \in Messages : l \in Queued => outcome[l] # "new"
    BY DEF PlacesInv, PendingSomewhere
  <2> QED BY <1>5, <2>1 DEF PlacesInv, NewUnnumbered, Become
<1>9. RunCallsBackFirst'
  BY DEF RunCallsBackFirst
<1> QED BY <1>6, <1>7, <1>8, <1>9 DEF PlacesInv

(* A submitted message joins the end of its queue. *)
LEMMA QueueMoves ==
  ASSUME ConversationInv, PlacesInv, NEW m \in Messages, QueueMessage(m)
  PROVE  PlacesInv' /\ outcome[m] = "new"
<1> USE Basics
<1>1. TypeOK
  BY DEF ConversationInv
<1>2. m = last_message + 1 /\ last_message' = m
  BY DEF QueueMessage
<1>3. m > last_message /\ outcome[m] = "new"
  BY <1>1, <1>2 DEF PlacesInv, NewUnnumbered, TypeOK
<1>4. Queued' = Queued \cup {m}
  BY <1>1 DEF QueueMessage, Queued, TypeOK, Kind
<1>5. UNCHANGED <<current_message, delivering>>
  BY DEF QueueMessage
<1>6. \A l \in Messages : (IsCurrent(l)' <=> IsCurrent(l)) /\ (IsGiven(l)' <=> IsGiven(l))
  BY <1>5 DEF IsCurrent, IsGiven
<1>7. ~IsCurrent(m) /\ ~IsGiven(m)
  BY <1>1, <1>3, PlacedNumbered DEF TypeOK
<1>8. outcome' = [l \in Messages |-> IF l = m THEN "pending" ELSE outcome[l]]
  BY DEF QueueMessage, Become
<1>9. GivenApart'
  BY <1>4, <1>5, <1>6, <1>7 DEF PlacesInv, GivenApart
<1>10. PendingSomewhere'
  BY <1>4, <1>6, <1>8 DEF PlacesInv, PendingSomewhere
<1>11. NewUnnumbered'
  BY <1>1, <1>2, <1>8 DEF PlacesInv, NewUnnumbered, TypeOK
<1>12. RunCallsBackFirst'
  BY <1>5 DEF PlacesInv, RunCallsBackFirst, QueueMessage, Notified
<1> QED BY <1>3, <1>9, <1>10, <1>11, <1>12 DEF PlacesInv

(* What is cancelled was queued, and by the client that cancels. *)
LEMMA CancellableQueued ==
  ASSUME NEW c, NEW m \in Cancellable(c)
  PROVE  m \in Queued /\ client[m] = c
BY DEF Cancellable, FirstOf, QueuedOf, Queued

(* Cancelled messages leave the queues and nothing else. *)
LEMMA CancelMoves ==
  ASSUME ConversationInv, PlacesInv, NEW c \in Wallets, CancelMessages(c)
  PROVE  PlacesInv'
<1> USE Basics
<1>1. TypeOK
  BY DEF ConversationInv
<1>2. UNCHANGED <<last_message, current_message, delivering, run_pc>>
  BY DEF CancelMessages
<1>3. \A l \in Messages : (IsCurrent(l)' <=> IsCurrent(l)) /\ (IsGiven(l)' <=> IsGiven(l))
  BY <1>2 DEF IsCurrent, IsGiven
<1>4. Queued' = Queued \ Cancellable(c)
  BY DEF CancelMessages, Queued
<1>5. outcome' = [l \in Messages |-> IF l \in Cancellable(c) THEN "cancelled" ELSE outcome[l]]
  BY DEF CancelMessages, Become
<1>6. \A l \in Messages : l \in Cancellable(c) =>
        l \in Queued /\ outcome[l] = "pending" /\ ~IsCurrent(l) /\ ~IsGiven(l)
  BY CancellableQueued, PlacedNumbered DEF PlacesInv, PendingSomewhere, GivenApart
<1>7. GivenApart'
  BY <1>2, <1>3, <1>4 DEF PlacesInv, GivenApart
<1>8. PendingSomewhere'
  BY <1>3, <1>4, <1>5, <1>6 DEF PlacesInv, PendingSomewhere
<1>9. NewUnnumbered'
  BY <1>2, <1>5, <1>6 DEF PlacesInv, NewUnnumbered
<1>10. RunCallsBackFirst'
  BY <1>2 DEF PlacesInv, RunCallsBackFirst
<1> QED BY <1>7, <1>8, <1>9, <1>10 DEF PlacesInv

(* A delivered message leaves its last place, and was pending until then. *)
LEMMA DeliverMoves ==
  ASSUME ConversationInv, PlacesInv, NEW t \in Threads, Deliver(t)
  PROVE  PlacesInv' /\ delivering[t] \in Messages /\ outcome[delivering[t]] = "pending"
<1> USE Basics
<1> DEFINE m == delivering[t]
<1>1. TypeOK
  BY DEF ConversationInv
<1>2. m \in Messages /\ IsGiven(m)
  BY <1>1 DEF Deliver, TypeOK, IsGiven
<1>3. outcome[m] = "pending" /\ m \notin Queued /\ ~IsCurrent(m)
  BY <1>2 DEF PlacesInv, PendingSomewhere, GivenApart
<1>4. UNCHANGED <<last_message, message_list, current_message, run_pc>>
  BY DEF Deliver
<1>5. Queued' = Queued /\ \A l \in Messages : IsCurrent(l)' <=> IsCurrent(l)
  BY <1>4 DEF Queued, IsCurrent
<1>6. delivering' = [delivering EXCEPT ![t] = NoMessage]
  BY DEF Deliver
<1>7. \A s \in Threads : s # t => delivering'[s] = delivering[s] /\ delivering[s] # m
  BY <1>1, <1>2, <1>6 DEF PlacesInv, GivenApart, TypeOK
<1>8. delivering'[t] = NoMessage
  BY <1>1, <1>6 DEF TypeOK
<1>9. \A l \in Messages : IsGiven(l)' <=> IsGiven(l) /\ l # m
  BY <1>7, <1>8 DEF IsGiven
<1>10. outcome' = [l \in Messages |-> IF l = m THEN "answered" ELSE outcome[l]]
  BY DEF Deliver, Become
<1>11. GivenApart'
  BY <1>5, <1>7, <1>8, <1>9 DEF PlacesInv, GivenApart
<1>12. PendingSomewhere'
  BY <1>3, <1>5, <1>9, <1>10 DEF PlacesInv, PendingSomewhere
<1>13. NewUnnumbered'
  BY <1>3, <1>4, <1>10 DEF PlacesInv, NewUnnumbered
<1>14. RunCallsBackFirst'
  BY <1>4, <1>7, <1>8 DEF PlacesInv, RunCallsBackFirst, Threads
<1> QED BY <1>2, <1>3, <1>11, <1>12, <1>13, <1>14 DEF PlacesInv

(* A taken message moves from the queue of its kind to current. *)
LEMMA SelectMoves ==
  ASSUME ConversationInv, PlacesInv, NEW k \in Message_Type, SelectNew(k)
  PROVE  PlacesInv'
<1> USE Basics
<1>1. TypeOK
  BY DEF ConversationInv
<1>2. PICK head \in message_list[k] :
        /\ current_message' = [current_message EXCEPT ![k] = head]
        /\ message_list' = [message_list EXCEPT ![k] = @ \ {head}]
  BY DEF SelectNew
<1>3. head \in Messages /\ head \in Queued
  BY <1>1 DEF TypeOK, Queued
<1>4. Queued' = Queued \ {head}
  BY <1>1, <1>2 DEF Queued, TypeOK
<1>5. /\ current_message[k] = NoMessage
      /\ delivering["run"] = NoMessage
      /\ UNCHANGED <<last_message, delivering, outcome>>
  BY DEF SelectNew, Takeable, RunLoop
<1>6. \A l \in Messages : IsCurrent(l)' <=> IsCurrent(l) \/ l = head
  BY <1>1, <1>2, <1>3, <1>5 DEF IsCurrent, TypeOK
<1>7. \A l \in Messages : IsGiven(l)' <=> IsGiven(l)
  BY <1>5 DEF IsGiven
<1>8. GivenApart'
  BY <1>3, <1>4, <1>5, <1>6, <1>7 DEF PlacesInv, GivenApart
<1>9. PendingSomewhere'
  BY <1>3, <1>4, <1>5, <1>6, <1>7 DEF PlacesInv, PendingSomewhere
<1>10. NewUnnumbered'
  BY <1>5 DEF PlacesInv, NewUnnumbered
<1>11. RunCallsBackFirst'
  BY <1>5 DEF RunCallsBackFirst
<1> QED BY <1>8, <1>9, <1>10, <1>11 DEF PlacesInv

(* A response settles the current message of its kind on the UI thread,    *)
(* which has nothing left to deliver.                                      *)
LEMMA RspDisposeContext ==
  ASSUME ConversationInv, NEW m \in Messages, NEW flush_all \in BOOLEAN,
         RspDispose(m, flush_all)
  PROVE  /\ Kind(m) \in Message_Type
         /\ current_message[Kind(m)] = m
         /\ delivering["ui"] = NoMessage
         /\ Dispose("ui", Kind(m), flush_all)
         /\ UNCHANGED <<last_message, client>>
         /\ run_pc' # "selected"
<1>1. Respond(m)
  BY DEF RspDispose
<1>2. run_pc # "selected" /\ current_message[Kind(m)] = m /\ Kind(m) \in Message_Type
  BY <1>1, RespondContext
<1>3. run_pc' # "selected"
  BY <1>2 DEF RspDispose, Notified
<1> QED BY <1>1, <1>2, <1>3 DEF RspDispose, Respond, UiFree

(* So does the processor thread with the message it has selected. *)
LEMMA RunDisposeContext ==
  ASSUME ConversationInv, PlacesInv, NEW k \in Message_Type, RunDispose(k)
  PROVE  /\ current_message[k] \in Messages
         /\ delivering["run"] = NoMessage
         /\ Dispose("run", k, k = "send")
         /\ UNCHANGED <<last_message, client>>
         /\ run_pc' # "selected"
<1>1. Dispatches(k)
  BY DEF RunDispose
<1>2. current_message[k] \in Messages
  BY <1>1, DispatchContext
<1>3. delivering["run"] = NoMessage
  BY <1>1 DEF Dispatches, PlacesInv, RunCallsBackFirst
<1> QED BY <1>2, <1>3 DEF RunDispose

(* No step loses a message, doubles it, or takes it from the wrong place. *)
LEMMA PlacesStep == ConversationInv /\ PlacesInv /\ [Next]_vars => PlacesInv'
<1> SUFFICES ASSUME ConversationInv, PlacesInv, [Next]_vars
             PROVE  PlacesInv'
  OBVIOUS
<1>1. ASSUME NEW m \in Messages, RspQuery(m) \/ RspSuspend(m)
      PROVE  PlacesInv'
  BY <1>1, NothingMoves DEF RspQuery, RspSuspend, Notified
<1>2. ASSUME NEW m \in Messages, NEW flush_all \in BOOLEAN, RspDispose(m, flush_all)
      PROVE  PlacesInv'
  <2>1. "ui" \in Threads /\ current_message[Kind(m)] \in Messages
    BY <1>2, RspDisposeContext DEF Threads
  <2> QED BY <1>2, <2>1, RspDisposeContext, DisposeMoves
<1>3. ASSUME NEW k \in Message_Type, RunDispose(k)
      PROVE  PlacesInv'
  <2>1. "run" \in Threads /\ (k = "send") \in BOOLEAN
    BY DEF Threads
  <2> QED BY <1>3, <2>1, RunDisposeContext, DisposeMoves
<1>4. ASSUME NEW k \in Message_Type, SelectSuspended(k) \/ RunQuery(k)
      PROVE  PlacesInv'
  BY <1>4, NothingMoves DEF SelectSuspended, RunQuery, RunLoop
<1>5. ASSUME WaitOnMonitor \/ WaitTimeout \/ Tick \/ UNCHANGED vars
      PROVE  PlacesInv'
  BY <1>5, NothingMoves DEF WaitOnMonitor, WaitTimeout, Tick, vars
<1>6. "ui" \in Threads /\ "run" \in Threads
  BY DEF Threads
<1> QED
  BY <1>1, <1>2, <1>3, <1>4, <1>5, <1>6, QueueMoves, CancelMoves, SelectMoves, DeliverMoves
  DEF Next, UiNext, RunNext

(* Both invariants together are what holds in every state. *)
LEMMA PlacesAlways == Spec => [](ConversationInv /\ PlacesInv)
<1>1. Init => ConversationInv /\ PlacesInv
  BY ConversationInit, PlacesInit
<1>2. (ConversationInv /\ PlacesInv) /\ [Next]_vars => (ConversationInv /\ PlacesInv)'
  BY ConversationStep, PlacesStep
<1> QED BY <1>1, <1>2, PTL DEF Spec

(* At most one of the places a message can be in holds it. *)
LEMMA PlacesOfOne ==
  ASSUME ConversationInv, PlacesInv, NEW m \in Messages, NEW p \in Places(m), NEW q \in Places(m)
  PROVE  p = q
<1> USE Basics
<1>1. TypeOK
  BY DEF ConversationInv
<1>2. \A r \in Places(m) :
        \/ m \in Queued /\ r = <<"queue", Kind(m)>>
        \/ IsCurrent(m) /\ r = <<"current", Kind(m)>>
        \/ \E t \in Threads : delivering[t] = m /\ r = <<"delivering", t>>
  BY <1>1 DEF Places, TypeOK, Queued, IsCurrent
<1>3. m \in Queued => ~IsCurrent(m)
  BY PlacedNumbered
<1>4. IsGiven(m) => m \notin Queued /\ ~IsCurrent(m)
  BY DEF PlacesInv, GivenApart
<1>5. \A s, t \in Threads : delivering[s] = m /\ delivering[t] = m => s = t
  BY DEF PlacesInv, GivenApart
<1> QED BY <1>2, <1>3, <1>4, <1>5 DEF IsGiven

(* A message has a place just when it is queued, current or being given    *)
(* back.                                                                   *)
LEMMA PlacesSomewhere ==
  ASSUME NEW m \in Messages
  PROVE  Places(m) # {} <=> m \in Queued \/ IsCurrent(m) \/ IsGiven(m)
<1> USE Basics
<1>1. ASSUME NEW k \in Message_Type, m \in message_list[k] \/ current_message[k] = m
      PROVE  Places(m) # {}
  BY <1>1 DEF Places
<1>2. ASSUME NEW t \in Threads, delivering[t] = m
      PROVE  Places(m) # {}
  BY <1>2 DEF Places
<1>3. Places(m) # {} => m \in Queued \/ IsCurrent(m) \/ IsGiven(m)
  BY DEF Places, Queued, IsCurrent, IsGiven
<1> QED BY <1>1, <1>2, <1>3 DEF Queued, IsCurrent, IsGiven

(* A request that has still to be answered is in exactly one place, and no *)
(* other request is anywhere: whatever the interleaving of the UI thread,  *)
(* the processor thread and the queries, none is lost, processed twice, or *)
(* processed after it was cancelled or flushed.                            *)
THEOREM EveryRequestInOnePlace == Spec => []OnePlace
<1>1. ASSUME ConversationInv, PlacesInv
      PROVE  OnePlace
  <2> SUFFICES ASSUME NEW m \in Messages
               PROVE  IF outcome[m] = "pending"
                      THEN \E p \in Places(m) : Places(m) = {p}
                      ELSE Places(m) = {}
    BY DEF OnePlace
  <2>1. outcome[m] = "pending" <=> Places(m) # {}
    BY <1>1, PlacesSomewhere DEF PlacesInv, PendingSomewhere
  <2>2. \A p, q \in Places(m) : p = q
    BY <1>1, PlacesOfOne
  <2> QED BY <2>1, <2>2
<1> QED BY <1>1, PlacesAlways, PTL

-----------------------------------------------------------------------------
(* The scheduling implements PaymentRequests.                              *)

(* Both modules number the messages alike and record outcomes alike. *)
LEMMA SameRequests ==
  /\ Requests!Messages = Messages
  /\ \A S, o : Requests!Become(S, o) <=> Become(S, o)
BY DEF Requests!Messages, Messages, Requests!Become, Become

(* What is queued is pending. *)
LEMMA QueuedPending ==
  ASSUME ConversationInv, PlacesInv
  PROVE  Queued \subseteq Requests!Pending
BY SameRequests DEF PlacesInv, PendingSomewhere, Requests!Pending,
   Queued, ConversationInv, TypeOK, Message_Type

(* Settling a message flushes other pending messages, or nothing. *)
LEMMA DisposePromised ==
  ASSUME ConversationInv, PlacesInv,
         NEW t \in Threads, NEW k \in Message_Type, NEW flush_all \in BOOLEAN,
         current_message[k] \in Messages, Dispose(t, k, flush_all), client' = client
  PROVE  [Requests!RequestsNext]_(Requests!requestVars)
<1> DEFINE m == current_message[k]
<1>1. CASE ~flush_all
  BY <1>1 DEF Dispose, Requests!requestVars
<1>2. CASE flush_all
  <2>1. IsCurrent(m) /\ m \notin Queued
    BY PlacedNumbered DEF IsCurrent
  <2>2. m \in Requests!Pending
    BY <2>1, SameRequests DEF PlacesInv, PendingSomewhere, Requests!Pending
  <2>3. Queued \in SUBSET (Requests!Pending \ {m})
    BY <2>1, QueuedPending
  <2>4. Requests!Become(Queued, "flushed")
    BY <1>2, SameRequests DEF Dispose
  <2>5. Requests!Flush(m)
    BY <2>2, <2>3, <2>4 DEF Requests!Flush
  <2> QED BY <2>5, SameRequests DEF Requests!RequestsNext
<1> QED BY <1>1, <1>2

(* Each step of the threads is a step of the promise, or changes nothing a *)
(* client can see.                                                         *)
LEMMA RequestsStep ==
  ConversationInv /\ PlacesInv /\ [Next]_vars
    => [Requests!RequestsNext]_(Requests!requestVars)
<1> SUFFICES ASSUME ConversationInv, PlacesInv, [Next]_vars
             PROVE  [Requests!RequestsNext]_(Requests!requestVars)
  OBVIOUS
<1> USE SameRequests
<1>1. ASSUME NEW m \in Messages, QueueMessage(m)
      PROVE  Requests!RequestsNext
  <2>1. outcome[m] = "new"
    BY <1>1, QueueMoves
  <2>2. Requests!Submit(m)
    BY <1>1, <2>1 DEF QueueMessage, Requests!Submit
  <2> QED BY <2>2 DEF Requests!RequestsNext
<1>2. ASSUME NEW c \in Wallets, CancelMessages(c)
      PROVE  Requests!RequestsNext
  <2>1. \A m \in Cancellable(c) : m \in Requests!Pending /\ client[m] = c
    BY CancellableQueued, QueuedPending
  <2>2. Cancellable(c) \in SUBSET {m \in Requests!Pending : client[m] = c}
    BY <2>1
  <2>3. Become(Cancellable(c), "cancelled") /\ client' = client
    BY <1>2 DEF CancelMessages
  <2>4. Requests!Withdraw(c)
    BY <2>2, <2>3 DEF Requests!Withdraw
  <2> QED BY <2>4 DEF Requests!RequestsNext, Clients
<1>3. ASSUME NEW t \in Threads, Deliver(t)
      PROVE  Requests!RequestsNext
  <2>1. delivering[t] \in Requests!Pending
    BY <1>3, DeliverMoves DEF Requests!Pending
  <2>2. Become({delivering[t]}, "answered") /\ client' = client
    BY <1>3 DEF Deliver
  <2>3. Requests!Answer(delivering[t])
    BY <2>1, <2>2 DEF Requests!Answer
  <2> QED BY <2>1, <2>3 DEF Requests!RequestsNext, Requests!Pending
<1>4. ASSUME NEW m \in Messages, NEW flush_all \in BOOLEAN, RspDispose(m, flush_all)
      PROVE  [Requests!RequestsNext]_(Requests!requestVars)
  <2>1. "ui" \in Threads /\ current_message[Kind(m)] \in Messages
    BY <1>4, RspDisposeContext DEF Threads
  <2> QED BY <1>4, <2>1, RspDisposeContext, DisposePromised
<1>5. ASSUME NEW k \in Message_Type, RunDispose(k)
      PROVE  [Requests!RequestsNext]_(Requests!requestVars)
  <2>1. "run" \in Threads /\ (k = "send") \in BOOLEAN
    BY DEF Threads
  <2> QED BY <1>5, <2>1, RunDisposeContext, DisposePromised
<1>6. ASSUME NEW m \in Messages, RspQuery(m) \/ RspSuspend(m)
      PROVE  UNCHANGED Requests!requestVars
  BY <1>6 DEF RspQuery, RspSuspend, Requests!requestVars
<1>7. ASSUME NEW k \in Message_Type, SelectSuspended(k) \/ SelectNew(k) \/ RunQuery(k)
      PROVE  UNCHANGED Requests!requestVars
  BY <1>7 DEF SelectSuspended, SelectNew, RunQuery, Requests!requestVars
<1>8. ASSUME WaitOnMonitor \/ WaitTimeout \/ Tick \/ UNCHANGED vars
      PROVE  UNCHANGED Requests!requestVars
  BY <1>8 DEF WaitOnMonitor, WaitTimeout, Tick, vars, Requests!requestVars
<1>9. "ui" \in Threads /\ "run" \in Threads
  BY DEF Threads
<1> QED
  BY <1>1, <1>2, <1>3, <1>4, <1>5, <1>6, <1>7, <1>8, <1>9
  DEF Next, UiNext, RunNext

(* Payment_Processor keeps its promise to the activities: each request is  *)
(* answered at most once, only while it is pending, never after it was     *)
(* cancelled or flushed; and nobody cancels another client's request.      *)
THEOREM SchedulerImplementsRequests == Spec => ImplementsRequests
<1>1. Init => Requests!RequestsInit
  BY SameRequests DEF Init, Requests!RequestsInit
<1> QED
  BY <1>1, PlacesAlways, RequestsStep, PTL
  DEF Spec, ImplementsRequests, Requests!RequestsSpec
=============================================================================
