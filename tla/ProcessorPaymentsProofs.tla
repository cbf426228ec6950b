----------------------- MODULE ProcessorPaymentsProofs -----------------------
(***************************************************************************)
(* Proofs about the payments Payment_Processor makes, for every network,   *)
(* every account and every value of the intervals, in an app that may be   *)
(* killed at any time (ProcessorRestart), in one that is not               *)
(* (PaymentProcessor), and in one whose account is exchanged for another   *)
(* (AccountImport): how often a payment is made, what its client is told,  *)
(* which nonces payments are given, what balance is shown, what is kept of *)
(* the account that was erased, and the types of all of it.                *)
(*                                                                         *)
(* What the network may do is a hypothesis of a theorem only where the     *)
(* theorem needs it: that it forgets no transaction (drops = 0), and that  *)
(* the reply to an accepted broadcast arrives (MayLoseReply is FALSE).     *)
(***************************************************************************)
EXTENDS ProcessorRestart, AccountImport, PaymentProcessorProofs

-----------------------------------------------------------------------------
(* What the handlers do to last_tx_nonce and balance.                      *)

(* A reported nonce: last_tx_nonce is kept or set to the verified one. *)
LEMMA UpdateNonceAccount ==
  ASSUME NEW p \in Preferences, NEW n \in Int, NEW from_transactions, now_sec \in Int
  PROVE  /\ UpdateNonce(p, n, from_transactions).last_tx_nonce
              \in {p.last_tx_nonce, UpdateNonce(p, n, from_transactions).verified_nonce}
         /\ UpdateNonce(p, n, from_transactions).balance = p.balance
BY DEF UpdateNonce, Preferences

(* A payment made: its nonce is the last, and its estimated cost is gone. *)
LEMMA RecordPaymentAccount ==
  ASSUME NEW p \in Preferences, NEW n \in Int
  PROVE  /\ RecordPayment(p, n).last_tx_nonce = n
         /\ RecordPayment(p, n).balance = p.balance - EstCost
BY DEF RecordPayment, Preferences

(* A refused nonce changes what is verified only. *)
LEMMA NonceTooLowAccount ==
  ASSUME NEW p \in Preferences
  PROVE  /\ NonceTooLow(p).last_tx_nonce = p.last_tx_nonce
         /\ NonceTooLow(p).balance = p.balance
BY DEF NonceTooLow, Preferences

(* A reported balance is taken as it is or not at all. *)
LEMMA UpdateBalanceAccount ==
  ASSUME NEW p \in Preferences, NEW b \in Int
  PROVE  /\ UpdateBalance(p, b).last_tx_nonce = p.last_tx_nonce
         /\ UpdateBalance(p, b).balance \in {p.balance, b}
<1> DEFINE changed == IF b # p.verified_balance THEN now_sec
                      ELSE p.verified_balance_changed_sec
           balance == IF \/ p.last_tx_nonce = p.verified_nonce /\ b > p.balance
                         \/ Since(changed) > BalanceForcedAdoption
                         \/ /\ (IF b > p.balance THEN b - p.balance ELSE p.balance - b)
                                 <= BalanceEstimateSlop
                            /\ Since(p.balance_refresh_sec) < BalanceForcedAdoption \div 2
                      THEN b ELSE p.balance
           updated == [p EXCEPT !.verified_balance = b,
                                !.verified_balance_changed_sec = changed,
                                !.balance = balance,
                                !.balance_refresh_sec = now_sec]
<1>1. UpdateBalance(p, b) = updated
  BY DEF UpdateBalance
<1>2. balance \in {p.balance, b}
  OBVIOUS
<1> HIDE DEF balance, changed
<1>3. updated.balance = balance /\ updated.last_tx_nonce = p.last_tx_nonce
  BY DEF Preferences
<1> QED BY <1>1, <1>2, <1>3

(* Prices and the time of the last rapid fire leave both alone. *)
LEMMA OtherAccount ==
  ASSUME NEW p \in Preferences
  PROVE  /\ SampleGas(p).last_tx_nonce = p.last_tx_nonce
         /\ SampleGas(p).balance = p.balance
         /\ [p EXCEPT !.price_refresh_sec = now_sec].last_tx_nonce = p.last_tx_nonce
         /\ [p EXCEPT !.price_refresh_sec = now_sec].balance = p.balance
         /\ [p EXCEPT !.rapid_fire_sec = now_sec].balance = p.balance
BY DEF SampleGas, Preferences

-----------------------------------------------------------------------------
(* How the handling of an answer ends.                                     *)

(* Preferences after an answer that did not settle a broadcast. *)
Learnt(p) ==
  /\ Safe(p)
  /\ p.last_tx_nonce \in {prefs.last_tx_nonce, p.verified_nonce}
  /\ \/ p.balance = prefs.balance
     \/ query.of = "balance" /\ query.answer = "ok" /\ p.balance = query.value

(* The broadcast under way may have put its transaction into the pool. *)
Accepted == query.of = "broadcast" /\ query.answer \in {"ok", "error"}

(* update_nonce_logic goes on or waits with what it has learnt. *)
LEMMA NonceLearnt ==
  ASSUME NonceInv, NEW m \in Messages, NEW p, NEW n \in Int, NEW from_transactions,
         Learnt(p), p.last_tx_nonce = prefs.last_tx_nonce, n < mined,
         NonceUpdated(m, p, n, from_transactions)
  PROVE  \E q : Learnt(q) /\ (Continue(m, q) \/ Later(m, q))
<1> DEFINE q == UpdateNonce(p, n, from_transactions)
<1>1. now_sec \in Int /\ p \in Preferences /\ p.verified_nonce < mined
  BY DEF NonceInv, DataOK, Learnt, Safe
<1>2. Safe(q)
  BY <1>1, UpdateNonceBounds DEF Safe
<1>3. Learnt(q)
  BY <1>1, <1>2, UpdateNonceAccount DEF Learnt
<1>4. Continue(m, q) \/ Later(m, q)
  BY DEF NonceUpdated
<1> HIDE DEF q
<1> QED BY <1>3, <1>4

(* handle_http_rsp, answer by answer: it goes on with what it has learnt   *)
(* (unless a transaction may have been accepted), records the payment, or  *)
(* fails.                                                                  *)
LEMMA ResponseChoice ==
  ASSUME NonceInv, NEW m \in Messages, HandleResponse(m)
  PROVE  /\ UNCHANGED <<now_sec, chainVars>>
         /\ Respond(m)
         /\ \/ ~Accepted /\ \E p : Learnt(p) /\ (Continue(m, p) \/ Later(m, p))
            \/ /\ query.of = "broadcast" /\ query.answer = "ok"
               /\ Finish(m, RecordPayment(prefs, nonce[m]), TRUE)
            \/ query.answer = "error" /\ Finish(m, prefs, FALSE)
<1> DEFINE Goal == \/ ~Accepted /\ \E p : Learnt(p) /\ (Continue(m, p) \/ Later(m, p))
                   \/ /\ query.of = "broadcast" /\ query.answer = "ok"
                      /\ Finish(m, RecordPayment(prefs, nonce[m]), TRUE)
                   \/ query.answer = "error" /\ Finish(m, prefs, FALSE)
<1>1. /\ prefs \in Preferences /\ Safe(prefs) /\ Learnt(prefs)
      /\ now_sec \in Int /\ mined \in Nat
  BY DEF NonceInv, DataOK, VerifiedIsOnChain, Safe, Learnt
<1>2. ASSUME NEW what \in {"nonce", "transactions", "gas", "broadcast", "price", "balance"},
             query.of = what
      PROVE  query # NoQuery /\ query \in Queries /\ query.value \in Int
  BY <1>2 DEF NonceInv, DataOK, NoQuery, Queries
<1>3. ASSUME NEW what, NEW answers, Handle(m, what, answers)
      PROVE  /\ query.of = what /\ query.answer \in answers
             /\ UNCHANGED <<now_sec, chainVars>> /\ Respond(m)
  BY <1>3 DEF Handle
<1>4. /\ Learnt(SampleGas(prefs)) /\ SampleGas(prefs) \in Preferences
      /\ SampleGas(prefs).last_tx_nonce = prefs.last_tx_nonce
  BY <1>1, OtherUpdates, OtherAccount DEF Safe, Learnt
<1>5. CASE HandleGas(m)
  <2>1. PICK answers : Handle(m, "gas", answers)
    BY <1>5 DEF HandleGas
  <2>2. /\ query.of = "gas" /\ UNCHANGED <<now_sec, chainVars>> /\ Respond(m)
    BY <1>3, <2>1
  <2>3. Continue(m, SampleGas(prefs)) \/ Continue(m, prefs)
    BY <1>5 DEF HandleGas
  <2> QED BY <1>1, <1>4, <2>2, <2>3 DEF Accepted
<1>6. CASE HandleNonce(m)
  <2>1. /\ query.of = "nonce" /\ query.answer = "ok"
        /\ UNCHANGED <<now_sec, chainVars>> /\ Respond(m)
    BY <1>3, <1>6 DEF HandleNonce
  <2>2. query.value \in Int /\ query.value < mined
    BY <1>2, <2>1 DEF NonceInv, AnswerTrue
  <2>3. NonceUpdated(m, prefs, query.value, FALSE)
    BY <1>6 DEF HandleNonce
  <2>4. \E q : Learnt(q) /\ (Continue(m, q) \/ Later(m, q))
    BY <1>1, <2>2, <2>3, NonceLearnt
  <2> QED BY <2>1, <2>4 DEF Accepted
<1>7. CASE HandleTransactions(m)
  <2>1. /\ query.of = "transactions" /\ query.answer = "ok"
        /\ UNCHANGED <<now_sec, chainVars>> /\ Respond(m)
    BY <1>3, <1>7 DEF HandleTransactions
  <2>2. query.value \in Int /\ query.value < mined
    BY <1>2, <2>1 DEF NonceInv, AnswerTrue
  <2>3. \/ NonceUpdated(m, SampleGas(prefs), query.value, TRUE)
        \/ NonceUpdated(m, prefs, query.value, TRUE)
    BY <1>7 DEF HandleTransactions
  <2>4. \E q : Learnt(q) /\ (Continue(m, q) \/ Later(m, q))
    BY <1>1, <1>4, <2>2, <2>3, NonceLearnt
  <2> QED BY <2>1, <2>4 DEF Accepted
<1>8. CASE HandleBroadcast(m)
  <2>1. /\ query.of = "broadcast" /\ query.answer \in {"ok", "too_low"}
        /\ UNCHANGED <<now_sec, chainVars>> /\ Respond(m)
    BY <1>3, <1>8 DEF HandleBroadcast
  <2>2. CASE query.answer = "ok"
    BY <1>8, <2>1, <2>2 DEF HandleBroadcast
  <2>3. CASE query.answer = "too_low"
    <3>1. Continue(m, NonceTooLow(prefs))
      BY <1>8, <2>3 DEF HandleBroadcast
    <3>2. prefs.last_tx_nonce + 1 < mined
      BY <1>2, <2>1, <2>3 DEF NonceInv, AnswerTrue
    <3>3. Learnt(NonceTooLow(prefs))
      BY <1>1, <3>2, NonceTooLowBounds, NonceTooLowAccount DEF Safe, Learnt
    <3> QED BY <2>1, <2>3, <3>1, <3>3 DEF Accepted
  <2> QED BY <2>1, <2>2, <2>3
<1>9. CASE HandleBalance(m)
  <2> DEFINE q == UpdateBalance(prefs, query.value)
  <2>1. /\ query.of = "balance" /\ query.answer = "ok"
        /\ UNCHANGED <<now_sec, chainVars>> /\ Respond(m)
    BY <1>3, <1>9 DEF HandleBalance
  <2>2. Learnt(q)
    BY <1>1, <1>2, <2>1, OtherUpdates, UpdateBalanceAccount DEF Safe, Learnt
  <2>3. Continue(m, q) \/ Later(m, q)
    BY <1>9 DEF HandleBalance
  <2> HIDE DEF q
  <2> QED BY <2>1, <2>2, <2>3 DEF Accepted
<1>10. CASE HandlePrice(m)
  <2> DEFINE q == [prefs EXCEPT !.price_refresh_sec = now_sec]
  <2>1. /\ query.of = "price" /\ UNCHANGED <<now_sec, chainVars>> /\ Respond(m)
        /\ Continue(m, q)
    BY <1>3, <1>10 DEF HandlePrice
  <2>2. Learnt(q)
    BY <1>1, OtherUpdates, OtherAccount DEF Safe, Learnt
  <2> HIDE DEF q
  <2> QED BY <2>1, <2>2 DEF Accepted
<1>11. CASE HandleError(m)
  <2>1. /\ query.answer = "error" /\ Finish(m, prefs, FALSE)
        /\ UNCHANGED <<now_sec, chainVars>> /\ Respond(m)
    <3>1. PICK what : Handle(m, what, {"error"})
      BY <1>11 DEF HandleError
    <3>2. query.answer = "error" /\ UNCHANGED <<now_sec, chainVars>> /\ Respond(m)
      BY <1>3, <3>1
    <3> QED BY <1>11, <3>2 DEF HandleError
  <2> QED BY <2>1
<1> QED BY <1>5, <1>6, <1>7, <1>8, <1>9, <1>10, <1>11 DEF HandleResponse

-----------------------------------------------------------------------------
(* Each piece of work on a current message, by either thread, ends in one  *)
(* of three ways.                                                          *)

(* It asks the network; a payment is broadcast with its own nonce. *)
Goes(m) ==
  /\ UNCHANGED <<last_message, client, message_list, current_message, result>>
  /\ query' \in Queries
  /\ query'.answer = "none"
  /\ query'.of = "broadcast" => Kind(m) = "send" /\ query'.nonce = nonce'[m]
  /\ \A l \in Messages : http'[l] > 0 <=> l = m

(* It is put aside. *)
Waits(m) ==
  /\ UNCHANGED <<last_message, client, message_list, current_message, result>>
  /\ query' = NoQuery
  /\ \A l \in Messages : http'[l] = 0

(* It is over, and its client is told. *)
Ends(m, ok) ==
  /\ UNCHANGED <<last_message, client>>
  /\ Report(m, ok)
  /\ query' = NoQuery
  /\ \A l \in Messages : http'[l] = 0
  /\ Queued' \subseteq Queued
  /\ current_message' = [current_message EXCEPT ![Kind(m)] = NoMessage]

(* A query names the message it is for. *)
QueryInv ==
  /\ query # NoQuery <=> \E m \in Messages : http[m] > 0
  /\ query.of = "broadcast" =>
       /\ current_message["send"] \in Messages
       /\ http[current_message["send"]] > 0
       /\ query.nonce = nonce[current_message["send"]]

(* The guts ask for a payment's broadcast only with the nonce they chose. *)
LEMMA GutsAsk ==
  ASSUME NonceInv, NEW m \in Messages, NEW p \in Preferences, Guts(p, m), Query(p, m)
  PROVE  /\ query' \in Queries
         /\ query'.answer = "none"
         /\ query'.of = "broadcast" => Kind(m) = "send" /\ query'.nonce = nonce'[m]
<1>1. query' \in Queries /\ query'.answer = "none"
  BY QueryIsSound DEF NonceInv
<1> PICK what \in Asks(p, m) : query' = Ask(what, NextNonce(p))
  BY DEF Query
<1>2. query'.of = what /\ query'.nonce = NextNonce(p)
  BY DEF Ask
<1>3. what = "broadcast" => Kind(m) = "send"
  BY DEF Asks, BalanceAsks
<1>4. Kind(m) = "send" => nonce'[m] = NextNonce(p)
  BY DEF Guts, SendGuts, NonceInv, DataOK
<1> QED BY <1>1, <1>2, <1>3, <1>4

(* The dispositions of both threads end the work on a message. *)
LEMMA DisposeEnds ==
  ASSUME TypeOK, NEW m \in Messages, NEW ok, NEW t, NEW flush_all \in BOOLEAN,
         Dispose(t, Kind(m), flush_all), UNCHANGED <<last_message, client>>,
         Report(m, ok), query' = NoQuery, \A l \in Messages : http'[l] = 0
  PROVE  Ends(m, ok)
<1>1. Queued' \subseteq Queued
  BY DEF Dispose, Queued, Message_Type
<1> QED BY <1>1 DEF Dispose, Ends

(* An answer after which the guts go on: they ask again, or have done. *)
LEMMA ContinueWorks ==
  ASSUME NonceInv, ConversationInv, NEW m \in Messages, Respond(m),
         NEW p \in Preferences, Continue(m, p)
  PROVE  Goes(m) \/ (Ends(m, Kind(m) = "balance") /\ Asks(p, m) = {})
<1>1. /\ TypeOK /\ current_message[Kind(m)] = m /\ http[m] = 1
      /\ \A l \in Messages \ {m} : http[l] = 0
  BY RespondContext DEF ConversationInv
<1>2. CASE RspQuery(m) /\ Query(p, m) /\ UNCHANGED result
  <2>1. \A l \in Messages : http'[l] = http[l]
    BY <1>1, <1>2 DEF RspQuery, TypeOK
  <2>2. \A l \in Messages : http'[l] > 0 <=> l = m
    BY <1>1, <2>1
  <2>3. UNCHANGED <<last_message, client, message_list, current_message, result>>
    BY <1>2 DEF RspQuery
  <2>4. Guts(p, m)
    BY DEF Continue
  <2> QED BY <1>2, <2>2, <2>3, <2>4, GutsAsk DEF Goes
<1>3. CASE RspDispose(m, Kind(m) = "send") /\ NothingToAsk(p, m)
  <2>1. \A l \in Messages : http'[l] = 0
    BY <1>1, <1>3 DEF RspDispose, TypeOK
  <2>2. /\ Dispose("ui", Kind(m), Kind(m) = "send")
        /\ UNCHANGED <<last_message, client>>
        /\ (Kind(m) = "send") \in BOOLEAN
    BY <1>3 DEF RspDispose
  <2>3. Report(m, Kind(m) = "balance") /\ query' = NoQuery /\ Asks(p, m) = {}
    BY <1>3 DEF NothingToAsk
  <2> QED BY <1>1, <2>1, <2>2, <2>3, DisposeEnds
<1> QED BY <1>2, <1>3 DEF Continue

(* An answer after which the message waits. *)
LEMMA LaterWorks ==
  ASSUME ConversationInv, NEW m \in Messages, Respond(m), NEW p, Later(m, p)
  PROVE  Waits(m)
<1>1. /\ TypeOK /\ http[m] = 1 /\ \A l \in Messages \ {m} : http[l] = 0
  BY RespondContext DEF ConversationInv
<1>2. RspSuspend(m) /\ query' = NoQuery /\ UNCHANGED result
  BY DEF Later
<1>3. \A l \in Messages : http'[l] = 0
  BY <1>1, <1>2 DEF RspSuspend, TypeOK
<1> QED BY <1>2, <1>3 DEF Waits, RspSuspend

(* An answer that ends the message. *)
LEMMA FinishWorks ==
  ASSUME ConversationInv, NEW m \in Messages, Respond(m), NEW p, NEW ok \in BOOLEAN,
         Finish(m, p, ok)
  PROVE  Ends(m, ok)
<1>1. /\ TypeOK /\ http[m] = 1 /\ \A l \in Messages \ {m} : http[l] = 0
  BY RespondContext DEF ConversationInv
<1>2. RspDispose(m, ~ok) /\ Report(m, ok) /\ query' = NoQuery /\ (~ok) \in BOOLEAN
  BY DEF Finish
<1>3. \A l \in Messages : http'[l] = 0
  BY <1>1, <1>2 DEF RspDispose, TypeOK
<1>4. Dispose("ui", Kind(m), ~ok) /\ UNCHANGED <<last_message, client>>
  BY <1>2 DEF RspDispose
<1> QED BY <1>1, <1>2, <1>3, <1>4, DisposeEnds

(* The processor thread's part of it: the guts without an answer. *)
LEMMA ProcessWorks ==
  ASSUME NonceInv, ConversationInv, QueryInv, NEW k \in Message_Type, ProcessMessage(k),
         NEW m, m = current_message[k]
  PROVE  /\ m \in Messages /\ Kind(m) = k /\ query = NoQuery
         /\ Guts(prefs, m)
         /\ UNCHANGED <<now_sec, chainVars>>
         /\ Goes(m) \/ (Ends(m, Kind(m) = "balance") /\ Asks(prefs, m) = {})
<1>1. /\ m \in Messages /\ Kind(m) = k
      /\ \A l \in Messages : http[l] = 0
  BY DispatchContext DEF ProcessMessage
<1>2. query = NoQuery
  BY <1>1 DEF QueryInv
<1>3. /\ TypeOK /\ http \in [Messages -> Nat] /\ prefs \in Preferences
  BY DEF ConversationInv, TypeOK, NonceInv, DataOK
<1>4. Guts(prefs, m) /\ UNCHANGED <<now_sec, chainVars>>
  BY DEF ProcessMessage
<1>5. CASE RunQuery(k) /\ Query(prefs, m) /\ UNCHANGED result
  <2>1. http' = [http EXCEPT ![m] = http[m] + 1]
    BY <1>5 DEF RunQuery
  <2>2. \A l \in Messages : http'[l] > 0 <=> l = m
    BY <1>1, <1>3, <2>1
  <2>3. UNCHANGED <<last_message, client, message_list, current_message, result>>
    BY <1>5 DEF RunQuery
  <2>4. Goes(m)
    BY <1>1, <1>3, <1>4, <1>5, <2>2, <2>3, GutsAsk DEF Goes
  <2> QED BY <1>1, <1>2, <1>4, <2>4
<1>6. CASE RunDispose(k) /\ NothingToAsk(prefs, m)
  <2>1. /\ Dispose("run", Kind(m), k = "send")
        /\ UNCHANGED <<last_message, client, http>>
        /\ (k = "send") \in BOOLEAN
    BY <1>1, <1>6 DEF RunDispose
  <2>2. Report(m, Kind(m) = "balance") /\ query' = NoQuery /\ Asks(prefs, m) = {}
    BY <1>6 DEF NothingToAsk
  <2>3. Ends(m, Kind(m) = "balance")
    BY <1>1, <1>3, <2>1, <2>2, DisposeEnds
  <2> QED BY <1>1, <1>2, <1>4, <2>2, <2>3
<1> QED BY <1>5, <1>6 DEF ProcessMessage

(* However a response is handled, it is that of a current message.         *)
LEMMA ResponseWorks ==
  ASSUME NonceInv, ConversationInv, QueryInv, NEW m \in Messages, HandleResponse(m)
  PROVE  /\ current_message[Kind(m)] = m /\ Kind(m) \in Message_Type
         /\ query # NoQuery
         /\ query.of = "broadcast" => m = current_message["send"] /\ query.nonce = nonce[m]
         /\ UNCHANGED <<now_sec, chainVars>>
         /\ \/ ~Accepted /\ Goes(m)
            \/ ~Accepted /\ Waits(m)
            \/ ~Accepted /\ Ends(m, Kind(m) = "balance")
            \/ query.of = "broadcast" /\ query.answer = "ok" /\ Ends(m, TRUE)
            \/ query.answer = "error" /\ Ends(m, FALSE)
<1>1. /\ UNCHANGED <<now_sec, chainVars>>
      /\ Respond(m)
      /\ \/ ~Accepted /\ \E p : Learnt(p) /\ (Continue(m, p) \/ Later(m, p))
         \/ /\ query.of = "broadcast" /\ query.answer = "ok"
            /\ Finish(m, RecordPayment(prefs, nonce[m]), TRUE)
         \/ query.answer = "error" /\ Finish(m, prefs, FALSE)
  BY ResponseChoice
<1>2. /\ current_message[Kind(m)] = m /\ Kind(m) \in Message_Type
      /\ http[m] = 1 /\ \A l \in Messages \ {m} : http[l] = 0
  BY <1>1, RespondContext
<1>3. query # NoQuery
  BY <1>2 DEF QueryInv
<1>4. query.of = "broadcast" => m = current_message["send"] /\ query.nonce = nonce[m]
  BY <1>2 DEF QueryInv
<1>5. CASE ~Accepted /\ \E p : Learnt(p) /\ (Continue(m, p) \/ Later(m, p))
  <2>1. PICK p : Learnt(p) /\ (Continue(m, p) \/ Later(m, p))
    BY <1>5
  <2>2. p \in Preferences
    BY <2>1 DEF Learnt, Safe
  <2> QED BY <1>1, <1>2, <1>3, <1>4, <1>5, <2>1, <2>2, ContinueWorks, LaterWorks
<1>6. CASE /\ query.of = "broadcast" /\ query.answer = "ok"
           /\ Finish(m, RecordPayment(prefs, nonce[m]), TRUE)
  BY <1>1, <1>2, <1>3, <1>4, <1>6, FinishWorks
<1>7. CASE query.answer = "error" /\ Finish(m, prefs, FALSE)
  BY <1>1, <1>2, <1>3, <1>4, <1>7, FinishWorks
<1> QED BY <1>1, <1>5, <1>6, <1>7

(* No answer is under way to begin with. *)
LEMMA QueryInit == ProcessorInit => QueryInv
BY Basics DEF ProcessorInit, Init, QueryInv, NoQuery

(* The network changes no more of a query than its answer. *)
LEMMA NetworkAnswers ==
  ASSUME DataOK, Network
  PROVE  /\ UNCHANGED <<vars, prefs, clientVars, now_sec>>
         /\ query = NoQuery => query' = NoQuery
         /\ query # NoQuery => query' # NoQuery
         /\ query'.of = query.of
         /\ query # NoQuery => query'.nonce = query.nonce
<1>1. NetworkStep
  BY DEF Network, ServeNonce, ServeTransactions, ServeBalance, ServeOther, NodeAccepts, ServeBroadcast,
         RefuseBroadcast, Unreachable, Mine, Deposit, Drop, Asked
<1>2. \/ query' = query
      \/ query # NoQuery /\ \E answer, value : Answers(answer, value)
  <2>1. ASSUME NEW what, what # "none", Asked(what)
        PROVE  query # NoQuery
    BY <2>1 DEF Asked, NoQuery
  <2>2. CASE ServeNonce
    BY <2>1, <2>2 DEF ServeNonce
  <2>3. CASE ServeTransactions
    BY <2>1, <2>3 DEF ServeTransactions
  <2>4. CASE ServeBalance
    BY <2>1, <2>4 DEF ServeBalance
  <2>5. CASE ServeOther
    BY <2>1, <2>5 DEF ServeOther
  <2>6. CASE ServeBroadcast
    BY <2>1, <2>6 DEF ServeBroadcast, NodeAccepts
  <2>7. CASE RefuseBroadcast
    BY <2>1, <2>7 DEF RefuseBroadcast
  <2>8. CASE Unreachable
    BY <2>8 DEF Unreachable
  <2>9. CASE Mine \/ (\E amount \in Deposits : Deposit(amount)) \/ (\E n \in Nonces : Drop(n))
    BY <2>9 DEF Mine, Deposit, Drop
  <2> QED BY <2>2, <2>3, <2>4, <2>5, <2>6, <2>7, <2>8, <2>9 DEF Network
<1>3. query # NoQuery => query \in Queries
  BY DEF DataOK
<1>4. ASSUME query \in Queries, NEW answer, NEW value, Answers(answer, value)
      PROVE  query'.of = query.of /\ query'.nonce = query.nonce /\ query' # NoQuery
  <2>1. query' = [query EXCEPT !.answer = answer, !.value = value]
    BY <1>4 DEF Answers
  <2>2. query'.of = query.of /\ query'.nonce = query.nonce /\ query.of # "none"
    BY <1>4, <2>1 DEF Queries
  <2> QED BY <2>2 DEF NoQuery
<1> QED BY <1>1, <1>2, <1>3, <1>4 DEF NetworkStep

(* Schedule leaves the query and its message alone. *)
LEMMA ScheduleKeepsQuery ==
  ASSUME TypeOK, QueryInv, Schedule
  PROVE  QueryInv'
<1> USE Basics
<1>1. UNCHANGED <<nonce, query>>
  BY DEF Schedule, clientVars
<1>2. UNCHANGED http
  BY DEF Schedule, QueueMessage, CancelMessages, Deliver, SelectSuspended, SelectNew,
         WaitOnMonitor, WaitTimeout
<1>3. current_message["send"] \in Messages =>
        current_message'["send"] = current_message["send"]
  <2>1. \/ UNCHANGED current_message
        \/ \E k \in Message_Type : SelectNew(k)
    BY DEF Schedule, QueueMessage, CancelMessages, Deliver, SelectSuspended,
           WaitOnMonitor, WaitTimeout
  <2>2. ASSUME NEW k \in Message_Type, SelectNew(k), current_message["send"] \in Messages
        PROVE  current_message'["send"] = current_message["send"]
    <3>1. k # "send"
      BY <2>2 DEF SelectNew, Takeable
    <3> QED BY <2>2, <3>1 DEF SelectNew, TypeOK
  <2> QED BY <2>1, <2>2
<1>4. (query # NoQuery <=> \E m \in Messages : http[m] > 0)'
  BY <1>1, <1>2 DEF QueryInv
<1> QED BY <1>1, <1>2, <1>3, <1>4 DEF QueryInv

(* A query always names the message it is for. *)
LEMMA QueryStep ==
  ASSUME NonceInv, ConversationInv, QueryInv, [ProcessorNext]_processorVars
  PROVE  QueryInv'
<1> USE Basics
<1>0. TypeOK /\ DataOK
  BY DEF ConversationInv, NonceInv
<1>1. ASSUME NEW m \in Messages, current_message[Kind(m)] = m, Goes(m)
      PROVE  QueryInv'
  <2>1. (query # NoQuery)' /\ (\E l \in Messages : http[l] > 0)'
    BY <1>1 DEF Goes, Queries, NoQuery
  <2>2. query'.of = "broadcast" =>
          /\ current_message'["send"] = m /\ http'[m] > 0 /\ query'.nonce = nonce'[m]
    BY <1>1 DEF Goes
  <2> QED BY <2>1, <2>2 DEF QueryInv
<1>2. ASSUME query' = NoQuery, \A l \in Messages : http'[l] = 0
      PROVE  QueryInv'
  <2>1. query'.of # "broadcast"
    BY <1>2 DEF NoQuery
  <2>2. ~\E l \in Messages : http'[l] > 0
    BY <1>2
  <2> QED BY <1>2, <2>1, <2>2 DEF QueryInv
<1>3. ASSUME NEW m \in Messages, NEW ok, Waits(m) \/ Ends(m, ok)
      PROVE  QueryInv'
  BY <1>2, <1>3 DEF Waits, Ends
<1>4. ASSUME NEW k \in Message_Type, ProcessMessage(k)
      PROVE  QueryInv'
  <2> DEFINE m == current_message[k]
  <2>1. /\ m \in Messages /\ Kind(m) = k
        /\ Goes(m) \/ Ends(m, Kind(m) = "balance")
    BY <1>4, ProcessWorks
  <2> QED BY <1>1, <1>3, <2>1
<1>5. ASSUME NEW m \in Messages, HandleResponse(m)
      PROVE  QueryInv'
  <2>1. current_message[Kind(m)] = m
        /\ (Goes(m) \/ Waits(m) \/ Ends(m, Kind(m) = "balance") \/ Ends(m, TRUE) \/ Ends(m, FALSE))
    BY <1>5, ResponseWorks
  <2> QED BY <1>1, <1>3, <2>1
<1>6. CASE Schedule
  BY <1>0, <1>6, ScheduleKeepsQuery
<1>7. CASE Network
  <2>1. UNCHANGED <<http, current_message, nonce>>
    BY <1>0, <1>7, NetworkAnswers DEF vars, clientVars
  <2>2. /\ query' = NoQuery <=> query = NoQuery
        /\ query'.of = query.of
        /\ query.of = "broadcast" => query # NoQuery
        /\ query # NoQuery => query'.nonce = query.nonce
    BY <1>0, <1>7, NetworkAnswers DEF NoQuery
  <2>3. (query # NoQuery <=> \E m \in Messages : http[m] > 0)'
    BY <2>1, <2>2 DEF QueryInv
  <2> QED BY <2>1, <2>2, <2>3 DEF QueryInv
<1>8. CASE Elapse \/ UNCHANGED processorVars
  <2>1. UNCHANGED <<http, current_message, nonce, query>>
    BY <1>8 DEF Elapse, Tick, vars, clientVars, processorVars
  <2> QED BY <2>1 DEF QueryInv
<1> QED BY <1>4, <1>5, <1>6, <1>7, <1>8 DEF ProcessorNext

-----------------------------------------------------------------------------
(* A message that is over is never worked on again.                        *)

Over(m) ==
  /\ m <= last_message
  /\ m \notin Queued
  /\ \A k \in Message_Type : current_message[k] # m

(* No step of the scheduler takes up a message that is over. *)
LEMMA OverStable ==
  ASSUME TypeOK, NEW m \in Messages, Over(m), [Next]_vars
  PROVE  Over(m)'
<1> USE Basics
<1>1. ASSUME NEW l \in Messages, QueueMessage(l)
      PROVE  Over(m)'
  <2>1. l = last_message + 1 /\ last_message' = l /\ UNCHANGED current_message
    BY <1>1 DEF QueueMessage
  <2>2. Queued' = Queued \cup {l}
    BY <1>1 DEF QueueMessage, Queued, TypeOK, Kind
  <2>3. last_message \in Nat /\ m # l /\ m <= last_message'
    BY <2>1 DEF TypeOK, Over
  <2> QED BY <2>1, <2>2, <2>3 DEF Over
<1>2. ASSUME last_message' = last_message, Queued' \subseteq Queued,
             \A k \in Message_Type : \/ current_message'[k] = current_message[k]
                                     \/ current_message'[k] = NoMessage
                                     \/ current_message'[k] \in Queued
      PROVE  Over(m)'
  BY <1>2 DEF Over
<1>3. ASSUME NEW c \in Wallets, CancelMessages(c)
      PROVE  Over(m)'
  <2>1. Queued' \subseteq Queued /\ UNCHANGED <<last_message, current_message>>
    BY <1>3 DEF CancelMessages, Queued
  <2> QED BY <1>2, <2>1
<1>4. ASSUME NEW t \in Threads, NEW k \in Message_Type, NEW flush_all \in BOOLEAN,
             Dispose(t, k, flush_all), last_message' = last_message
      PROVE  Over(m)'
  <2>1. Queued' \subseteq Queued
    BY <1>4 DEF Dispose, Queued
  <2>2. \A j \in Message_Type : current_message'[j] \in {current_message[j], NoMessage}
    BY <1>4 DEF Dispose, TypeOK
  <2> QED BY <1>2, <1>4, <2>1, <2>2
<1>5. ASSUME NEW l \in Messages, NEW flush_all \in BOOLEAN, RspDispose(l, flush_all)
      PROVE  Over(m)'
  <2>1. /\ Kind(l) \in Message_Type /\ "ui" \in Threads
        /\ Dispose("ui", Kind(l), flush_all) /\ last_message' = last_message
    BY <1>5 DEF RspDispose, Kind, Threads
  <2> QED BY <1>4, <2>1
<1>6. ASSUME NEW k \in Message_Type, RunDispose(k)
      PROVE  Over(m)'
  <2>1. /\ "run" \in Threads /\ (k = "send") \in BOOLEAN
        /\ Dispose("run", k, k = "send") /\ last_message' = last_message
    BY <1>6 DEF RunDispose, Threads
  <2> QED BY <1>4, <2>1
<1>7. ASSUME NEW k \in Message_Type, SelectNew(k)
      PROVE  Over(m)'
  <2>1. PICK head \in message_list[k] :
          /\ current_message' = [current_message EXCEPT ![k] = head]
          /\ message_list' = [message_list EXCEPT ![k] = message_list[k] \ {head}]
    BY <1>7 DEF SelectNew
  <2>2. head \in Queued /\ Queued' \subseteq Queued
    BY <2>1 DEF Queued, TypeOK
  <2>3. \A j \in Message_Type : current_message'[j] \in {current_message[j], head}
    BY <2>1 DEF TypeOK
  <2>4. last_message' = last_message
    BY <1>7 DEF SelectNew
  <2> QED BY <1>2, <2>2, <2>3, <2>4
<1>8. ASSUME UNCHANGED <<last_message, message_list, current_message>>
      PROVE  Over(m)'
  BY <1>8 DEF Over, Queued
<1>9. ASSUME NEW l \in Messages, RspQuery(l) \/ RspSuspend(l)
      PROVE  Over(m)'
  BY <1>8, <1>9 DEF RspQuery, RspSuspend
<1>10. ASSUME NEW k \in Message_Type, SelectSuspended(k) \/ RunQuery(k)
       PROVE  Over(m)'
  BY <1>8, <1>10 DEF SelectSuspended, RunQuery
<1>11. ASSUME NEW t \in Threads, Deliver(t)
       PROVE  Over(m)'
  BY <1>8, <1>11 DEF Deliver
<1>12. ASSUME WaitOnMonitor \/ WaitTimeout \/ Tick \/ UNCHANGED vars
       PROVE  Over(m)'
  BY <1>8, <1>12 DEF WaitOnMonitor, WaitTimeout, Tick, vars
<1> QED
  BY <1>1, <1>3, <1>5, <1>6, <1>7, <1>9, <1>10, <1>11, <1>12
  DEF Next, UiNext, RunNext, Threads

(* A message whose work ends is over. *)
LEMMA EndsOver ==
  ASSUME ConversationInv, NEW m \in Messages, NEW ok, current_message[Kind(m)] = m, Ends(m, ok)
  PROVE  Over(m)'
<1> USE Basics
<1>1. Kind(m) \in Message_Type /\ TypeOK /\ last_message \in Nat
  BY DEF Kind, ConversationInv, TypeOK
<1>2. m \notin Queued /\ m <= last_message
  BY <1>1 DEF ConversationInv, Fresh, Untouched
<1>3. m \notin Queued' /\ m <= last_message'
  BY <1>2 DEF Ends
<1>4. \A k \in Message_Type : k # Kind(m) => current_message[k] # m
  BY <1>1 DEF TypeOK
<1>5. \A k \in Message_Type : current_message'[k] # m
  BY <1>1, <1>4 DEF Ends, TypeOK
<1> QED BY <1>3, <1>5 DEF Over
-----------------------------------------------------------------------------
(* No payment is made twice.                                               *)

(* A transaction was made by a payment that is over, or by the one whose   *)
(* broadcast has just been answered; no payment made two; only a payment   *)
(* that is over has a result.                                              *)
PaymentInv ==
  /\ tx \in [Nonces -> Messages \cup {NoTx}]
  /\ result \in [Messages -> {"none", "ok", "failed"}]
  /\ drops \in Nat
  /\ mined >= StartNonce
  /\ \A n \in Nonces : tx[n] # NoTx =>
       Over(tx[n]) \/ (tx[n] = current_message["send"] /\ Accepted)
  /\ \A i, j \in Nonces : tx[i] = tx[j] /\ tx[i] # NoTx => i = j
  /\ \A m \in Messages : result[m] # "none" => Over(m)

(* Nothing has been paid at first. *)
LEMMA PaymentInit == ProcessorInit => PaymentInv
<1> SUFFICES ASSUME ProcessorInit PROVE PaymentInv
  OBVIOUS
<1>1. /\ tx = [n \in Nonces |-> NoTx]
      /\ result = [m \in Messages |-> "none"]
      /\ drops = 0 /\ mined = StartNonce
  BY DEF ProcessorInit
<1> QED BY <1>1, Numbers DEF PaymentInv

(* What the network does to the transactions. *)
LEMMA NetworkTransactions ==
  ASSUME Network
  PROVE  /\ \/ UNCHANGED <<tx, drops>>
            \/ ServeBroadcast /\ drops' = drops
            \/ \E n \in Nonces : Drop(n)
         /\ Accepted => query' = query
         /\ mined' \in {mined, mined + 1}
<1>1. CASE ServeNonce
  BY <1>1 DEF ServeNonce, chainVars, Asked, Accepted
<1>2. CASE ServeTransactions
  BY <1>2 DEF ServeTransactions, chainVars, Asked, Accepted
<1>3. CASE ServeBalance
  BY <1>3 DEF ServeBalance, chainVars, Asked, Accepted
<1>4. CASE ServeOther
  BY <1>4 DEF ServeOther, chainVars, Asked, Accepted
<1>5. CASE ServeBroadcast
  BY <1>5 DEF ServeBroadcast, NodeAccepts, Asked, Accepted
<1>6. CASE RefuseBroadcast
  BY <1>6 DEF RefuseBroadcast, chainVars, Asked, Accepted
<1>7. CASE Unreachable
  BY <1>7 DEF Unreachable, chainVars, Asked, Accepted
<1>8. CASE Mine
  BY <1>8 DEF Mine
<1>9. ASSUME NEW amount \in Deposits, Deposit(amount)
      PROVE  UNCHANGED <<tx, drops, query, mined>>
  BY <1>9 DEF Deposit
<1>10. ASSUME NEW n \in Nonces, Drop(n)
       PROVE  UNCHANGED <<query, mined>>
  BY <1>10 DEF Drop
<1> QED BY <1>1, <1>2, <1>3, <1>4, <1>5, <1>6, <1>7, <1>8, <1>9, <1>10 DEF Network

(* An accepted broadcast is the first transaction of the current payment,  *)
(* under a nonce that had none.                                            *)
LEMMA AcceptedBroadcast ==
  ASSUME QueryInv, PaymentInv, DataOK, ServeBroadcast
  PROVE  /\ current_message["send"] \in Messages
         /\ query.nonce \in Nonces
         /\ tx[query.nonce] = NoTx
         /\ tx' = [tx EXCEPT ![query.nonce] = current_message["send"]]
         /\ \A n \in Nonces : tx[n] # current_message["send"]
         /\ query'.of = "broadcast"
         /\ query'.nonce = query.nonce
         /\ query'.answer = "ok" \/ (MayLoseReply /\ query'.answer = "error")
         /\ UNCHANGED <<vars, prefs, clientVars, now_sec, mined, chain_balance, drops>>
<1> USE Basics
<1>1. query.of = "broadcast" /\ query.answer = "none"
  BY DEF ServeBroadcast, NodeAccepts, Asked
<1>2. query \in Queries
  BY <1>1 DEF DataOK, NoQuery
<1>3. current_message["send"] \in Messages
  BY <1>1 DEF QueryInv
<1>4. query.nonce \in Nonces /\ query.nonce \notin Pool /\ query.nonce >= mined
  BY DEF ServeBroadcast, NodeAccepts
<1>5. tx[query.nonce] = NoTx
  BY <1>4 DEF Pool
<1>6. \A n \in Nonces : tx[n] # current_message["send"]
  BY <1>1, <1>3 DEF PaymentInv, Over, Accepted, NoTx, NoMessage
<1>7. PICK answer \in {"ok"} \cup IF MayLoseReply THEN {"error"} ELSE {} : Answers(answer, 0)
  BY DEF ServeBroadcast, NodeAccepts
<1>8. query' = [query EXCEPT !.answer = answer, !.value = 0]
  BY <1>7 DEF Answers
<1>9. query'.of = query.of /\ query'.nonce = query.nonce /\ query'.answer = answer
  BY <1>2, <1>8 DEF Queries
<1> QED
  BY <1>1, <1>3, <1>4, <1>5, <1>6, <1>7, <1>9 DEF ServeBroadcast, NodeAccepts, Asked, NetworkStep

(* What work on messages does to the transactions' invariant. *)
LEMMA WorkKeepsPayments ==
  ASSUME ConversationInv, PaymentInv, NEW m \in Messages, current_message[Kind(m)] = m,
         [Next]_vars, UNCHANGED chainVars,
         \/ ~Accepted /\ (Goes(m) \/ Waits(m))
         \/ (Accepted => m = current_message["send"]) /\ \E ok \in BOOLEAN : Ends(m, ok)
  PROVE  PaymentInv'
<1> USE Basics
<1>1. \A l \in Messages : Over(l) => Over(l)'
  BY OverStable DEF ConversationInv
<1>2. UNCHANGED <<tx, drops, mined>>
  BY DEF chainVars
<1>3. \A n \in Nonces : tx[n] # NoTx => tx[n] \in Messages
  BY DEF PaymentInv
<1>4. CASE ~Accepted /\ (Goes(m) \/ Waits(m))
  <2>1. result' = result
    BY <1>4 DEF Goes, Waits
  <2> QED BY <1>1, <1>2, <1>3, <1>4, <2>1 DEF PaymentInv
<1>5. ASSUME NEW ok \in BOOLEAN, Ends(m, ok), Accepted => m = current_message["send"]
      PROVE  PaymentInv'
  <2>1. Over(m)'
    BY <1>5, EndsOver
  <2>2. \A n \in Nonces : tx[n] # NoTx => Over(tx[n])'
    BY <1>1, <1>2, <1>3, <1>5, <2>1 DEF PaymentInv
  <2>3. \A l \in Messages : l # m => result'[l] = result[l]
    BY <1>5 DEF Ends, Report, PaymentInv
  <2>4. result' \in [Messages -> {"none", "ok", "failed"}]
    BY <1>5 DEF Ends, Report, PaymentInv
  <2>5. \A l \in Messages : result'[l] # "none" => Over(l)'
    BY <1>1, <2>1, <2>3 DEF PaymentInv
  <2> QED BY <1>2, <2>2, <2>4, <2>5 DEF PaymentInv
<1> QED BY <1>4, <1>5

(* PaymentInv is inductive relative to the invariants it is built on. *)
LEMMA PaymentStep ==
  ASSUME NonceInv, ConversationInv, QueryInv, PaymentInv, [ProcessorNext]_processorVars
  PROVE  PaymentInv'
<1> USE Basics
<1>0. [Next]_vars /\ TypeOK /\ DataOK
  BY ProcessorStep DEF ConversationInv, NonceInv
<1>1. \A l \in Messages : Over(l) => Over(l)'
  BY <1>0, OverStable
<1>2. \A n \in Nonces : tx[n] # NoTx => tx[n] \in Messages
  BY DEF PaymentInv
<1>3. ASSUME NEW k \in Message_Type, ProcessMessage(k)
      PROVE  PaymentInv'
  <2> DEFINE m == current_message[k]
  <2>1. /\ m \in Messages /\ Kind(m) = k /\ query = NoQuery /\ UNCHANGED chainVars
        /\ Goes(m) \/ Ends(m, Kind(m) = "balance")
    BY <1>3, ProcessWorks
  <2>2. ~Accepted /\ (Kind(m) = "balance") \in BOOLEAN
    BY <2>1 DEF Accepted, NoQuery
  <2> QED BY <1>0, <2>1, <2>2, WorkKeepsPayments
<1>4. ASSUME NEW m \in Messages, HandleResponse(m)
      PROVE  PaymentInv'
  <2>1. /\ current_message[Kind(m)] = m
        /\ UNCHANGED chainVars
        /\ Accepted => m = current_message["send"]
        /\ \/ ~Accepted /\ (Goes(m) \/ Waits(m))
           \/ Ends(m, Kind(m) = "balance") \/ Ends(m, TRUE) \/ Ends(m, FALSE)
    BY <1>4, ResponseWorks DEF Accepted
  <2>2. (Kind(m) = "balance") \in BOOLEAN
    OBVIOUS
  <2> QED BY <1>0, <2>1, <2>2, WorkKeepsPayments
<1>5. ASSUME UNCHANGED <<tx, result, drops, mined, query>>,
             current_message["send"] \in Messages /\ Accepted =>
               current_message'["send"] = current_message["send"]
      PROVE  PaymentInv'
  <2>1. Accepted' <=> Accepted
    BY <1>5 DEF Accepted
  <2> QED BY <1>1, <1>2, <1>5, <2>1 DEF PaymentInv
<1>6. CASE Schedule
  <2>1. UNCHANGED <<tx, result, drops, mined, query>>
    BY <1>6 DEF Schedule, clientVars, chainVars
  <2>2. Accepted => current_message'["send"] = current_message["send"]
    <3>1. Accepted => Accepted'
      BY <2>1 DEF Accepted
    <3>2. ASSUME Accepted, NEW k \in Message_Type, SelectNew(k)
          PROVE  current_message'["send"] = current_message["send"]
      <4>1. k # "send"
        BY <3>2 DEF SelectNew, Takeable, Accepted, QueryInv
      <4> QED BY <1>0, <3>2, <4>1 DEF SelectNew, TypeOK
    <3> QED BY <1>6, <3>2 DEF Schedule, QueueMessage, CancelMessages, Deliver, SelectSuspended,
               WaitOnMonitor, WaitTimeout
  <2> QED BY <1>5, <2>1, <2>2
<1>7. CASE Network
  <2>1. UNCHANGED <<vars, result>>
    BY <1>0, <1>7, NetworkAnswers DEF clientVars
  <2>2. UNCHANGED current_message /\ (Accepted => query' = query)
        /\ mined' >= StartNonce
    BY <1>0, <1>7, <2>1, NetworkTransactions, Numbers DEF vars, PaymentInv, DataOK
  <2>3. (Accepted => Accepted') /\ (\A m \in Messages : result'[m] # "none" => Over(m)')
    BY <1>1, <2>1, <2>2 DEF Accepted, PaymentInv
  <2>4. CASE UNCHANGED <<tx, drops>>
    BY <1>1, <1>2, <2>1, <2>2, <2>3, <2>4 DEF PaymentInv
  <2>5. CASE ServeBroadcast
    <3>1. /\ current_message["send"] \in Messages
          /\ query.nonce \in Nonces
          /\ tx' = [tx EXCEPT ![query.nonce] = current_message["send"]]
          /\ \A n \in Nonces : tx[n] # current_message["send"]
          /\ drops' = drops
          /\ Accepted'
      BY <1>0, <2>5, AcceptedBroadcast DEF Accepted
    <3>2. tx' \in [Nonces -> Messages \cup {NoTx}]
      BY <3>1 DEF PaymentInv
    <3>3. \A n \in Nonces : \/ tx'[n] = tx[n]
                            \/ n = query.nonce /\ tx'[n] = current_message["send"]
      BY <3>1 DEF PaymentInv
    <3>4. \A n \in Nonces : tx'[n] # NoTx =>
            Over(tx[n])' \/ (tx'[n] = current_message'["send"] /\ Accepted')
      BY <1>1, <1>2, <2>2, <3>1, <3>3 DEF PaymentInv
    <3>5. \A i, j \in Nonces : tx'[i] = tx'[j] /\ tx'[i] # NoTx => i = j
      BY <3>1, <3>3 DEF PaymentInv
    <3> QED BY <2>1, <2>2, <2>3, <3>1, <3>2, <3>4, <3>5 DEF PaymentInv
  <2>6. ASSUME NEW n \in Nonces, Drop(n)
        PROVE  PaymentInv'
    <3>1. tx' = [tx EXCEPT ![n] = NoTx] /\ drops' = drops + 1
      BY <2>6 DEF Drop
    <3>2. tx' \in [Nonces -> Messages \cup {NoTx}]
          /\ \A i \in Nonces : tx'[i] # NoTx => tx'[i] = tx[i]
      BY <3>1 DEF PaymentInv
    <3>3. drops' \in Nat
      BY <3>1 DEF PaymentInv
    <3>4. \A i \in Nonces : tx'[i] # NoTx =>
            Over(tx[i])' \/ (tx'[i] = current_message'["send"] /\ Accepted')
      BY <1>1, <1>2, <2>2, <2>3, <3>2 DEF PaymentInv
    <3>5. \A i, j \in Nonces : tx'[i] = tx'[j] /\ tx'[i] # NoTx => i = j
      BY <3>2 DEF PaymentInv
    <3> QED BY <2>1, <2>2, <2>3, <3>2, <3>3, <3>4, <3>5 DEF PaymentInv
  <2> QED BY <1>7, <2>4, <2>5, <2>6, NetworkTransactions
<1>8. CASE Elapse \/ UNCHANGED processorVars
  <2>1. UNCHANGED <<tx, result, drops, mined, query, current_message>>
    BY <1>8 DEF Elapse, Tick, vars, clientVars, chainVars, processorVars
  <2> QED BY <1>5, <2>1
<1> QED BY <1>3, <1>4, <1>6, <1>7, <1>8 DEF ProcessorNext
(* Everything about the processor that its payments rest on. *)
ProcessorInv == NonceInv /\ ConversationInv /\ QueryInv /\ PaymentInv

(* The invariants together, of a new process on a new account. *)
LEMMA ProcessorInvInit == ProcessorInit => ProcessorInv
<1> SUFFICES ASSUME ProcessorInit PROVE ProcessorInv
  OBVIOUS
<1>1. Init
  BY DEF ProcessorInit
<1> QED BY <1>1, NonceInit, ConversationInit, QueryInit, PaymentInit DEF ProcessorInv

(* The invariants together are inductive. *)
LEMMA ProcessorInvStep == ProcessorInv /\ [ProcessorNext]_processorVars => ProcessorInv'
<1> SUFFICES ASSUME ProcessorInv, [ProcessorNext]_processorVars
             PROVE  ProcessorInv'
  OBVIOUS
<1>1. NonceInv /\ ConversationInv /\ QueryInv /\ PaymentInv /\ TypeOK
  BY DEF ProcessorInv, ConversationInv
<1>2. ConversationInv'
  BY <1>1, ProcessorStep, ConversationStep
<1>3. NonceInv'
  BY <1>1, NonceStep
<1>4. QueryInv' /\ PaymentInv'
  BY <1>1, QueryStep, PaymentStep
<1> QED BY <1>2, <1>3, <1>4 DEF ProcessorInv

(* What has been written to the file is what the preferences once were.    *)
FileInv == Safe(file)

(* A broadcast on its way is of a payment that is over and has made no     *)
(* transaction, and no payment has two on their way.                       *)
FlightInv ==
  /\ \A b \in in_flight :
       /\ b.of \in Messages
       /\ Over(b.of)
       /\ \A n \in Nonces : tx[n] # b.of
  /\ \A a, b \in in_flight : a.of = b.of => a = b

RestartInv == ProcessorInv /\ FileInv /\ FlightInv

(* The killed app keeps what is over, and starts with nothing else. *)
LEMMA KillKeepsInv ==
  ASSUME RestartInv, Kill
  PROVE  RestartInv'
<1> USE Basics
<1>1. NonceInv /\ ConversationInv /\ QueryInv /\ PaymentInv /\ Safe(file) /\ DataOK
  BY DEF RestartInv, ProcessorInv, FileInv, NonceInv
<1>2. /\ message_list' = [k \in Message_Type |-> {}]
      /\ current_message' = [k \in Message_Type |-> NoMessage]
      /\ client_map' = [c \in Clients |-> 0]
      /\ timer' = [m \in Messages |-> NotWaiting]
      /\ http' = [m \in Messages |-> 0]
      /\ run_pc' = "loop"
      /\ delivering' = [t \in Threads |-> NoMessage]
      /\ outcome' = [m \in Messages |-> IF outcome[m] = "pending" THEN "flushed" ELSE outcome[m]]
      /\ UNCHANGED <<last_message, client, is_suspended>>
  BY DEF Kill, Become
<1>3. /\ prefs' = file /\ query' = NoQuery
      /\ UNCHANGED <<nonce, result, now_sec, mined, chain_balance, tx, drops, file>>
  BY DEF Kill, Restarted, chainVars
<1>4. TypeOK'
  <2>1. TypeOK
    BY <1>1 DEF ConversationInv
  <2>2. outcome' \in [Messages -> {"new", "pending", "answered", "cancelled", "flushed"}]
    BY <1>2, <2>1 DEF TypeOK
  <2> QED BY <1>2, <2>1, <2>2 DEF TypeOK, NotWaiting
<1>5. Queued' = {} /\ \A k \in Message_Type : ~Active(k)' /\ current_message'[k] = NoMessage
  BY <1>2 DEF Queued, Active
<1>6. Fresh'
  BY <1>1, <1>2, <1>5 DEF Fresh, Untouched, ConversationInv
<1>7. OneConversation'
  BY <1>2, <1>5 DEF OneConversation
<1>8. Selection'
  BY <1>2, <1>5 DEF Selection
<1>9. ConversationInv'
  BY <1>4, <1>6, <1>7, <1>8 DEF ConversationInv
<1>10. NonceInv' /\ FileInv'
  BY <1>1, <1>3 DEF NonceInv, DataOK, AnswerTrue, VerifiedIsOnChain, Safe, FileInv
<1>11. QueryInv'
  BY <1>2, <1>3 DEF QueryInv, NoQuery
<1>12. \A m \in Messages : m <= last_message => Over(m)'
  BY <1>2, <1>5 DEF Over
<1>13. \A n \in Nonces : tx[n] # NoTx => tx[n] \in Messages /\ tx[n] <= last_message
  <2> SUFFICES ASSUME NEW n \in Nonces, tx[n] # NoTx
               PROVE  tx[n] \in Messages /\ tx[n] <= last_message
    OBVIOUS
  <2>1. tx[n] \in Messages
    BY <1>1 DEF PaymentInv
  <2>2. CASE Over(tx[n])
    BY <2>1, <2>2 DEF Over
  <2>3. CASE tx[n] = current_message["send"]
    <3>1. ~(tx[n] > last_message)
      BY <1>1, <2>1, <2>3 DEF ConversationInv, Fresh, Untouched
    <3>2. tx[n] \in Nat
      BY <2>1
    <3>3. last_message \in Nat
      BY <1>1 DEF ConversationInv, TypeOK
    <3> QED BY <2>1, <3>1, <3>2, <3>3
  <2> QED BY <1>1, <2>1, <2>2, <2>3 DEF PaymentInv
<1>14. \A n \in Nonces : tx[n] # NoTx => Over(tx[n])'
  BY <1>3, <1>12, <1>13
<1>15. \A m \in Messages : result'[m] # "none" => Over(m)'
  BY <1>1, <1>3, <1>12 DEF PaymentInv, Over
<1>16. PaymentInv'
  BY <1>1, <1>3, <1>14, <1>15 DEF PaymentInv
<1>17. ASSUME query.of = "broadcast", query.answer = "none"
       PROVE  /\ current_message["send"] \in Messages
              /\ current_message["send"] <= last_message'
              /\ ~Over(current_message["send"])
              /\ \A n \in Nonces : tx[n] # current_message["send"]
  <2>1. current_message["send"] \in Messages
    BY <1>1, <1>17 DEF QueryInv
  <2>2. ~Over(current_message["send"])
    BY <2>1 DEF Over
  <2>3. ~(current_message["send"] > last_message)
    BY <1>1, <2>1 DEF ConversationInv, Fresh, Untouched
  <2>4. last_message \in Nat
    BY <1>1 DEF ConversationInv, TypeOK
  <2>5. current_message["send"] \in Nat
    BY <2>1
  <2>6. current_message["send"] <= last_message
    BY <2>3, <2>4, <2>5
  <2>8. UNCHANGED last_message /\ current_message["send"] \notin Queued'
    BY <1>2, <1>5
  <2>9. last_message' = last_message /\ current_message["send"] <= last_message'
    BY <2>6, <2>8
  <2>10. \A n \in Nonces : tx[n] # current_message["send"]
    BY <1>1, <1>17, <2>1, <2>2 DEF PaymentInv, Accepted, NoTx, NoMessage
  <2> QED BY <2>1, <2>2, <2>9, <2>10
<1>18. FlightInv'
  <2>1. FlightInv /\ in_flight' = in_flight \cup Unserved
    BY DEF RestartInv, Kill
  <2>2. \A b \in in_flight : b.of \in Messages /\ Over(b.of) /\ Over(b.of)'
    <3> SUFFICES ASSUME NEW b \in in_flight PROVE b.of \in Messages /\ Over(b.of) /\ Over(b.of)'
      OBVIOUS
    <3>1. b.of \in Messages /\ Over(b.of)
      BY <2>1 DEF FlightInv
    <3> QED BY <1>2, <1>5, <3>1 DEF Over
  <2>3. CASE Unserved = {}
    BY <1>3, <2>1, <2>2, <2>3 DEF FlightInv
  <2>4. CASE Unserved # {}
    <3>1. query.of = "broadcast" /\ query.answer = "none"
      BY <2>4 DEF Unserved
    <3> DEFINE w == [of |-> current_message["send"], nonce |-> query.nonce]
    <3>2. Unserved = {w} /\ w.of = current_message["send"]
      BY <3>1 DEF Unserved
    <3> HIDE DEF w
    <3>3. PICK u : Unserved = {u} /\ u.of = current_message["send"]
      BY <3>2
    <3>4. u.of \in Messages /\ ~Over(u.of) /\ \A n \in Nonces : tx[n] # u.of
      BY <1>17, <3>1, <3>3
    <3>5. \A b \in in_flight : b.of # u.of
      BY <2>2, <3>4
    <3>6. \A k \in Message_Type : current_message'[k] # u.of
      BY <1>5, <3>4
    <3>7. u.of <= last_message' /\ u.of \notin Queued'
      BY <1>5, <1>17, <3>1, <3>3
    <3>8. \A b \in in_flight' : \/ b \in in_flight
                               \/ b = u
      BY <2>1, <3>3
    <3>9. Over(u.of)'
      BY <3>6, <3>7 DEF Over
    <3>10. \A b \in in_flight' :
             b.of \in Messages /\ Over(b.of)' /\ \A n \in Nonces : tx'[n] # b.of
      <4> SUFFICES ASSUME NEW b \in in_flight'
                   PROVE  b.of \in Messages /\ Over(b.of)' /\ \A n \in Nonces : tx'[n] # b.of
        OBVIOUS
      <4>1. CASE b \in in_flight
        BY <1>3, <2>1, <2>2, <4>1 DEF FlightInv
      <4>2. CASE b = u
        BY <1>3, <3>4, <3>9, <4>2 DEF Over
      <4> QED BY <3>8, <4>1, <4>2
    <3>11. \A a, b \in in_flight' : a.of = b.of => a = b
      BY <2>1, <3>5, <3>8 DEF FlightInv
    <3> QED BY <3>10, <3>11 DEF FlightInv
  <2> QED BY <2>3, <2>4
<1> QED BY <1>9, <1>10, <1>11, <1>16, <1>18 DEF RestartInv, ProcessorInv

(* So does the arrival of a broadcast whose sender is gone. *)
LEMMA ArrivalKeepsInv ==
  ASSUME RestartInv, NEW b \in in_flight, Arrive(b)
  PROVE  RestartInv'
<1> USE Basics
<1>1. NonceInv /\ ConversationInv /\ QueryInv /\ PaymentInv /\ FileInv /\ FlightInv /\ DataOK
  BY DEF RestartInv, ProcessorInv, NonceInv
<1>2. /\ UNCHANGED <<vars, prefs, clientVars, query, now_sec, file, mined, chain_balance, drops>>
      /\ in_flight' = in_flight \ {b}
  BY DEF Arrive, NodeAccepts, chainVars
<1>3. /\ UNCHANGED <<last_message, client, message_list, current_message, client_map,
                     is_suspended, timer, http, run_pc, delivering, outcome>>
      /\ UNCHANGED <<nonce, result>>
  BY <1>2 DEF vars, clientVars
<1>4. \A m \in Messages : Over(m)' <=> Over(m)
  BY <1>3 DEF Over, Queued
<1>5. ConversationInv'
  BY <1>1, <1>2, ConversationStep
<1>6. NonceInv' /\ FileInv' /\ QueryInv'
  BY <1>1, <1>2, <1>3 DEF NonceInv, DataOK, AnswerTrue, VerifiedIsOnChain, Safe, FileInv, QueryInv
<1>7. Accepted' <=> Accepted
  BY <1>2 DEF Accepted
<1>8. CASE UNCHANGED chainVars
  <2>1. PaymentInv' /\ FlightInv'
    BY <1>1, <1>2, <1>3, <1>4, <1>7, <1>8 DEF PaymentInv, FlightInv, chainVars
  <2> QED BY <1>5, <1>6, <2>1 DEF RestartInv, ProcessorInv
<1>9. CASE NodeAccepts(b.of, b.nonce)
  <2>1. /\ b.of \in Messages /\ Over(b.of) /\ \A n \in Nonces : tx[n] # b.of
        /\ b.nonce \in Nonces
        /\ tx' = [tx EXCEPT ![b.nonce] = b.of]
    BY <1>1, <1>9 DEF FlightInv, NodeAccepts
  <2>2. tx' \in [Nonces -> Messages \cup {NoTx}]
    BY <1>1, <2>1 DEF PaymentInv
  <2>3. \A n \in Nonces : tx'[n] = tx[n] \/ (n = b.nonce /\ tx'[n] = b.of)
    BY <1>1, <2>1 DEF PaymentInv
  <2>4. \A n \in Nonces : tx'[n] # NoTx =>
          Over(tx[n])' \/ (tx'[n] = current_message'["send"] /\ Accepted')
    <3> SUFFICES ASSUME NEW n \in Nonces, tx'[n] # NoTx
                 PROVE  Over(tx[n])' \/ (tx'[n] = current_message'["send"] /\ Accepted')
      OBVIOUS
    <3>1. CASE tx'[n] = b.of
      <4>1. Over(b.of)'
        BY <1>4, <2>1, b.of' = b.of
      <4> QED BY <3>1, <4>1 DEF Over
    <3>2. CASE tx'[n] = tx[n]
      <4>1. tx[n] \in Messages
        BY <1>1, <3>2 DEF PaymentInv
      <4>2. Over(tx[n]) \/ (tx[n] = current_message["send"] /\ Accepted)
        BY <1>1, <3>2 DEF PaymentInv
      <4>3. Over(tx[n]) => Over(tx[n])'
        BY <1>3, <3>2 DEF Over, Queued
      <4> QED BY <1>3, <1>7, <3>2, <4>2, <4>3
    <3> QED BY <2>3, <3>1, <3>2
  <2>5. \A i, j \in Nonces : tx'[i] = tx'[j] /\ tx'[i] # NoTx => i = j
    BY <1>1, <2>1, <2>3 DEF PaymentInv
  <2>6. PaymentInv'
    BY <1>1, <1>2, <1>3, <1>4, <2>2, <2>4, <2>5 DEF PaymentInv
  <2>7. \A a \in in_flight : a # b => a.of # b.of
    BY <1>1 DEF FlightInv
  <2>8. FlightInv'
    BY <1>1, <1>2, <1>4, <2>1, <2>3, <2>7 DEF FlightInv
  <2> QED BY <1>5, <1>6, <2>6, <2>8 DEF RestartInv, ProcessorInv
<1> QED BY <1>8, <1>9 DEF Arrive

(* What the processor does leaves the broadcasts on their way alone: the   *)
(* payment whose transaction is accepted is a current one, not over.       *)
LEMMA FlightStays ==
  ASSUME RestartInv, [ProcessorNext]_processorVars, in_flight' = in_flight
  PROVE  FlightInv'
<1> USE Basics
<1>1. /\ NonceInv /\ ConversationInv /\ QueryInv /\ PaymentInv /\ FlightInv /\ DataOK /\ TypeOK
      /\ [Next]_vars
  BY ProcessorStep DEF RestartInv, ProcessorInv, NonceInv, ConversationInv
<1>2. \A l \in Messages : Over(l) => Over(l)'
  BY <1>1, OverStable
<1>3. ASSUME \A n \in Nonces : tx'[n] = tx[n] \/ tx'[n] = NoTx \/ ~Over(tx'[n])
      PROVE  FlightInv'
  BY <1>1, <1>2, <1>3 DEF FlightInv, NoTx, NoMessage
<1>4. ASSUME UNCHANGED tx PROVE FlightInv'
  BY <1>3, <1>4
<1>5. ASSUME NEW k \in Message_Type, ProcessMessage(k)
      PROVE  UNCHANGED tx
  BY <1>5 DEF ProcessMessage, chainVars
<1>6. ASSUME NEW m \in Messages, HandleResponse(m)
      PROVE  UNCHANGED tx
  BY <1>1, <1>6, ResponseChoice DEF chainVars
<1>7. CASE Schedule \/ Elapse \/ UNCHANGED processorVars
  BY <1>4, <1>7 DEF Schedule, Elapse, processorVars, chainVars
<1>8. CASE Network
  <2>1. CASE UNCHANGED tx
    BY <1>4, <2>1
  <2>2. CASE ServeBroadcast
    <3>1. /\ current_message["send"] \in Messages
          /\ tx' = [tx EXCEPT ![query.nonce] = current_message["send"]]
      BY <1>1, <2>2, AcceptedBroadcast
    <3>2. ~Over(current_message["send"])
      BY <3>1 DEF Over
    <3>3. \A n \in Nonces : tx'[n] \in {tx[n], current_message["send"]}
      BY <1>1, <3>1 DEF PaymentInv
    <3> QED BY <1>1, <1>2, <3>1, <3>2, <3>3 DEF FlightInv
  <2>3. ASSUME NEW n \in Nonces, Drop(n) PROVE FlightInv'
    <3>1. tx' = [tx EXCEPT ![n] = NoTx]
      BY <2>3 DEF Drop
    <3>2. \A i \in Nonces : tx'[i] = tx[i] \/ tx'[i] = NoTx
      BY <1>1, <3>1 DEF PaymentInv
    <3> QED BY <1>3, <3>2
  <2> QED BY <1>8, <2>1, <2>2, <2>3, NetworkTransactions
<1> QED BY <1>4, <1>5, <1>6, <1>7, <1>8 DEF ProcessorNext

(* They survive a kill, with what is known of the file. *)
LEMMA RestartInvStep == RestartInv /\ [RestartNext]_restartVars => RestartInv'
<1> SUFFICES ASSUME RestartInv, [RestartNext]_restartVars
             PROVE  RestartInv'
  OBVIOUS
<1>1. ASSUME [ProcessorNext]_processorVars, file' \in {file, prefs}, in_flight' = in_flight
      PROVE  RestartInv'
  <2>1. ProcessorInv' /\ NonceInv
    BY <1>1, ProcessorInvStep DEF RestartInv, ProcessorInv
  <2>2. mined' >= mined /\ mined \in Nat /\ mined' \in Nat
    <3>1. UNCHANGED mined \/ Network
      <4>1. ASSUME NEW k \in Message_Type, ProcessMessage(k)
            PROVE  UNCHANGED mined
        BY <4>1 DEF ProcessMessage, chainVars
      <4>2. ASSUME NEW m \in Messages, HandleResponse(m)
            PROVE  UNCHANGED mined
        BY <2>1, <4>2, ResponseChoice DEF chainVars
      <4> QED BY <1>1, <4>1, <4>2
              DEF ProcessorNext, Schedule, Elapse, processorVars, chainVars
    <3> QED BY <2>1, <3>1, NetworkTransactions DEF NonceInv, DataOK, ProcessorInv
  <2>3. Safe(file) /\ Safe(prefs)
    BY <2>1 DEF RestartInv, FileInv, Safe, NonceInv, DataOK, VerifiedIsOnChain
  <2>4. FileInv'
    BY <1>1, <2>2, <2>3 DEF FileInv, Safe, Preferences
  <2>5. FlightInv'
    BY <1>1, FlightStays
  <2> QED BY <2>1, <2>4, <2>5 DEF RestartInv
<1>2. CASE ProcessorNext /\ UNCHANGED <<file, kills, in_flight>>
  BY <1>1, <1>2
<1>3. CASE WriteFile
  BY <1>1, <1>3 DEF WriteFile
<1>4. CASE Kill
  BY <1>4, KillKeepsInv
<1>5. CASE UNCHANGED restartVars
  BY <1>1, <1>5 DEF restartVars
<1>6. CASE \E b \in in_flight : Arrive(b)
  BY <1>6, ArrivalKeepsInv
<1> QED BY <1>2, <1>3, <1>4, <1>5, <1>6 DEF RestartNext

(* They hold of an app that may be killed. *)
LEMMA RestartInvAlways == RestartSpec => []RestartInv
<1>1. RestartInit => RestartInv
  BY ProcessorInvInit DEF RestartInit, RestartInv, FileInv, FlightInv, ProcessorInv, NonceInv, DataOK,
     VerifiedIsOnChain, Safe
<1> QED BY <1>1, RestartInvStep, PTL DEF RestartSpec

(* A payment is accepted by the network at most once, however often the    *)
(* app is killed, whatever it had written to its file, whatever the        *)
(* network answers, loses or forgets: no handler broadcasts a payment      *)
(* again whose broadcast may have been accepted.                           *)
THEOREM PaymentsAreMadeOnce == RestartSpec => []PaidOnce
<1>1. ASSUME RestartInv PROVE PaidOnce
  <2> SUFFICES ASSUME NEW m \in Messages
               PROVE  Cardinality({n \in Nonces : tx[n] = m}) <= 1
    BY DEF PaidOnce
  <2>1. m # NoTx
    BY Basics DEF NoTx, NoMessage
  <2>2. \A i, j \in Nonces : tx[i] = m /\ tx[j] = m => i = j
    BY <1>1, <2>1 DEF RestartInv, ProcessorInv, PaymentInv
  <2>3. {n \in Nonces : tx[n] = m} = {} \/ \E n \in Nonces : {i \in Nonces : tx[i] = m} = {n}
    BY <2>2
  <2>4. Cardinality({n \in Nonces : tx[n] = m}) \in {0, 1}
    BY <2>3, FS_EmptySet, FS_Singleton
  <2> QED BY <2>4
<1> QED BY <1>1, RestartInvAlways, PTL
-----------------------------------------------------------------------------
(* Clients are told the truth, when the reply to an accepted broadcast     *)
(* arrives and the network forgets no transaction.                         *)

(* The transactions are those of the payments reported as made, and of the *)
(* one that is just about to be.                                           *)
ReportInv ==
  /\ \A n \in Nonces : tx[n] # NoTx =>
       \/ result[tx[n]] = "ok"
       \/ /\ tx[n] = current_message["send"]
          /\ query.of = "broadcast" /\ query.answer = "ok"
  /\ \A m \in Messages : Kind(m) = "send" /\ result[m] = "ok" => \E n \in Nonces : tx[n] = m
  /\ query.of = "broadcast" /\ query.answer = "ok" =>
       \E n \in Nonces : tx[n] = current_message["send"]

(* Work on a message keeps the reports true: it ends it with a success     *)
(* only on an accepted broadcast, and with a failure only on an answer     *)
(* that is none.                                                           *)
LEMMA WorkKeepsReports ==
  ASSUME ProcessorInv, ReportInv, UNCHANGED chainVars,
         NEW m \in Messages, current_message[Kind(m)] = m,
         query.of = "broadcast" => m = current_message["send"],
         \/ ~Accepted /\ (Goes(m) \/ Waits(m) \/ Ends(m, Kind(m) = "balance"))
         \/ query.of = "broadcast" /\ query.answer = "ok" /\ Ends(m, TRUE)
         \/ query.answer = "error" /\ Ends(m, FALSE)
  PROVE  ReportInv'
<1> USE Basics
<1>1. /\ tx' = tx /\ tx \in [Nonces -> Messages \cup {NoTx}]
      /\ result \in [Messages -> {"none", "ok", "failed"}]
      /\ TypeOK
  BY DEF chainVars, ProcessorInv, PaymentInv, ConversationInv
<1>2. query'.of = "broadcast" => query'.answer = "none"
  <2>1. query'.answer = "none" \/ query' = NoQuery
    BY DEF Goes, Waits, Ends
  <2> QED BY <2>1 DEF NoQuery
<1>3. client' = client /\ \A l \in Messages : Kind(l)' = Kind(l)
  BY DEF Goes, Waits, Ends, Kind
<1>4. result[m] = "none"
  <2>1. Kind(m) \in Message_Type
    BY DEF Kind
  <2>2. ~Over(m)
    BY <2>1 DEF Over
  <2> QED BY <1>1, <2>2 DEF ProcessorInv, PaymentInv
<1>5. CASE ~Accepted /\ (Goes(m) \/ Waits(m))
  <2>1. result' = result
    BY <1>5 DEF Goes, Waits
  <2>2. \A n \in Nonces : tx[n] # NoTx => result[tx[n]] = "ok"
    BY <1>5 DEF ReportInv, Accepted
  <2> QED BY <1>1, <1>2, <1>3, <2>1, <2>2 DEF ReportInv
<1>6. CASE ~Accepted /\ Ends(m, Kind(m) = "balance")
  <2>1. \A n \in Nonces : tx[n] # NoTx => result[tx[n]] = "ok" /\ tx[n] # m
    BY <1>4, <1>6 DEF ReportInv, Accepted
  <2>2. /\ result' = [result EXCEPT ![m] = IF Kind(m) = "balance" THEN "ok" ELSE "failed"]
    BY <1>6 DEF Ends, Report
  <2>3. \A l \in Messages : l # m => result'[l] = result[l]
    BY <1>1, <2>2
  <2>4. Kind(m) = "send" => result'[m] # "ok"
    BY <1>1, <2>2
  <2>5. \A n \in Nonces : tx'[n] # NoTx => result'[tx'[n]] = "ok"
    <3>1. \A n \in Nonces : tx[n] # NoTx => tx[n] \in Messages
      BY <1>1
    <3> QED BY <1>1, <2>1, <2>3, <3>1
  <2>6. \A l \in Messages : Kind(l)' = "send" /\ result'[l] = "ok" => \E n \in Nonces : tx'[n] = l
    BY <1>1, <1>3, <2>3, <2>4 DEF ReportInv
  <2> QED BY <1>2, <2>5, <2>6 DEF ReportInv
<1>7. CASE query.of = "broadcast" /\ query.answer = "ok" /\ Ends(m, TRUE)
  <2>1. result' = [result EXCEPT ![m] = "ok"] /\ m = current_message["send"]
    BY <1>7 DEF Ends, Report
  <2>2. \A n \in Nonces : tx'[n] # NoTx => result'[tx'[n]] = "ok"
    BY <1>1, <2>1 DEF ReportInv
  <2>3. \A l \in Messages : Kind(l)' = "send" /\ result'[l] = "ok" => \E n \in Nonces : tx'[n] = l
    BY <1>1, <1>3, <1>7, <2>1 DEF ReportInv
  <2> QED BY <1>2, <2>2, <2>3 DEF ReportInv
<1>8. CASE query.answer = "error" /\ Ends(m, FALSE)
  <2>1. result' = [result EXCEPT ![m] = "failed"]
    BY <1>8 DEF Ends, Report
  <2>2. \A n \in Nonces : tx[n] # NoTx => result[tx[n]] = "ok" /\ tx[n] # m
    BY <1>4, <1>8 DEF ReportInv
  <2>3. \A n \in Nonces : tx'[n] # NoTx => result'[tx'[n]] = "ok"
    BY <1>1, <2>1, <2>2
  <2>4. \A l \in Messages : Kind(l)' = "send" /\ result'[l] = "ok" => \E n \in Nonces : tx'[n] = l
    BY <1>1, <1>3, <2>1 DEF ReportInv
  <2> QED BY <1>2, <2>3, <2>4 DEF ReportInv
<1> QED BY <1>5, <1>6, <1>7, <1>8
(* Only the network's forgetting counts up drops, and nothing counts down. *)
LEMMA DropsCount ==
  ASSUME ProcessorInv, [ProcessorNext]_processorVars, drops' = 0
  PROVE  /\ drops = 0
         /\ Network => \/ UNCHANGED <<tx, drops>>
                       \/ ServeBroadcast
<1>1. drops \in Nat /\ NonceInv /\ ConversationInv /\ QueryInv
  BY DEF ProcessorInv, PaymentInv
<1>2. ASSUME NEW n \in Nonces, Drop(n)
      PROVE  FALSE
  BY <1>1, <1>2 DEF Drop
<1>3. CASE Network
  BY <1>2, <1>3, NetworkTransactions
<1>4. ASSUME NEW k \in Message_Type, ProcessMessage(k)
      PROVE  drops' = drops
  BY <1>4 DEF ProcessMessage, chainVars
<1>5. ASSUME NEW m \in Messages, HandleResponse(m)
      PROVE  drops' = drops
  BY <1>1, <1>5, ResponseChoice DEF chainVars
<1>6. CASE Schedule \/ Elapse \/ UNCHANGED processorVars
  BY <1>6 DEF Schedule, Elapse, processorVars, chainVars
<1>7. drops' = drops
  BY <1>3, <1>4, <1>5, <1>6 DEF ProcessorNext
<1>8. Network => UNCHANGED <<tx, drops>> \/ ServeBroadcast
  BY <1>2, NetworkTransactions
<1> QED BY <1>7, <1>8

(* ReportInv is inductive while nothing is forgotten and no reply is       *)
(* lost.                                                                   *)
LEMMA ReportStep ==
  ASSUME ProcessorInv, ~MayLoseReply, drops = 0 => ReportInv,
         [ProcessorNext]_processorVars, drops' = 0
  PROVE  ReportInv'
<1> USE Basics
<1>0. /\ NonceInv /\ ConversationInv /\ QueryInv /\ PaymentInv /\ TypeOK /\ DataOK
      /\ ReportInv
      /\ tx \in [Nonces -> Messages \cup {NoTx}]
  BY DropsCount DEF ProcessorInv, ConversationInv, NonceInv, PaymentInv
<1>1. ASSUME NEW k \in Message_Type, ProcessMessage(k)
      PROVE  ReportInv'
  <2> DEFINE m == current_message[k]
  <2>1. /\ m \in Messages /\ Kind(m) = k /\ query = NoQuery /\ UNCHANGED chainVars
        /\ Goes(m) \/ Ends(m, Kind(m) = "balance")
    BY <1>0, <1>1, ProcessWorks
  <2>2. ~Accepted /\ query.of # "broadcast"
    BY <2>1 DEF Accepted, NoQuery
  <2> QED BY <1>0, <2>1, <2>2, WorkKeepsReports
<1>2. ASSUME NEW m \in Messages, HandleResponse(m)
      PROVE  ReportInv'
  BY <1>0, <1>2, ResponseWorks, WorkKeepsReports
<1>3. ASSUME UNCHANGED <<tx, result, client>>,
             query.of = "broadcast" => current_message'["send"] = current_message["send"],
             query'.of = "broadcast" /\ query'.answer = "ok"
               <=> query.of = "broadcast" /\ query.answer = "ok"
      PROVE  ReportInv'
  <2>1. \A m \in Messages : Kind(m)' = Kind(m)
    BY <1>3 DEF Kind
  <2> QED BY <1>0, <1>3, <2>1 DEF ReportInv
<1>4. CASE Schedule
  <2>1. UNCHANGED <<tx, result, query>>
    BY <1>4 DEF Schedule, clientVars, chainVars
  <2>2. query.of = "broadcast" => current_message'["send"] = current_message["send"]
    <3>1. ASSUME query.of = "broadcast", NEW k \in Message_Type, SelectNew(k)
          PROVE  current_message'["send"] = current_message["send"]
      <4>1. k # "send"
        BY <1>0, <3>1 DEF SelectNew, Takeable, QueryInv
      <4> QED BY <1>0, <3>1, <4>1 DEF SelectNew, TypeOK
    <3> QED BY <1>4, <3>1 DEF Schedule, QueueMessage, CancelMessages, Deliver, SelectSuspended,
               WaitOnMonitor, WaitTimeout
  <2>3. client' = client
    BY <1>4 DEF Schedule, QueueMessage, CancelMessages, Deliver, SelectSuspended, SelectNew,
                WaitOnMonitor, WaitTimeout
  <2> QED BY <1>3, <2>1, <2>2, <2>3
<1>5. CASE ServeBroadcast
  <2> DEFINE c == current_message["send"]
  <2>1. /\ c \in Messages
        /\ query.nonce \in Nonces
        /\ tx[query.nonce] = NoTx
        /\ tx' = [tx EXCEPT ![query.nonce] = c]
        /\ query'.of = "broadcast" /\ query'.answer = "ok"
        /\ UNCHANGED <<current_message, client, result>>
    BY <1>0, <1>5, AcceptedBroadcast DEF vars, clientVars
  <2>2. query.answer = "none"
    BY <1>5 DEF ServeBroadcast, NodeAccepts, Asked
  <2>3. /\ tx'[query.nonce] = c
        /\ \A n \in Nonces \ {query.nonce} : tx'[n] = tx[n]
    BY <1>0, <2>1
  <2>4. \A n \in Nonces : tx'[n] # NoTx => result'[tx'[n]] = "ok" \/ tx'[n] = c
    BY <1>0, <2>1, <2>2, <2>3 DEF ReportInv
  <2>5. \A m \in Messages : Kind(m)' = "send" /\ result'[m] = "ok" => \E n \in Nonces : tx'[n] = m
    <3> SUFFICES ASSUME NEW m \in Messages, Kind(m)' = "send", result'[m] = "ok"
                 PROVE  \E n \in Nonces : tx'[n] = m
      OBVIOUS
    <3>1. Kind(m) = "send" /\ result[m] = "ok"
      BY <2>1 DEF Kind
    <3>2. PICK n \in Nonces : tx[n] = m
      BY <1>0, <3>1 DEF ReportInv
    <3>3. n # query.nonce
      BY <2>1, <3>2 DEF NoTx, NoMessage
    <3> QED BY <2>3, <3>2, <3>3
  <2>6. \E n \in Nonces : tx'[n] = current_message'["send"]
    BY <2>1, <2>3
  <2> QED BY <2>1, <2>4, <2>5, <2>6 DEF ReportInv
<1>6. CASE Network
  <2>1. UNCHANGED <<current_message, client, result>> /\ query'.of = query.of
    BY <1>0, <1>6, NetworkAnswers DEF vars, clientVars
  <2>2. CASE UNCHANGED <<tx, drops>>
    <3>1. query.of = "broadcast" /\ query.answer = "ok" => query' = query
      BY <1>6, NetworkTransactions DEF Accepted
    <3>2. query.of = "broadcast" /\ query'.answer = "ok" => query.answer = "ok"
      <4>1. CASE query' = query
        BY <4>1
      <4>2. CASE ServeNonce \/ ServeTransactions \/ ServeBalance \/ ServeOther
        BY <4>2 DEF ServeNonce, ServeTransactions, ServeBalance, ServeOther, Asked
      <4>3. CASE RefuseBroadcast \/ Unreachable
        <5>1. PICK answer \in {"too_low", "error"} : Answers(answer, 0)
          BY <4>3 DEF RefuseBroadcast, Unreachable
        <5>2. query # NoQuery
          BY <4>3 DEF RefuseBroadcast, Unreachable, Asked, NoQuery
        <5>3. query'.answer = answer
          BY <1>0, <5>1, <5>2 DEF Answers, DataOK, Queries
        <5> QED BY <5>1, <5>3
      <4>4. CASE ServeBroadcast
        <5>1. tx'[query.nonce] # NoTx /\ tx[query.nonce] = NoTx
          BY <1>0, <4>4, AcceptedBroadcast DEF PaymentInv, NoTx, NoMessage
        <5> QED BY <2>2, <5>1
      <4>5. CASE Mine \/ (\E amount \in Deposits : Deposit(amount)) \/ (\E n \in Nonces : Drop(n))
        BY <4>5 DEF Mine, Deposit, Drop
      <4> QED BY <1>6, <4>1, <4>2, <4>3, <4>4, <4>5 DEF Network
    <3> QED BY <1>3, <2>1, <2>2, <3>1, <3>2
  <2> QED BY <1>5, <1>6, <2>2, DropsCount
<1>7. CASE Elapse \/ UNCHANGED processorVars
  <2>1. UNCHANGED <<tx, result, client, query, current_message>>
    BY <1>7 DEF Elapse, Tick, vars, clientVars, chainVars, processorVars
  <2> QED BY <1>3, <2>1
<1> QED BY <1>1, <1>2, <1>4, <1>6, <1>7 DEF ProcessorNext

(* The invariants hold of the processor. *)
LEMMA ProcessorInvAlways == ProcessorSpec => []ProcessorInv
BY ProcessorInvInit, ProcessorInvStep, PTL DEF ProcessorSpec

(* The client is told its payment was made when exactly one transaction    *)
(* was, and that it failed when none was, provided the reply to an         *)
(* accepted broadcast arrives and the network has forgotten nothing.       *)
THEOREM ReportsAreTrue ==
  ASSUME ~MayLoseReply
  PROVE  ProcessorSpec => [](drops = 0 => ReportIsTrue)
<1>1. ProcessorInit => ReportInv
  BY Basics DEF ProcessorInit, ReportInv, NoQuery
<1>2. ProcessorInv /\ (drops = 0 => ReportInv) /\ [ProcessorNext]_processorVars
        => (drops = 0 => ReportInv)'
  BY ReportStep
<1>3. ProcessorInv /\ (drops = 0 => ReportInv) => (drops = 0 => ReportIsTrue)
  <2> SUFFICES ASSUME ProcessorInv, ReportInv, NEW m \in Messages, Kind(m) = "send"
               PROVE  /\ result[m] = "ok" => \E n \in Nonces : {i \in Nonces : tx[i] = m} = {n}
                      /\ result[m] = "failed" => \A n \in Nonces : tx[n] # m
    BY DEF ReportIsTrue
  <2>1. m # NoTx /\ "send" \in Message_Type
    BY Basics DEF NoTx, NoMessage
  <2>2. \A i, j \in Nonces : tx[i] = m /\ tx[j] = m => i = j
    BY <2>1 DEF ProcessorInv, PaymentInv
  <2>3. ASSUME result[m] = "ok"
        PROVE  \E n \in Nonces : {i \in Nonces : tx[i] = m} = {n}
    <3>1. PICK n \in Nonces : tx[n] = m
      BY <2>3 DEF ReportInv
    <3>2. {i \in Nonces : tx[i] = m} = {n}
      BY <2>2, <3>1
    <3> QED BY <3>2
  <2>4. ASSUME result[m] = "failed", NEW n \in Nonces, tx[n] = m
        PROVE  FALSE
    <3>1. Over(m)
      BY <2>4 DEF ProcessorInv, PaymentInv
    <3>2. m # current_message["send"]
      BY <2>1, <3>1 DEF Over
    <3> QED BY <2>1, <2>4, <3>2 DEF ReportInv
  <2> QED BY <2>3, <2>4
<1> QED BY <1>1, <1>2, <1>3, ProcessorInvAlways, PTL DEF ProcessorSpec
-----------------------------------------------------------------------------
(* What an answer leaves in the preferences.                               *)

(* An answer moves last_tx_nonce to the verified nonce or, when a          *)
(* broadcast was accepted, to its nonce; and the balance to the one        *)
(* reported or, when a broadcast was accepted, down by the estimated       *)
(* cost. An error changes neither.                                         *)
LEMMA ResponseStores ==
  ASSUME ProcessorInv, NEW m \in Messages, HandleResponse(m)
  PROVE  /\ query' = NoQuery \/ query'.answer = "none"
         /\ prefs' \in Preferences
         /\ \/ /\ ~Accepted
               /\ prefs'.last_tx_nonce \in {prefs.last_tx_nonce, prefs'.verified_nonce}
               /\ prefs'.verified_nonce < mined
               /\ \/ prefs'.balance = prefs.balance
                  \/ /\ query.of = "balance" /\ query.answer = "ok"
                     /\ prefs'.balance = query.value
            \/ /\ query.of = "broadcast" /\ query.answer = "ok"
               /\ prefs'.last_tx_nonce = query.nonce
               /\ prefs'.balance = prefs.balance - EstCost
            \/ query.answer = "error" /\ prefs' = prefs
<1>1. NonceInv /\ ConversationInv /\ QueryInv
  BY DEF ProcessorInv
<1>2. prefs \in Preferences /\ nonce[m] \in Int /\ now_sec \in Int
  BY <1>1 DEF NonceInv, DataOK
<1>3. query' = NoQuery \/ query'.answer = "none"
  BY <1>1, ResponseWorks DEF Goes, Waits, Ends
<1>4. ASSUME NEW p \in Preferences, Guts(p, m)
      PROVE  /\ prefs' \in Preferences
             /\ prefs'.verified_nonce = p.verified_nonce
             /\ prefs'.last_tx_nonce = p.last_tx_nonce
             /\ prefs'.balance = p.balance
  <2>1. prefs' \in {p, [p EXCEPT !.rapid_fire_sec = now_sec]}
    BY <1>4 DEF Guts, SendGuts, BalanceGuts
  <2>2. prefs'.balance = p.balance
    BY <2>1, OtherAccount
  <2> QED BY <1>1, <1>4, <2>2, GutsKeepNonces DEF NonceInv
<1>5. CASE ~Accepted /\ \E p : Learnt(p) /\ (Continue(m, p) \/ Later(m, p))
  <2>1. PICK p : Learnt(p) /\ (Continue(m, p) \/ Later(m, p))
    BY <1>5
  <2>2. p \in Preferences
    BY <2>1 DEF Learnt, Safe
  <2>3. /\ prefs' \in Preferences
        /\ prefs'.verified_nonce = p.verified_nonce
        /\ prefs'.last_tx_nonce = p.last_tx_nonce
        /\ prefs'.balance = p.balance
    BY <1>4, <2>1, <2>2 DEF Continue, Later
  <2> QED BY <1>3, <1>5, <2>1, <2>3 DEF Learnt, Safe
<1>6. CASE /\ query.of = "broadcast" /\ query.answer = "ok"
           /\ Finish(m, RecordPayment(prefs, nonce[m]), TRUE)
  <2>1. query.nonce = nonce[m]
    BY <1>1, <1>6, ResponseWorks
  <2>2. prefs' = RecordPayment(prefs, nonce[m])
    BY <1>6 DEF Finish
  <2>3. prefs' \in Preferences
    BY <1>2, <2>2, RecordPaymentBounds
  <2>4. prefs'.last_tx_nonce = nonce[m] /\ prefs'.balance = prefs.balance - EstCost
    BY <1>2, <2>2, RecordPaymentAccount
  <2> QED BY <1>3, <1>6, <2>1, <2>3, <2>4
<1>7. CASE query.answer = "error" /\ Finish(m, prefs, FALSE)
  BY <1>2, <1>3, <1>7 DEF Finish
<1> QED BY <1>1, <1>5, <1>6, <1>7, ResponseChoice

(* And what the guts of a selected message leave there. *)
LEMMA ProcessStores ==
  ASSUME ProcessorInv, NEW k \in Message_Type, ProcessMessage(k)
  PROVE  /\ query = NoQuery
         /\ query' = NoQuery \/ query'.answer = "none"
         /\ prefs' \in Preferences
         /\ prefs'.last_tx_nonce = prefs.last_tx_nonce
         /\ prefs'.verified_nonce = prefs.verified_nonce
         /\ prefs'.balance = prefs.balance
         /\ UNCHANGED chainVars
<1> DEFINE m == current_message[k]
<1>1. NonceInv /\ ConversationInv /\ QueryInv /\ prefs \in Preferences /\ now_sec \in Int
  BY DEF ProcessorInv, NonceInv, DataOK
<1>2. /\ m \in Messages /\ query = NoQuery /\ UNCHANGED chainVars /\ Guts(prefs, m)
      /\ Goes(m) \/ Ends(m, Kind(m) = "balance")
  BY <1>1, ProcessWorks
<1>3. prefs' \in {prefs, [prefs EXCEPT !.rapid_fire_sec = now_sec]}
  BY <1>2 DEF Guts, SendGuts, BalanceGuts
<1>4. prefs'.balance = prefs.balance
  BY <1>1, <1>3, OtherAccount
<1> QED BY <1>1, <1>2, <1>4, GutsKeepNonces DEF NonceInv, Goes, Ends

-----------------------------------------------------------------------------
(* No payment waits for a nonce that was never used, as long as the        *)
(* network has forgotten no transaction.                                   *)

Sent(n) == n < mined \/ n \in Pool

(* last_tx_nonce is the nonce of a transaction, or below all that are      *)
(* pending: the next payment is given a nonce right after a used one.      *)
GapInv ==
  /\ NoNonceGap
  /\ Sent(prefs.last_tx_nonce)
  /\ query.of = "broadcast" /\ query.answer = "ok" => Sent(query.nonce)

(* Nonces are numbers. *)
LEMMA NonceIsNat == \A n \in Nonces : n \in Nat
<1>1. StartNonce \in Nat /\ MaxMessages \in Nat
  BY Numbers, Basics
<1> QED BY <1>1 DEF Nonces

(* The transaction that is mined leaves the pool, and no other. *)
LEMMA PoolMined ==
  ASSUME mined \in Nat, tx' = tx, mined' = mined + 1
  PROVE  Pool' = Pool \ {mined}
<1>1. \A n \in Nonces : n >= mined' <=> n >= mined /\ n # mined
  BY NonceIsNat
<1>2. Pool' = {n \in Nonces : n >= mined' /\ tx[n] # NoTx}
  BY DEF Pool, Nonces, NoTx, NoMessage
<1>3. \A n : n \in Pool' <=> n \in Pool /\ n # mined
  BY <1>1, <1>2 DEF Pool
<1> QED BY <1>3

(* A nonce that has been used stays used, and no gap opens in the pool.    *)
LEMMA PoolStep ==
  ASSUME ProcessorInv, GapInv, [ProcessorNext]_processorVars, drops' = 0
  PROVE  NoNonceGap' /\ \A n \in Int : Sent(n) => Sent(n)'
<1> USE Basics
<1>0. /\ NonceInv /\ ConversationInv /\ QueryInv /\ PaymentInv /\ DataOK
      /\ mined \in Nat /\ StartNonce \in Nat /\ MaxMessages \in Nat /\ mined >= StartNonce
      /\ tx \in [Nonces -> Messages \cup {NoTx}]
      /\ Nonces \subseteq Nat
  BY Numbers DEF ProcessorInv, NonceInv, DataOK, PaymentInv, Nonces
<1>1. ASSUME mined' = mined, Pool' = Pool
      PROVE  NoNonceGap' /\ \A n \in Int : Sent(n) => Sent(n)'
  BY <1>1 DEF GapInv, NoNonceGap, Sent
<1>2. ASSUME UNCHANGED <<tx, mined>>
      PROVE  NoNonceGap' /\ \A n \in Int : Sent(n) => Sent(n)'
  BY <1>1, <1>2 DEF Pool
<1>3. ASSUME tx' = tx, mined' = mined + 1
      PROVE  NoNonceGap' /\ \A n \in Int : Sent(n) => Sent(n)'
  <2>1. Pool' = Pool \ {mined}
    BY <1>0, <1>3, PoolMined
  <2>2. \A n \in Pool' : mined'..n \subseteq Pool'
    BY <1>0, <1>3, <2>1 DEF GapInv, NoNonceGap, Pool
  <2>3. \A n \in Int : Sent(n) => Sent(n)'
    BY <1>0, <1>3, <2>1 DEF Sent
  <2> QED BY <2>2, <2>3 DEF NoNonceGap
<1>4. ASSUME ServeBroadcast
      PROVE  NoNonceGap' /\ \A n \in Int : Sent(n) => Sent(n)'
  <2> DEFINE q == query.nonce
  <2>1. /\ current_message["send"] \in Messages /\ q \in Nonces
        /\ tx' = [tx EXCEPT ![q] = current_message["send"]]
        /\ mined' = mined
    BY <1>0, <1>4, AcceptedBroadcast
  <2>2. query.of = "broadcast" /\ q >= mined
    BY <1>4 DEF ServeBroadcast, NodeAccepts, Asked
  <2>3. q = prefs.last_tx_nonce + 1 /\ prefs.last_tx_nonce \in Int
    BY <1>0, <2>2 DEF NonceInv, AnswerTrue, NoQuery, DataOK, Preferences
  <2>4. Pool' = Pool \cup {q}
    BY <1>0, <2>1, <2>2 DEF Pool, NoTx, NoMessage
  <2>5. \A n \in Int : n \in mined..q => n \in Pool'
    <3> SUFFICES ASSUME NEW n \in Int, n >= mined, n <= q, n # q
                 PROVE  n \in Pool
      BY <1>0, <2>4
    <3>1. prefs.last_tx_nonce \in Pool /\ n <= prefs.last_tx_nonce
      BY <1>0, <2>2, <2>3 DEF GapInv, Sent
    <3> QED BY <1>0, <3>1 DEF GapInv, NoNonceGap
  <2>6. NoNonceGap'
    BY <1>0, <2>1, <2>4, <2>5 DEF GapInv, NoNonceGap
  <2>7. \A n \in Int : Sent(n) => Sent(n)'
    BY <2>1, <2>4 DEF Sent
  <2> QED BY <2>6, <2>7
<1>5. CASE Network
  BY <1>2, <1>3, <1>4, <1>5, NetworkTransactions, DropsCount
<1>6. ASSUME NEW k \in Message_Type, ProcessMessage(k)
      PROVE  UNCHANGED <<tx, mined>>
  BY <1>6 DEF ProcessMessage, chainVars
<1>7. ASSUME NEW m \in Messages, HandleResponse(m)
      PROVE  UNCHANGED <<tx, mined>>
  BY <1>0, <1>7, ResponseChoice DEF chainVars
<1>8. CASE Schedule \/ Elapse \/ UNCHANGED processorVars
  BY <1>2, <1>8 DEF Schedule, Elapse, processorVars, chainVars
<1> QED BY <1>2, <1>5, <1>6, <1>7, <1>8 DEF ProcessorNext

(* GapInv is inductive while the network forgets nothing. *)
LEMMA GapStep ==
  ASSUME ProcessorInv, GapInv, [ProcessorNext]_processorVars, drops' = 0
  PROVE  GapInv'
<1> USE Basics
<1>0. /\ NonceInv /\ ConversationInv /\ QueryInv /\ PaymentInv /\ DataOK
      /\ prefs \in Preferences /\ prefs.last_tx_nonce \in Int /\ mined \in Nat
      /\ query # NoQuery => query.nonce \in Int
  BY DEF ProcessorInv, NonceInv, DataOK, Preferences, Queries
<1>1. NoNonceGap' /\ \A n \in Int : Sent(n) => Sent(n)'
  BY PoolStep
<1>2. ASSUME Sent(prefs.last_tx_nonce)', query' = NoQuery \/ query'.answer = "none"
      PROVE  GapInv'
  BY <1>1, <1>2 DEF GapInv, NoQuery
<1>3. ASSUME NEW k \in Message_Type, ProcessMessage(k)
      PROVE  GapInv'
  <2>1. /\ prefs'.last_tx_nonce = prefs.last_tx_nonce
        /\ query' = NoQuery \/ query'.answer = "none"
    BY <1>3, ProcessStores
  <2>2. Sent(prefs.last_tx_nonce)'
    BY <1>0, <1>1, <2>1 DEF GapInv, Sent
  <2> QED BY <1>2, <2>1, <2>2
<1>4. ASSUME NEW m \in Messages, HandleResponse(m)
      PROVE  GapInv'
  <2>1. /\ query' = NoQuery \/ query'.answer = "none"
        /\ prefs' \in Preferences
        /\ \/ prefs'.last_tx_nonce = prefs.last_tx_nonce
           \/ prefs'.last_tx_nonce < mined
           \/ /\ query.of = "broadcast" /\ query.answer = "ok"
              /\ prefs'.last_tx_nonce = query.nonce
    BY <1>4, ResponseStores
  <2>2. UNCHANGED <<mined, tx>>
    BY <1>0, <1>4, ResponseChoice DEF chainVars
  <2>3. Pool' = Pool
    BY <2>2 DEF Pool
  <2>4. Sent(prefs.last_tx_nonce)'
    BY <2>1, <2>2, <2>3 DEF GapInv, Sent
  <2> QED BY <1>2, <2>1, <2>4
<1>5. ASSUME UNCHANGED prefs, query' = query
      PROVE  GapInv'
  <2>1. Sent(prefs.last_tx_nonce)'
    BY <1>0, <1>1, <1>5 DEF GapInv, Sent
  <2>2. query'.of = "broadcast" /\ query'.answer = "ok" => Sent(query.nonce)'
    BY <1>0, <1>1, <1>5 DEF GapInv, Sent, NoQuery
  <2> QED BY <1>1, <2>1, <2>2 DEF GapInv
<1>6. CASE Network
  <2>1. UNCHANGED prefs
    BY <1>0, <1>6, NetworkAnswers
  <2>2. Sent(prefs.last_tx_nonce)'
    BY <1>0, <1>1, <2>1 DEF GapInv, Sent
  <2>3. CASE ServeBroadcast
    <3>1. /\ current_message["send"] \in Messages /\ query.nonce \in Nonces
          /\ tx' = [tx EXCEPT ![query.nonce] = current_message["send"]]
          /\ query'.nonce = query.nonce /\ mined' = mined
      BY <1>0, <2>3, AcceptedBroadcast
    <3>2. query.nonce >= mined
      BY <2>3 DEF ServeBroadcast, NodeAccepts
    <3>3. query.nonce \in Pool'
      BY <3>1, <3>2 DEF Pool, PaymentInv, ProcessorInv, NoTx, NoMessage
    <3>4. Sent(query.nonce)'
      BY <3>1, <3>3 DEF Sent
    <3> QED BY <1>1, <2>2, <3>4 DEF GapInv
  <2>4. CASE query' = query
    BY <1>5, <2>1, <2>4
  <2>5. ASSUME NEW answer \in {"too_low", "error"}, NEW value, Answers(answer, value), query # NoQuery
        PROVE  GapInv'
    <3>1. query'.answer = answer
      BY <1>0, <2>5 DEF Answers, DataOK, Queries
    <3> QED BY <1>1, <2>2, <2>5, <3>1 DEF GapInv
  <2>6. ASSUME NEW what \in {"nonce", "transactions", "gas", "price", "balance"}, query.of = what
        PROVE  GapInv'
    <3>1. query'.of = what
      BY <1>0, <1>6, <2>6, NetworkAnswers
    <3> QED BY <1>1, <2>2, <3>1 DEF GapInv
  <2>7. CASE ServeNonce \/ ServeTransactions \/ ServeBalance \/ ServeOther
    BY <2>6, <2>7 DEF ServeNonce, ServeTransactions, ServeBalance, ServeOther, Asked
  <2>8. CASE RefuseBroadcast \/ Unreachable
    <3>1. query # NoQuery
      BY <2>8 DEF RefuseBroadcast, Unreachable, Asked, NoQuery
    <3> QED BY <2>5, <2>8, <3>1 DEF RefuseBroadcast, Unreachable
  <2>9. CASE Mine \/ (\E amount \in Deposits : Deposit(amount)) \/ (\E n \in Nonces : Drop(n))
    BY <2>4, <2>9 DEF Mine, Deposit, Drop
  <2> QED BY <1>6, <2>3, <2>7, <2>8, <2>9 DEF Network
<1>7. CASE Schedule \/ Elapse \/ UNCHANGED processorVars
  <2>1. UNCHANGED prefs /\ query' = query
    BY <1>7 DEF Schedule, Elapse, processorVars
  <2> QED BY <1>5, <2>1
<1> QED BY <1>3, <1>4, <1>6, <1>7 DEF ProcessorNext

(* An account just set up has sent nothing. *)
LEMMA GapInit == ProcessorInit => GapInv
<1> SUFFICES ASSUME ProcessorInit PROVE GapInv
  OBVIOUS
<1>1. /\ prefs.last_tx_nonce = -1 /\ mined = StartNonce /\ query = NoQuery
      /\ tx = [n \in Nonces |-> NoTx]
  BY DEF ProcessorInit
<1>2. Pool = {}
  BY <1>1 DEF Pool
<1>3. -1 < mined
  BY <1>1, Numbers
<1> QED BY <1>1, <1>2, <1>3 DEF GapInv, NoNonceGap, Sent, NoQuery

(* No payment is left waiting for a nonce that was never used, whatever    *)
(* replies are lost and however many payments are fired rapidly, as long   *)
(* as the network has forgotten no transaction.                            *)
THEOREM NoGapInNonces == ProcessorSpec => [](drops = 0 => NoNonceGap)
<1>1. ProcessorInv /\ (drops = 0 => GapInv) /\ [ProcessorNext]_processorVars
        => (drops = 0 => GapInv)'
  BY DropsCount, GapStep
<1>2. (drops = 0 => GapInv) => (drops = 0 => NoNonceGap)
  BY DEF GapInv
<1> QED BY <1>1, <1>2, GapInit, ProcessorInvAlways, PTL DEF ProcessorSpec

(* Nor does one after the app was killed: the nonce the file holds has     *)
(* been used too, however old it is, and so has the one before the nonce   *)
(* of a broadcast on its way.                                              *)
FlightGapInv == \A b \in in_flight : b.nonce \in Int /\ Sent(b.nonce - 1)

RestartGapInv == drops = 0 => GapInv /\ Sent(file.last_tx_nonce) /\ FlightGapInv

(* What has been sent stays sent, also before the broadcasts on their way. *)
LEMMA FlightSent ==
  ASSUME FlightGapInv, \A n \in Int : Sent(n) => Sent(n)', in_flight' \subseteq in_flight
  PROVE  FlightGapInv'
<1>1. \A b \in in_flight : b.nonce \in Int /\ b.nonce - 1 \in Int /\ Sent(b.nonce - 1)
  BY DEF FlightGapInv
<1>2. \A b \in in_flight : b.nonce \in Int /\ (mined' > b.nonce - 1 \/ b.nonce - 1 \in Pool')
  BY <1>1 DEF Sent
<1> QED BY <1>2 DEF FlightGapInv, Sent

(* The broadcast of a killed process closes up with the pool. *)
LEMMA ArrivalGap ==
  ASSUME RestartInv, RestartGapInv, NEW b \in in_flight, Arrive(b), drops' = 0
  PROVE  GapInv' /\ Sent(file.last_tx_nonce)' /\ FlightGapInv'
<1> USE Basics
<1>1. /\ UNCHANGED <<prefs, query, file, mined, drops>>
      /\ in_flight' \subseteq in_flight
  BY DEF Arrive, NodeAccepts, chainVars
<1>2. GapInv /\ Sent(file.last_tx_nonce) /\ FlightGapInv
  BY <1>1 DEF RestartGapInv
<1>3. /\ file.last_tx_nonce \in Int /\ prefs.last_tx_nonce \in Int
      /\ query.of = "broadcast" => query.nonce \in Int
      /\ mined \in Nat
      /\ tx \in [Nonces -> Messages \cup {NoTx}]
  BY DEF RestartInv, FileInv, Safe, Preferences, ProcessorInv, NonceInv, DataOK, Queries, NoQuery,
     PaymentInv
<1>4. NoNonceGap' /\ \A n \in Int : Sent(n) => Sent(n)'
  <2>1. CASE UNCHANGED chainVars
    <3>1. Pool' = Pool /\ mined' = mined
      BY <2>1 DEF chainVars, Pool
    <3> QED BY <1>2, <3>1 DEF GapInv, NoNonceGap, Sent
  <2>2. CASE NodeAccepts(b.of, b.nonce)
    <3> DEFINE q == b.nonce
    <3>1. q \in Nonces /\ q >= mined /\ tx' = [tx EXCEPT ![q] = b.of] /\ b.of \in Messages
      BY <2>2 DEF NodeAccepts, RestartInv, FlightInv
    <3>2. Pool' = Pool \cup {q}
      BY <1>1, <1>3, <3>1 DEF Pool, NoTx, NoMessage
    <3>3. q \in Int /\ Sent(q - 1)
      BY <1>2 DEF FlightGapInv
    <3>4. \A n \in Int : n \in mined..q => n \in Pool'
      <4> SUFFICES ASSUME NEW n \in Int, n >= mined, n <= q, n # q
                   PROVE  n \in Pool
        BY <1>3, <3>2
      <4>1. q - 1 \in Pool /\ n <= q - 1
        BY <1>3, <3>3 DEF Sent
      <4> QED BY <1>2, <1>3, <4>1 DEF GapInv, NoNonceGap
    <3>5. NoNonceGap'
      BY <1>1, <1>2, <1>3, <3>2, <3>4 DEF GapInv, NoNonceGap
    <3>6. \A n \in Int : Sent(n) => Sent(n)'
      BY <1>1, <3>2 DEF Sent
    <3> QED BY <3>5, <3>6
  <2> QED BY <2>1, <2>2 DEF Arrive
<1>5. GapInv' /\ Sent(file.last_tx_nonce)'
  BY <1>1, <1>2, <1>3, <1>4 DEF GapInv, Sent
<1>6. FlightGapInv'
  BY <1>1, <1>2, <1>4, FlightSent
<1> QED BY <1>5, <1>6

(* A kill goes back to an older nonce, which has been sent as well. *)
LEMMA RestartGapStep ==
  ASSUME RestartInv, RestartGapInv, [RestartNext]_restartVars
  PROVE  RestartGapInv'
<1> SUFFICES ASSUME drops' = 0
             PROVE  GapInv' /\ Sent(file.last_tx_nonce)' /\ FlightGapInv'
  BY DEF RestartGapInv
<1>1. ASSUME [ProcessorNext]_processorVars, file' \in {file, prefs}, in_flight' = in_flight
      PROVE  GapInv' /\ Sent(file.last_tx_nonce)' /\ FlightGapInv'
  <2>1. ProcessorInv /\ drops = 0
    BY <1>1, DropsCount DEF RestartInv
  <2>2. GapInv /\ Sent(file.last_tx_nonce) /\ Sent(prefs.last_tx_nonce) /\ FlightGapInv
    BY <2>1 DEF RestartGapInv, GapInv
  <2>3. GapInv' /\ \A n \in Int : Sent(n) => Sent(n)'
    BY <1>1, <2>1, <2>2, GapStep, PoolStep
  <2>4. file.last_tx_nonce \in Int /\ prefs.last_tx_nonce \in Int
    BY <2>1 DEF RestartInv, FileInv, Safe, Preferences, ProcessorInv, NonceInv, DataOK
  <2>5. Sent(file.last_tx_nonce)'
    BY <1>1, <2>2, <2>3, <2>4 DEF Sent
  <2>6. FlightGapInv'
    BY <1>1, <2>2, <2>3, FlightSent
  <2> QED BY <2>3, <2>5, <2>6
<1>2. CASE ProcessorNext /\ UNCHANGED <<file, kills, in_flight>>
  BY <1>1, <1>2
<1>3. CASE WriteFile
  BY <1>1, <1>3 DEF WriteFile
<1>4. CASE Kill
  <2>1. /\ prefs' = file /\ query' = NoQuery /\ UNCHANGED <<tx, mined, drops, file>>
        /\ in_flight' = in_flight \cup Unserved
    BY <1>4 DEF Kill, Restarted, chainVars
  <2>2. GapInv /\ Sent(file.last_tx_nonce) /\ FlightGapInv
    BY <2>1 DEF RestartGapInv
  <2>3. Pool' = Pool /\ mined' = mined
    BY <2>1 DEF Pool
  <2>4. \A b \in Unserved : b.nonce \in Int /\ Sent(b.nonce - 1)
    <3> SUFFICES ASSUME NEW b \in Unserved
                 PROVE  b.nonce \in Int /\ Sent(b.nonce - 1)
      OBVIOUS
    <3>1. query.of = "broadcast" /\ b.nonce = query.nonce
      BY DEF Unserved
    <3>2. query # NoQuery
      BY <3>1 DEF NoQuery
    <3>3. query.nonce = prefs.last_tx_nonce + 1 /\ prefs.last_tx_nonce \in Int
      BY <3>1, <3>2 DEF RestartInv, ProcessorInv, NonceInv, AnswerTrue, DataOK, Preferences
    <3>4. query.nonce - 1 = prefs.last_tx_nonce /\ query.nonce \in Int
      BY <3>3
    <3>5. Sent(prefs.last_tx_nonce)
      BY <2>2 DEF GapInv
    <3> QED BY <3>1, <3>4, <3>5
  <2>5. GapInv' /\ Sent(file.last_tx_nonce)'
    BY <2>1, <2>2, <2>3 DEF GapInv, NoNonceGap, Sent, NoQuery
  <2>6. FlightGapInv'
    BY <2>1, <2>2, <2>3, <2>4 DEF FlightGapInv, Sent
  <2> QED BY <2>5, <2>6
<1>5. CASE UNCHANGED restartVars
  BY <1>1, <1>5 DEF restartVars
<1>6. ASSUME NEW b \in in_flight, Arrive(b)
      PROVE  GapInv' /\ Sent(file.last_tx_nonce)' /\ FlightGapInv'
  BY <1>6, ArrivalGap
<1> QED BY <1>2, <1>3, <1>4, <1>5, <1>6 DEF RestartNext

(* While the network forgets no transaction, the payments of an app that   *)
(* may be killed at any time leave no nonce out: every nonce between the   *)
(* first one that is not on the chain and the last one pending is pending  *)
(* (next_nonce in send_guts, and the preferences file).                    *)
THEOREM NoGapAfterRestart == RestartSpec => [](drops = 0 => NoNonceGap)
<1>1. RestartInit => RestartGapInv
  BY GapInit DEF RestartInit, RestartGapInv, GapInv, FlightGapInv
<1>2. RestartGapInv => (drops = 0 => NoNonceGap)
  BY DEF RestartGapInv, GapInv
<1> QED BY <1>1, <1>2, RestartGapStep, RestartInvAlways, PTL DEF RestartSpec

-----------------------------------------------------------------------------
(* No payment is broadcast with the nonce of one that is pending, as long  *)
(* as the verified nonce is only adopted by force when there is nothing    *)
(* pending after it (AdoptionJustified, which the code's timestamps do not *)
(* guarantee: the run processor_adoption shows an adoption that is not).   *)

(* The step AdoptionJustified allows. *)
Justified ==
  prefs'.last_tx_nonce < prefs.last_tx_nonce =>
    prefs.verified_nonce + 1 >= mined /\ prefs.verified_nonce + 1 \notin Pool

(* The app knows of every transaction that is pending: it counts them in   *)
(* last_tx_nonce, or is about to.                                          *)
PoolKnown ==
  \A n \in Pool :
    \/ n <= prefs.last_tx_nonce
    \/ query.of = "broadcast" /\ query.answer = "ok" /\ n = query.nonce

(* Once nothing is under way to the node, and all that was paid is         *)
(* verified, nothing is pending.                                           *)
LEMMA VerifiedIsSettled ==
  ASSUME ProcessorInv, PoolKnown, prefs.last_tx_nonce = prefs.verified_nonce,
         query.of # "broadcast"
  PROVE  Pool = {}
<1>1. prefs.last_tx_nonce \in Int /\ mined \in Nat /\ prefs.last_tx_nonce < mined
  BY DEF ProcessorInv, NonceInv, DataOK, VerifiedIsOnChain, Preferences
<1>2. \A n \in Pool : n \in Int /\ n >= mined
  BY Numbers, Basics DEF Pool, Nonces
<1>3. \A n \in Pool : n <= prefs.last_tx_nonce
  BY DEF PoolKnown
<1> QED BY <1>1, <1>2, <1>3

(* The same after a step that leaves the pool alone. *)
LEMMA VerifiedIsSettledNext ==
  ASSUME ProcessorInv', PoolKnown', prefs'.last_tx_nonce = prefs'.verified_nonce,
         query'.of # "broadcast", UNCHANGED <<tx, mined>>
  PROVE  Pool = {}
<1>1. prefs'.last_tx_nonce \in Int /\ mined' \in Nat /\ prefs'.last_tx_nonce < mined'
  BY DEF ProcessorInv, NonceInv, DataOK, VerifiedIsOnChain, Preferences
<1>2. \A n \in Pool' : n \in Int /\ n >= mined'
  BY Numbers, Basics DEF Pool, Nonces
<1>3. \A n \in Pool' : n <= prefs'.last_tx_nonce
  BY DEF PoolKnown
<1>4. Pool' = {}
  BY <1>1, <1>2, <1>3
<1> QED BY <1>4 DEF Pool

(* A forced adoption that is justified finds the pool empty. *)
LEMMA AdoptionFindsNothing ==
  ASSUME ProcessorInv, NoNonceGap, Justified, prefs'.last_tx_nonce < prefs.last_tx_nonce
  PROVE  Pool = {}
<1>1. /\ prefs.verified_nonce \in Int /\ mined \in Nat
      /\ prefs.verified_nonce < mined
  BY DEF ProcessorInv, NonceInv, DataOK, VerifiedIsOnChain, Preferences
<1>2. mined \notin Pool
  BY <1>1 DEF Justified
<1>3. \A n \in Pool : n \in Int /\ n >= mined
  BY Numbers, Basics DEF Pool, Nonces
<1>4. \A n \in Pool : mined \in mined..n
  BY <1>1, <1>3
<1>5. \A n \in Pool : mined \in Pool
  BY <1>4 DEF NoNonceGap
<1> QED BY <1>2, <1>5

(* Each step keeps the app's knowledge of the pool. *)
LEMMA KnownStep ==
  ASSUME ProcessorInv, NoNonceGap, PoolKnown, ~MayLoseReply,
         [ProcessorNext]_processorVars, Justified, drops' = 0
  PROVE  PoolKnown'
<1> USE Basics
<1>0. /\ NonceInv /\ ConversationInv /\ QueryInv /\ PaymentInv /\ DataOK
      /\ prefs \in Preferences /\ prefs.last_tx_nonce \in Int /\ mined \in Nat
      /\ tx \in [Nonces -> Messages \cup {NoTx}]
  BY DEF ProcessorInv, NonceInv, DataOK, Preferences, PaymentInv
<1>1. \A n \in Pool : n \in Int
  BY NonceIsNat DEF Pool
<1>2. ASSUME NEW k \in Message_Type, ProcessMessage(k)
      PROVE  PoolKnown'
  <2>1. /\ query = NoQuery /\ prefs'.last_tx_nonce = prefs.last_tx_nonce
        /\ UNCHANGED <<tx, mined>>
    BY <1>2, ProcessStores DEF chainVars
  <2>2. Pool' = Pool
    BY <2>1 DEF Pool
  <2>3. \A n \in Pool : n <= prefs'.last_tx_nonce
    BY <2>1 DEF PoolKnown, NoQuery
  <2> QED BY <2>2, <2>3 DEF PoolKnown
<1>3. ASSUME NEW m \in Messages, HandleResponse(m)
      PROVE  PoolKnown'
  <2>1. UNCHANGED <<mined, tx>>
    BY <1>0, <1>3, ResponseChoice DEF chainVars
  <2>2. Pool' = Pool
    BY <2>1 DEF Pool
  <2>3. /\ prefs' \in Preferences
        /\ \/ ~Accepted
           \/ /\ query.of = "broadcast" /\ query.answer = "ok"
              /\ prefs'.last_tx_nonce = query.nonce
           \/ query.answer = "error" /\ prefs' = prefs
    BY <1>3, ResponseStores
  <2>4. prefs'.last_tx_nonce \in Int
    BY <2>3 DEF Preferences
  <2>5. CASE prefs'.last_tx_nonce < prefs.last_tx_nonce
    BY <2>2, <2>5, AdoptionFindsNothing DEF PoolKnown
  <2>6. CASE prefs'.last_tx_nonce >= prefs.last_tx_nonce
    <3>1. \A n \in Pool : n <= prefs.last_tx_nonce => n <= prefs'.last_tx_nonce
      BY <1>0, <1>1, <2>4, <2>6
    <3>2. \A n \in Pool : n <= prefs'.last_tx_nonce
      BY <1>1, <2>3, <2>4, <3>1 DEF PoolKnown, Accepted
    <3> QED BY <2>2, <3>2 DEF PoolKnown
  <2> QED BY <1>0, <2>4, <2>5, <2>6
<1>4. CASE ServeBroadcast
  <2>1. /\ query.nonce \in Nonces /\ current_message["send"] \in Messages
        /\ tx' = [tx EXCEPT ![query.nonce] = current_message["send"]]
        /\ query'.of = "broadcast" /\ query'.nonce = query.nonce /\ query'.answer = "ok"
        /\ prefs' = prefs /\ mined' = mined
    BY <1>0, <1>4, AcceptedBroadcast
  <2>2. query.answer = "none"
    BY <1>4 DEF ServeBroadcast, NodeAccepts, Asked
  <2>3. Pool' \subseteq Pool \cup {query.nonce}
    BY <1>0, <2>1 DEF Pool
  <2> QED BY <2>1, <2>2, <2>3 DEF PoolKnown
<1>5. CASE Network /\ UNCHANGED <<tx, drops>>
  <2>1. /\ prefs' = prefs /\ query'.of = query.of
        /\ query # NoQuery => query'.nonce = query.nonce
        /\ mined' \in {mined, mined + 1}
        /\ Accepted => query' = query
    BY <1>0, <1>5, NetworkAnswers, NetworkTransactions
  <2>2. \A n \in Nonces : n >= mined' => n >= mined
    BY <1>0, <2>1, NonceIsNat
  <2>3. \A n \in Pool' : n \in Pool
    BY <1>5, <2>2 DEF Pool, Nonces, NoTx, NoMessage
  <2> QED BY <2>1, <2>3 DEF PoolKnown, Accepted
<1>6. CASE Schedule \/ Elapse \/ UNCHANGED processorVars
  <2>1. UNCHANGED <<prefs, query, tx, mined>>
    BY <1>6 DEF Schedule, Elapse, processorVars, chainVars
  <2> QED BY <2>1 DEF PoolKnown, Pool
<1>7. CASE Network
  BY <1>4, <1>5, <1>7, DropsCount
<1> QED BY <1>2, <1>3, <1>6, <1>7 DEF ProcessorNext

(* Nothing is pending in an account just imported. *)
LEMMA KnownInit == ProcessorInit => PoolKnown
BY DEF ProcessorInit, PoolKnown, Pool

(* What the app knows while the network forgets nothing. *)
KnownInv == drops = 0 => GapInv /\ PoolKnown

(* KnownInv is inductive as long as a forced adoption is justified and no  *)
(* reply to an accepted broadcast is lost.                                 *)
LEMMA KnownInvStep ==
  ASSUME ProcessorInv, KnownInv, ~MayLoseReply, [ProcessorNext]_processorVars, Justified
  PROVE  KnownInv'
<1> SUFFICES ASSUME drops' = 0
             PROVE  GapInv' /\ PoolKnown'
  BY DEF KnownInv
<1>1. GapInv /\ PoolKnown /\ NoNonceGap
  BY DropsCount DEF KnownInv, GapInv
<1> QED BY <1>1, GapStep, KnownStep

(* KnownInv holds under the same conditions. *)
LEMMA KnownInvAlways ==
  ASSUME ~MayLoseReply
  PROVE  ProcessorSpec /\ AdoptionJustified => []KnownInv
<1>1. ProcessorInit => KnownInv
  BY GapInit, KnownInit DEF KnownInv
<1>2. ProcessorInv /\ KnownInv /\ [ProcessorNext]_processorVars /\ [Justified]_processorVars
        => KnownInv'
  <2> SUFFICES ASSUME ProcessorInv, KnownInv, [ProcessorNext]_processorVars,
                      [Justified]_processorVars
               PROVE  KnownInv'
    OBVIOUS
  <2>1. prefs \in Preferences
    BY DEF ProcessorInv, NonceInv, DataOK
  <2>2. UNCHANGED processorVars => Justified
    BY <2>1 DEF Justified, processorVars, Preferences
  <2> QED BY <2>2, KnownInvStep
<1>3. AdoptionJustified <=> [][Justified]_processorVars
  BY DEF AdoptionJustified, Justified
<1> QED BY <1>1, <1>2, <1>3, ProcessorInvAlways, PTL DEF ProcessorSpec

(* No payment is broadcast with the nonce of another that is pending,      *)
(* rapid fire or not, as long as no adoption is unjustified, the reply to  *)
(* every accepted broadcast arrives and the network forgets nothing.       *)
THEOREM NoncesDoNotClash ==
  ASSUME ~MayLoseReply
  PROVE  ProcessorSpec /\ AdoptionJustified => [](drops = 0 => NoNonceClash)
<1>1. ProcessorInv /\ KnownInv => (drops = 0 => NoNonceClash)
  <2> SUFFICES ASSUME ProcessorInv, PoolKnown, query.of = "broadcast",
                      query.answer = "none", query.nonce \in Pool
               PROVE  FALSE
    BY DEF KnownInv, NoNonceClash
  <2>1. query.nonce = prefs.last_tx_nonce + 1 /\ prefs.last_tx_nonce \in Int
    BY DEF ProcessorInv, NonceInv, DataOK, AnswerTrue, NoQuery, Preferences
  <2>2. query.nonce <= prefs.last_tx_nonce
    BY DEF PoolKnown
  <2> QED BY <2>1, <2>2
<1> QED BY <1>1, KnownInvAlways, ProcessorInvAlways, PTL

-----------------------------------------------------------------------------
(* What the wallet is told.  The balance is asked for, and reported, only  *)
(* when all that was paid is verified.                                     *)

(* The guts ask for a balance, or are done with a refresh, only when       *)
(* last_tx_nonce is verified.                                              *)
LEMMA GutsWhenSettled ==
  ASSUME NEW m \in Messages, NEW p, Guts(p, m),
         \/ Query(p, m) /\ query'.of = "balance"
         \/ Kind(m) = "balance" /\ Asks(p, m) = {}
  PROVE  prefs'.last_tx_nonce = prefs'.verified_nonce
<1>1. ASSUME "balance" \in SendAsks(p, m)
      PROVE  FALSE
  BY <1>1 DEF SendAsks
<1>2. "balance" \in Asks(p, m) => Kind(m) # "send"
  BY <1>1 DEF Asks
<1>3. Query(p, m) /\ query'.of = "balance" => "balance" \in Asks(p, m)
  BY DEF Query, Ask
<1>4. Kind(m) # "send" /\ ("balance" \in BalanceAsks(p, m) \/ BalanceAsks(p, m) = {})
  BY <1>2, <1>3 DEF Asks
<1>5. p.verified_nonce = p.last_tx_nonce
  BY <1>4 DEF BalanceAsks
<1>6. prefs' = p
  BY <1>4 DEF Guts, BalanceGuts
<1> QED BY <1>5, <1>6

(* A wallet hears a balance. *)
ToldBalance ==
  \E m \in Messages : Kind(m) = "balance" /\ result[m] = "none" /\ result'[m] = "ok"

(* So it is when an answer leads to the query of a balance, or is told. *)
LEMMA ResponseWhenSettled ==
  ASSUME ProcessorInv, NEW m \in Messages, HandleResponse(m),
         query'.of = "balance" \/ ToldBalance
  PROVE  /\ prefs'.last_tx_nonce = prefs'.verified_nonce
         /\ UNCHANGED <<tx, mined>>
<1>0. /\ NonceInv /\ ConversationInv /\ QueryInv /\ TypeOK
      /\ result \in [Messages -> {"none", "ok", "failed"}]
  BY DEF ProcessorInv, ConversationInv, PaymentInv
<1>1. /\ UNCHANGED chainVars
      /\ \/ \E p : Continue(m, p) \/ Later(m, p)
         \/ query.of = "broadcast" /\ Finish(m, RecordPayment(prefs, nonce[m]), TRUE)
         \/ Finish(m, prefs, FALSE)
  BY <1>0, ResponseChoice
<1>2. ASSUME NEW p, Continue(m, p)
      PROVE  prefs'.last_tx_nonce = prefs'.verified_nonce
  <2>1. Guts(p, m)
    BY <1>2 DEF Continue
  <2>2. CASE Query(p, m) /\ UNCHANGED result
    BY <1>0, <2>1, <2>2, GutsWhenSettled DEF ToldBalance
  <2>3. CASE NothingToAsk(p, m)
    <3>1. query'.of # "balance"
      BY <2>3 DEF NothingToAsk, NoQuery
    <3>2. Kind(m) = "balance" /\ Asks(p, m) = {}
      BY <1>0, <2>3, <3>1 DEF NothingToAsk, ToldBalance, Report
    <3> QED BY <2>1, <3>2, GutsWhenSettled
  <2> QED BY <1>2, <2>2, <2>3 DEF Continue
<1>3. ASSUME NEW p, Later(m, p)
      PROVE  FALSE
  BY <1>3 DEF Later, NoQuery, ToldBalance
<1>4. ASSUME NEW p, NEW ok \in BOOLEAN, Finish(m, p, ok), ok => query.of = "broadcast"
      PROVE  FALSE
  <2>1. query'.of # "balance"
    BY <1>4 DEF Finish, NoQuery
  <2>2. ok /\ Kind(m) = "balance"
    BY <1>0, <1>4, <2>1 DEF Finish, Report, ToldBalance
  <2>3. m = current_message["send"]
    BY <1>0, <1>4, <2>2, ResponseWorks
  <2>4. Kind(m) = "send"
    BY <1>0, <2>3, Basics DEF TypeOK
  <2> QED BY <2>2, <2>4
<1> QED BY <1>1, <1>2, <1>3, <1>4 DEF chainVars

(* So it is when the processor thread does either. *)
LEMMA ProcessWhenSettled ==
  ASSUME ProcessorInv, NEW k \in Message_Type, ProcessMessage(k),
         query'.of = "balance" \/ ToldBalance
  PROVE  /\ prefs'.last_tx_nonce = prefs'.verified_nonce
         /\ UNCHANGED <<tx, mined>>
<1> DEFINE m == current_message[k]
<1>0. /\ NonceInv /\ ConversationInv /\ QueryInv
      /\ result \in [Messages -> {"none", "ok", "failed"}]
  BY DEF ProcessorInv, PaymentInv
<1>1. m \in Messages /\ Guts(prefs, m) /\ UNCHANGED chainVars
  BY <1>0, ProcessWorks
<1>2. CASE Query(prefs, m) /\ UNCHANGED result
  BY <1>0, <1>1, <1>2, GutsWhenSettled DEF ToldBalance, chainVars
<1>3. CASE NothingToAsk(prefs, m)
  <2>1. query'.of # "balance"
    BY <1>3 DEF NothingToAsk, NoQuery
  <2>2. Kind(m) = "balance" /\ Asks(prefs, m) = {}
    BY <1>0, <1>1, <1>3, <2>1 DEF NothingToAsk, ToldBalance, Report
  <2> QED BY <1>1, <2>2, GutsWhenSettled DEF chainVars
<1> QED BY <1>2, <1>3 DEF ProcessMessage

(* The network and the scheduling tell no client. *)
LEMMA OthersTellNothing ==
  ASSUME ProcessorInv, Schedule \/ Network \/ Elapse \/ UNCHANGED processorVars
  PROVE  result' = result
<1>1. DataOK
  BY DEF ProcessorInv, NonceInv
<1>2. Network => result' = result
  BY <1>1, NetworkAnswers DEF clientVars
<1> QED BY <1>2 DEF Schedule, Elapse, clientVars, processorVars

(* The network that forgets no transaction forgets none. *)
LEMMA NothingForgotten == MaxDrops = 0 => (ProcessorSpec => [](drops = 0))
<1> SUFFICES ASSUME MaxDrops = 0 PROVE ProcessorSpec => [](drops = 0)
  OBVIOUS
<1>1. ProcessorInit => drops = 0
  BY DEF ProcessorInit
<1>2. ProcessorInv /\ drops = 0 /\ [ProcessorNext]_processorVars => (drops = 0)'
  <2> SUFFICES ASSUME ProcessorInv, drops = 0, [ProcessorNext]_processorVars
               PROVE  drops' = 0
    OBVIOUS
  <2>1. NonceInv
    BY DEF ProcessorInv
  <2>2. CASE Network
    BY <2>2, NetworkTransactions DEF Drop
  <2>3. ASSUME NEW m \in Messages, HandleResponse(m)
        PROVE  drops' = drops
    BY <2>1, <2>3, ResponseChoice DEF chainVars
  <2> QED BY <2>2, <2>3
       DEF ProcessorNext, ProcessMessage, Schedule, Elapse, processorVars, chainVars
<1> QED BY <1>1, <1>2, ProcessorInvAlways, PTL DEF ProcessorSpec

(* When MainActivity is told that the account is up-to-date, no payment    *)
(* is pending, under the hypotheses of NoncesDoNotClash.                   *)
THEOREM UpToDateIsSettled ==
  ASSUME ~MayLoseReply, MaxDrops = 0
  PROVE  ProcessorSpec /\ AdoptionJustified => UpToDateMeansSettled
<1>1. ASSUME ProcessorInv, ProcessorInv', (KnownInv /\ drops = 0)',
             [ProcessorNext]_processorVars, ToldBalance
      PROVE  Pool = {}
  <2>1. PoolKnown'
    BY <1>1 DEF KnownInv
  <2>2. result' # result
    BY <1>1 DEF ToldBalance
  <2>3. \/ \E k \in Message_Type : ProcessMessage(k)
        \/ \E m \in Messages : HandleResponse(m)
    BY <1>1, <2>2, OthersTellNothing DEF ProcessorNext
  <2>4. prefs'.last_tx_nonce = prefs'.verified_nonce /\ UNCHANGED <<tx, mined>>
    BY <1>1, <2>3, ProcessWhenSettled, ResponseWhenSettled
  <2>5. query'.of # "broadcast"
    <3>1. ASSUME NEW m \in Messages, Goes(m) PROVE FALSE
      BY <2>2, <3>1 DEF Goes
    <3>2. NonceInv /\ ConversationInv /\ QueryInv
      BY <1>1 DEF ProcessorInv
    <3>3. query' = NoQuery
      BY <2>3, <3>1, <3>2, ProcessWorks, ResponseWorks DEF Waits, Ends
    <3> QED BY <3>3 DEF NoQuery
  <2> QED BY <1>1, <2>1, <2>4, <2>5, VerifiedIsSettledNext
<1>2. /\ ProcessorInv /\ ProcessorInv' /\ (KnownInv /\ drops = 0)'
      /\ [ProcessorNext]_processorVars
      => [\A m \in Messages :
            Kind(m) = "balance" /\ result[m] = "none" /\ result'[m] = "ok" => Pool = {}]_processorVars
  BY <1>1 DEF ToldBalance
<1>3. ProcessorSpec => [](drops = 0)
  BY NothingForgotten
<1> QED BY <1>2, <1>3, KnownInvAlways, ProcessorInvAlways, PTL
       DEF ProcessorSpec, UpToDateMeansSettled

-----------------------------------------------------------------------------
(* The balance that is shown.  What the pending payments will cost.        *)
Due == RealCost * Cardinality(Pool)

(* The balance shown is covered by the chain, save for a payment whose     *)
(* acceptance has not been handled yet; a balance is asked for when none   *)
(* is pending.                                                             *)
Covered(slack) == prefs.balance <= chain_balance - Due + slack

BalanceInv ==
  /\ Covered(IF query.of = "broadcast" /\ query.answer = "ok" THEN RealCost ELSE 0)
  /\ query.of = "balance" =>
       /\ Pool = {}
       /\ query.answer = "ok" => query.value <= chain_balance

(* The pool is finite, and its cost a number. *)
LEMMA PoolFinite ==
  /\ IsFiniteSet(Pool)
  /\ Cardinality(Pool) \in Nat
  /\ Due \in Nat
<1>1. StartNonce \in Nat /\ MaxMessages \in Nat /\ RealCost \in Nat
  BY Numbers, Basics
<1>2. IsFiniteSet(Nonces)
  BY <1>1, FS_Interval DEF Nonces
<1>3. IsFiniteSet(Pool)
  BY <1>2, FS_Subset DEF Pool
<1>4. Cardinality(Pool) \in Nat
  BY <1>3, FS_CardinalityType
<1>5. RealCost * Cardinality(Pool) \in Nat
  BY <1>1, <1>4
<1> QED BY <1>3, <1>4, <1>5 DEF Due

(* Two products that differ by one factor. *)
LEMMA OneFactorMore ==
  ASSUME NEW r \in Nat, NEW c \in Nat
  PROVE  r * (c + 1) = r * c + r
OBVIOUS

(* One pending payment more costs RealCost more. *)
LEMMA DueOneMore ==
  ASSUME NEW n, n \notin Pool, Pool' = Pool \cup {n}
  PROVE  Due' = Due + RealCost
<1>1. Cardinality(Pool') = Cardinality(Pool) + 1
  BY PoolFinite, FS_AddElement
<1>2. Due' = RealCost * (Cardinality(Pool) + 1)
  BY <1>1 DEF Due
<1>3. RealCost \in Nat /\ Cardinality(Pool) \in Nat
  BY Numbers, PoolFinite
<1> QED BY <1>2, <1>3, OneFactorMore DEF Due

(* And one less costs RealCost less. *)
LEMMA DueOneLess ==
  ASSUME NEW n \in Pool, Pool' = Pool \ {n}
  PROVE  Due' = Due - RealCost
<1> DEFINE c == Cardinality(Pool')
<1>1. c = Cardinality(Pool) - 1
  BY PoolFinite, FS_RemoveElement
<1>2. c \in Nat
  <2>1. IsFiniteSet(Pool')
    BY PoolFinite, FS_Subset
  <2> QED BY <2>1, FS_CardinalityType
<1>3. RealCost \in Nat /\ Cardinality(Pool) \in Nat /\ Due \in Nat
  BY Numbers, PoolFinite
<1>4. Cardinality(Pool) = c + 1
  BY <1>1, <1>2, <1>3
<1>5. Due' = RealCost * c
  BY DEF Due
<1> HIDE DEF c
<1>6. Due = RealCost * c + RealCost
  BY <1>2, <1>3, <1>4, OneFactorMore DEF Due
<1>7. Due' \in Nat
  BY <1>2, <1>3, <1>5
<1> QED BY <1>3, <1>5, <1>6, <1>7

(* What the network does to the balance on the chain, and what it says of  *)
(* it, while it forgets no transaction.                                    *)
LEMMA NetworkBalance ==
  ASSUME ProcessorInv, Network, UNCHANGED drops
  PROVE  \/ ServeBroadcast
         \/ /\ query' = query
            /\ \/ /\ mined \in Pool /\ mined' = mined + 1 /\ tx' = tx
                  /\ chain_balance' = chain_balance - RealCost
               \/ /\ UNCHANGED <<mined, tx>>
                  /\ \E amount \in Nat : chain_balance' = chain_balance + amount
         \/ /\ UNCHANGED <<mined, tx, chain_balance>>
            /\ query.answer = "none" /\ query'.of = query.of
            /\ query'.of = "broadcast" => query'.answer # "ok"
            /\ query'.of = "balance" /\ query'.answer = "ok" => query'.value = chain_balance
<1> DEFINE Answered ==
       /\ UNCHANGED <<mined, tx, chain_balance>>
       /\ query.answer = "none" /\ query'.of = query.of
       /\ query'.of = "broadcast" => query'.answer # "ok"
       /\ query'.of = "balance" /\ query'.answer = "ok" => query'.value = chain_balance
<1>0. /\ query = NoQuery \/ query \in Queries
      /\ drops \in Nat
  BY DEF ProcessorInv, NonceInv, DataOK, PaymentInv
<1>1. ASSUME NEW what \in {"nonce", "transactions", "gas", "broadcast", "price", "balance"},
             query.of = what, query.answer = "none", NEW answer, NEW value,
             Answers(answer, value), UNCHANGED chainVars,
             what = "broadcast" => answer # "ok",
             what = "balance" /\ answer = "ok" => value = chain_balance
      PROVE  Answered
  <2>1. query \in Queries
    BY <1>0, <1>1 DEF NoQuery
  <2>2. query' = [query EXCEPT !.answer = answer, !.value = value]
    BY <1>1 DEF Answers
  <2>3. query'.of = what /\ query'.answer = answer /\ query'.value = value
    BY <1>1, <2>1, <2>2 DEF Queries
  <2> QED BY <1>1, <2>3 DEF chainVars
<1>2. CASE ServeNonce
  BY <1>1, <1>2 DEF ServeNonce, Asked
<1>3. CASE ServeTransactions
  BY <1>1, <1>3 DEF ServeTransactions, Asked
<1>4. CASE ServeBalance
  BY <1>1, <1>4 DEF ServeBalance, Asked
<1>5. CASE ServeOther
  BY <1>1, <1>5 DEF ServeOther, Asked
<1>6. CASE RefuseBroadcast
  BY <1>1, <1>6 DEF RefuseBroadcast, Asked
<1>7. CASE Unreachable
  <2>1. query \in Queries
    BY <1>0, <1>7 DEF Unreachable
  <2> QED BY <1>1, <1>7, <2>1 DEF Unreachable, Asked, Queries
<1> HIDE DEF Answered
<1>8. CASE Mine
  BY <1>8 DEF Mine
<1>9. ASSUME NEW amount \in Deposits, Deposit(amount)
      PROVE  /\ query' = query /\ UNCHANGED <<mined, tx>>
             /\ amount \in Nat /\ chain_balance' = chain_balance + amount
  BY <1>9, Numbers DEF Deposit
<1>10. ASSUME NEW n \in Nonces, Drop(n)
       PROVE  FALSE
  BY <1>0, <1>10 DEF Drop
<1> QED BY <1>2, <1>3, <1>4, <1>5, <1>6, <1>7, <1>8, <1>9, <1>10 DEF Network, Answered

(* Work on a message keeps the balance covered: it adopts a balance told   *)
(* while nothing was pending, or subtracts the payment just accepted.      *)
LEMMA WorkKeepsBalance ==
  ASSUME ProcessorInv, ProcessorInv', PoolKnown', BalanceInv, prefs' \in Preferences,
         UNCHANGED chainVars, query' = NoQuery \/ query'.answer = "none",
         query'.of = "balance" => prefs'.last_tx_nonce = prefs'.verified_nonce,
         \/ prefs'.balance = prefs.balance /\ ~(query.of = "broadcast" /\ query.answer = "ok")
         \/ /\ query.of = "balance" /\ query.answer = "ok"
            /\ prefs'.balance = query.value
         \/ /\ query.of = "broadcast" /\ query.answer = "ok"
            /\ prefs'.balance = prefs.balance - EstCost
  PROVE  BalanceInv'
<1>1. /\ prefs.balance \in Int /\ chain_balance \in Int /\ Due \in Nat
      /\ EstCost \in Nat /\ RealCost \in Nat /\ RealCost <= EstCost
      /\ query.of = "balance" => query.value \in Int
  BY Numbers, ProcessorAssumption, PoolFinite
     DEF ProcessorInv, NonceInv, DataOK, Preferences, Queries, NoQuery
<1>2. Pool' = Pool /\ Due' = Due /\ chain_balance' = chain_balance
  BY DEF chainVars, Pool, Due
<1>3. prefs'.balance <= chain_balance - Due
  <2>1. CASE prefs'.balance = prefs.balance /\ ~(query.of = "broadcast" /\ query.answer = "ok")
    BY <1>1, <2>1 DEF BalanceInv, Covered
  <2>2. CASE query.of = "balance" /\ query.answer = "ok" /\ prefs'.balance = query.value
    <3>1. query.value <= chain_balance /\ Pool = {}
      BY <2>2 DEF BalanceInv
    <3>2. Due = RealCost * 0
      BY <3>1, FS_EmptySet DEF Due
    <3>3. Due = 0
      BY <1>1, <3>2
    <3> QED BY <1>1, <2>2, <3>1, <3>3
  <2>3. CASE /\ query.of = "broadcast" /\ query.answer = "ok"
             /\ prefs'.balance = prefs.balance - EstCost
    <3>1. prefs.balance <= chain_balance - Due + RealCost
      BY <2>3 DEF BalanceInv, Covered
    <3> QED BY <1>1, <2>3, <3>1
  <2> QED BY <2>1, <2>2, <2>3
<1>4. ~(query'.of = "broadcast" /\ query'.answer = "ok")
  BY DEF NoQuery
<1>5. query'.of = "balance" => Pool' = {}
  BY <1>2, VerifiedIsSettledNext DEF chainVars
<1>6. prefs'.balance <= chain_balance' - Due' + 0
  <2>1. prefs'.balance \in Int
    BY DEF Preferences
  <2> QED BY <1>1, <1>2, <1>3, <2>1
<1>7. query'.of = "balance" => query'.answer # "ok"
  BY DEF NoQuery
<1> QED BY <1>4, <1>5, <1>6, <1>7 DEF BalanceInv, Covered

(* The network keeps it covered: what leaves the pool is paid for, and     *)
(* nothing is broadcast while a balance is asked for.                      *)
LEMMA NetworkKeepsBalance ==
  ASSUME ProcessorInv, BalanceInv, Network, UNCHANGED drops, ~MayLoseReply
  PROVE  BalanceInv'
<1> USE Basics
<1>0. /\ DataOK /\ QueryInv /\ PaymentInv
      /\ prefs.balance \in Int /\ chain_balance \in Int /\ mined \in Nat
      /\ RealCost \in Nat /\ Due \in Nat
      /\ query = NoQuery \/ query \in Queries
  BY Numbers, PoolFinite DEF ProcessorInv, NonceInv, DataOK, Preferences
<1>1. prefs' = prefs
  BY <1>0, NetworkAnswers
<1>2. CASE ServeBroadcast
  <2>1. /\ current_message["send"] \in Messages /\ query.nonce \in Nonces
        /\ tx' = [tx EXCEPT ![query.nonce] = current_message["send"]]
        /\ query'.of = "broadcast" /\ query'.answer = "ok"
        /\ UNCHANGED <<mined, chain_balance>>
    BY <1>0, <1>2, AcceptedBroadcast
  <2>2. /\ query.nonce \notin Pool /\ query.nonce >= mined
        /\ query.of = "broadcast" /\ query.answer = "none"
    BY <1>2 DEF ServeBroadcast, NodeAccepts, Asked
  <2>3. tx \in [Nonces -> Messages \cup {NoTx}]
    BY <1>0 DEF PaymentInv
  <2>4. Pool' = Pool \cup {query.nonce}
    BY <2>1, <2>2, <2>3 DEF Pool, NoTx, NoMessage
  <2>5. Due' = Due + RealCost
    BY <2>2, <2>4, DueOneMore
  <2>6. prefs.balance <= chain_balance - Due + 0
    BY <2>2 DEF BalanceInv, Covered
  <2>7. prefs'.balance <= chain_balance' - Due' + RealCost
    BY <1>0, <1>1, <2>1, <2>5, <2>6
  <2> QED BY <2>1, <2>7 DEF BalanceInv, Covered
<1>3. CASE query' = query /\ mined \in Pool /\ mined' = mined + 1 /\ tx' = tx
           /\ chain_balance' = chain_balance - RealCost
  <2>1. Pool' = Pool \ {mined}
    BY <1>0, <1>3, PoolMined
  <2>2. Due' = Due - RealCost
    BY <1>3, <2>1, DueOneLess
  <2>3. chain_balance' - Due' = chain_balance - Due
    BY <1>0, <1>3, <2>2
  <2>4. query.of # "balance"
    BY <1>3 DEF BalanceInv
  <2> QED BY <1>1, <1>3, <2>3, <2>4 DEF BalanceInv, Covered
<1>4. ASSUME query' = query, UNCHANGED <<mined, tx>>, NEW amount \in Nat,
             chain_balance' = chain_balance + amount
      PROVE  BalanceInv'
  <2>1. Pool' = Pool /\ Due' = Due
    BY <1>4 DEF Pool, Due
  <2>2. ASSUME NEW slack \in Int, Covered(slack)
        PROVE  prefs'.balance <= chain_balance' - Due' + slack
    BY <1>0, <1>1, <1>4, <2>1, <2>2 DEF Covered
  <2>3. query'.of = "balance" /\ query'.answer = "ok" => query'.value <= chain_balance'
    <3>1. query.of = "balance" => query.value \in Int
      BY <1>0 DEF Queries, NoQuery
    <3> QED BY <1>0, <1>4, <3>1 DEF BalanceInv
  <2>4. CASE query.of = "broadcast" /\ query.answer = "ok"
    <3>1. Covered(RealCost)
      BY <2>4 DEF BalanceInv
    <3>2. prefs'.balance <= chain_balance' - Due' + RealCost
      BY <1>0, <2>2, <3>1
    <3> QED BY <1>4, <2>4, <3>2 DEF BalanceInv, Covered
  <2>5. CASE ~(query.of = "broadcast" /\ query.answer = "ok")
    <3>1. Covered(0)
      BY <2>5 DEF BalanceInv
    <3>2. prefs'.balance <= chain_balance' - Due' + 0
      BY <2>2, <3>1
    <3> QED BY <1>4, <2>1, <2>3, <2>5, <3>2 DEF BalanceInv, Covered
  <2> QED BY <2>4, <2>5
<1>5. CASE /\ UNCHANGED <<mined, tx, chain_balance>>
           /\ query.answer = "none" /\ query'.of = query.of
           /\ query'.of = "broadcast" => query'.answer # "ok"
           /\ query'.of = "balance" /\ query'.answer = "ok" => query'.value = chain_balance
  <2>1. Pool' = Pool /\ Due' = Due
    BY <1>5 DEF Pool, Due
  <2>2. prefs.balance <= chain_balance - Due + 0
    BY <1>5 DEF BalanceInv, Covered
  <2>3. query'.of = "balance" => Pool' = {}
    BY <1>5, <2>1 DEF BalanceInv
  <2>4. query'.of = "balance" /\ query'.answer = "ok" => query'.value <= chain_balance'
    BY <1>0, <1>5
  <2> QED BY <1>1, <1>5, <2>1, <2>2, <2>3, <2>4 DEF BalanceInv, Covered
<1> QED BY <1>2, <1>3, <1>4, <1>5, NetworkBalance

(* BalanceInv is inductive while nothing is forgotten, no reply is lost,   *)
(* and every pending transaction is known.                                 *)
LEMMA BalanceStep ==
  ASSUME ProcessorInv, ProcessorInv', PoolKnown', BalanceInv, ~MayLoseReply,
         [ProcessorNext]_processorVars, drops' = 0
  PROVE  BalanceInv'
<1>1. ASSUME NEW k \in Message_Type, ProcessMessage(k)
      PROVE  BalanceInv'
  <2>1. /\ query = NoQuery /\ (query' = NoQuery \/ query'.answer = "none")
        /\ prefs' \in Preferences /\ prefs'.balance = prefs.balance
        /\ UNCHANGED chainVars
    BY <1>1, ProcessStores
  <2>2. query'.of = "balance" => prefs'.last_tx_nonce = prefs'.verified_nonce
    BY <1>1, ProcessWhenSettled
  <2>3. query.of # "broadcast"
    BY <2>1 DEF NoQuery
  <2> QED BY <2>1, <2>2, <2>3, WorkKeepsBalance
<1>2. ASSUME NEW m \in Messages, HandleResponse(m)
      PROVE  BalanceInv'
  <2>1. /\ query' = NoQuery \/ query'.answer = "none"
        /\ prefs' \in Preferences
        /\ \/ /\ ~Accepted
              /\ \/ prefs'.balance = prefs.balance
                 \/ /\ query.of = "balance" /\ query.answer = "ok"
                    /\ prefs'.balance = query.value
           \/ /\ query.of = "broadcast" /\ query.answer = "ok"
              /\ prefs'.balance = prefs.balance - EstCost
           \/ query.answer = "error" /\ prefs' = prefs
    BY <1>2, ResponseStores
  <2>2. query'.of = "balance" => prefs'.last_tx_nonce = prefs'.verified_nonce
    BY <1>2, ResponseWhenSettled
  <2>3. UNCHANGED chainVars
    BY <1>2, ResponseChoice DEF ProcessorInv
  <2>4. \/ prefs'.balance = prefs.balance /\ ~(query.of = "broadcast" /\ query.answer = "ok")
        \/ /\ query.of = "balance" /\ query.answer = "ok"
           /\ prefs'.balance = query.value
        \/ /\ query.of = "broadcast" /\ query.answer = "ok"
           /\ prefs'.balance = prefs.balance - EstCost
    BY <2>1 DEF Accepted
  <2> QED BY <2>1, <2>2, <2>3, <2>4, WorkKeepsBalance
<1>3. CASE Network
  <2>1. drops = 0
    BY DropsCount
  <2> QED BY <1>3, <2>1, NetworkKeepsBalance
<1>4. CASE Schedule \/ Elapse \/ UNCHANGED processorVars
  <2>1. UNCHANGED <<prefs, query, tx, mined, chain_balance>>
    BY <1>4 DEF Schedule, Elapse, processorVars, chainVars
  <2> QED BY <2>1 DEF BalanceInv, Covered, Due, Pool
<1> QED BY <1>1, <1>2, <1>3, <1>4 DEF ProcessorNext

(* An account just set up shows no balance. *)
LEMMA BalanceInit == ProcessorInit => BalanceInv
<1> SUFFICES ASSUME ProcessorInit PROVE BalanceInv
  OBVIOUS
<1>1. /\ prefs.balance = 0 /\ query = NoQuery /\ chain_balance = StartBalance
      /\ tx = [n \in Nonces |-> NoTx]
  BY DEF ProcessorInit
<1>2. Pool = {} /\ StartBalance \in Nat
  BY <1>1, Numbers DEF Pool
<1>3. Due = RealCost * 0 /\ RealCost \in Nat
  BY <1>2, FS_EmptySet, Numbers DEF Due
<1>4. Due = 0
  BY <1>3
<1>5. 0 <= StartBalance - 0 + 0
  BY <1>2
<1>6. query.of = "none"
  BY <1>1 DEF NoQuery
<1> QED BY <1>1, <1>4, <1>5, <1>6 DEF BalanceInv, Covered

(* The balance the app shows, and checks payments against, never exceeds   *)
(* what the account will have when its pending payments are mined, under   *)
(* the hypotheses of NoncesDoNotClash; deposits may come at any time.      *)
THEOREM BalanceIsCovered ==
  ASSUME ~MayLoseReply
  PROVE  ProcessorSpec /\ AdoptionJustified => [](drops = 0 => BalanceNeverOverstated)
<1>1. ProcessorInit => (drops = 0 => BalanceInv)
  BY BalanceInit
<1>2. ProcessorInv /\ ProcessorInv' /\ KnownInv' /\ (drops = 0 => BalanceInv)
        /\ [ProcessorNext]_processorVars => (drops = 0 => BalanceInv)'
  BY DropsCount, BalanceStep DEF KnownInv
<1>3. ProcessorInv /\ (drops = 0 => BalanceInv) => (drops = 0 => BalanceNeverOverstated)
  <2> SUFFICES ASSUME ProcessorInv, BalanceInv, query.of # "broadcast"
               PROVE  prefs.balance <= chain_balance - RealCost * Cardinality(Pool)
    BY DEF BalanceNeverOverstated
  <2>1. prefs.balance <= chain_balance - Due + 0
    BY DEF BalanceInv, Covered
  <2>2. prefs.balance \in Int /\ chain_balance \in Int /\ Due \in Nat
    BY PoolFinite DEF ProcessorInv, NonceInv, DataOK, Preferences
  <2>3. prefs.balance <= chain_balance - Due
    BY <2>1, <2>2
  <2> QED BY <2>3 DEF Due
<1> QED BY <1>1, <1>2, <1>3, KnownInvAlways, ProcessorInvAlways, PTL DEF ProcessorSpec

-----------------------------------------------------------------------------
(* Another account is imported while the processor works.  The answers it  *)
(* is still to get are those of the erased account, so nothing is known of *)
(* them; what is proved is that an import that finds the processor idle    *)
(* leaves none of them behind.                                             *)

MoneyOf(p) == {p.balance, p.verified_balance}

Paid == query.of = "broadcast" /\ query.answer = "ok"

(* Preferences whose balances are those from before, less what a payment   *)
(* that was made costs, or what the balance service has answered.          *)
Kept(p) ==
  /\ p \in Preferences
  /\ \A b \in MoneyOf(p) :
       \/ b \in MoneyOf(prefs)
       \/ b = prefs.balance - EstCost /\ Paid
       \/ b = query.value /\ query.of = "balance" /\ query.answer = "ok"

(* What is said of nonces does not change the balances.                    *)
LEMMA NonceKeepsMoney ==
  ASSUME NEW p \in Preferences, NEW n \in Int, NEW from_transactions
  PROVE  MoneyOf(UpdateNonce(p, n, from_transactions)) = MoneyOf(p)
BY DEF UpdateNonce, Preferences, MoneyOf

(* Nor do the gas price, the times and a refused nonce.                    *)
LEMMA OthersKeepMoney ==
  ASSUME NEW p \in Preferences
  PROVE  /\ MoneyOf(SampleGas(p)) = MoneyOf(p)
         /\ MoneyOf(NonceTooLow(p)) = MoneyOf(p)
         /\ MoneyOf([p EXCEPT !.price_refresh_sec = now_sec]) = MoneyOf(p)
         /\ MoneyOf([p EXCEPT !.rapid_fire_sec = now_sec]) = MoneyOf(p)
BY DEF SampleGas, NonceTooLow, Preferences, MoneyOf

(* A payment is subtracted from the balance.                               *)
LEMMA PaymentMoney ==
  ASSUME NEW p \in Preferences, NEW n \in Int
  PROVE  MoneyOf(RecordPayment(p, n)) = {p.balance - EstCost, p.verified_balance}
BY DEF RecordPayment, Preferences, MoneyOf

(* What the balance service reports is stored.                             *)
LEMMA BalanceMoney ==
  ASSUME NEW p \in Preferences, NEW b \in Int
  PROVE  MoneyOf(UpdateBalance(p, b)) \subseteq {p.balance, b}
<1>1. UpdateBalance(p, b).verified_balance = b
  BY DEF UpdateBalance, Preferences
<1> QED BY <1>1, UpdateBalanceAccount DEF MoneyOf

(* update_nonce_logic goes on or waits with the balances it found.         *)
LEMMA NonceKept ==
  ASSUME DataOK, NEW m \in Messages, NEW p, NEW n \in Int, NEW from_transactions, Kept(p),
         NonceUpdated(m, p, n, from_transactions)
  PROVE  \E q : Kept(q) /\ (Continue(m, q) \/ Later(m, q))
<1> DEFINE q == UpdateNonce(p, n, from_transactions)
<1>1. now_sec \in Int /\ p \in Preferences
  BY DEF DataOK, Kept
<1>2. q \in Preferences
  BY <1>1, UpdateNonceBounds
<1>3. MoneyOf(q) = MoneyOf(p)
  BY <1>1, NonceKeepsMoney
<1>4. Continue(m, q) \/ Later(m, q)
  BY DEF NonceUpdated
<1> HIDE DEF q
<1>5. Kept(q)
  BY <1>2, <1>3, Zenon DEF Kept
<1> QED BY <1>4, <1>5

(* handle_http_rsp with whatever answer, also one about an account that is *)
(* no longer there.                                                        *)
LEMMA AnyResponse ==
  ASSUME DataOK, NEW m \in Messages, HandleResponse(m)
  PROVE  /\ UNCHANGED <<now_sec, chainVars>>
         /\ Respond(m)
         /\ \E p : /\ Kept(p)
                   /\ \/ Continue(m, p) \/ Later(m, p)
                      \/ Finish(m, p, TRUE) \/ Finish(m, p, FALSE)
<1> DEFINE Goal == \E p : /\ Kept(p)
                          /\ \/ Continue(m, p) \/ Later(m, p)
                             \/ Finish(m, p, TRUE) \/ Finish(m, p, FALSE)
<1>1. /\ prefs \in Preferences /\ Kept(prefs) /\ now_sec \in Int /\ nonce[m] \in Int
  BY DEF DataOK, Kept
<1>2. ASSUME NEW what \in {"nonce", "transactions", "gas", "broadcast", "price", "balance"},
             query.of = what
      PROVE  query.value \in Int
  BY <1>2 DEF DataOK, NoQuery, Queries
<1>3. ASSUME NEW what, NEW answers, Handle(m, what, answers)
      PROVE  /\ query.of = what /\ query.answer \in answers
             /\ UNCHANGED <<now_sec, chainVars>> /\ Respond(m)
  BY <1>3 DEF Handle
<1>4. Kept(SampleGas(prefs))
  BY <1>1, OtherUpdates, OthersKeepMoney, Zenon DEF Kept
<1>5. CASE HandleGas(m)
  <2>1. PICK answers : Handle(m, "gas", answers)
    BY <1>5 DEF HandleGas
  <2>2. UNCHANGED <<now_sec, chainVars>> /\ Respond(m)
    BY <1>3, <2>1
  <2>3. Continue(m, SampleGas(prefs)) \/ Continue(m, prefs)
    BY <1>5 DEF HandleGas
  <2> QED BY <1>1, <1>4, <2>2, <2>3
<1>6. CASE HandleNonce(m)
  <2>1. query.of = "nonce" /\ UNCHANGED <<now_sec, chainVars>> /\ Respond(m)
    BY <1>3, <1>6 DEF HandleNonce
  <2>2. NonceUpdated(m, prefs, query.value, FALSE)
    BY <1>6 DEF HandleNonce
  <2>3. \E q : Kept(q) /\ (Continue(m, q) \/ Later(m, q))
    BY <1>1, <1>2, <2>1, <2>2, NonceKept
  <2> QED BY <2>1, <2>3
<1>7. CASE HandleTransactions(m)
  <2>1. query.of = "transactions" /\ UNCHANGED <<now_sec, chainVars>> /\ Respond(m)
    BY <1>3, <1>7 DEF HandleTransactions
  <2>2. \/ NonceUpdated(m, SampleGas(prefs), query.value, TRUE)
        \/ NonceUpdated(m, prefs, query.value, TRUE)
    BY <1>7 DEF HandleTransactions
  <2>3. \E q : Kept(q) /\ (Continue(m, q) \/ Later(m, q))
    BY <1>1, <1>2, <1>4, <2>1, <2>2, NonceKept
  <2> QED BY <2>1, <2>3
<1>8. CASE HandleBroadcast(m)
  <2>1. UNCHANGED <<now_sec, chainVars>> /\ Respond(m)
    BY <1>3, <1>8 DEF HandleBroadcast
  <2>2. ASSUME Paid PROVE Kept(RecordPayment(prefs, nonce[m]))
    <3>1. RecordPayment(prefs, nonce[m]) \in Preferences
      BY <1>1, RecordPaymentBounds
    <3>2. MoneyOf(RecordPayment(prefs, nonce[m])) = {prefs.balance - EstCost, prefs.verified_balance}
      BY <1>1, PaymentMoney
    <3> QED BY <2>2, <3>1, <3>2, Zenon DEF Kept, MoneyOf
  <2>3. Kept(NonceTooLow(prefs))
    BY <1>1, NonceTooLowBounds, OthersKeepMoney, Zenon DEF Kept
  <2>4. \/ Paid /\ Finish(m, RecordPayment(prefs, nonce[m]), TRUE)
        \/ Continue(m, NonceTooLow(prefs))
    BY <1>8 DEF HandleBroadcast, Handle, Paid
  <2> QED BY <2>1, <2>2, <2>3, <2>4
<1>9. CASE HandleBalance(m)
  <2> DEFINE q == UpdateBalance(prefs, query.value)
  <2>1. /\ query.of = "balance" /\ query.answer = "ok"
        /\ UNCHANGED <<now_sec, chainVars>> /\ Respond(m)
    BY <1>3, <1>9 DEF HandleBalance
  <2>2. q \in Preferences /\ MoneyOf(q) \subseteq {prefs.balance, query.value}
    BY <1>1, <1>2, <2>1, OtherUpdates, BalanceMoney
  <2>3. Continue(m, q) \/ Later(m, q)
    BY <1>9 DEF HandleBalance
  <2> HIDE DEF q
  <2>4. Kept(q)
    BY <2>1, <2>2 DEF Kept, MoneyOf
  <2> QED BY <2>1, <2>3, <2>4
<1>10. CASE HandlePrice(m)
  <2> DEFINE q == [prefs EXCEPT !.price_refresh_sec = now_sec]
  <2>1. UNCHANGED <<now_sec, chainVars>> /\ Respond(m) /\ Continue(m, q)
    BY <1>3, <1>10 DEF HandlePrice
  <2>2. Kept(q)
    BY <1>1, OtherUpdates, OthersKeepMoney, Zenon DEF Kept
  <2> HIDE DEF q
  <2> QED BY <2>1, <2>2
<1>11. CASE HandleError(m)
  <2>1. PICK what : Handle(m, what, {"error"})
    BY <1>11 DEF HandleError
  <2>2. UNCHANGED <<now_sec, chainVars>> /\ Respond(m)
    BY <1>3, <2>1
  <2> QED BY <1>1, <1>11, <2>2 DEF HandleError
<1> QED BY <1>5, <1>6, <1>7, <1>8, <1>9, <1>10, <1>11 DEF HandleResponse

(* A query is under way exactly when a message waits for its answer.       *)
HttpQuery == query # NoQuery <=> \E m \in Messages : http[m] > 0

(* What holds whichever account is there.                                  *)
WorkInv ==
  /\ ConversationInv
  /\ DataOK
  /\ HttpQuery
  /\ old_chain \in [mined : Int, balance : Int]

(* After an import that found the processor idle every query is about the  *)
(* new account, and what is known of nonces is known of its chain.         *)
OwnAnswers ==
  quiet =>
    /\ account = "new"
    /\ AnswerTrue /\ VerifiedIsOnChain
    /\ query # NoQuery => asked_about = "new"

(* ... and so is what is known of its balance.                             *)
OwnBalance ==
  quiet =>
    /\ MoneyOf(prefs) \subseteq own
    /\ 0 \in own /\ chain_balance \in own
    /\ query # NoQuery =>
         (query.of = "balance" /\ query.answer = "ok" => query.value \in own)

-----------------------------------------------------------------------------
(* The processor thread starts on a message, or the UI thread is answered. *)
Works ==
  \/ \E k \in Message_Type : Process(k)
  \/ \E m \in Messages : HandleAnswer(m)

(* Every step of the activities, the processor and the network is one of   *)
(* the scheduling.                                                         *)
LEMMA ImportIsScheduled == [ImportNext]_importVars => [Next]_vars
<1> SUFFICES ASSUME [ImportNext]_importVars
             PROVE  [Next]_vars
  OBVIOUS
<1>1. CASE Activities
  <2>1. \/ UNCHANGED vars
        \/ \E m \in Messages : QueueMessage(m)
        \/ \E c \in Wallets : CancelMessages(c)
    BY <1>1, Zenon DEF Activities, Refresh, Pay, StopMain, ResumeMain, DeleteOldKey, Import
  <2> QED BY <2>1 DEF Next, UiNext
<1>2. CASE Works
  BY <1>2, ProcessMessageIsScheduled, HandleResponseIsScheduled DEF Works, Process, HandleAnswer
<1>3. CASE Work
  BY <1>3 DEF Work, Next, UiNext, RunNext, Threads
<1>4. CASE ServeOwn
  BY <1>4, NetworkIsInvisible DEF ServeOwn
<1>5. CASE ServeErased
  BY <1>5 DEF ServeErased, Asked, NetworkStep
<1>6. CASE Elapse
  BY <1>6 DEF Elapse, Next
<1>7. CASE UNCHANGED importVars
  BY <1>7 DEF importVars, processorVars
<1> QED BY <1>1, <1>2, <1>3, <1>4, <1>5, <1>6, <1>7 DEF ImportNext, Works

(* What works on message m. *)
WorksFor(m) ==
  \/ \E k \in Message_Type : ProcessMessage(k) /\ m = current_message[k]
  \/ HandleResponse(m)

(* Either works on a message, asks about the account in the preferences,   *)
(* and subtracts a payment only when one was made.                         *)
LEMMA WorksOn ==
  ASSUME WorkInv, Works
  PROVE  /\ \E m \in Messages : WorksFor(m)
         /\ UNCHANGED <<account, old_chain, quiet>>
         /\ asked_about' = IF query' # NoQuery THEN account ELSE asked_about
         /\ own' = IF Paid THEN own \cup {b - EstCost : b \in own} ELSE own
<1>1. ASSUME NEW k \in Message_Type, ProcessMessage(k)
      PROVE  current_message[k] \in Messages /\ ~Paid
  <2>1. current_message[k] \in Messages /\ \A l \in Messages : http[l] = 0
    BY <1>1, DispatchContext DEF ProcessMessage, WorkInv, ConversationInv
  <2>2. query = NoQuery
    BY <2>1 DEF WorkInv, HttpQuery
  <2> QED BY <2>1, <2>2 DEF Paid, NoQuery
<1> QED BY <1>1 DEF Works, WorksFor, Process, HandleAnswer, AsksAbout, Paid

(* A piece of work ends with a new query, for which its message waits, or  *)
(* with none.                                                              *)
LEMMA WorkAsks ==
  ASSUME WorkInv, NEW m \in Messages,
         WorksFor(m)
  PROVE  /\ DataOK' /\ HttpQuery'
         /\ UNCHANGED <<now_sec, chainVars>>
         /\ query' # NoQuery => query'.answer = "none"
         /\ \E p : Kept(p) /\ MoneyOf(prefs') = MoneyOf(p)
<1> USE Basics
<1>0. DataOK /\ ConversationInv /\ TypeOK
  BY DEF WorkInv, ConversationInv
<1> DEFINE Goal == /\ DataOK' /\ HttpQuery'
                   /\ query' # NoQuery => query'.answer = "none"
                   /\ \E p : Kept(p) /\ MoneyOf(prefs') = MoneyOf(p)
<1>1. ASSUME NEW p, Kept(p), Guts(p, m), Query(p, m), \E l \in Messages : http'[l] > 0,
             UNCHANGED <<now_sec, chainVars>>
      PROVE  Goal
  <2>1. p \in Preferences
    BY <1>1 DEF Kept
  <2>2. prefs' \in Preferences /\ nonce' \in [Messages -> Int]
    BY <1>0, <1>1, <2>1, GutsKeepNonces
  <2>3. query' \in Queries /\ query'.answer = "none"
    BY <1>0, <1>1, <2>1, QueryIsSound
  <2>4. MoneyOf(prefs') = MoneyOf(p)
    BY <1>1, <2>1, OthersKeepMoney DEF Guts, SendGuts, BalanceGuts
  <2>5. DataOK'
    BY <1>0, <1>1, <2>2, <2>3 DEF DataOK, chainVars
  <2>6. query' # NoQuery
    BY <2>3 DEF Queries, NoQuery
  <2>7. HttpQuery'
    BY <1>1, <2>6 DEF HttpQuery
  <2> QED BY <1>1, <2>3, <2>4, <2>5, <2>7
<1>2. ASSUME NEW p, Kept(p), Guts(p, m), query' = NoQuery, \A l \in Messages : http'[l] = 0,
             UNCHANGED <<now_sec, chainVars>>
      PROVE  Goal
  <2>1. p \in Preferences
    BY <1>2 DEF Kept
  <2>2. prefs' \in Preferences /\ nonce' \in [Messages -> Int]
    BY <1>0, <1>2, <2>1, GutsKeepNonces
  <2>3. MoneyOf(prefs') = MoneyOf(p)
    BY <1>2, <2>1, OthersKeepMoney DEF Guts, SendGuts, BalanceGuts
  <2>4. DataOK'
    BY <1>0, <1>2, <2>2 DEF DataOK, chainVars
  <2>5. HttpQuery'
    BY <1>2 DEF HttpQuery
  <2> QED BY <1>2, <2>3, <2>4, <2>5
<1>3. ASSUME NEW p, Kept(p), prefs' = p, UNCHANGED nonce, query' = NoQuery,
             \A l \in Messages : http'[l] = 0, UNCHANGED <<now_sec, chainVars>>
      PROVE  Goal
  <2>1. p \in Preferences
    BY <1>3 DEF Kept
  <2>2. DataOK'
    BY <1>0, <1>3, <2>1 DEF DataOK, chainVars
  <2>3. HttpQuery'
    BY <1>3 DEF HttpQuery
  <2> QED BY <1>3, <2>2, <2>3
<1> HIDE DEF Goal
<1>4. ASSUME NEW k \in Message_Type, ProcessMessage(k), m = current_message[k]
      PROVE  Goal /\ UNCHANGED <<now_sec, chainVars>>
  <2>1. \A l \in Messages : http[l] = 0
    BY <1>0, <1>4, DispatchContext DEF ProcessMessage
  <2>2. Kept(prefs) /\ Guts(prefs, m) /\ UNCHANGED <<now_sec, chainVars>>
    BY <1>0, <1>4 DEF ProcessMessage, Kept, DataOK
  <2>3. CASE RunQuery(k) /\ Query(prefs, m)
    <3>1. http' = [http EXCEPT ![m] = http[m] + 1] /\ http \in [Messages -> Nat]
      BY <1>0, <1>4, <2>3 DEF RunQuery, TypeOK
    <3>2. http'[m] > 0
      BY <3>1
    <3> QED BY <1>1, <2>2, <2>3, <3>2
  <2>4. CASE RunDispose(k) /\ NothingToAsk(prefs, m)
    <3>1. query' = NoQuery /\ \A l \in Messages : http'[l] = 0
      BY <2>1, <2>4 DEF RunDispose, NothingToAsk
    <3> QED BY <1>2, <2>2, <3>1
  <2> QED BY <1>4, <2>3, <2>4 DEF ProcessMessage
<1>5. ASSUME HandleResponse(m)
      PROVE  Goal /\ UNCHANGED <<now_sec, chainVars>>
  <2>1. /\ UNCHANGED <<now_sec, chainVars>> /\ Respond(m)
        /\ \E p : /\ Kept(p)
                  /\ \/ Continue(m, p) \/ Later(m, p)
                     \/ Finish(m, p, TRUE) \/ Finish(m, p, FALSE)
    BY <1>0, <1>5, AnyResponse
  <2>2. /\ current_message[Kind(m)] = m /\ http[m] = 1
        /\ \A l \in Messages \ {m} : http[l] = 0
    BY <1>0, <2>1, RespondContext
  <2>3. PICK p : /\ Kept(p)
                 /\ \/ Continue(m, p) \/ Later(m, p)
                    \/ Finish(m, p, TRUE) \/ Finish(m, p, FALSE)
    BY <2>1
  <2>4. http' = [http EXCEPT ![m] = @ - 1] => \A l \in Messages : http'[l] = 0
    BY <1>0, <2>2 DEF TypeOK
  <2>5. CASE Continue(m, p)
    <3>1. CASE RspQuery(m) /\ Query(p, m)
      <4>1. http'[m] = 1
        BY <2>2, <3>1 DEF RspQuery
      <4>2. \E l \in Messages : http'[l] > 0
        BY <4>1
      <4> QED BY <1>1, <2>1, <2>3, <2>5, <3>1, <4>2 DEF Continue
    <3>2. CASE (\E flush_all : RspDispose(m, flush_all)) /\ NothingToAsk(p, m)
      <4>1. query' = NoQuery /\ \A l \in Messages : http'[l] = 0
        BY <2>4, <3>2 DEF RspDispose, NothingToAsk
      <4> QED BY <1>2, <2>1, <2>3, <2>5, <4>1 DEF Continue
    <3> QED BY <2>5, <3>1, <3>2 DEF Continue
  <2>6. CASE Later(m, p) \/ Finish(m, p, TRUE) \/ Finish(m, p, FALSE)
    <3>1. /\ prefs' = p /\ UNCHANGED nonce /\ query' = NoQuery
          /\ \A l \in Messages : http'[l] = 0
      BY <2>4, <2>6 DEF Later, RspSuspend, Finish, RspDispose
    <3> QED BY <1>3, <2>1, <2>3, <3>1
  <2> QED BY <2>1, <2>3, <2>5, <2>6
<1> QED BY <1>4, <1>5 DEF Goal, WorksFor

(* An answer is one of the kinds a query may get.                          *)
LEMMA AnAnswer ==
  ASSUME DataOK, query # NoQuery, NEW answer \in {"ok", "too_low", "error"}, NEW value \in Int,
         Answers(answer, value)
  PROVE  /\ query' \in Queries /\ query' # NoQuery
         /\ query'.of = query.of /\ query'.answer = answer /\ query'.value = value
<1>1. query \in Queries /\ query' = [query EXCEPT !.answer = answer, !.value = value]
  BY DEF DataOK, Answers
<1>2. /\ query' \in Queries /\ query'.of = query.of /\ query'.answer = answer
      /\ query'.value = value
  BY <1>1 DEF Queries
<1>3. query'.of # "none"
  BY <1>2 DEF Queries
<1> QED BY <1>2, <1>3 DEF NoQuery

(* What the network answers: the balance it reports is the one the account *)
(* has.                                                                    *)
LEMMA NetworkData ==
  ASSUME DataOK, Network
  PROVE  /\ DataOK'
         /\ query' = query \/ (query'.of = "balance" /\ query'.answer = "ok" =>
                                 query'.value = chain_balance)
<1> DEFINE Goal == /\ DataOK'
                   /\ query' = query \/ (query'.of = "balance" /\ query'.answer = "ok" =>
                                           query'.value = chain_balance)
<1> SUFFICES Goal
  OBVIOUS
<1>1. /\ mined \in Nat /\ chain_balance \in Int /\ RealCost \in Nat /\ Deposits \subseteq Nat
      /\ ApiLag \in Nat
  BY Numbers DEF DataOK
<1>2. ASSUME NEW answer \in {"ok", "too_low", "error"}, NEW value \in Int, query # NoQuery,
             Answers(answer, value), NetworkStep, UNCHANGED <<mined, chain_balance>>,
             query.of = "balance" /\ answer = "ok" => value = chain_balance
      PROVE  Goal
  <2>1. /\ query' \in Queries /\ query'.of = query.of /\ query'.answer = answer
        /\ query'.value = value
    BY <1>2, AnAnswer
  <2>2. DataOK'
    BY <1>2, <2>1 DEF DataOK, NetworkStep, clientVars
  <2> QED BY <1>2, <2>1, <2>2
<1>3. ASSUME NetworkStep, UNCHANGED query, mined' \in Nat, chain_balance' \in Int
      PROVE  Goal
  <2>1. DataOK'
    BY <1>3 DEF DataOK, NetworkStep, clientVars
  <2> QED BY <1>3, <2>1
<1> HIDE DEF Goal
<1>4. ASSUME NEW what, what # "none", query.of = what
      PROVE  query # NoQuery
  BY <1>4 DEF NoQuery
<1>5. CASE ServeNonce
  <2>1. /\ query.of = "nonce" /\ NetworkStep /\ UNCHANGED <<mined, chain_balance>>
    BY <1>5 DEF ServeNonce, Asked, chainVars
  <2>2. PICK n \in (mined - 1 - ApiLag)..(mined - 1) : Answers("ok", n)
    BY <1>5 DEF ServeNonce
  <2>3. n \in Int
    BY <1>1
  <2> QED BY <1>2, <1>4, <2>1, <2>2, <2>3
<1>6. CASE ServeTransactions
  <2>1. /\ query.of = "transactions" /\ NetworkStep /\ UNCHANGED <<mined, chain_balance>>
    BY <1>6 DEF ServeTransactions, Asked, chainVars
  <2>2. PICK n \in {mined - 1, -1} : Answers("ok", n)
    BY <1>6 DEF ServeTransactions
  <2>3. n \in Int
    BY <1>1
  <2> QED BY <1>2, <1>4, <2>1, <2>2, <2>3
<1>7. CASE ServeBalance
  <2>1. /\ query.of = "balance" /\ NetworkStep /\ UNCHANGED <<mined, chain_balance>>
        /\ Answers("ok", chain_balance)
    BY <1>7 DEF ServeBalance, Asked, chainVars
  <2> QED BY <1>1, <1>2, <1>4, <2>1
<1>8. CASE ServeOther
  <2>1. /\ query.of \in {"gas", "price"} /\ NetworkStep
        /\ UNCHANGED <<mined, chain_balance>> /\ Answers("ok", 0)
    BY <1>8 DEF ServeOther, Asked, chainVars
  <2> QED BY <1>2, <1>4, <2>1
<1>9. CASE ServeBroadcast
  <2>1. /\ query.of = "broadcast" /\ NetworkStep /\ UNCHANGED <<mined, chain_balance>>
        /\ Answers("ok", 0) \/ Answers("error", 0)
    BY <1>9 DEF ServeBroadcast, NodeAccepts, Asked
  <2> QED BY <1>2, <1>4, <2>1
<1>10. CASE RefuseBroadcast
  <2>1. /\ query.of = "broadcast" /\ NetworkStep /\ UNCHANGED <<mined, chain_balance>>
        /\ Answers("too_low", 0) \/ Answers("error", 0)
    BY <1>10 DEF RefuseBroadcast, Asked, chainVars
  <2> QED BY <1>2, <1>4, <2>1
<1>11. CASE Unreachable
  <2>1. /\ query # NoQuery /\ NetworkStep /\ UNCHANGED <<mined, chain_balance>>
        /\ Answers("error", 0)
    BY <1>11 DEF Unreachable, Asked, chainVars
  <2> QED BY <1>2, <2>1
<1>12. CASE Mine
  <2>1. /\ NetworkStep /\ UNCHANGED query /\ mined' = mined + 1
        /\ chain_balance' = chain_balance - RealCost
    BY <1>12 DEF Mine
  <2> QED BY <1>1, <1>3, <2>1
<1>13. ASSUME NEW amount \in Deposits, Deposit(amount)
       PROVE  Goal
  <2>1. /\ NetworkStep /\ UNCHANGED <<query, mined>>
        /\ chain_balance' = chain_balance + amount
    BY <1>13 DEF Deposit
  <2>2. chain_balance' \in Int
    BY <1>1, <2>1
  <2> QED BY <1>1, <1>3, <2>1, <2>2
<1>14. ASSUME NEW n \in Nonces, Drop(n)
       PROVE  Goal
  <2>1. NetworkStep /\ UNCHANGED <<query, mined, chain_balance>>
    BY <1>14 DEF Drop
  <2> QED BY <1>1, <1>3, <2>1
<1> QED BY <1>5, <1>6, <1>7, <1>8, <1>9, <1>10, <1>11, <1>12, <1>13, <1>14 DEF Network

-----------------------------------------------------------------------------
(* What the other steps leave alone. *)

(* The steps that change neither the preferences nor the query.            *)
LEMMA DataStays ==
  ASSUME [ImportNext]_importVars
  PROVE  \/ /\ UNCHANGED <<prefs, nonce, query, http, mined, chain_balance, old_chain, account,
                           asked_about, quiet, own>>
            /\ now_sec' \in {now_sec, now_sec + 1}
         \/ DeleteOldKey \/ Import \/ Works \/ ServeOwn \/ ServeErased
<1> DEFINE Goal == /\ UNCHANGED <<prefs, nonce, query, http, mined, chain_balance, old_chain,
                                  account, asked_about, quiet, own>>
                   /\ now_sec' \in {now_sec, now_sec + 1}
<1>1. CASE \E m \in Messages : Refresh(m) \/ Pay(m)
  BY <1>1, Zenon DEF Refresh, Pay, QueueMessage, data, clientVars, chainVars
<1>2. CASE StopMain
  BY <1>2, Zenon DEF StopMain, CancelMessages, data, clientVars, chainVars
<1>3. CASE ResumeMain
  BY <1>3, Zenon DEF ResumeMain, vars, data, clientVars, chainVars
<1>4. CASE Work
  <2>1. UNCHANGED http
    BY <1>4, Zenon DEF Work, Deliver, SelectSuspended, SelectNew, WaitOnMonitor, WaitTimeout
  <2> QED BY <1>4, <2>1, Zenon DEF Work, data, clientVars, chainVars
<1>5. CASE Elapse /\ UNCHANGED <<account, main, asked_about, old_chain, quiet, own>>
  <2>1. UNCHANGED http
    BY <1>5, Zenon DEF Elapse, Tick, vars
  <2> QED BY <1>5, <2>1, Zenon DEF Elapse, clientVars, chainVars
<1>6. CASE UNCHANGED importVars
  BY <1>6, Zenon DEF importVars, processorVars, vars, clientVars, chainVars
<1> QED BY <1>1, <1>2, <1>3, <1>4, <1>5, <1>6 DEF ImportNext, Activities, Works

(* onResume sets numbers back to numbers.                                  *)
LEMMA ImportedPreferences ==
  ASSUME NEW p \in Preferences
  PROVE  Imported(p) \in Preferences
<1>1. ASSUME NEW a \in Int, NEW b \in Int, NEW c \in Int
      PROVE  [p EXCEPT !.balance = a, !.verified_balance = a, !.balance_refresh_sec = a,
                       !.last_tx_nonce = b, !.verified_nonce = c, !.nonce_refresh_sec = a,
                       !.verified_balance_changed_sec = a] \in Preferences
  BY DEF Preferences
<1>2. 0 \in Int /\ -1 \in Int /\ -2 \in Int
  OBVIOUS
<1> QED BY <1>1, <1>2, Zenon DEF Imported

(* What holds whichever account is there is kept by each of these steps.   *)
LEMMA WorkStep == WorkInv /\ [ImportNext]_importVars => WorkInv'
<1> SUFFICES ASSUME WorkInv, [ImportNext]_importVars
             PROVE  DataOK' /\ HttpQuery' /\ (old_chain \in [mined : Int, balance : Int])'
  BY ImportIsScheduled, ConversationStep DEF WorkInv
<1>0. /\ DataOK /\ HttpQuery /\ old_chain \in [mined : Int, balance : Int]
  BY DEF WorkInv
<1>1. /\ mined \in Nat /\ chain_balance \in Int /\ now_sec \in Int /\ prefs \in Preferences
      /\ query = NoQuery \/ query \in Queries
  BY <1>0 DEF DataOK
<1>2. CASE /\ UNCHANGED <<prefs, nonce, query, http, mined, chain_balance, old_chain, account,
                          asked_about, quiet, own>>
           /\ now_sec' \in {now_sec, now_sec + 1}
  <2>1. now_sec' \in Int
    BY <1>1, <1>2
  <2> QED BY <1>0, <1>2, <2>1 DEF DataOK, HttpQuery
<1>3. CASE DeleteOldKey
  <2>1. /\ old_chain' = [mined |-> mined, balance |-> chain_balance]
        /\ query' = IF query.of = "transactions" THEN [query EXCEPT !.value = -1] ELSE query
        /\ UNCHANGED <<prefs, nonce, now_sec, mined, chain_balance, http>>
    BY <1>3, Zenon DEF DeleteOldKey, vars, clientVars, chainVars
  <2>2. /\ query' = NoQuery \/ query' \in Queries
        /\ query' = NoQuery <=> query = NoQuery
    BY <1>1, <2>1 DEF Queries, NoQuery
  <2>3. old_chain' \in [mined : Int, balance : Int]
    BY <1>1, <2>1
  <2> QED BY <1>0, <2>1, <2>2, <2>3 DEF DataOK, HttpQuery
<1>4. CASE Import
  <2>1. /\ prefs' = Imported(prefs) /\ mined' = NewNonce /\ chain_balance' = NewBalance
        /\ UNCHANGED <<nonce, query, now_sec, http, old_chain>>
    <3>1. UNCHANGED http
      BY <1>4, Zenon DEF Import, vars, QueueMessage
    <3> QED BY <1>4, <3>1, Zenon DEF Import, clientVars
  <2>2. Imported(prefs) \in Preferences
    BY <1>1, ImportedPreferences
  <2>3. NewNonce \in Nat /\ NewBalance \in Int
    BY ImportAssumption, Numbers, Basics
  <2> QED BY <1>0, <2>1, <2>2, <2>3 DEF DataOK, HttpQuery
<1>5. CASE Works
  BY <1>0, <1>5, WorksOn, WorkAsks
<1>6. CASE ServeOwn
  <2>1. Network /\ UNCHANGED old_chain
    BY <1>6 DEF ServeOwn
  <2>2. UNCHANGED http /\ (query' = NoQuery <=> query = NoQuery)
    BY <1>0, <2>1, NetworkAnswers DEF vars
  <2> QED BY <1>0, <2>1, <2>2, NetworkData DEF HttpQuery
<1>7. CASE ServeErased
  <2>1. /\ query # NoQuery /\ NetworkStep
        /\ UNCHANGED <<mined, chain_balance, old_chain>>
        /\ \E answer \in {"ok", "error"} :
             \E value \in {0, -1, old_chain.mined - 1, old_chain.balance} : Answers(answer, value)
    BY <1>7 DEF ServeErased, Asked, chainVars
  <2>2. UNCHANGED <<prefs, nonce, now_sec, http>>
    BY <2>1, Zenon DEF NetworkStep, clientVars, vars
  <2>3. query' \in Queries /\ query' # NoQuery
    <3>1. PICK answer \in {"ok", "error"},
               value \in {0, -1, old_chain.mined - 1, old_chain.balance} : Answers(answer, value)
      BY <2>1
    <3>2. answer \in {"ok", "too_low", "error"} /\ value \in Int
      BY <1>0
    <3> QED BY <1>0, <2>1, <3>1, <3>2, AnAnswer
  <2> QED BY <1>0, <2>1, <2>2, <2>3 DEF DataOK, HttpQuery
<1> QED BY <1>2, <1>3, <1>4, <1>5, <1>6, <1>7, DataStays, Zenon

(* Between the import and the end of the behaviour only the new account is *)
(* asked about, and its chain never has less than it tells.                *)
LEMMA OwnStep ==
  WorkInv /\ OwnAnswers /\ [ImportNext]_importVars => OwnAnswers'
<1> SUFFICES ASSUME WorkInv, OwnAnswers, [ImportNext]_importVars, quiet'
             PROVE  /\ account' = "new"
                    /\ AnswerTrue' /\ VerifiedIsOnChain'
                    /\ query' # NoQuery => asked_about' = "new"
  BY Zenon DEF OwnAnswers
<1>0. DataOK /\ HttpQuery /\ TypeOK
  BY DEF WorkInv, ConversationInv
<1>1. ASSUME UNCHANGED quiet
      PROVE  /\ quiet /\ account = "new" /\ NonceInv
             /\ query # NoQuery => asked_about = "new"
  BY <1>0, <1>1, Zenon DEF OwnAnswers, NonceInv
<1>2. CASE /\ UNCHANGED <<prefs, nonce, query, http, mined, chain_balance, old_chain, account,
                          asked_about, quiet, own>>
           /\ now_sec' \in {now_sec, now_sec + 1}
  BY <1>1, <1>2 DEF NonceInv, AnswerTrue, VerifiedIsOnChain
<1>3. CASE DeleteOldKey
  BY <1>1, <1>3 DEF DeleteOldKey
<1>4. CASE Import
  <2>1. /\ prefs' = Imported(prefs) /\ account' = "new" /\ mined' = NewNonce
        /\ UNCHANGED query /\ http = [m \in Messages |-> 0]
    BY <1>4 DEF Import
  <2>2. query = NoQuery
    BY <1>0, <2>1 DEF HttpQuery
  <2>3. prefs'.verified_nonce = -2
    BY <1>0, <2>1 DEF Imported, DataOK, Preferences
  <2>4. NewNonce \in Nat
    BY ImportAssumption, Numbers, Basics
  <2> QED BY <2>1, <2>2, <2>3, <2>4 DEF AnswerTrue, VerifiedIsOnChain
<1>5. CASE Works
  <2>1. /\ UNCHANGED <<quiet, account>>
        /\ asked_about' = IF query' # NoQuery THEN account ELSE asked_about
    BY <1>5, WorksOn
  <2>2. NonceInv'
    BY <1>0, <1>1, <1>5, <2>1, ProcessMessageKeepsNonceInv, HandleResponseKeepsNonceInv
       DEF Works, Process, HandleAnswer
  <2> QED BY <1>1, <2>1, <2>2 DEF NonceInv
<1>6. CASE ServeOwn
  <2>1. Network /\ UNCHANGED <<account, asked_about, quiet>>
    BY <1>6 DEF ServeOwn
  <2>2. NonceInv'
    BY <1>1, <2>1, NetworkKeepsNonceInv
  <2>3. query' # NoQuery => query # NoQuery
    BY <1>0, <2>1, NetworkAnswers
  <2> QED BY <1>1, <2>1, <2>2, <2>3 DEF NonceInv
<1>7. CASE ServeErased
  BY <1>1, <1>7 DEF ServeErased
<1> QED BY <1>2, <1>3, <1>4, <1>5, <1>6, <1>7, DataStays, Zenon

(* What is paid in and out changes what the account has had in the same    *)
(* step, and the balance service only reports what it has had.             *)
LEMMA OwnBalanceStep ==
  WorkInv /\ OwnAnswers /\ OwnBalance /\ [ImportNext]_importVars => OwnBalance'
<1> SUFFICES ASSUME WorkInv, OwnAnswers, OwnBalance, [ImportNext]_importVars, quiet'
             PROVE  /\ MoneyOf(prefs') \subseteq own'
                    /\ 0 \in own' /\ chain_balance' \in own'
                    /\ query' # NoQuery =>
                         (query'.of = "balance" /\ query'.answer = "ok" => query'.value \in own')
  BY Zenon DEF OwnBalance
<1>0. DataOK /\ HttpQuery
  BY DEF WorkInv
<1>1. ASSUME UNCHANGED quiet
      PROVE  /\ quiet /\ account = "new"
             /\ query # NoQuery => asked_about = "new"
             /\ MoneyOf(prefs) \subseteq own
             /\ 0 \in own /\ chain_balance \in own
             /\ query # NoQuery =>
                  (query.of = "balance" /\ query.answer = "ok" => query.value \in own)
  BY <1>1, Zenon DEF OwnAnswers, OwnBalance
<1>2. CASE /\ UNCHANGED <<prefs, nonce, query, http, mined, chain_balance, old_chain, account,
                          asked_about, quiet, own>>
           /\ now_sec' \in {now_sec, now_sec + 1}
  BY <1>1, <1>2, Zenon
<1>3. CASE DeleteOldKey
  BY <1>1, <1>3 DEF DeleteOldKey
<1>4. CASE Import
  <2>1. /\ prefs' = Imported(prefs) /\ UNCHANGED query /\ http = [m \in Messages |-> 0]
        /\ own' = {0, NewBalance} /\ chain_balance' = NewBalance
    BY <1>4 DEF Import
  <2>2. query = NoQuery
    BY <1>0, <2>1 DEF HttpQuery
  <2>3. MoneyOf(prefs') = {0}
    BY <1>0, <2>1 DEF Imported, DataOK, Preferences, MoneyOf
  <2> QED BY <2>1, <2>2, <2>3
<1>5. CASE Works
  <2>1. PICK m \in Messages : WorksFor(m)
    BY <1>5, WorksOn
  <2>2. /\ UNCHANGED <<now_sec, chainVars>>
        /\ query' # NoQuery => query'.answer = "none"
        /\ \E p : Kept(p) /\ MoneyOf(prefs') = MoneyOf(p)
    BY <2>1, WorkAsks
  <2>3. /\ UNCHANGED <<quiet, chain_balance>>
        /\ own' = IF Paid THEN own \cup {b - EstCost : b \in own} ELSE own
    BY <1>5, <2>2, WorksOn DEF chainVars
  <2>4. PICK p : Kept(p) /\ MoneyOf(prefs') = MoneyOf(p)
    BY <2>2
  <2>5. query.of = "balance" => query # NoQuery
    BY DEF NoQuery
  <2>6. own \subseteq own' /\ (Paid => \A b \in own : b - EstCost \in own')
    BY <2>3
  <2>7. prefs.balance \in own
    BY <1>1, <2>3 DEF MoneyOf
  <2>8. MoneyOf(prefs') \subseteq own'
    <3>1. MoneyOf(prefs) \subseteq own
      BY <1>1, <2>3
    <3>2. query.of = "balance" /\ query.answer = "ok" => query.value \in own
      BY <1>1, <2>3, <2>5
    <3>3. ASSUME NEW b \in MoneyOf(p) PROVE b \in own'
      <4>1. CASE b \in MoneyOf(prefs)
        BY <2>6, <3>1, <4>1
      <4>2. CASE b = prefs.balance - EstCost /\ Paid
        BY <2>6, <2>7, <4>2
      <4>3. CASE b = query.value /\ query.of = "balance" /\ query.answer = "ok"
        BY <2>6, <3>2, <4>3
      <4> QED BY <2>4, <3>3, <4>1, <4>2, <4>3, Zenon DEF Kept
    <3> QED BY <2>4, <3>3, Zenon
  <2> QED BY <1>1, <2>2, <2>3, <2>6, <2>8
<1>6. CASE ServeOwn
  <2>1. Network /\ UNCHANGED <<account, asked_about, quiet>>
    BY <1>6 DEF ServeOwn
  <2>2. UNCHANGED prefs /\ (query = NoQuery => query' = NoQuery)
    BY <1>0, <2>1, NetworkAnswers
  <2>3. query' = query \/ (query'.of = "balance" /\ query'.answer = "ok" =>
                             query'.value = chain_balance)
    BY <1>0, <2>1, NetworkData
  <2>4. own' = own \cup {chain_balance'}
    BY <1>1, <1>6, <2>1 DEF ServeOwn
  <2> QED BY <1>1, <2>1, <2>2, <2>3, <2>4
<1>7. CASE ServeErased
  BY <1>1, <1>7 DEF ServeErased
<1> QED BY <1>2, <1>3, <1>4, <1>5, <1>6, <1>7, DataStays, Zenon

(* Before the import nothing is known of it.                               *)
LEMMA ImportInitially == ImportInit => WorkInv /\ OwnAnswers /\ OwnBalance
<1> SUFFICES ASSUME ImportInit PROVE WorkInv /\ OwnAnswers /\ OwnBalance
  OBVIOUS
<1>1. ProcessorInit /\ ~quiet /\ old_chain = [mined |-> StartNonce, balance |-> StartBalance]
  BY Zenon DEF ImportInit
<1>2. ConversationInv /\ DataOK /\ HttpQuery
  BY <1>1, NonceInit, QueryInit, ConversationInit DEF NonceInv, QueryInv, HttpQuery, ProcessorInit
<1>3. old_chain \in [mined : Int, balance : Int]
  BY <1>1, Numbers
<1> QED BY <1>1, <1>2, <1>3 DEF WorkInv, OwnAnswers, OwnBalance

(* An import that finds the processor idle leaves nothing of the erased    *)
(* account's nonces behind, and no answer that is still to come brings     *)
(* them back (MainActivity.onResume sets them back, strings.xml:57).       *)
THEOREM ImportedNonceIsOwn == ImportSpec => [](quiet => NonceIsOwn)
<1>1. OwnAnswers => (quiet => NonceIsOwn)
  BY Zenon DEF OwnAnswers, NonceIsOwn, VerifiedIsOnChain
<1> QED BY <1>1, ImportInitially, WorkStep, OwnStep, PTL DEF ImportSpec

(* Nor of its balances: each one that is stored is 0, or one the new       *)
(* account has had since, less what it has paid, whatever payments cost    *)
(* and others pay in.                                                      *)
THEOREM ImportIsClean == ImportSpec => []CleanImport
<1>1. OwnAnswers /\ OwnBalance => CleanImport
  BY Zenon DEF OwnAnswers, OwnBalance, CleanImport, NonceIsOwn, BalanceIsOwn,
               VerifiedIsOnChain, MoneyOf
<1> QED BY <1>1, ImportInitially, WorkStep, OwnStep, OwnBalanceStep, PTL DEF ImportSpec

-----------------------------------------------------------------------------
(* The types of the preferences and of the fields.                         *)

(* Nonces are at least -2, the "not known" of the preferences. *)
Signed == {n \in Int : n >= -2}

(* Preferences whose times are 0 or since Epoch. *)
Stamped ==
  [last_tx_nonce : Signed, verified_nonce : Signed, nonce_refresh_sec : Times,
   nonce_settled_sec : Times, verified_nonce_changed_sec : Times,
   oldest_unverified_tx : Times, nonce_from_txs_refresh_sec : Times, last_pay_sec : Times,
   rapid_fire_sec : Times, gas_price_known : BOOLEAN, price_refresh_sec : Times,
   balance : Int, verified_balance : Nat, balance_refresh_sec : Times,
   verified_balance_changed_sec : Times]

(* Such preferences are preferences. *)
LEMMA StampedPreferences ==
  ASSUME NEW p \in Stamped
  PROVE  p \in Preferences /\ p.last_tx_nonce \in Signed /\ p.verified_nonce \in Signed
<1>1. Times \subseteq Int
  BY ProcessorAssumption DEF Times
<1>2. Signed \subseteq Int /\ Nat \subseteq Int
  BY DEF Signed
<1> QED BY <1>1, <1>2 DEF Stamped, Preferences

(* The fields update_nonce_logic writes. *)
LEMMA StampNonceFields ==
  ASSUME NEW p \in Stamped, NEW a \in Signed, NEW b \in Times, NEW c \in Signed,
         NEW d \in Times, NEW e \in Times, NEW f \in Times
  PROVE  [p EXCEPT !.verified_nonce = a, !.verified_nonce_changed_sec = b,
                   !.last_tx_nonce = c, !.nonce_refresh_sec = d,
                   !.nonce_from_txs_refresh_sec = e, !.nonce_settled_sec = f]
           \in Stamped
BY DEF Stamped

(* The fields a payment writes. *)
LEMMA StampPaymentFields ==
  ASSUME NEW p \in Stamped, NEW a \in Signed, NEW b \in Times, NEW c \in Times, NEW d \in Int
  PROVE  [p EXCEPT !.last_tx_nonce = a, !.last_pay_sec = b,
                   !.oldest_unverified_tx = c, !.balance = d] \in Stamped
BY DEF Stamped

(* The fields a refused nonce writes. *)
LEMMA StampVerifiedFields ==
  ASSUME NEW p \in Stamped, NEW a \in Signed, NEW b \in Times
  PROVE  [p EXCEPT !.verified_nonce = a, !.verified_nonce_changed_sec = b] \in Stamped
BY DEF Stamped

(* The fields a reported balance writes. *)
LEMMA StampBalanceFields ==
  ASSUME NEW p \in Stamped, NEW a \in Nat, NEW b \in Times, NEW c \in Int, NEW d \in Times
  PROVE  [p EXCEPT !.verified_balance = a, !.verified_balance_changed_sec = b,
                   !.balance = c, !.balance_refresh_sec = d] \in Stamped
BY DEF Stamped

(* update_nonce_logic writes the present time or none, and a nonce it had  *)
(* or was told.                                                            *)
LEMMA UpdateNonceStamped ==
  ASSUME NEW p \in Stamped, NEW n \in Signed, NEW from_transactions, now_sec \in Times
  PROVE  UpdateNonce(p, n, from_transactions) \in Stamped
<1> DEFINE rises    == n > p.verified_nonce
           verified == IF rises THEN n ELSE p.verified_nonce
           adopted  == ~rises /\ ForcedAdoption(p)
           changed  == IF rises \/ adopted THEN now_sec ELSE p.verified_nonce_changed_sec
           last     == IF adopted \/ verified > p.last_tx_nonce THEN verified
                       ELSE p.last_tx_nonce
           from     == IF from_transactions THEN now_sec ELSE p.nonce_from_txs_refresh_sec
           settled  == IF UpToDate(p, n) THEN now_sec ELSE p.nonce_settled_sec
           updated  == [p EXCEPT !.verified_nonce = verified,
                                 !.verified_nonce_changed_sec = changed,
                                 !.last_tx_nonce = last, !.nonce_refresh_sec = now_sec,
                                 !.nonce_from_txs_refresh_sec = from,
                                 !.nonce_settled_sec = settled]
<1>1. verified \in Signed /\ changed \in Times /\ last \in Signed /\ from \in Times
      /\ settled \in Times
  BY DEF Stamped
<1>2. UpdateNonce(p, n, from_transactions) = updated
  BY DEF UpdateNonce
<1> HIDE DEF verified, changed, last, from, settled
<1>3. updated \in Stamped
  BY <1>1, StampNonceFields, Zenon
<1> QED BY <1>2, <1>3

(* So does a payment. *)
LEMMA RecordPaymentStamped ==
  ASSUME NEW p \in Stamped, NEW n \in Signed, now_sec \in Times
  PROVE  RecordPayment(p, n) \in Stamped
<1> DEFINE oldest == IF p.oldest_unverified_tx < p.verified_nonce_changed_sec
                     THEN now_sec ELSE p.oldest_unverified_tx
           left   == p.balance - EstCost
           paid   == [p EXCEPT !.last_tx_nonce = n, !.last_pay_sec = now_sec,
                               !.oldest_unverified_tx = oldest, !.balance = left]
<1>1. oldest \in Times
  BY DEF Stamped
<1>2. left \in Int
  BY Numbers DEF Stamped
<1>3. RecordPayment(p, n) = paid
  BY DEF RecordPayment
<1> HIDE DEF oldest, left
<1>4. paid \in Stamped
  BY <1>1, <1>2, StampPaymentFields, Zenon
<1> QED BY <1>3, <1>4

(* And a refused nonce. *)
LEMMA NonceTooLowStamped ==
  ASSUME NEW p \in Stamped, now_sec \in Times
  PROVE  NonceTooLow(p) \in Stamped
<1> DEFINE verified == IF p.verified_nonce = p.last_tx_nonce
                       THEN p.last_tx_nonce + 1 ELSE -2
<1>1. p.last_tx_nonce \in Signed
  BY StampedPreferences
<1>2. verified \in Signed
  BY <1>1 DEF Signed
<1>3. NonceTooLow(p) = [p EXCEPT !.verified_nonce = verified,
                                 !.verified_nonce_changed_sec = now_sec]
  BY DEF NonceTooLow
<1> HIDE DEF verified
<1> QED BY <1>2, <1>3, StampVerifiedFields

(* And a reported balance. *)
LEMMA UpdateBalanceStamped ==
  ASSUME NEW p \in Stamped, NEW b \in Nat, now_sec \in Times
  PROVE  UpdateBalance(p, b) \in Stamped
<1> DEFINE changed == IF b # p.verified_balance THEN now_sec
                      ELSE p.verified_balance_changed_sec
           balance == IF \/ p.last_tx_nonce = p.verified_nonce /\ b > p.balance
                         \/ Since(changed) > BalanceForcedAdoption
                         \/ /\ (IF b > p.balance THEN b - p.balance ELSE p.balance - b)
                                 <= BalanceEstimateSlop
                            /\ Since(p.balance_refresh_sec) < BalanceForcedAdoption \div 2
                      THEN b ELSE p.balance
           updated == [p EXCEPT !.verified_balance = b,
                                !.verified_balance_changed_sec = changed,
                                !.balance = balance,
                                !.balance_refresh_sec = now_sec]
<1>1. UpdateBalance(p, b) = updated
  BY DEF UpdateBalance
<1>2. balance \in {b, p.balance} /\ p.balance \in Int
  BY DEF Stamped
<1>3. changed \in Times
  BY DEF Stamped
<1> HIDE DEF balance, changed
<1>4. updated \in Stamped
  <2>1. balance \in Int
    BY <1>2
  <2> QED BY <1>3, <2>1, StampBalanceFields, Zenon
<1> QED BY <1>1, <1>4

(* And the other changes. *)
LEMMA OthersStamped ==
  ASSUME NEW p \in Stamped, now_sec \in Times
  PROVE  /\ SampleGas(p) \in Stamped
         /\ [p EXCEPT !.price_refresh_sec = now_sec] \in Stamped
         /\ [p EXCEPT !.rapid_fire_sec = now_sec] \in Stamped
<1>1. \A b \in BOOLEAN : [p EXCEPT !.gas_price_known = b] \in Stamped
  BY DEF Stamped
<1>2. SampleGas(p) = [p EXCEPT !.gas_price_known =
                        (p.gas_price_known \/ gas_samples + 1 >= GasSamples)]
  BY DEF SampleGas
<1>3. (p.gas_price_known \/ gas_samples + 1 >= GasSamples) \in BOOLEAN
  OBVIOUS
<1>4. SampleGas(p) \in Stamped
  BY <1>1, <1>2, <1>3
<1>5. /\ [p EXCEPT !.price_refresh_sec = now_sec] \in Stamped
      /\ [p EXCEPT !.rapid_fire_sec = now_sec] \in Stamped
  BY DEF Stamped
<1> QED BY <1>4, <1>5

-----------------------------------------------------------------------------
(* What the fields and the answers hold.                                   *)

(* An answer tells of a nonce, or of a balance that is not negative.       *)
Told ==
  query # NoQuery /\ query.answer = "ok" =>
    /\ query.of \in {"nonce", "transactions"} => query.value \in Signed
    /\ query.of = "balance" => query.value \in Nat

FieldInv ==
  /\ prefs \in Stamped
  /\ now_sec \in Epoch..(Epoch + MaxTime)
  /\ process_count \in [Messages -> 0..3]
  /\ gas_samples \in 0..GasSamples
  /\ tx_sec \in [Nonces -> Times]
  /\ \A m \in Messages : nonce[m] >= -1
  /\ Told

(* What handling an answer, or a selection, writes to the fields: a nonce  *)
(* that is chosen is at most the next one.                                 *)
Writes ==
  /\ prefs' \in Stamped
  /\ process_count' \in [Messages -> 0..3]
  /\ \A l \in Messages :
       nonce'[l] = nonce[l] \/ (nonce'[l] >= -1 /\ nonce'[l] <= prefs'.last_tx_nonce + 1)

(* The guts write such fields. *)
LEMMA GutsWrite ==
  ASSUME DataOK, FieldInv, NEW m \in Messages, NEW p \in Stamped, Guts(p, m)
  PROVE  Writes
<1> USE Basics
<1>1. now_sec \in Times /\ p \in Preferences /\ p.last_tx_nonce \in Signed
  BY StampedPreferences DEF FieldInv, Times
<1>2. process_count' \in [Messages -> 0..3]
  <2>1. process_count' = [process_count EXCEPT ![m] = IF @ = 3 THEN 3 ELSE @ + 1]
    BY DEF Guts, SendGuts, BalanceGuts, Begin
  <2>2. process_count[m] \in 0..3
    BY DEF FieldInv
  <2>3. (IF process_count[m] = 3 THEN 3 ELSE process_count[m] + 1) \in 0..3
    BY <2>2
  <2> QED BY <2>1, <2>3 DEF FieldInv
<1>3. prefs' \in {p, [p EXCEPT !.rapid_fire_sec = now_sec]}
  BY DEF Guts, SendGuts, BalanceGuts
<1>4. prefs' \in Stamped
  BY <1>1, <1>3, OthersStamped
<1>5. prefs'.last_tx_nonce = p.last_tx_nonce
  BY <1>1, <1>3 DEF Preferences
<1>6. NextNonce(p) >= -1 /\ NextNonce(p) <= p.last_tx_nonce + 1
  BY <1>1 DEF NextNonce, Signed, Preferences
<1>7. nonce' = nonce \/ nonce' = [nonce EXCEPT ![m] = NextNonce(p)]
  BY DEF Guts, SendGuts, BalanceGuts
<1>8. nonce \in [Messages -> Int]
  BY DEF DataOK
<1> QED BY <1>2, <1>4, <1>5, <1>6, <1>7, <1>8 DEF Writes

(* update_nonce_logic goes on or waits with preferences of that kind. *)
LEMMA NonceStamped ==
  ASSUME now_sec \in Times, NEW m \in Messages, NEW p \in Stamped, NEW n \in Signed,
         NEW from_transactions, NonceUpdated(m, p, n, from_transactions)
  PROVE  \E q \in Stamped : Continue(m, q) \/ Later(m, q)
<1> DEFINE q == UpdateNonce(p, n, from_transactions)
<1>1. q \in Stamped
  BY UpdateNonceStamped, Zenon
<1>2. Continue(m, q) \/ Later(m, q)
  BY DEF NonceUpdated
<1> HIDE DEF q
<1> QED BY <1>1, <1>2

(* handle_http_rsp, answer by answer. *)
LEMMA ResponseStamped ==
  ASSUME DataOK, FieldInv, NEW m \in Messages, HandleResponse(m)
  PROVE  /\ \E p \in Stamped : \/ Continue(m, p) \/ Later(m, p)
                               \/ Finish(m, p, TRUE) \/ Finish(m, p, FALSE)
         /\ gas_samples' \in 0..GasSamples
<1> DEFINE Goal == \E p \in Stamped : \/ Continue(m, p) \/ Later(m, p)
                                      \/ Finish(m, p, TRUE) \/ Finish(m, p, FALSE)
<1>1. /\ prefs \in Stamped /\ now_sec \in Times /\ nonce[m] \in Signed
      /\ SampleGas(prefs) \in Stamped
  <2>1. prefs \in Stamped /\ now_sec \in Times
    BY DEF FieldInv, Times
  <2>2. nonce[m] \in Signed
    BY DEF DataOK, FieldInv, Signed
  <2> QED BY <2>1, <2>2, OthersStamped
<1>2. ASSUME NEW what \in {"nonce", "transactions", "balance"}, Handle(m, what, {"ok"})
      PROVE  /\ what # "balance" => query.value \in Signed
             /\ what = "balance" => query.value \in Nat
  <2>1. query.of = what /\ query.answer = "ok"
    BY <1>2 DEF Handle
  <2>2. query # NoQuery
    BY <2>1 DEF NoQuery
  <2> QED BY <2>1, <2>2 DEF FieldInv, Told
<1>3. OneSample \/ UNCHANGED gas_samples => gas_samples' \in 0..GasSamples
  <2>1. gas_samples \in 0..GasSamples /\ GasSamples \in Nat
    BY ProcessorAssumption DEF FieldInv
  <2> QED BY <2>1 DEF OneSample
<1>4. OneSample \/ UNCHANGED gas_samples
  BY DEF HandleResponse, HandleGas, HandleNonce, HandleTransactions, HandleBroadcast,
         HandleBalance, HandlePrice, HandleError
<1>12. Goal
  <2>5. CASE HandleGas(m)
    <3>1. Continue(m, SampleGas(prefs)) \/ Continue(m, prefs)
      BY <2>5 DEF HandleGas
    <3> QED BY <1>1, <3>1
  <2>6. CASE HandleNonce(m)
    <3>1. NonceUpdated(m, prefs, query.value, FALSE) /\ query.value \in Signed
      BY <1>2, <2>6 DEF HandleNonce
    <3>2. \E q \in Stamped : Continue(m, q) \/ Later(m, q)
      BY <1>1, <3>1, NonceStamped
    <3> QED BY <3>2
  <2>7. CASE HandleTransactions(m)
    <3>1. query.value \in Signed
      BY <1>2, <2>7 DEF HandleTransactions
    <3>2. \/ NonceUpdated(m, SampleGas(prefs), query.value, TRUE)
          \/ NonceUpdated(m, prefs, query.value, TRUE)
      BY <2>7 DEF HandleTransactions
    <3>3. \E q \in Stamped : Continue(m, q) \/ Later(m, q)
      BY <1>1, <3>1, <3>2, NonceStamped
    <3> QED BY <3>3
  <2>8. CASE HandleBroadcast(m)
    <3>1. Finish(m, RecordPayment(prefs, nonce[m]), TRUE) \/ Continue(m, NonceTooLow(prefs))
      BY <2>8 DEF HandleBroadcast
    <3>2. RecordPayment(prefs, nonce[m]) \in Stamped /\ NonceTooLow(prefs) \in Stamped
      BY <1>1, RecordPaymentStamped, NonceTooLowStamped
    <3> QED BY <3>1, <3>2
  <2>9. CASE HandleBalance(m)
    <3> DEFINE q == UpdateBalance(prefs, query.value)
    <3>1. query.value \in Nat
      BY <1>2, <2>9 DEF HandleBalance
    <3>2. q \in Stamped
      BY <1>1, <3>1, UpdateBalanceStamped
    <3>3. Continue(m, q) \/ Later(m, q)
      BY <2>9 DEF HandleBalance
    <3> HIDE DEF q
    <3> QED BY <3>2, <3>3
  <2>10. CASE HandlePrice(m)
    <3> DEFINE q == [prefs EXCEPT !.price_refresh_sec = now_sec]
    <3>1. q \in Stamped
      BY <1>1, OthersStamped
    <3>2. Continue(m, q)
      BY <2>10 DEF HandlePrice
    <3> HIDE DEF q
    <3> QED BY <3>1, <3>2
  <2>11. CASE HandleError(m)
    BY <1>1, <2>11 DEF HandleError
  <2> QED BY <2>5, <2>6, <2>7, <2>8, <2>9, <2>10, <2>11 DEF HandleResponse
<1> QED BY <1>3, <1>4, <1>12

(* And what it writes. *)
LEMMA ResponseWrites ==
  ASSUME DataOK, FieldInv, NEW m \in Messages, HandleResponse(m)
  PROVE  Writes /\ gas_samples' \in 0..GasSamples
<1>1. PICK p \in Stamped : \/ Continue(m, p) \/ Later(m, p)
                           \/ Finish(m, p, TRUE) \/ Finish(m, p, FALSE)
  BY ResponseStamped
<1>2. CASE Continue(m, p)
  BY <1>2, GutsWrite, ResponseStamped DEF Continue
<1>3. CASE Later(m, p) \/ Finish(m, p, TRUE) \/ Finish(m, p, FALSE)
  <2>1. prefs' = p /\ UNCHANGED <<process_count, nonce>>
    BY <1>3 DEF Later, Finish
  <2> QED BY <2>1, ResponseStamped DEF Writes, FieldInv
<1> QED BY <1>1, <1>2, <1>3

(* Pool, and so Due, are functions of the transactions on the chain.       *)
LEMMA DueSame ==
  ASSUME UNCHANGED <<mined, tx>>
  PROVE  Pool' = Pool /\ Due' = Due
BY DEF Pool, Due

(* What is pending can be paid for: the node takes a transaction only when *)
(* it can, and RealCost is at most EstCost.                                *)
LEMMA DueStep ==
  ASSUME ProcessorInv, Due <= chain_balance, [ProcessorNext]_processorVars
  PROVE  Due' <= chain_balance'
<1> USE Basics
<1>0. /\ DataOK /\ QueryInv /\ PaymentInv /\ NonceInv
      /\ chain_balance \in Int /\ mined \in Nat
      /\ RealCost \in Nat /\ EstCost \in Nat /\ RealCost <= EstCost /\ Due \in Nat
      /\ tx \in [Nonces -> Messages \cup {NoTx}]
  BY Numbers, PoolFinite, ProcessorAssumption DEF ProcessorInv, NonceInv, DataOK, PaymentInv
<1>1. ASSUME UNCHANGED <<mined, tx>>, NEW amount \in Nat, chain_balance' = chain_balance + amount
      PROVE  Due' <= chain_balance'
  BY <1>0, <1>1, DueSame
<1>2. ASSUME UNCHANGED <<mined, tx, chain_balance>>
      PROVE  Due' <= chain_balance'
  BY <1>2, DueSame
<1>3. ASSUME ServeBroadcast PROVE Due' <= chain_balance'
  <2>1. /\ current_message["send"] \in Messages /\ query.nonce \in Nonces
        /\ tx' = [tx EXCEPT ![query.nonce] = current_message["send"]]
        /\ UNCHANGED <<mined, chain_balance>>
    BY <1>0, <1>3, AcceptedBroadcast
  <2>2. query.nonce \notin Pool /\ query.nonce >= mined
    BY <1>3 DEF ServeBroadcast, NodeAccepts
  <2>3. Pool' = Pool \cup {query.nonce}
    BY <1>0, <2>1, <2>2 DEF Pool, NoTx, NoMessage
  <2>4. Due' = Due + RealCost
    BY <2>2, <2>3, DueOneMore
  <2>5. EstCost + Due <= chain_balance
    BY <1>3 DEF ServeBroadcast, NodeAccepts, Payable, Due
  <2> QED BY <1>0, <2>1, <2>4, <2>5
<1>4. ASSUME Mine PROVE Due' <= chain_balance'
  <2>1. /\ mined \in Pool /\ mined' = mined + 1 /\ tx' = tx
        /\ chain_balance' = chain_balance - RealCost
    BY <1>4 DEF Mine
  <2>2. Pool' = Pool \ {mined}
    BY <1>0, <2>1, PoolMined
  <2>3. Due' = Due - RealCost
    BY <2>1, <2>2, DueOneLess
  <2> QED BY <1>0, <2>1, <2>3
<1>5. ASSUME NEW n \in Nonces, Drop(n) PROVE Due' <= chain_balance'
  <2>1. /\ n \in Pool /\ tx' = [tx EXCEPT ![n] = NoTx]
        /\ UNCHANGED <<mined, chain_balance>>
    BY <1>5 DEF Drop
  <2>2. Pool' = Pool \ {n}
    BY <1>0, <2>1 DEF Pool
  <2>3. Due' = Due - RealCost
    BY <2>1, <2>2, DueOneLess
  <2> QED BY <1>0, <2>1, <2>3
<1>6. ASSUME NEW amount \in Deposits, Deposit(amount) PROVE Due' <= chain_balance'
  <2>1. amount \in Nat
    BY Numbers
  <2> QED BY <1>1, <1>6, <2>1 DEF Deposit
<1>7. CASE Network
  <2>1. CASE \/ ServeNonce \/ ServeTransactions \/ ServeBalance \/ ServeOther
             \/ RefuseBroadcast \/ Unreachable
    BY <1>2, <2>1 DEF ServeNonce, ServeTransactions, ServeBalance, ServeOther,
                      RefuseBroadcast, Unreachable, chainVars
  <2> QED BY <1>3, <1>4, <1>5, <1>6, <1>7, <2>1 DEF Network
<1>8. ASSUME NEW k \in Message_Type, ProcessMessage(k) PROVE Due' <= chain_balance'
  BY <1>2, <1>8 DEF ProcessMessage, chainVars
<1>9. ASSUME NEW m \in Messages, HandleResponse(m) PROVE Due' <= chain_balance'
  BY <1>0, <1>2, <1>9, ResponseChoice DEF chainVars
<1>10. CASE Schedule \/ Elapse \/ UNCHANGED processorVars
  BY <1>2, <1>10 DEF Schedule, Elapse, processorVars, chainVars
<1> QED BY <1>7, <1>8, <1>9, <1>10 DEF ProcessorNext

(* What the services answer is of that kind. *)
LEMMA NetworkTells ==
  ASSUME ProcessorInv, Due <= chain_balance, Told, Network
  PROVE  Told'
<1>0. /\ DataOK /\ mined \in Nat /\ chain_balance \in Int /\ Due \in Nat
      /\ query = NoQuery \/ query \in Queries
  BY PoolFinite DEF ProcessorInv, NonceInv, DataOK
<1>1. chain_balance \in Nat
  BY <1>0
<1>2. ASSUME NEW what, Asked(what), NEW answer, NEW value, Answers(answer, value)
      PROVE  query # NoQuery /\ query' # NoQuery
             => query'.of = what /\ query'.answer = answer /\ query'.value = value
  <2>1. query' = [query EXCEPT !.answer = answer, !.value = value] /\ query.of = what
    BY <1>2 DEF Asked, Answers
  <2> QED BY <1>0, <2>1 DEF Queries
<1>3. query' # NoQuery => query # NoQuery
  BY <1>0, NetworkAnswers
<1>4. CASE ServeNonce
  <2>1. PICK n \in (mined - 1 - ApiLag)..(mined - 1) :
          /\ IF mined = 0 THEN n = -1 ELSE n >= 0
          /\ Answers("ok", n)
    BY <1>4 DEF ServeNonce
  <2>2. n \in Int /\ n >= -2
    BY <1>0, <2>1, Numbers
  <2> QED BY <1>2, <1>3, <1>4, <2>1, <2>2 DEF ServeNonce, Told, Signed
<1>5. CASE ServeTransactions
  <2>1. PICK n \in {mined - 1, -1} : Answers("ok", n)
    BY <1>5 DEF ServeTransactions
  <2>2. n \in Signed
    BY <1>0, <2>1 DEF Signed
  <2> QED BY <1>2, <1>3, <1>5, <2>1, <2>2 DEF ServeTransactions, Told
<1>6. CASE ServeBalance
  BY <1>1, <1>2, <1>3, <1>6 DEF ServeBalance, Told
<1>7. CASE ServeOther
  BY <1>2, <1>3, <1>7 DEF ServeOther, Told
<1>8. CASE ServeBroadcast
  BY <1>2, <1>3, <1>8 DEF ServeBroadcast, NodeAccepts, Told
<1>9. CASE RefuseBroadcast
  BY <1>2, <1>3, <1>9 DEF RefuseBroadcast, Told
<1>10. CASE Unreachable
  BY <1>2, <1>3, <1>10 DEF Unreachable, Told
<1>11. CASE Mine \/ (\E amount \in Deposits : Deposit(amount)) \/ (\E n \in Nonces : Drop(n))
  BY <1>11 DEF Mine, Deposit, Drop, Told
<1> QED BY <1>4, <1>5, <1>6, <1>7, <1>8, <1>9, <1>10, <1>11 DEF Network

(* FieldInv is inductive. *)
LEMMA FieldStep ==
  ASSUME ProcessorInv, Due <= chain_balance, FieldInv, [ProcessorNext]_processorVars
  PROVE  FieldInv'
<1> USE Basics
<1>0. /\ DataOK /\ NonceInv /\ PaymentInv /\ ConversationInv /\ QueryInv
      /\ prefs \in Stamped /\ now_sec \in Epoch..(Epoch + MaxTime)
      /\ Epoch \in Nat /\ MaxTime \in Nat /\ now_sec \in Times
  BY ProcessorAssumption DEF ProcessorInv, NonceInv, FieldInv, Times
<1>1. ASSUME Writes, gas_samples' \in 0..GasSamples, UNCHANGED <<now_sec, chainVars>>,
             query' = NoQuery \/ query'.answer = "none"
      PROVE  FieldInv'
  <2>1. \A m \in Messages : nonce'[m] >= -1
    BY <1>1 DEF Writes, FieldInv
  <2>2. Told'
    BY <1>1 DEF Told
  <2> QED BY <1>1, <2>1, <2>2 DEF Writes, FieldInv, chainVars
<1>2. ASSUME NEW k \in Message_Type, ProcessMessage(k)
      PROVE  FieldInv'
  <2> DEFINE m == current_message[k]
  <2>1. m \in Messages /\ Guts(prefs, m) /\ UNCHANGED <<now_sec, chainVars>>
    BY <1>0, <1>2, ProcessWorks
  <2>2. Writes
    BY <1>0, <2>1, GutsWrite
  <2>3. gas_samples' = gas_samples
    BY <1>2 DEF ProcessMessage
  <2>4. query' = NoQuery \/ query'.answer = "none"
    BY <1>2, ProcessStores
  <2> QED BY <1>1, <2>1, <2>2, <2>3, <2>4 DEF FieldInv
<1>3. ASSUME NEW m \in Messages, HandleResponse(m)
      PROVE  FieldInv'
  <2>1. Writes /\ gas_samples' \in 0..GasSamples
    BY <1>0, <1>3, ResponseWrites
  <2>2. UNCHANGED <<now_sec, chainVars>>
    BY <1>0, <1>3, ResponseChoice
  <2>3. query' = NoQuery \/ query'.answer = "none"
    BY <1>3, ResponseStores
  <2> QED BY <1>1, <2>1, <2>2, <2>3
<1>4. CASE Network
  <2>1. UNCHANGED <<prefs, process_count, nonce, gas_samples, now_sec>>
    BY <1>0, <1>4, NetworkAnswers DEF clientVars
  <2>2. Told'
    BY <1>4, NetworkTells DEF FieldInv
  <2>3. tx_sec' = tx_sec \/ tx_sec' = [tx_sec EXCEPT ![query.nonce] = now_sec]
    BY <1>4 DEF Network, ServeNonce, ServeTransactions, ServeBalance, ServeOther, NodeAccepts, ServeBroadcast,
                RefuseBroadcast, Unreachable, Mine, Deposit, Drop, chainVars
  <2>4. tx_sec' \in [Nonces -> Times]
    BY <1>0, <2>3 DEF FieldInv
  <2> QED BY <2>1, <2>2, <2>4 DEF FieldInv
<1>5. CASE Elapse
  <2>1. now_sec' = now_sec + 1 /\ now_sec < Epoch + MaxTime
        /\ UNCHANGED <<prefs, process_count, nonce, gas_samples, tx_sec, query>>
    BY <1>5 DEF Elapse, clientVars, chainVars
  <2>2. now_sec' \in Epoch..(Epoch + MaxTime)
    BY <1>0, <2>1
  <2> QED BY <2>1, <2>2 DEF FieldInv, Told
<1>6. CASE Schedule \/ UNCHANGED processorVars
  BY <1>6 DEF Schedule, processorVars, clientVars, chainVars, FieldInv, Told
<1> QED BY <1>2, <1>3, <1>4, <1>5, <1>6 DEF ProcessorNext

(* An account just imported starts with such fields. *)
LEMMA FieldInit ==
  ASSUME ProcessorInit
  PROVE  FieldInv /\ Due <= chain_balance
<1>1. prefs \in Stamped
  BY ProcessorAssumption DEF ProcessorInit, Stamped, Signed, Times
<1>2. /\ now_sec \in Epoch..(Epoch + MaxTime) /\ Told
      /\ gas_samples \in 0..GasSamples
  BY ProcessorAssumption DEF ProcessorInit, Told
<1>3. /\ process_count \in [Messages -> 0..3] /\ tx_sec \in [Nonces -> Times]
      /\ \A m \in Messages : nonce[m] >= -1
  BY DEF ProcessorInit, Times
<1>4. Pool = {}
  BY DEF ProcessorInit, Pool
<1>5. Due = 0
  BY <1>4, FS_EmptySet, Numbers DEF Due
<1>6. Due <= chain_balance
  BY <1>5, Numbers DEF ProcessorInit
<1> QED BY <1>1, <1>2, <1>3, <1>6 DEF FieldInv

-----------------------------------------------------------------------------
(* How far the nonces go: one for each message that is over, and one for   *)
(* a payment the node has accepted whose message is not.                   *)

Finished == {m \in Messages : Over(m)}
Top      == StartNonce + Cardinality(Finished)
Bound    == IF Accepted THEN Top + 1 ELSE Top

CountInv ==
  /\ prefs.last_tx_nonce < Top
  /\ mined <= Bound
  /\ \A n \in Nonces : tx[n] # NoTx => n < Bound
  /\ \A m \in Messages : nonce[m] <= Top

(* There are as many nonces as there are messages, and the payment that    *)
(* was accepted is one of those that are not over.                         *)
LEMMA BoundIsBounded ==
  ASSUME QueryInv
  PROVE  /\ IsFiniteSet(Finished) /\ Cardinality(Finished) \in Nat
         /\ Top \in Nat /\ Bound \in Nat
         /\ Top <= Bound /\ Bound <= StartNonce + MaxMessages
<1> USE Basics
<1>1. MaxMessages \in Nat /\ StartNonce \in Nat
  BY Numbers
<1>2. IsFiniteSet(Messages) /\ Cardinality(Messages) = MaxMessages
  BY <1>1, FS_Interval DEF Messages
<1>3. Finished \in SUBSET Messages
  BY DEF Finished
<1>4. /\ IsFiniteSet(Finished) /\ Cardinality(Finished) <= MaxMessages
      /\ Finished # Messages => Cardinality(Finished) # MaxMessages
  BY <1>2, <1>3, FS_Subset
<1>5. Cardinality(Finished) \in Nat
  BY <1>4, FS_CardinalityType
<1>6. Accepted => Finished # Messages
  BY DEF Accepted, QueryInv, Finished, Over, Message_Type
<1> QED BY <1>1, <1>4, <1>5, <1>6 DEF Top, Bound

(* The same, after the step. *)
LEMMA BoundIsBoundedNext ==
  ASSUME QueryInv'
  PROVE  /\ IsFiniteSet(Finished') /\ Cardinality(Finished') \in Nat
         /\ Top' \in Nat /\ Bound' \in Nat
         /\ Top' <= Bound' /\ Bound' <= StartNonce + MaxMessages
<1> USE Basics
<1>1. MaxMessages \in Nat /\ StartNonce \in Nat
  BY Numbers
<1>2. IsFiniteSet(Messages) /\ Cardinality(Messages) = MaxMessages
  BY <1>1, FS_Interval DEF Messages
<1>3. Finished' \in SUBSET Messages
  BY DEF Finished
<1>4. /\ IsFiniteSet(Finished') /\ Cardinality(Finished') <= MaxMessages
      /\ Finished' # Messages => Cardinality(Finished') # MaxMessages
  BY <1>2, <1>3, FS_Subset
<1>5. Cardinality(Finished') \in Nat
  BY <1>4, FS_CardinalityType
<1>6. Accepted' => Finished' # Messages
  BY DEF Accepted, QueryInv, Finished, Over, Message_Type
<1> QED BY <1>1, <1>4, <1>5, <1>6 DEF Top, Bound

(* A message that is over stays over, so Top only grows; a message that    *)
(* ends makes it grow.                                                     *)
LEMMA TopGrows ==
  ASSUME ProcessorInv, ProcessorInv', [Next]_vars
  PROVE  /\ Top \in Nat /\ Top' \in Nat /\ Top <= Top'
         /\ \A m \in Messages : ~Over(m) /\ Over(m)' => Top + 1 <= Top'
<1> USE Basics
<1>0. QueryInv /\ QueryInv' /\ TypeOK
  BY DEF ProcessorInv, ConversationInv
<1>1. /\ IsFiniteSet(Finished) /\ IsFiniteSet(Finished')
      /\ Cardinality(Finished) \in Nat /\ Cardinality(Finished') \in Nat
      /\ Top \in Nat /\ Top' \in Nat /\ StartNonce \in Nat
  BY <1>0, BoundIsBounded, BoundIsBoundedNext, Numbers
<1>2. Finished \in SUBSET Finished'
  BY <1>0, OverStable DEF Finished
<1>3. /\ Cardinality(Finished) <= Cardinality(Finished')
      /\ Cardinality(Finished) = Cardinality(Finished') => Finished = Finished'
  BY <1>1, <1>2, FS_Subset
<1>4. \A m \in Messages : ~Over(m) /\ Over(m)' => Finished # Finished'
  BY DEF Finished
<1> QED BY <1>1, <1>3, <1>4 DEF Top

(* A payment the node accepted counts until its message is over, and then  *)
(* the message counts.                                                     *)
LEMMA BoundGrows ==
  ASSUME ProcessorInv, ProcessorInv', [ProcessorNext]_processorVars
  PROVE  /\ Bound <= Bound' /\ Bound \in Nat /\ Bound' \in Nat
         /\ Accepted => Top + 1 <= Top' \/ Accepted'
<1> USE Basics
<1>0. /\ DataOK /\ NonceInv /\ ConversationInv /\ QueryInv /\ QueryInv'
      /\ [Next]_vars
  BY ProcessorStep DEF ProcessorInv, NonceInv
<1>a. \A m \in Messages : ~Over(m) /\ Over(m)' => Top + 1 <= Top'
  BY <1>0, TopGrows
<1>1. Top \in Nat /\ Top' \in Nat /\ Top <= Top'
  BY <1>0, TopGrows
<1>2. Accepted => Top + 1 <= Top' \/ Accepted'
  <2> SUFFICES ASSUME Accepted PROVE Top + 1 <= Top' \/ Accepted'
    OBVIOUS
  <2>1. ASSUME query' = query PROVE Accepted'
    BY <2>1 DEF Accepted
  <2>2. ASSUME NEW k \in Message_Type, ProcessMessage(k) PROVE FALSE
    BY <1>0, <2>2, ProcessWorks DEF Accepted, NoQuery
  <2>3. ASSUME NEW m \in Messages, HandleResponse(m) PROVE Top + 1 <= Top'
    <3>1. PICK ok \in {TRUE, FALSE} : Ends(m, ok)
      BY <1>0, <2>3, ResponseWorks
    <3>2. current_message[Kind(m)] = m /\ Kind(m) \in Message_Type
      BY <1>0, <2>3, ResponseWorks
    <3>3. Over(m)' /\ ~Over(m)
      BY <1>0, <3>1, <3>2, EndsOver DEF Over
    <3> QED BY <1>a, <3>3
  <2>4. CASE Network
    BY <2>1, <2>4, NetworkTransactions
  <2>5. CASE Schedule \/ Elapse \/ UNCHANGED processorVars
    BY <2>1, <2>5 DEF Schedule, Elapse, processorVars
  <2> QED BY <2>2, <2>3, <2>4, <2>5 DEF ProcessorNext
<1>3. /\ Accepted => Bound = Top + 1
      /\ ~Accepted => Bound = Top
      /\ Accepted' => Bound' = Top' + 1
      /\ ~Accepted' => Bound' = Top'
  BY Zenon DEF Bound
<1>4. /\ Bound = Top \/ (Bound = Top + 1 /\ (Top + 1 <= Top' \/ Bound' = Top' + 1))
      /\ Bound' = Top' \/ Bound' = Top' + 1
  BY <1>2, <1>3, Zenon
<1> HIDE DEF Top, Bound
<1>5. /\ Bound <= Bound' /\ Bound \in Nat /\ Bound' \in Nat
  BY <1>1, <1>4
<1> QED BY <1>2, <1>5, Zenon

(* CountInv is kept by what changes nothing but answers. *)
LEMMA CountSame ==
  ASSUME ProcessorInv, ProcessorInv', CountInv, [ProcessorNext]_processorVars,
         UNCHANGED <<prefs, nonce, mined, tx>>
  PROVE  CountInv'
<1>1. /\ Bound <= Bound' /\ Bound \in Nat /\ Bound' \in Nat
      /\ Top \in Nat /\ Top' \in Nat /\ Top <= Top'
  BY BoundGrows, TopGrows, ProcessorStep
<1>2. /\ prefs.last_tx_nonce \in Int /\ mined \in Int /\ Nonces \subseteq Int
      /\ \A m \in Messages : nonce[m] \in Int
  BY DEF ProcessorInv, NonceInv, DataOK, Preferences, Nonces
<1> QED BY <1>1, <1>2 DEF CountInv

(* CountInv is kept by what works on a message: it chooses a nonce after   *)
(* the last one, and the last one is that of a payment that is done, or of *)
(* one on the chain.                                                       *)
LEMMA WorkCounts ==
  ASSUME ProcessorInv, ProcessorInv', CountInv, [ProcessorNext]_processorVars,
         Writes, UNCHANGED chainVars,
         \/ prefs'.last_tx_nonce = prefs.last_tx_nonce
         \/ ~Accepted /\ prefs'.last_tx_nonce < mined
         \/ Accepted /\ ~Accepted' /\ prefs'.last_tx_nonce = prefs.last_tx_nonce + 1
  PROVE  CountInv'
<1>1. /\ Bound <= Bound' /\ Bound \in Nat /\ Bound' \in Nat
      /\ Top \in Nat /\ Top' \in Nat /\ Top <= Top'
      /\ Accepted => Top + 1 <= Top' \/ Accepted'
  BY BoundGrows, TopGrows, ProcessorStep
<1>2. /\ prefs.last_tx_nonce \in Int /\ prefs'.last_tx_nonce \in Int
      /\ mined \in Int /\ Nonces \subseteq Int
      /\ \A m \in Messages : nonce[m] \in Int /\ nonce'[m] \in Int
  BY DEF ProcessorInv, NonceInv, DataOK, Preferences, Nonces
<1>3. prefs'.last_tx_nonce < Top'
  BY <1>1, <1>2 DEF CountInv, Bound
<1>4. \A m \in Messages : nonce'[m] <= Top'
  BY <1>1, <1>2, <1>3 DEF CountInv, Writes
<1>5. mined' <= Bound' /\ \A n \in Nonces : tx'[n] # NoTx => n < Bound'
  BY <1>1, <1>2 DEF CountInv, chainVars
<1> QED BY <1>3, <1>4, <1>5 DEF CountInv

(* CountInv is inductive. *)
LEMMA CountStep ==
  ASSUME ProcessorInv, ProcessorInv', FieldInv, CountInv, [ProcessorNext]_processorVars
  PROVE  CountInv'
<1> USE Basics
<1>0. /\ DataOK /\ NonceInv /\ ConversationInv /\ QueryInv /\ PaymentInv
      /\ prefs \in Stamped
  BY DEF ProcessorInv, NonceInv, FieldInv
<1>1. /\ Bound <= Bound' /\ Bound \in Nat /\ Bound' \in Nat
      /\ Top \in Nat /\ Top' \in Nat /\ Top <= Top'
  BY BoundGrows, TopGrows, ProcessorStep
<1>2. /\ prefs.last_tx_nonce \in Int /\ mined \in Int /\ Nonces \subseteq Int
      /\ \A m \in Messages : nonce[m] \in Int
  BY <1>0 DEF DataOK, Preferences, Nonces
<1>3. ASSUME NEW k \in Message_Type, ProcessMessage(k)
      PROVE  CountInv'
  <2> DEFINE m == current_message[k]
  <2>1. m \in Messages /\ Guts(prefs, m) /\ UNCHANGED chainVars
    BY <1>0, <1>3, ProcessWorks
  <2>2. Writes
    BY <1>0, <2>1, GutsWrite
  <2>3. prefs'.last_tx_nonce = prefs.last_tx_nonce
    BY <1>3, ProcessStores
  <2> QED BY <2>1, <2>2, <2>3, WorkCounts
<1>4. ASSUME NEW m \in Messages, HandleResponse(m)
      PROVE  CountInv'
  <2>1. Writes
    BY <1>0, <1>4, ResponseWrites
  <2>2. UNCHANGED chainVars /\ query # NoQuery
    BY <1>0, <1>4, ResponseWorks
  <2>3. \/ ~Accepted /\ prefs'.last_tx_nonce = prefs.last_tx_nonce
        \/ ~Accepted /\ prefs'.last_tx_nonce < mined
        \/ /\ query.of = "broadcast" /\ query.answer = "ok"
           /\ prefs'.last_tx_nonce = query.nonce
        \/ prefs' = prefs
    BY <1>4, ResponseStores
  <2>4. query.of = "broadcast" => query.nonce = prefs.last_tx_nonce + 1
    BY <1>0, <2>2 DEF NonceInv, AnswerTrue
  <2>5. ~Accepted'
    <3>1. query' = NoQuery \/ query'.answer = "none"
      BY <1>4, ResponseStores
    <3> QED BY <3>1 DEF Accepted, NoQuery
  <2> QED BY <2>1, <2>2, <2>3, <2>4, <2>5, WorkCounts DEF Accepted
<1>5. ASSUME ServeBroadcast
      PROVE  CountInv'
  <2>1. /\ query.nonce \in Nonces
        /\ tx' = [tx EXCEPT ![query.nonce] = current_message["send"]]
        /\ Accepted' /\ UNCHANGED <<prefs, nonce, mined>>
    BY <1>0, <1>5, AcceptedBroadcast DEF clientVars, Accepted
  <2>2. query.of = "broadcast" /\ query # NoQuery
    BY <1>5 DEF ServeBroadcast, NodeAccepts, Asked, NoQuery
  <2>3. query.nonce = prefs.last_tx_nonce + 1
    BY <1>0, <2>2 DEF NonceInv, AnswerTrue
  <2>4. query.nonce < Bound'
    BY <1>1, <1>2, <2>1, <2>3 DEF CountInv, Bound
  <2>5. \A n \in Nonces : tx'[n] # NoTx => n < Bound'
    BY <1>0, <1>1, <1>2, <2>1, <2>4 DEF PaymentInv, CountInv
  <2>6. prefs'.last_tx_nonce < Top' /\ mined' <= Bound' /\ \A m \in Messages : nonce'[m] <= Top'
    BY <1>1, <1>2, <2>1 DEF CountInv
  <2> QED BY <2>5, <2>6 DEF CountInv
<1>6. ASSUME Network, UNCHANGED mined, \A n \in Nonces : tx'[n] # NoTx => tx[n] # NoTx
      PROVE  CountInv'
  <2>1. UNCHANGED <<prefs, nonce>>
    BY <1>0, <1>6, NetworkAnswers DEF clientVars
  <2> QED BY <1>1, <1>2, <1>6, <2>1 DEF CountInv
<1>7. ASSUME Mine
      PROVE  CountInv'
  <2>1. /\ mined \in Pool /\ mined' = mined + 1 /\ UNCHANGED <<prefs, nonce, tx>>
    BY <1>7 DEF Mine, NetworkStep, clientVars
  <2>2. mined < Bound
    BY <2>1 DEF CountInv, Pool
  <2> QED BY <1>1, <1>2, <2>1, <2>2 DEF CountInv
<1>8. CASE Network
  <2>1. ASSUME NEW n \in Nonces, Drop(n) PROVE CountInv'
    <3>1. tx' = [tx EXCEPT ![n] = NoTx] /\ UNCHANGED mined
      BY <2>1 DEF Drop
    <3>2. \A i \in Nonces : tx'[i] # NoTx => tx[i] # NoTx
      BY <1>0, <3>1 DEF PaymentInv
    <3> QED BY <1>6, <1>8, <3>1, <3>2
  <2>2. CASE UNCHANGED <<mined, tx>>
    BY <1>6, <1>8, <2>2
  <2>3. CASE \/ ServeNonce \/ ServeTransactions \/ ServeBalance \/ ServeOther
             \/ RefuseBroadcast \/ Unreachable \/ \E amount \in Deposits : Deposit(amount)
    BY <2>2, <2>3 DEF ServeNonce, ServeTransactions, ServeBalance, ServeOther,
                      RefuseBroadcast, Unreachable, Deposit, chainVars
  <2> QED BY <1>5, <1>7, <1>8, <2>1, <2>3 DEF Network
<1>9. CASE Schedule \/ Elapse \/ UNCHANGED processorVars
  BY <1>9, CountSame DEF Schedule, Elapse, processorVars, clientVars, chainVars
<1> QED BY <1>3, <1>4, <1>8, <1>9 DEF ProcessorNext

(* No nonce has been used when the account is imported. *)
LEMMA CountInit ==
  ASSUME ProcessorInit
  PROVE  CountInv
<1> USE Basics
<1>1. QueryInv
  BY QueryInit
<1>2. Top \in Nat /\ Bound \in Nat /\ Top <= Bound /\ Top >= StartNonce /\ StartNonce \in Nat
  BY <1>1, BoundIsBounded, Numbers DEF Top
<1>3. /\ prefs.last_tx_nonce = -1 /\ mined = StartNonce
      /\ \A m \in Messages : nonce[m] = 0
      /\ \A n \in Nonces : tx[n] = NoTx
  BY DEF ProcessorInit
<1> QED BY <1>2, <1>3 DEF CountInv

(* All of it together. *)
DataInv == ProcessorInv /\ FieldInv /\ Due <= chain_balance /\ CountInv

(* DataInv holds of the processor, whatever the network does. *)
LEMMA DataInvAlways == ProcessorSpec => []DataInv
<1>1. ProcessorInit => DataInv
  BY ProcessorInvInit, FieldInit, CountInit DEF DataInv
<1>2. DataInv /\ [ProcessorNext]_processorVars => DataInv'
  BY ProcessorInvStep, FieldStep, DueStep, CountStep DEF DataInv
<1> QED BY <1>1, <1>2, PTL DEF ProcessorSpec

(* Every field of the preferences, of the messages and of the account has  *)
(* a value the code can give it: times are 0 or since the start, no nonce  *)
(* is ever more than one for each message past the first, the account is   *)
(* never overdrawn, and a query is described exactly while one is under    *)
(* way.                                                                    *)
THEOREM ProcessorTypesHold == ProcessorSpec => []ProcessorTypeOK
<1>1. DataInv => ProcessorTypeOK
  <2> SUFFICES ASSUME DataInv PROVE ProcessorTypeOK
    OBVIOUS
  <2> DEFINE last == StartNonce + MaxMessages
  <2>0. /\ DataOK /\ TypeOK /\ QueryInv /\ PaymentInv /\ VerifiedIsOnChain
        /\ FieldInv /\ CountInv /\ prefs \in Stamped
        /\ prefs.last_tx_nonce \in Signed /\ prefs.verified_nonce \in Signed
        /\ StartNonce \in Nat /\ MaxMessages \in Nat /\ mined \in Nat /\ mined >= StartNonce
    BY Numbers, Basics, StampedPreferences
       DEF DataInv, ProcessorInv, NonceInv, ConversationInv, FieldInv, DataOK, PaymentInv
  <2>1. Top \in Nat /\ Bound \in Nat /\ Top <= Bound /\ Bound <= last
    BY <2>0, BoundIsBounded
  <2>2. \A f \in {"nonce_refresh_sec", "nonce_settled_sec", "verified_nonce_changed_sec",
               "oldest_unverified_tx", "nonce_from_txs_refresh_sec", "last_pay_sec",
               "rapid_fire_sec", "price_refresh_sec", "balance_refresh_sec",
               "verified_balance_changed_sec"} : prefs[f] \in Times
    BY <2>0 DEF Stamped
  <2>3. mined <= last /\ mined \in Nonces
    BY <2>0, <2>1 DEF CountInv, Nonces
  <2>4. prefs.last_tx_nonce <= last /\ prefs.verified_nonce <= last
    BY <2>0, <2>1, <2>3 DEF CountInv, VerifiedIsOnChain, Signed
  <2>5. \A n \in Signed : n <= last => n \in {-2, -1} \cup 0..last
    BY <2>0 DEF Signed
  <2>6. nonce \in [Messages -> -1..last]
    <3>1. \A m \in Messages : nonce[m] \in -1..last
      BY <2>0, <2>1 DEF DataOK, FieldInv, CountInv
    <3> QED BY <2>0, <3>1 DEF DataOK
  <2>7. /\ prefs.gas_price_known \in BOOLEAN
        /\ prefs.balance \in Int /\ prefs.verified_balance \in Nat
    BY <2>0 DEF Stamped
  <2>8. chain_balance \in Nat
    <3>1. chain_balance \in Int /\ Due \in Nat /\ Due <= chain_balance
      BY <2>0, PoolFinite DEF DataOK, DataInv
    <3> QED BY <3>1
  <2>9. /\ process_count \in [Messages -> 0..3] /\ gas_samples \in 0..GasSamples
        /\ tx_sec \in [Nonces -> Times]
    BY <2>0 DEF FieldInv
  <2>10. /\ tx \in [Nonces -> Messages \cup {NoTx}]
         /\ result \in [Messages -> {"none", "ok", "failed"}]
         /\ query # NoQuery <=> \E m \in Messages : http[m] > 0
    BY <2>0 DEF PaymentInv, QueryInv
  <2> QED BY <2>0, <2>2, <2>3, <2>4, <2>5, <2>6, <2>7, <2>8, <2>9, <2>10 DEF ProcessorTypeOK
<1> QED BY <1>1, DataInvAlways, PTL
=============================================================================
