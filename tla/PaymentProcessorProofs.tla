----------------------- MODULE PaymentProcessorProofs -----------------------
(***************************************************************************)
(* PaymentProcessor implements PaymentScheduler, for every network, every  *)
(* account and every value of the intervals: what is proved about the      *)
(* scheduling with the choices of the guts left open holds of the          *)
(* processor that makes them.                                              *)
(***************************************************************************)
EXTENDS PaymentProcessor, PaymentSchedulerProofs

(* The processor thread's guts begin a query or dispose of the message. *)
LEMMA ProcessMessageIsScheduled ==
  ASSUME NEW k \in Message_Type, ProcessMessage(k)
  PROVE  Next
<1>1. RunQuery(k) \/ RunDispose(k)
  BY DEF ProcessMessage
<1> QED BY <1>1 DEF Next, RunNext

(* Every path of handle_http_rsp ends in one of the three ways             *)
(* PaymentScheduler leaves open.                                           *)
LEMMA ContinueIsScheduled ==
  ASSUME NEW m \in Messages, NEW p, Continue(m, p)
  PROVE  RspQuery(m) \/ \E flush_all \in BOOLEAN : RspDispose(m, flush_all)
<1>1. RspQuery(m) \/ RspDispose(m, Kind(m) = "send")
  BY DEF Continue
<1>2. (Kind(m) = "send") \in BOOLEAN
  OBVIOUS
<1> QED BY <1>1, <1>2

(* Finish is one of the scheduler's dispositions, by either thread of it. *)
LEMMA FinishIsScheduled ==
  ASSUME NEW m \in Messages, NEW p, NEW ok \in BOOLEAN, Finish(m, p, ok)
  PROVE  \E flush_all \in BOOLEAN : RspDispose(m, flush_all)
<1>1. RspDispose(m, ~ok) /\ (~ok) \in BOOLEAN
  BY DEF Finish
<1> QED BY <1>1

(* handle_http_rsp ends in a step of the scheduler whatever it was told. *)
LEMMA HandleResponseIsScheduled ==
  ASSUME NEW m \in Messages, HandleResponse(m)
  PROVE  Next
<1> DEFINE Goal == \/ RspQuery(m)
                   \/ RspSuspend(m)
                   \/ \E flush_all \in BOOLEAN : RspDispose(m, flush_all)
<1> SUFFICES Goal
  BY DEF Next, UiNext
<1>1. \A p : Continue(m, p) => Goal
  BY ContinueIsScheduled
<1>2. \A p : Later(m, p) => Goal
  BY DEF Later
<1>3. \A p : Finish(m, p, TRUE) => Goal
  BY FinishIsScheduled
<1>4. \A p : Finish(m, p, FALSE) => Goal
  BY FinishIsScheduled
<1>5. \A p, n, from_transactions : NonceUpdated(m, p, n, from_transactions) => Goal
  BY <1>1, <1>2 DEF NonceUpdated
<1> HIDE DEF Goal
<1>6. CASE HandleGas(m)
  BY <1>1, <1>6 DEF HandleGas
<1>7. CASE HandleNonce(m)
  BY <1>5, <1>7 DEF HandleNonce
<1>8. CASE HandleTransactions(m)
  BY <1>5, <1>8 DEF HandleTransactions
<1>9. CASE HandleBroadcast(m)
  BY <1>1, <1>3, <1>9 DEF HandleBroadcast
<1>10. CASE HandleBalance(m)
  BY <1>1, <1>2, <1>10 DEF HandleBalance
<1>11. CASE HandlePrice(m)
  BY <1>1, <1>11 DEF HandlePrice
<1>12. CASE HandleError(m)
  BY <1>4, <1>12 DEF HandleError
<1> QED BY <1>6, <1>7, <1>8, <1>9, <1>10, <1>11, <1>12 DEF HandleResponse

(* The network never touches what the scheduling works on. *)
LEMMA NetworkIsInvisible == Network => UNCHANGED vars
BY DEF Network, ServeNonce, ServeTransactions, ServeBalance, ServeOther, NodeAccepts, ServeBroadcast,
       RefuseBroadcast, Unreachable, Mine, Deposit, Drop, Asked, NetworkStep

(* Every step of the processor is a step of the scheduling or leaves it    *)
(* alone.                                                                  *)
LEMMA ProcessorStep == [ProcessorNext]_processorVars => [Next]_vars
<1> SUFFICES ASSUME [ProcessorNext]_processorVars
             PROVE  [Next]_vars
  OBVIOUS
<1>1. CASE \E k \in Message_Type : ProcessMessage(k)
  BY <1>1, ProcessMessageIsScheduled
<1>2. CASE \E m \in Messages : HandleResponse(m)
  BY <1>2, HandleResponseIsScheduled
<1>3. CASE Schedule
  BY <1>3 DEF Schedule, Next, UiNext, RunNext, Threads
<1>4. CASE Network
  BY <1>4, NetworkIsInvisible
<1>5. CASE Elapse
  BY <1>5 DEF Elapse, Next
<1>6. CASE UNCHANGED processorVars
  BY <1>6 DEF processorVars
<1> QED BY <1>1, <1>2, <1>3, <1>4, <1>5, <1>6 DEF ProcessorNext

(* Payment_Processor with its nonces, balances and network implements the  *)
(* scheduling specification.                                               *)
THEOREM ProcessorImplementsScheduler == ProcessorSpec => Spec
<1>1. ProcessorInit => Init
  BY DEF ProcessorInit
<1> QED BY <1>1, ProcessorStep, PTL DEF ProcessorSpec, Spec

(* Whatever the network answers, and in whatever order the threads run,    *)
(* handle_http_rsp works on the message whose query it is told about.      *)
THEOREM ProcessorOneConversation == ProcessorSpec => []OneConversation
BY ProcessorImplementsScheduler, OneConversationAtATime

-----------------------------------------------------------------------------
(* The verified nonce is on the chain.  The invariant this rests on: no    *)
(* answer under way tells of more than the chain has, and a payment under  *)
(* way to the node has the nonce after last_tx_nonce, so that one found    *)
(* too low is on the chain.                                                *)

Preferences ==
  [last_tx_nonce : Int, verified_nonce : Int, nonce_refresh_sec : Int,
   nonce_settled_sec : Int, verified_nonce_changed_sec : Int,
   oldest_unverified_tx : Int, nonce_from_txs_refresh_sec : Int, last_pay_sec : Int,
   rapid_fire_sec : Int, gas_price_known : BOOLEAN, price_refresh_sec : Int,
   balance : Int, verified_balance : Int, balance_refresh_sec : Int,
   verified_balance_changed_sec : Int]

Queries ==
  [of : {"nonce", "transactions", "gas", "broadcast", "price", "balance"},
   nonce : Int, asked : Int, answer : {"none", "ok", "too_low", "error"}, value : Int]

DataOK ==
  /\ prefs \in Preferences
  /\ nonce \in [Messages -> Int]
  /\ query = NoQuery \/ query \in Queries
  /\ now_sec \in Int
  /\ mined \in Nat
  /\ chain_balance \in Int

AnswerTrue ==
  query # NoQuery =>
    /\ query.answer = "ok" /\ query.of \in {"nonce", "transactions"} => query.value < mined
    /\ query.answer = "too_low" => query.of = "broadcast" /\ query.nonce < mined
    /\ query.of = "broadcast" => query.nonce = prefs.last_tx_nonce + 1

NonceInv == DataOK /\ AnswerTrue /\ VerifiedIsOnChain

(* The constants of the processor that its arithmetic uses are numbers. *)
LEMMA Numbers ==
  /\ {NonceForcedAdoption, BalanceForcedAdoption, LongEtherTransaction, EstCost,
      StartNonce, StartBalance, RealCost, ApiLag, Epoch} \subseteq Nat
  /\ Deposits \subseteq Nat
BY ProcessorAssumption

(* The imported account starts in such a state. *)
LEMMA NonceInit == ProcessorInit => NonceInv
<1> SUFFICES ASSUME ProcessorInit PROVE NonceInv
  OBVIOUS
<1>1. prefs \in Preferences /\ prefs.verified_nonce = -2
  BY DEF ProcessorInit, Preferences
<1>2. /\ nonce \in [Messages -> Int]
      /\ query = NoQuery
      /\ now_sec = Epoch /\ mined = StartNonce /\ chain_balance = StartBalance
  BY DEF ProcessorInit
<1> QED BY <1>1, <1>2, Numbers DEF NonceInv, DataOK, AnswerTrue, VerifiedIsOnChain

(* The nonce a payment is given is the one after last_tx_nonce, or none. *)
LEMMA NextNonceIsNext ==
  ASSUME NEW p \in Preferences
  PROVE  /\ NextNonce(p) \in Int
         /\ NextNonce(p) >= 0 => NextNonce(p) = p.last_tx_nonce + 1
BY DEF NextNonce, Preferences

(* Preferences stay preferences when some of them are set to numbers: the  *)
(* fields update_nonce_logic, a payment and a nonce found too low change.  *)
LEMMA SetNonceFields ==
  ASSUME NEW p \in Preferences, NEW a \in Int, NEW b \in Int, NEW c \in Int,
         NEW d \in Int, NEW e \in Int, NEW f \in Int
  PROVE  [p EXCEPT !.verified_nonce = a, !.verified_nonce_changed_sec = b,
                   !.last_tx_nonce = c, !.nonce_refresh_sec = d,
                   !.nonce_from_txs_refresh_sec = e, !.nonce_settled_sec = f]
           \in Preferences
BY DEF Preferences

(* Writing the four fields a payment writes keeps the preferences well     *)
(* typed.                                                                  *)
LEMMA SetPaymentFields ==
  ASSUME NEW p \in Preferences, NEW a \in Int, NEW b \in Int, NEW c \in Int, NEW d \in Int
  PROVE  [p EXCEPT !.last_tx_nonce = a, !.last_pay_sec = b,
                   !.oldest_unverified_tx = c, !.balance = d] \in Preferences
BY DEF Preferences

(* Writing the verified nonce and its time keeps the preferences well      *)
(* typed.                                                                  *)
LEMMA SetVerifiedFields ==
  ASSUME NEW p \in Preferences, NEW a \in Int, NEW b \in Int
  PROVE  [p EXCEPT !.verified_nonce = a, !.verified_nonce_changed_sec = b] \in Preferences
BY DEF Preferences

(* update_nonce_logic never makes the verified nonce more than the old one *)
(* and what it is told.                                                    *)
LEMMA UpdateNonceBounds ==
  ASSUME NEW p \in Preferences, NEW n \in Int, NEW from_transactions, now_sec \in Int
  PROVE  /\ UpdateNonce(p, n, from_transactions) \in Preferences
         /\ UpdateNonce(p, n, from_transactions).verified_nonce \in {p.verified_nonce, n}
<1> DEFINE rises    == n > p.verified_nonce
           verified == IF rises THEN n ELSE p.verified_nonce
           adopted  == ~rises /\ ForcedAdoption(p)
           changed  == IF rises \/ adopted THEN now_sec ELSE p.verified_nonce_changed_sec
           last     == IF adopted \/ verified > p.last_tx_nonce THEN verified
                       ELSE p.last_tx_nonce
           from     == IF from_transactions THEN now_sec ELSE p.nonce_from_txs_refresh_sec
           settled  == IF UpToDate(p, n) THEN now_sec ELSE p.nonce_settled_sec
           updated  == [p EXCEPT !.verified_nonce = verified,
                                 !.verified_nonce_changed_sec = changed,
                                 !.last_tx_nonce = last, !.nonce_refresh_sec = now_sec,
                                 !.nonce_from_txs_refresh_sec = from,
                                 !.nonce_settled_sec = settled]
<1>1. verified \in Int /\ changed \in Int /\ last \in Int /\ from \in Int /\ settled \in Int
  BY DEF Preferences
<1>2. verified \in {p.verified_nonce, n}
  OBVIOUS
<1>3. UpdateNonce(p, n, from_transactions) = updated
  BY DEF UpdateNonce
<1> HIDE DEF verified, changed, last, from, settled
<1>4. updated \in Preferences
  BY <1>1, SetNonceFields
<1>5. updated.verified_nonce = verified
  BY DEF Preferences
<1> QED BY <1>2, <1>3, <1>4, <1>5

(* The other changes of the preferences. *)
LEMMA RecordPaymentBounds ==
  ASSUME NEW p \in Preferences, NEW n \in Int, now_sec \in Int
  PROVE  /\ RecordPayment(p, n) \in Preferences
         /\ RecordPayment(p, n).verified_nonce = p.verified_nonce
<1> DEFINE oldest == IF p.oldest_unverified_tx < p.verified_nonce_changed_sec
                     THEN now_sec ELSE p.oldest_unverified_tx
           left   == p.balance - EstCost
           paid   == [p EXCEPT !.last_tx_nonce = n, !.last_pay_sec = now_sec,
                               !.oldest_unverified_tx = oldest, !.balance = left]
<1>1. oldest \in Int /\ left \in Int
  BY Numbers DEF Preferences
<1>2. RecordPayment(p, n) = paid
  BY DEF RecordPayment
<1> HIDE DEF oldest, left
<1>3. paid \in Preferences
  BY <1>1, SetPaymentFields
<1>4. paid.verified_nonce = p.verified_nonce
  BY DEF Preferences
<1> QED BY <1>2, <1>3, <1>4

(* After a refusal the verified nonce is the refused one, or unknown. *)
LEMMA NonceTooLowBounds ==
  ASSUME NEW p \in Preferences, now_sec \in Int
  PROVE  /\ NonceTooLow(p) \in Preferences
         /\ NonceTooLow(p).verified_nonce \in {p.last_tx_nonce + 1, -2}
<1> DEFINE verified == IF p.verified_nonce = p.last_tx_nonce
                       THEN p.last_tx_nonce + 1 ELSE -2
           refused  == [p EXCEPT !.verified_nonce = verified,
                                 !.verified_nonce_changed_sec = now_sec]
<1>1. verified \in Int /\ verified \in {p.last_tx_nonce + 1, -2}
  BY DEF Preferences
<1>2. NonceTooLow(p) = refused
  BY DEF NonceTooLow
<1> HIDE DEF verified
<1>3. refused \in Preferences
  BY <1>1, SetVerifiedFields
<1>4. refused.verified_nonce = verified
  BY DEF Preferences
<1> QED BY <1>1, <1>2, <1>3, <1>4

(* Balances, gas prices and the price leave the verified nonce alone. *)
LEMMA OtherUpdates ==
  ASSUME NEW p \in Preferences, now_sec \in Int
  PROVE  /\ \A b \in Int : /\ UpdateBalance(p, b) \in Preferences
                           /\ UpdateBalance(p, b).verified_nonce = p.verified_nonce
         /\ SampleGas(p) \in Preferences
         /\ SampleGas(p).verified_nonce = p.verified_nonce
         /\ [p EXCEPT !.price_refresh_sec = now_sec] \in Preferences
         /\ [p EXCEPT !.price_refresh_sec = now_sec].verified_nonce = p.verified_nonce
<1>1. ASSUME NEW b \in Int
      PROVE  /\ UpdateBalance(p, b) \in Preferences
             /\ UpdateBalance(p, b).verified_nonce = p.verified_nonce
  BY Numbers DEF UpdateBalance, Preferences
<1>2. /\ SampleGas(p) \in Preferences
      /\ SampleGas(p).verified_nonce = p.verified_nonce
  BY DEF SampleGas, Preferences
<1>3. /\ [p EXCEPT !.price_refresh_sec = now_sec] \in Preferences
      /\ [p EXCEPT !.price_refresh_sec = now_sec].verified_nonce = p.verified_nonce
  BY DEF Preferences
<1> QED BY <1>1, <1>2, <1>3

(* Preferences that may be stored without breaking VerifiedIsOnChain. *)
Safe(p) == p \in Preferences /\ p.verified_nonce < mined

(* What is stored by a handler that asks nothing more. *)
LEMMA StoreKeepsNonceInv ==
  ASSUME NonceInv, NEW p, Safe(p), prefs' = p, query' = NoQuery,
         nonce' \in [Messages -> Int], UNCHANGED <<now_sec, chainVars>>
  PROVE  NonceInv'
BY DEF NonceInv, DataOK, AnswerTrue, VerifiedIsOnChain, Safe, chainVars

(* The guts of a message change neither nonce in the preferences. *)
LEMMA GutsKeepNonces ==
  ASSUME DataOK, NEW m \in Messages, NEW p \in Preferences, Guts(p, m)
  PROVE  /\ prefs' \in Preferences
         /\ prefs'.verified_nonce = p.verified_nonce
         /\ prefs'.last_tx_nonce = p.last_tx_nonce
         /\ nonce' \in [Messages -> Int]
<1>1. now_sec \in Int /\ nonce \in [Messages -> Int]
  BY DEF DataOK
<1>2. /\ [p EXCEPT !.rapid_fire_sec = now_sec] \in Preferences
      /\ [p EXCEPT !.rapid_fire_sec = now_sec].verified_nonce = p.verified_nonce
      /\ [p EXCEPT !.rapid_fire_sec = now_sec].last_tx_nonce = p.last_tx_nonce
  BY <1>1 DEF Preferences
<1>3. CASE SendGuts(p, m)
  <2>1. NextNonce(p) \in Int
    BY NextNonceIsNext
  <2>2. nonce' \in [Messages -> Int]
    BY <1>1, <1>3, <2>1 DEF SendGuts
  <2>3. prefs' \in {p, [p EXCEPT !.rapid_fire_sec = now_sec]}
    BY <1>3 DEF SendGuts
  <2> QED BY <1>2, <2>2, <2>3
<1>4. CASE BalanceGuts(p, m)
  BY <1>1, <1>4 DEF BalanceGuts
<1> QED BY <1>3, <1>4 DEF Guts

(* A payment goes to the node with the nonce after last_tx_nonce. *)
LEMMA QueryIsSound ==
  ASSUME DataOK, NEW m \in Messages, NEW p \in Preferences, Query(p, m)
  PROVE  /\ query' \in Queries
         /\ query'.answer = "none"
         /\ query'.of = "broadcast" => query'.nonce = p.last_tx_nonce + 1
<1> PICK what \in Asks(p, m) : query' = Ask(what, NextNonce(p))
  BY DEF Query
<1>1. now_sec \in Int
  BY DEF DataOK
<1>2. what \in {"nonce", "transactions", "gas", "broadcast", "price", "balance"}
  BY DEF Asks, SendAsks, BalanceAsks
<1>3. what = "broadcast" => NextNonce(p) >= 0
  BY NextNonceIsNext DEF Asks, SendAsks, BalanceAsks
<1>4. query' = [of |-> what, nonce |-> NextNonce(p), asked |-> now_sec,
                answer |-> "none", value |-> 0]
  BY DEF Ask
<1> QED BY <1>1, <1>2, <1>3, <1>4, NextNonceIsNext DEF Queries

(* What is stored by the guts of a message, and what they ask. *)
LEMMA GutsKeepNonceInv ==
  ASSUME NonceInv, NEW m \in Messages, NEW p, Safe(p), Guts(p, m),
         Query(p, m) \/ query' = NoQuery, UNCHANGED <<now_sec, chainVars>>
  PROVE  NonceInv'
<1>1. p \in Preferences /\ p.verified_nonce < mined
  BY DEF Safe
<1>2. /\ prefs' \in Preferences
      /\ prefs'.verified_nonce = p.verified_nonce
      /\ prefs'.last_tx_nonce = p.last_tx_nonce
      /\ nonce' \in [Messages -> Int]
  BY <1>1, GutsKeepNonces DEF NonceInv
<1>3. CASE Query(p, m)
  <2>1. /\ query' \in Queries
        /\ query'.answer = "none"
        /\ query'.of = "broadcast" => query'.nonce = p.last_tx_nonce + 1
    BY <1>1, <1>3, QueryIsSound DEF NonceInv
  <2> QED BY <1>1, <1>2, <2>1
          DEF NonceInv, DataOK, AnswerTrue, VerifiedIsOnChain, chainVars
<1>4. CASE query' = NoQuery
  BY <1>1, <1>2, <1>4 DEF NonceInv, DataOK, AnswerTrue, VerifiedIsOnChain, chainVars
<1> QED BY <1>3, <1>4

(* An answer that leads to another query, or to nothing more to ask. *)
LEMMA ContinueKeepsNonceInv ==
  ASSUME NonceInv, NEW m \in Messages, NEW p, Safe(p), Continue(m, p),
         UNCHANGED <<now_sec, chainVars>>
  PROVE  NonceInv'
<1>1. Guts(p, m) /\ (Query(p, m) \/ query' = NoQuery)
  BY DEF Continue, NothingToAsk
<1> QED BY <1>1, GutsKeepNonceInv

(* An answer that makes the message wait. *)
LEMMA LaterKeepsNonceInv ==
  ASSUME NonceInv, NEW m \in Messages, NEW p, Safe(p), Later(m, p),
         UNCHANGED <<now_sec, chainVars>>
  PROVE  NonceInv'
<1>1. prefs' = p /\ query' = NoQuery /\ nonce' \in [Messages -> Int]
  BY DEF Later, NonceInv, DataOK
<1> QED BY <1>1, StoreKeepsNonceInv

(* An answer that ends the message. *)
LEMMA FinishKeepsNonceInv ==
  ASSUME NonceInv, NEW m \in Messages, NEW p, NEW ok, Safe(p), Finish(m, p, ok),
         UNCHANGED <<now_sec, chainVars>>
  PROVE  NonceInv'
<1>1. prefs' = p /\ query' = NoQuery /\ nonce' \in [Messages -> Int]
  BY DEF Finish, NonceInv, DataOK
<1> QED BY <1>1, StoreKeepsNonceInv

(* update_nonce_logic, told of a nonce that is on the chain. *)
LEMMA NonceUpdatedKeepsNonceInv ==
  ASSUME NonceInv, NEW m \in Messages, NEW p, NEW n \in Int, NEW from_transactions,
         Safe(p), n < mined, NonceUpdated(m, p, n, from_transactions),
         UNCHANGED <<now_sec, chainVars>>
  PROVE  NonceInv'
<1>1. now_sec \in Int
  BY DEF NonceInv, DataOK
<1>2. Safe(UpdateNonce(p, n, from_transactions))
  BY <1>1, UpdateNonceBounds DEF Safe
<1>3. \/ Continue(m, UpdateNonce(p, n, from_transactions))
      \/ Later(m, UpdateNonce(p, n, from_transactions))
  BY DEF NonceUpdated
<1> QED BY <1>2, <1>3, ContinueKeepsNonceInv, LaterKeepsNonceInv

(* handle_http_rsp, answer by answer. *)
LEMMA HandleResponseKeepsNonceInv ==
  ASSUME NonceInv, NEW m \in Messages, HandleResponse(m)
  PROVE  NonceInv'
<1>1. /\ prefs \in Preferences /\ Safe(prefs)
      /\ now_sec \in Int /\ mined \in Nat
      /\ nonce[m] \in Int
  BY DEF NonceInv, DataOK, VerifiedIsOnChain, Safe
<1>2. ASSUME NEW what \in {"nonce", "transactions", "gas", "broadcast", "price", "balance"},
             query.of = what
      PROVE  query # NoQuery /\ query \in Queries /\ query.value \in Int
  BY <1>2 DEF NonceInv, DataOK, NoQuery, Queries
<1>3. ASSUME NEW what, NEW answers, Handle(m, what, answers)
      PROVE  /\ query.of = what /\ query.answer \in answers
             /\ UNCHANGED <<now_sec, chainVars>>
  BY <1>3 DEF Handle
<1>4. Safe(SampleGas(prefs)) /\ SampleGas(prefs) \in Preferences
  BY <1>1, OtherUpdates DEF Safe
<1>5. CASE HandleGas(m)
  <2>1. UNCHANGED <<now_sec, chainVars>>
    BY <1>3, <1>5 DEF HandleGas
  <2>2. Continue(m, SampleGas(prefs)) \/ Continue(m, prefs)
    BY <1>5 DEF HandleGas
  <2> QED BY <1>1, <1>4, <2>1, <2>2, ContinueKeepsNonceInv
<1>6. CASE HandleNonce(m)
  <2>1. /\ query.of = "nonce" /\ query.answer = "ok"
        /\ UNCHANGED <<now_sec, chainVars>>
    BY <1>3, <1>6 DEF HandleNonce
  <2>2. query.value \in Int /\ query.value < mined
    BY <1>2, <2>1 DEF NonceInv, AnswerTrue
  <2>3. NonceUpdated(m, prefs, query.value, FALSE)
    BY <1>6 DEF HandleNonce
  <2> QED BY <1>1, <2>1, <2>2, <2>3, NonceUpdatedKeepsNonceInv
<1>7. CASE HandleTransactions(m)
  <2>1. /\ query.of = "transactions" /\ query.answer = "ok"
        /\ UNCHANGED <<now_sec, chainVars>>
    BY <1>3, <1>7 DEF HandleTransactions
  <2>2. query.value \in Int /\ query.value < mined
    BY <1>2, <2>1 DEF NonceInv, AnswerTrue
  <2>3. \/ NonceUpdated(m, SampleGas(prefs), query.value, TRUE)
        \/ NonceUpdated(m, prefs, query.value, TRUE)
    BY <1>7 DEF HandleTransactions
  <2> QED BY <1>1, <1>4, <2>1, <2>2, <2>3, NonceUpdatedKeepsNonceInv
<1>8. CASE HandleBroadcast(m)
  <2>1. /\ query.of = "broadcast" /\ query.answer \in {"ok", "too_low"}
        /\ UNCHANGED <<now_sec, chainVars>>
    BY <1>3, <1>8 DEF HandleBroadcast
  <2>2. CASE query.answer = "ok"
    <3>1. Finish(m, RecordPayment(prefs, nonce[m]), TRUE)
      BY <1>8, <2>2 DEF HandleBroadcast
    <3>2. Safe(RecordPayment(prefs, nonce[m]))
      BY <1>1, RecordPaymentBounds DEF Safe
    <3> QED BY <2>1, <3>1, <3>2, FinishKeepsNonceInv
  <2>3. CASE query.answer = "too_low"
    <3>1. Continue(m, NonceTooLow(prefs))
      BY <1>8, <2>3 DEF HandleBroadcast
    <3>2. prefs.last_tx_nonce + 1 < mined
      BY <1>2, <2>1, <2>3 DEF NonceInv, AnswerTrue
    <3>3. Safe(NonceTooLow(prefs))
      BY <1>1, <3>2, NonceTooLowBounds DEF Safe
    <3> QED BY <2>1, <3>1, <3>3, ContinueKeepsNonceInv
  <2> QED BY <2>1, <2>2, <2>3
<1>9. CASE HandleBalance(m)
  <2>1. query.of = "balance" /\ UNCHANGED <<now_sec, chainVars>>
    BY <1>3, <1>9 DEF HandleBalance
  <2>2. Safe(UpdateBalance(prefs, query.value))
    BY <1>1, <1>2, <2>1, OtherUpdates DEF Safe
  <2>3. \/ Continue(m, UpdateBalance(prefs, query.value))
        \/ Later(m, UpdateBalance(prefs, query.value))
    BY <1>9 DEF HandleBalance
  <2> QED BY <2>1, <2>2, <2>3, ContinueKeepsNonceInv, LaterKeepsNonceInv
<1>10. CASE HandlePrice(m)
  <2>1. /\ Continue(m, [prefs EXCEPT !.price_refresh_sec = now_sec])
        /\ UNCHANGED <<now_sec, chainVars>>
    BY <1>3, <1>10 DEF HandlePrice
  <2>2. Safe([prefs EXCEPT !.price_refresh_sec = now_sec])
    BY <1>1, OtherUpdates DEF Safe
  <2> QED BY <2>1, <2>2, ContinueKeepsNonceInv
<1>11. CASE HandleError(m)
  <2>1. Finish(m, prefs, FALSE) /\ UNCHANGED <<now_sec, chainVars>>
    BY <1>3, <1>11 DEF HandleError
  <2> QED BY <1>1, <2>1, FinishKeepsNonceInv
<1> QED BY <1>5, <1>6, <1>7, <1>8, <1>9, <1>10, <1>11 DEF HandleResponse

(* The network answers truly, and the chain only grows. *)
LEMMA AnsweringKeepsNonceInv ==
  ASSUME NonceInv, NEW what \in {"nonce", "transactions", "gas", "broadcast", "price",
                                 "balance"},
         query.of = what, NetworkStep, UNCHANGED <<mined, chain_balance>>,
         NEW answer \in {"ok", "too_low", "error"}, NEW value \in Int,
         Answers(answer, value),
         answer = "ok" /\ what \in {"nonce", "transactions"} => value < mined,
         answer = "too_low" => what = "broadcast" /\ query.nonce < mined
  PROVE  NonceInv'
<1>1. query # NoQuery /\ query \in Queries
  BY DEF NonceInv, DataOK, NoQuery, Queries
<1>2. query' = [query EXCEPT !.answer = answer, !.value = value]
  BY DEF Answers
<1>3. /\ query' \in Queries
      /\ query'.of = query.of /\ query'.nonce = query.nonce
      /\ query'.answer = answer /\ query'.value = value
  BY <1>1, <1>2 DEF Queries
<1>4. UNCHANGED <<prefs, nonce, now_sec>>
  BY DEF NetworkStep, clientVars
<1>5. DataOK' /\ VerifiedIsOnChain'
  BY <1>3, <1>4 DEF NonceInv, DataOK, VerifiedIsOnChain
<1>6. AnswerTrue'
  BY <1>1, <1>3, <1>4 DEF NonceInv, AnswerTrue
<1> QED BY <1>5, <1>6 DEF NonceInv

(* The chain grows, or an account is paid into: what was told stays true. *)
LEMMA ChainKeepsNonceInv ==
  ASSUME NonceInv, NetworkStep, UNCHANGED query, mined' \in {mined, mined + 1},
         chain_balance' \in Int
  PROVE  NonceInv'
<1>1. UNCHANGED <<prefs, nonce, now_sec>>
  BY DEF NetworkStep, clientVars
<1>2. DataOK' /\ VerifiedIsOnChain'
  BY <1>1 DEF NonceInv, DataOK, VerifiedIsOnChain, Preferences
<1>3. query = NoQuery \/ query \in Queries
  BY DEF NonceInv, DataOK
<1>4. AnswerTrue'
  BY <1>1, <1>3 DEF NonceInv, DataOK, AnswerTrue, Queries
<1> QED BY <1>2, <1>4 DEF NonceInv

(* The services and the chain. *)
LEMMA NetworkKeepsNonceInv ==
  ASSUME NonceInv, Network
  PROVE  NonceInv'
<1>1. mined \in Nat /\ chain_balance \in Int
  BY DEF NonceInv, DataOK
<1>2. CASE ServeNonce
  <2>1. /\ query.of = "nonce" /\ NetworkStep /\ UNCHANGED <<mined, chain_balance>>
    BY <1>2 DEF ServeNonce, Asked, chainVars
  <2>2. PICK n \in (mined - 1 - ApiLag)..(mined - 1) : Answers("ok", n)
    BY <1>2 DEF ServeNonce
  <2>3. n \in Int /\ n < mined
    BY <1>1, Numbers
  <2> QED BY <2>1, <2>2, <2>3, AnsweringKeepsNonceInv
<1>3. CASE ServeTransactions
  <2>1. /\ query.of = "transactions" /\ NetworkStep /\ UNCHANGED <<mined, chain_balance>>
    BY <1>3 DEF ServeTransactions, Asked, chainVars
  <2>2. PICK n \in {mined - 1, -1} : Answers("ok", n)
    BY <1>3 DEF ServeTransactions
  <2>3. n \in Int /\ n < mined
    BY <1>1
  <2> QED BY <2>1, <2>2, <2>3, AnsweringKeepsNonceInv
<1>4. CASE ServeBalance
  <2>1. /\ query.of = "balance" /\ NetworkStep /\ UNCHANGED <<mined, chain_balance>>
        /\ Answers("ok", chain_balance)
    BY <1>4 DEF ServeBalance, Asked, chainVars
  <2> QED BY <1>1, <2>1, AnsweringKeepsNonceInv
<1>5. CASE ServeOther
  <2>1. /\ query.of \in {"gas", "price"} /\ NetworkStep
        /\ UNCHANGED <<mined, chain_balance>> /\ Answers("ok", 0)
    BY <1>5 DEF ServeOther, Asked, chainVars
  <2> QED BY <2>1, AnsweringKeepsNonceInv
<1>6. CASE ServeBroadcast
  <2>1. /\ query.of = "broadcast" /\ NetworkStep /\ UNCHANGED <<mined, chain_balance>>
        /\ Answers("ok", 0) \/ Answers("error", 0)
    BY <1>6 DEF ServeBroadcast, NodeAccepts, Asked
  <2> QED BY <2>1, AnsweringKeepsNonceInv
<1>7. CASE RefuseBroadcast
  <2>1. /\ query.of = "broadcast" /\ NetworkStep /\ UNCHANGED <<mined, chain_balance>>
        /\ (query.nonce < mined /\ Answers("too_low", 0)) \/ Answers("error", 0)
    BY <1>7 DEF RefuseBroadcast, Asked, chainVars
  <2> QED BY <2>1, AnsweringKeepsNonceInv
<1>8. CASE Unreachable
  <2>1. /\ query # NoQuery /\ NetworkStep /\ UNCHANGED <<mined, chain_balance>>
        /\ Answers("error", 0)
    BY <1>8 DEF Unreachable, Asked, chainVars
  <2>2. query.of \in {"nonce", "transactions", "gas", "broadcast", "price", "balance"}
    BY <2>1 DEF NonceInv, DataOK, Queries
  <2> QED BY <2>1, <2>2, AnsweringKeepsNonceInv
<1>9. CASE Mine
  <2>1. /\ NetworkStep /\ UNCHANGED query /\ mined' = mined + 1
        /\ chain_balance' = chain_balance - RealCost
    BY <1>9 DEF Mine
  <2> QED BY <1>1, <2>1, Numbers, ChainKeepsNonceInv
<1>10. ASSUME NEW amount \in Deposits, Deposit(amount)
       PROVE  NonceInv'
  <2>1. /\ NetworkStep /\ UNCHANGED <<query, mined>>
        /\ chain_balance' = chain_balance + amount
    BY <1>10 DEF Deposit
  <2>2. amount \in Nat
    BY Numbers
  <2> QED BY <1>1, <2>1, <2>2, ChainKeepsNonceInv
<1>11. ASSUME NEW n \in Nonces, Drop(n)
       PROVE  NonceInv'
  <2>1. NetworkStep /\ UNCHANGED <<query, mined, chain_balance>>
    BY <1>11 DEF Drop
  <2> QED BY <1>1, <2>1, ChainKeepsNonceInv
<1> QED BY <1>2, <1>3, <1>4, <1>5, <1>6, <1>7, <1>8, <1>9, <1>10, <1>11 DEF Network

(* The processor thread starts on a message, or on it again after a wait. *)
LEMMA ProcessMessageKeepsNonceInv ==
  ASSUME NonceInv, TypeOK, NEW k \in Message_Type, ProcessMessage(k)
  PROVE  NonceInv'
<1>1. current_message[k] \in Messages
  BY DEF ProcessMessage, Dispatches, Unwaiting, TypeOK
<1>2. Safe(prefs)
  BY DEF NonceInv, DataOK, VerifiedIsOnChain, Safe
<1>3. /\ Guts(prefs, current_message[k])
      /\ Query(prefs, current_message[k]) \/ query' = NoQuery
      /\ UNCHANGED <<now_sec, chainVars>>
  BY DEF ProcessMessage, NothingToAsk
<1> QED BY <1>1, <1>2, <1>3, GutsKeepNonceInv

(* NonceInv is inductive. *)
LEMMA NonceStep ==
  ASSUME NonceInv, TypeOK, [ProcessorNext]_processorVars
  PROVE  NonceInv'
<1>1. CASE \E k \in Message_Type : ProcessMessage(k)
  BY <1>1, ProcessMessageKeepsNonceInv
<1>2. CASE \E m \in Messages : HandleResponse(m)
  BY <1>2, HandleResponseKeepsNonceInv
<1>3. CASE Schedule
  <2>1. UNCHANGED <<prefs, nonce, query, now_sec, mined, chain_balance>>
    BY <1>3 DEF Schedule, clientVars, chainVars
  <2> QED BY <2>1 DEF NonceInv, DataOK, AnswerTrue, VerifiedIsOnChain
<1>4. CASE Network
  BY <1>4, NetworkKeepsNonceInv
<1>5. CASE Elapse
  <2>1. /\ UNCHANGED <<prefs, nonce, query, mined, chain_balance>>
        /\ now_sec' = now_sec + 1
    BY <1>5 DEF Elapse, clientVars, chainVars
  <2> QED BY <2>1 DEF NonceInv, DataOK, AnswerTrue, VerifiedIsOnChain
<1>6. CASE UNCHANGED processorVars
  <2>1. UNCHANGED <<prefs, nonce, query, now_sec, mined, chain_balance>>
    BY <1>6 DEF processorVars, clientVars, chainVars
  <2> QED BY <2>1 DEF NonceInv, DataOK, AnswerTrue, VerifiedIsOnChain
<1> QED BY <1>1, <1>2, <1>3, <1>4, <1>5, <1>6 DEF ProcessorNext

(* The app never takes a nonce for verified that the chain has not used,   *)
(* whatever the network answers, loses or forgets, and however long it     *)
(* takes.                                                                  *)
THEOREM VerifiedNonceIsOnChain == ProcessorSpec => []VerifiedIsOnChain
<1>1. ProcessorSpec => []TypeOK
  BY ProcessorImplementsScheduler, TypeCorrect
<1>2. ProcessorInit => NonceInv
  BY NonceInit
<1>3. TypeOK /\ NonceInv /\ [ProcessorNext]_processorVars => NonceInv'
  BY NonceStep
<1>4. NonceInv => VerifiedIsOnChain
  BY DEF NonceInv
<1> QED BY <1>1, <1>2, <1>3, <1>4, PTL DEF ProcessorSpec
=============================================================================
