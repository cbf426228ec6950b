-------------------------- MODULE PaymentProcessor --------------------------
(***************************************************************************)
(* What Payment_Processor does with its current messages: send_guts,       *)
(* refresh_balance_guts, handle_http_rsp and update_nonce_logic, on top of *)
(* the scheduling of PaymentScheduler, against the account on the block    *)
(* chain and the web services that report on it.                           *)
(*                                                                         *)
(* Every action is an action of PaymentScheduler with the data filled in,  *)
(* or a step of the network.  Seconds are counted from Epoch, which is     *)
(* later than every interval the code compares with, so that a time of 0   *)
(* ("never") is long ago.                                                  *)
(*                                                                         *)
(* acct_has_no_txs and tx_err_occurred are never set to true anywhere in   *)
(* the app, and its clients never set want_raw_tx: the branches they guard *)
(* are left out.                                                           *)
(***************************************************************************)
EXTENDS PaymentScheduler

CONSTANTS
  \* intervals of Payment_Processor, in ticks
  NonceForcedAdoption,     \* NONCE_FORCED_ADOPTION_SEC, 210 s
  BalanceForcedAdoption,   \* BALANCE_FORCED_ADOPTION_SEC, 60 s
  LongEtherTransaction,    \* LONG_ETHER_TRANSACTION_TIME_SEC, 60 s
  PriceInterval,           \* 5 * 60 s in refresh_balance_guts
  BalanceInterval,         \* 30 s in refresh_balance_guts
  BalanceEstimateSlop,     \* BALANCE_ESTIMATE_SLOP
  GasSamples,              \* gas_price_history.length
  EstCost,                 \* size_wei + gas_limit * gas_price of a payment
  Unencodable,             \* payers whose to_addr create_transaction cannot decode
  \* the network
  StartNonce,              \* transactions on the chain when the account is imported
  StartBalance,            \* balance of the account then
  RealCost,                \* what a mined payment really costs
  Deposits,                \* amounts others pay into the account, at most once each
  ApiLag,                  \* how far back "the last recorded transaction" may be
  MineBound,               \* a pending transaction is mined within this time
  MaxLatency,              \* a query is answered within this time
  CrowdedPage,             \* the history's first page may hold only what others paid in
  MayLoseReply,            \* the reply to a served query may be lost
  MaxDrops,                \* transactions the network forgets
  \* bounds of the model
  Epoch, MaxTime

ASSUME ProcessorAssumption ==
  /\ {NonceForcedAdoption, BalanceForcedAdoption, LongEtherTransaction, PriceInterval,
      BalanceInterval, BalanceEstimateSlop, GasSamples, EstCost, StartNonce, StartBalance,
      RealCost, ApiLag, MineBound, MaxLatency, MaxDrops, Epoch, MaxTime} \subseteq Nat
  /\ Deposits \subseteq Nat
  /\ Unencodable \subseteq Payers
  /\ CrowdedPage \in BOOLEAN /\ MayLoseReply \in BOOLEAN
  /\ RealCost <= EstCost
  /\ \A i \in {NonceForcedAdoption, BalanceForcedAdoption, LongEtherTransaction,
               PriceInterval, BalanceInterval} : i < Epoch

VARIABLES
  prefs,           \* the SharedPreferences of the app
  process_count,   \* field process_count of each message (above 2 is 3)
  nonce,           \* field nonce of each message
  gas_samples,     \* entries of gas_price_history that have been filled in
  result,          \* what payment_result or balance_result is told: ok, or not
  query,           \* the HTTP_Query_Task under way and its response
  now_sec,
  \* the account on the block chain
  mined,           \* number of transactions on the chain: the next nonce
  tx,              \* tx[n]: the message whose transaction has nonce n
  tx_sec,          \* tx_sec[n]: when the network accepted it
  chain_balance,
  deposits,        \* deposits still to come
  drops            \* transactions forgotten so far

clientVars  == <<process_count, nonce, gas_samples, result>>
chainVars   == <<mined, tx, tx_sec, chain_balance, deposits, drops>>
processorVars == <<vars, prefs, clientVars, query, now_sec, chainVars>>

Nonces == StartNonce..(StartNonce + MaxMessages)
NoTx   == 0

NoQuery == [of |-> "none"]
Ask(what, n) == [of |-> what, nonce |-> n, asked |-> now_sec, answer |-> "none", value |-> 0]

(* The preferences after MainActivity.onResume has imported an account.    *)
ProcessorInit ==
  /\ Init
  /\ prefs = [last_tx_nonce |-> -1, verified_nonce |-> -2, nonce_refresh_sec |-> 0,
              nonce_settled_sec |-> 0, verified_nonce_changed_sec |-> 0,
              oldest_unverified_tx |-> 0, nonce_from_txs_refresh_sec |-> 0,
              last_pay_sec |-> 0, rapid_fire_sec |-> 0, gas_price_known |-> FALSE,
              price_refresh_sec |-> 0, balance |-> 0, verified_balance |-> 0,
              balance_refresh_sec |-> 0, verified_balance_changed_sec |-> 0]
  /\ process_count = [m \in Messages |-> 0]
  /\ nonce = [m \in Messages |-> 0]
  /\ gas_samples = 0
  /\ result = [m \in Messages |-> "none"]
  /\ query = NoQuery
  /\ now_sec = Epoch
  /\ mined = StartNonce
  /\ tx = [n \in Nonces |-> NoTx]
  /\ tx_sec = [n \in Nonces |-> 0]
  /\ chain_balance = StartBalance
  /\ deposits = Deposits
  /\ drops = 0

-----------------------------------------------------------------------------
(* Pure parts of the handlers: what they read from preferences p, and what *)
(* they write there.                                                       *)

Since(sec) == now_sec - sec

(* "a) we've made payment(s) since nonce was last settled, b) those        *)
(* payments were within the typical ether transaction time, c) we tried    *)
(* updating nonce recently" (enable_rapid_tx is true).                     *)
RapidFire(p) ==
  /\ p.last_pay_sec >= p.nonce_settled_sec
  /\ Since(p.last_pay_sec) <= LongEtherTransaction
  /\ Since(p.nonce_refresh_sec) < LongEtherTransaction
  /\ p.verified_nonce < p.last_tx_nonce

(* Mutant: rapid fire counts from the verified nonce. *)
MutNextNonce(p) ==
  IF p.verified_nonce = p.last_tx_nonce \/ RapidFire(p) THEN p.verified_nonce + 1 ELSE -1

(* The nonce send_guts chooses; negative means ask for it. *)
NextNonce(p) ==
  IF p.verified_nonce = p.last_tx_nonce THEN p.verified_nonce + 1
  ELSE IF RapidFire(p) THEN p.last_tx_nonce + 1 ELSE -1

(* update_nonce_logic adopts the verified nonce by force: neither it nor   *)
(* the payments have moved for long, nor had they when last looked up in   *)
(* the transaction history.                                                *)
ForcedAdoption(p) ==
  /\ p.verified_nonce < p.last_tx_nonce
  /\ Since(p.verified_nonce_changed_sec) > NonceForcedAdoption
  /\ Since(p.oldest_unverified_tx) > NonceForcedAdoption
  /\ Since(p.nonce_from_txs_refresh_sec)
       < Since(p.oldest_unverified_tx) - NonceForcedAdoption

UpToDate(p, n) == n >= p.last_tx_nonce \/ p.verified_nonce >= p.last_tx_nonce

(* The preferences update_nonce_logic leaves behind when told nonce n. *)
UpdateNonce(p, n, from_transactions) ==
  LET rises    == n > p.verified_nonce
      verified == IF rises THEN n ELSE p.verified_nonce
      adopted  == ~rises /\ ForcedAdoption(p)
  IN [p EXCEPT
        !.verified_nonce = verified,
        !.verified_nonce_changed_sec = IF rises \/ adopted THEN now_sec ELSE @,
        !.last_tx_nonce = IF adopted \/ verified > @ THEN verified ELSE @,
        !.nonce_refresh_sec = now_sec,
        !.nonce_from_txs_refresh_sec = IF from_transactions THEN now_sec ELSE @,
        !.nonce_settled_sec = IF UpToDate(p, n) THEN now_sec ELSE @]

(* A transaction was accepted: the preferences after its broadcast. *)
RecordPayment(p, n) ==
  [p EXCEPT
     !.last_tx_nonce = n,
     !.last_pay_sec = now_sec,
     !.oldest_unverified_tx = IF @ < p.verified_nonce_changed_sec THEN now_sec ELSE @,
     !.balance = @ - EstCost]

(* The node finds the nonce too low. *)
NonceTooLow(p) ==
  [p EXCEPT
     !.verified_nonce = IF @ = p.last_tx_nonce THEN p.last_tx_nonce + 1 ELSE -2,
     !.verified_nonce_changed_sec = now_sec]

(* The balance service reports b. *)
UpdateBalance(p, b) ==
  LET changed_sec == IF b # p.verified_balance THEN now_sec
                     ELSE p.verified_balance_changed_sec
      difference  == IF b > p.balance THEN b - p.balance ELSE p.balance - b
      adopted     == \/ p.last_tx_nonce = p.verified_nonce /\ b > p.balance
                     \/ Since(changed_sec) > BalanceForcedAdoption
                     \/ /\ difference <= BalanceEstimateSlop
                        /\ Since(p.balance_refresh_sec) < BalanceForcedAdoption \div 2
  IN [p EXCEPT
        !.verified_balance = b,
        !.verified_balance_changed_sec = changed_sec,
        !.balance = IF adopted THEN b ELSE @,
        !.balance_refresh_sec = now_sec]

-----------------------------------------------------------------------------
(* send_guts and refresh_balance_guts, called with the preferences p.      *)

(* ++process_count: the code only tells 1, 2 and more apart. *)
Begin(m) == process_count' = [process_count EXCEPT ![m] = IF @ = 3 THEN 3 ELSE @ + 1]

Encodable(m) == client[m] \notin Unencodable

(* The query send_guts makes for message m.  The transaction history is    *)
(* also asked when now_sec & 7 is 0, which may be any second here.         *)
SendAsks(p, m) ==
  IF NextNonce(p) < 0
  THEN IF p.rapid_fire_sec > p.nonce_settled_sec \/ process_count'[m] > 2
       THEN {"transactions"} ELSE {"transactions", "nonce"}
  ELSE IF ~p.gas_price_known THEN {"gas"}
  ELSE IF Encodable(m) THEN {"broadcast"} ELSE {}

SendGuts(p, m) ==
  /\ Begin(m)
  /\ nonce' = [nonce EXCEPT ![m] = NextNonce(p)]
  /\ prefs' = IF RapidFire(p) THEN [p EXCEPT !.rapid_fire_sec = now_sec] ELSE p

(* Mutant: the balance is refreshed without looking at the nonces. *)
MutBalanceAsks(p, m) ==
  IF Since(p.price_refresh_sec) > PriceInterval THEN {"price"}
  ELSE IF \/ Since(p.balance_refresh_sec) > BalanceInterval
          \/ p.balance_refresh_sec < p.nonce_refresh_sec
          \/ p.balance # p.verified_balance
       THEN {"balance"} ELSE {}

(* The query refresh_balance_guts makes for message m, if it needs one. *)
BalanceAsks(p, m) ==
  IF p.verified_nonce # p.last_tx_nonce
  THEN IF process_count'[m] > 2 THEN {"transactions"} ELSE {"nonce"}
  ELSE IF Since(p.price_refresh_sec) > PriceInterval THEN {"price"}
  ELSE IF \/ Since(p.balance_refresh_sec) > BalanceInterval
          \/ p.balance_refresh_sec < p.nonce_refresh_sec
          \/ p.balance # p.verified_balance
       THEN {"balance"} ELSE {}

BalanceGuts(p, m) ==
  /\ Begin(m)
  /\ prefs' = p
  /\ UNCHANGED nonce

Guts(p, m)  == IF Kind(m) = "send" THEN SendGuts(p, m) ELSE BalanceGuts(p, m)
Asks(p, m)  == IF Kind(m) = "send" THEN SendAsks(p, m) ELSE BalanceAsks(p, m)

Query(p, m) == \E what \in Asks(p, m) : query' = Ask(what, NextNonce(p))

(* dispose_current_message tells the client how it went. *)
Report(m, ok) == result' = [result EXCEPT ![m] = IF ok THEN "ok" ELSE "failed"]

(* With nothing to ask, a payment that cannot be encoded fails and a       *)
(* balance is reported.                                                    *)
NothingToAsk(p, m) ==
  /\ Asks(p, m) = {}
  /\ Report(m, Kind(m) = "balance")
  /\ query' = NoQuery

-----------------------------------------------------------------------------
(* The processor thread calls the guts of the message it has selected.     *)
ProcessMessage(k) ==
  LET m == current_message[k] IN
  /\ Dispatches(k)
  /\ Guts(prefs, m)
  /\ \/ RunQuery(k) /\ Query(prefs, m) /\ UNCHANGED result
     \/ RunDispose(k) /\ NothingToAsk(prefs, m)
  /\ UNCHANGED <<gas_samples, now_sec, chainVars>>

-----------------------------------------------------------------------------
(* handle_http_rsp, on the UI thread, with the answer of the query.        *)

Handle(m, what, answers) ==
  /\ Respond(m)
  /\ query.of = what
  /\ query.answer \in answers
  /\ UNCHANGED <<now_sec, chainVars>>

(* call_next_callback(.., 0): on with the guts, with preferences p. *)
Continue(m, p) ==
  /\ Guts(p, m)
  /\ \/ RspQuery(m) /\ Query(p, m) /\ UNCHANGED result
     \/ RspDispose(m, Kind(m) = "send") /\ NothingToAsk(p, m)

(* call_next_callback(.., 5): try again later. *)
Later(m, p) ==
  /\ RspSuspend(m)
  /\ prefs' = p
  /\ query' = NoQuery
  /\ UNCHANGED <<process_count, nonce, result>>

(* dispose_current_message with preferences p; a failure flushes the queues. *)
Finish(m, p, ok) ==
  /\ RspDispose(m, ~ok)
  /\ Report(m, ok)
  /\ prefs' = p
  /\ query' = NoQuery
  /\ UNCHANGED <<process_count, nonce>>

(* gas_price_history takes one sample more; the price counts as known when *)
(* it is full.  It then stays known for the 60 * 60 * 1000 seconds the     *)
(* code allows it, which no behaviour here reaches.                        *)
SampleGas(p) == [p EXCEPT !.gas_price_known = @ \/ gas_samples + 1 >= GasSamples]
OneSample    == gas_samples' = IF gas_samples < GasSamples THEN gas_samples + 1 ELSE gas_samples

(* "gas": on with the message either way. *)
HandleGas(m) ==
  /\ Handle(m, "gas", {"ok", "error"})
  /\ IF query.answer = "ok"
     THEN OneSample /\ Continue(m, SampleGas(prefs))
     ELSE UNCHANGED gas_samples /\ Continue(m, prefs)

(* What update_nonce_logic does next.  A payment that can be sent without  *)
(* waiting for the nonce goes on at once.                                  *)
NonceUpdated(m, p, n, from_transactions) ==
  LET updated  == UpdateNonce(p, n, from_transactions)
      no_wait  == /\ Kind(m) = "send"
                  /\ p.last_pay_sec >= p.nonce_settled_sec
                  /\ Since(p.last_pay_sec) < LongEtherTransaction
  IN IF UpToDate(p, n) \/ no_wait THEN Continue(m, updated) ELSE Later(m, updated)

(* Mutant: the last nonce used is taken for the next one. *)
MutHandleNonce(m) ==
  /\ Handle(m, "nonce", {"ok"})
  /\ UNCHANGED gas_samples
  /\ NonceUpdated(m, prefs, query.value + 1, FALSE)

(* "nonce": the account nonce, -1 when the account has never been used. *)
HandleNonce(m) ==
  /\ Handle(m, "nonce", {"ok"})
  /\ UNCHANGED gas_samples
  /\ NonceUpdated(m, prefs, query.value, FALSE)

(* "transactions": the highest nonce of the account's own transactions on  *)
(* the first page of the history, -1 if there are none; the first of them  *)
(* is also a sample of the gas price.                                      *)
HandleTransactions(m) ==
  /\ Handle(m, "transactions", {"ok"})
  /\ IF query.value >= 0
     THEN OneSample /\ NonceUpdated(m, SampleGas(prefs), query.value, TRUE)
     ELSE UNCHANGED gas_samples /\ NonceUpdated(m, prefs, query.value, TRUE)

(* Mutant: any answer of the node counts as success. *)
MutHandleBroadcast(m) ==
  /\ Handle(m, "broadcast", {"ok", "too_low"})
  /\ UNCHANGED gas_samples
  /\ Finish(m, RecordPayment(prefs, nonce[m]), TRUE)

(* "broadcast". *)
HandleBroadcast(m) ==
  /\ Handle(m, "broadcast", {"ok", "too_low"})
  /\ UNCHANGED gas_samples
  /\ IF query.answer = "ok"
     THEN Finish(m, RecordPayment(prefs, nonce[m]), TRUE)
     ELSE Continue(m, NonceTooLow(prefs))

(* "balance": again in 5 seconds unless it is what was expected. *)
HandleBalance(m) ==
  LET updated == UpdateBalance(prefs, query.value) IN
  /\ Handle(m, "balance", {"ok"})
  /\ UNCHANGED gas_samples
  /\ IF updated.balance = query.value THEN Continue(m, updated) ELSE Later(m, updated)

(* "price". *)
HandlePrice(m) ==
  /\ Handle(m, "price", {"ok"})
  /\ UNCHANGED gas_samples
  /\ Continue(m, [prefs EXCEPT !.price_refresh_sec = now_sec])

(* Mutant: a failed broadcast is recorded as a payment. *)
MutHandleError(m) ==
  /\ \E what \in {"nonce", "transactions", "broadcast", "balance", "price"} :
       Handle(m, what, {"error"})
  /\ UNCHANGED gas_samples
  /\ Finish(m, IF query.of = "broadcast" THEN RecordPayment(prefs, nonce[m]) ELSE prefs, FALSE)

(* Mutant: a failed broadcast is tried again. *)
MutRetry(m) ==
  /\ \E what \in {"nonce", "transactions", "broadcast", "balance", "price"} :
       Handle(m, what, {"error"})
  /\ UNCHANGED gas_samples
  /\ IF query.of = "broadcast" THEN Continue(m, prefs) ELSE Finish(m, prefs, FALSE)

(* A failed query other than for the gas price fails the message. *)
HandleError(m) ==
  /\ \E what \in {"nonce", "transactions", "broadcast", "balance", "price"} :
       Handle(m, what, {"error"})
  /\ UNCHANGED gas_samples
  /\ Finish(m, prefs, FALSE)

-----------------------------------------------------------------------------
(* The rest of the app and of the scheduling leaves the data alone. *)
Schedule ==
  /\ \/ \E m \in Messages : QueueMessage(m)
     \/ \E c \in Wallets : CancelMessages(c)
     \/ \E t \in Threads : Deliver(t)
     \/ \E k \in Message_Type : SelectSuspended(k) \/ SelectNew(k)
     \/ WaitOnMonitor
     \/ WaitTimeout
  /\ UNCHANGED <<prefs, clientVars, query, now_sec, chainVars>>

-----------------------------------------------------------------------------
(* The network (external).                                                 *)

Pool == {n \in Nonces : n >= mined /\ tx[n] # NoTx}

Answers(answer, value) ==
  query' = [query EXCEPT !.answer = answer, !.value = value]

NetworkStep == UNCHANGED <<vars, prefs, clientVars, now_sec>>

Asked(what) == query.of = what /\ query.answer = "none" /\ NetworkStep

(* The nonce service gives the nonce "used in the last recorded            *)
(* transaction", which need not be the highest; -1 for an unused account.  *)
ServeNonce ==
  /\ Asked("nonce")
  /\ \E n \in (mined - 1 - ApiLag)..(mined - 1) :
       /\ IF mined = 0 THEN n = -1 ELSE n >= 0
       /\ Answers("ok", n)
  /\ UNCHANGED chainVars

(* The history service knows every transaction on the chain, and answers   *)
(* with a page of the latest: what others have paid into the account may   *)
(* have pushed its own transactions off the page, and -1 is read from it.  *)
ServeTransactions ==
  /\ Asked("transactions")
  /\ \E n \in {mined - 1} \cup IF CrowdedPage THEN {-1} ELSE {} : Answers("ok", n)
  /\ UNCHANGED chainVars

ServeBalance ==
  /\ Asked("balance")
  /\ Answers("ok", chain_balance)
  /\ UNCHANGED chainVars

ServeOther ==
  /\ Asked("gas") \/ Asked("price")
  /\ Answers("ok", 0)
  /\ UNCHANGED chainVars

(* The account can pay for a transaction at its estimated cost besides     *)
(* those that are pending; the node refuses it otherwise ("insufficient    *)
(* funds"), so that what it has accepted can be mined.                     *)
Payable == EstCost + RealCost * Cardinality(Pool) <= chain_balance

(* The node accepts m's transaction with nonce n: the nonce is not used,   *)
(* and the account can pay for it.                                         *)
NodeAccepts(m, n) ==
  /\ n \in Nonces \ Pool
  /\ n >= mined
  /\ Payable
  /\ tx' = [tx EXCEPT ![n] = m]
  /\ tx_sec' = [tx_sec EXCEPT ![n] = now_sec]
  /\ UNCHANGED <<mined, chain_balance, deposits, drops>>

ServeBroadcast ==
  /\ Asked("broadcast")
  /\ NodeAccepts(current_message["send"], query.nonce)
  /\ \E answer \in {"ok"} \cup IF MayLoseReply THEN {"error"} ELSE {} :
       Answers(answer, 0)

RefuseBroadcast ==
  /\ Asked("broadcast")
  /\ \/ query.nonce < mined /\ Answers("too_low", 0)
     \/ (query.nonce \in Pool \/ ~Payable) /\ Answers("error", 0)
  /\ UNCHANGED chainVars

(* The query does not get through. *)
Unreachable ==
  /\ query # NoQuery
  /\ Asked(query.of)
  /\ Answers("error", 0)
  /\ UNCHANGED chainVars

(* The next transaction is mined, a second after it was accepted at the    *)
(* earliest.                                                               *)
Mine ==
  /\ mined \in Pool
  /\ tx_sec[mined] < now_sec
  /\ mined' = mined + 1
  /\ chain_balance' = chain_balance - RealCost
  /\ NetworkStep
  /\ UNCHANGED <<query, tx, tx_sec, deposits, drops>>

Deposit(amount) ==
  /\ amount \in deposits
  /\ deposits' = deposits \ {amount}
  /\ chain_balance' = chain_balance + amount
  /\ NetworkStep
  /\ UNCHANGED <<query, mined, tx, tx_sec, drops>>

(* A pending transaction is forgotten. *)
Drop(n) ==
  /\ drops < MaxDrops
  /\ n \in Pool
  /\ tx' = [tx EXCEPT ![n] = NoTx]
  /\ drops' = drops + 1
  /\ NetworkStep
  /\ UNCHANGED <<query, mined, tx_sec, chain_balance, deposits>>

Network ==
  \/ ServeNonce \/ ServeTransactions \/ ServeBalance \/ ServeOther
  \/ ServeBroadcast \/ RefuseBroadcast \/ Unreachable
  \/ Mine
  \/ \E amount \in Deposits : Deposit(amount)
  \/ \E n \in Nonces : Drop(n)

(* A second passes, unless the network owes something this second. *)
Elapse ==
  /\ now_sec < Epoch + MaxTime
  /\ query # NoQuery => Since(query.asked) < MaxLatency
  /\ mined \in Pool => Since(tx_sec[mined]) < MineBound
  /\ now_sec' = now_sec + 1
  /\ Tick \/ ((\A m \in Messages : timer[m] <= 0) /\ UNCHANGED vars)
  /\ UNCHANGED <<prefs, clientVars, query, chainVars>>

HandleResponse(m) ==
  \/ HandleGas(m) \/ HandleNonce(m) \/ HandleTransactions(m) \/ HandleBroadcast(m)
  \/ HandleBalance(m) \/ HandlePrice(m) \/ HandleError(m)

ProcessorNext ==
  \/ \E k \in Message_Type : ProcessMessage(k)
  \/ \E m \in Messages : HandleResponse(m)
  \/ Schedule
  \/ Network
  \/ Elapse

ProcessorSpec == ProcessorInit /\ [][ProcessorNext]_processorVars

-----------------------------------------------------------------------------
(* Properties.                                                             *)

(* The preferences and the fields have values the code can give them, and  *)
(* a query is described exactly while one is under way.                    *)
Times == {0} \cup Epoch..(Epoch + MaxTime)

ProcessorTypeOK ==
  /\ TypeOK
  /\ \A f \in {"nonce_refresh_sec", "nonce_settled_sec", "verified_nonce_changed_sec",
               "oldest_unverified_tx", "nonce_from_txs_refresh_sec", "last_pay_sec",
               "rapid_fire_sec", "price_refresh_sec", "balance_refresh_sec",
               "verified_balance_changed_sec"} : prefs[f] \in Times
  /\ prefs.last_tx_nonce \in {-2, -1} \cup 0..(StartNonce + MaxMessages)
  /\ prefs.verified_nonce \in {-2, -1} \cup 0..(StartNonce + MaxMessages)
  /\ prefs.gas_price_known \in BOOLEAN
  /\ prefs.balance \in Int /\ prefs.verified_balance \in Nat
  /\ process_count \in [Messages -> 0..3]
  /\ nonce \in [Messages -> -1..(StartNonce + MaxMessages)]
  /\ gas_samples \in 0..GasSamples
  /\ result \in [Messages -> {"none", "ok", "failed"}]
  /\ mined \in Nonces /\ chain_balance \in Nat
  /\ tx \in [Nonces -> Messages \cup {NoTx}]
  /\ tx_sec \in [Nonces -> Times]
  /\ query # NoQuery <=> \E m \in Messages : http[m] > 0

(* The verified nonce is that of a transaction on the chain.               *)
VerifiedIsOnChain == prefs.verified_nonce < mined

(* A payment is never broadcast with the nonce of another that is still    *)
(* pending, rapid fire or not.                                             *)
NoNonceClash ==
  query.of = "broadcast" /\ query.answer = "none" => query.nonce \notin Pool

(* No payment is left waiting for a nonce that was never used.             *)
NoNonceGap == \A n \in Pool : mined..n \subseteq Pool

(* The client is told its payment was made when exactly one transaction    *)
(* was, and that it failed when none was.                                  *)
ReportIsTrue ==
  \A m \in Messages : Kind(m) = "send" =>
    /\ result[m] = "ok" => \E n \in Nonces : {i \in Nonces : tx[i] = m} = {n}
    /\ result[m] = "failed" => \A n \in Nonces : tx[n] # m

(* "... past the interval by which it definately should have changed -- so *)
(* apparently some tx failed; so we just adopt the verified nonce" (lines  *)
(* 949-950): the verified nonce is adopted by force only when the          *)
(* transaction after it is neither pending nor on the chain.               *)
AdoptionJustified ==
  [][prefs'.last_tx_nonce < prefs.last_tx_nonce =>
       prefs.verified_nonce + 1 >= mined /\ prefs.verified_nonce + 1 \notin Pool]_processorVars

(* When MainActivity is told "account status is up-to-date" no payment is  *)
(* pending.                                                                *)
UpToDateMeansSettled ==
  [][\A m \in Messages :
       Kind(m) = "balance" /\ result[m] = "none" /\ result'[m] = "ok" => Pool = {}]_processorVars

(* The balance the app shows and checks payments against is never more     *)
(* than what the account will have when its pending payments are mined.    *)
(* (While a broadcast is under way the payment is not subtracted yet.)     *)
BalanceNeverOverstated ==
  query.of # "broadcast" =>
    prefs.balance <= chain_balance - RealCost * Cardinality(Pool)

(* "force check nonce..." (Payment_Processor.java:784): a payment whose    *)
(* nonce was too low asks for the nonce before it is broadcast again.      *)
NonceTooLowForcesCheck ==
  [][\A m \in Messages :
       HandleBroadcast(m) /\ query.answer = "too_low" => query'.of # "broadcast"]_processorVars
=============================================================================
