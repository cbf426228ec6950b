------------------------- MODULE SendActivityProofs -------------------------
(***************************************************************************)
(* Proofs about SendActivity: its screens, for any number of screens and   *)
(* payments; the amount on one screen, for any code, edits and switches;   *)
(* and the three parts of the activity beside each other, with what        *)
(* JsonAnswersProofs shows of the answers.                                 *)
(***************************************************************************)
EXTENDS MCSendActivity, JsonAnswersProofs

(* The payments made from screen c. *)
Made(c) == {m \in Messages : client[m] = c /\ outcome[m] # "new"}

(* A screen that has made a payment is done, and it has made no other.     *)
DoneOnce ==
  /\ outcome \in [Messages -> Outcomes]
  /\ send_is_done \in [Clients -> BOOLEAN]
  /\ \A c \in Clients : ~send_is_done[c] => Made(c) = {}
  /\ \A m, n \in Messages : client[m] = client[n] /\ outcome[m] # "new" /\ outcome[n] # "new" => m = n

-----------------------------------------------------------------------------
(* No screen has made a payment at first. *)
LEMMA DoneInitially == SendInit => DoneOnce
BY DEF SendInit, RequestsInit, DoneOnce, Made, Outcomes

(* A step that makes no payment. *)
LEMMA NoPayment ==
  ASSUME DoneOnce, UNCHANGED <<client, send_is_done>>,
         outcome' \in [Messages -> Outcomes],
         \A m \in Messages : outcome'[m] = "new" <=> outcome[m] = "new"
  PROVE  DoneOnce'
<1>1. \A c \in Clients : Made(c)' = Made(c)
  BY DEF Made
<1> QED BY <1>1 DEF DoneOnce

(* do_pay looks at send_is_done, and sets it. *)
LEMMA PayStep == ASSUME DoneOnce, NEW c \in Clients, NEW m \in Messages, Pay(c, m) PROVE DoneOnce'
<1>1. /\ ~send_is_done[c] /\ client[m] = c /\ UNCHANGED client
      /\ send_is_done' = [send_is_done EXCEPT ![c] = TRUE]
      /\ outcome' = [n \in Messages |-> IF n \in {m} THEN "pending" ELSE outcome[n]]
  BY DEF Pay, Submit, Done, Become
<1>2. Made(c) = {}
  BY <1>1 DEF DoneOnce
<1>3. \A n \in Messages : n # m /\ client[n] = c => outcome[n] = "new" /\ outcome'[n] = "new"
  BY <1>1, <1>2 DEF Made
<1>4. \A d \in Clients \ {c} : Made(d)' = Made(d)
  BY <1>1 DEF Made
<1>5. outcome' \in [Messages -> Outcomes]
  BY <1>1 DEF DoneOnce, Outcomes
<1>6. send_is_done' \in [Clients -> BOOLEAN]
      /\ \A d \in Clients : ~send_is_done'[d] => d # c /\ ~send_is_done[d]
  BY <1>1, Zenon DEF DoneOnce
<1>7. \A d \in Clients : ~send_is_done'[d] => Made(d)' = {}
  BY <1>4, <1>6 DEF DoneOnce
<1>8. \A k, n \in Messages :
        client'[k] = client'[n] /\ outcome'[k] # "new" /\ outcome'[n] # "new" => k = n
  BY <1>1, <1>3 DEF DoneOnce
<1> QED BY <1>5, <1>6, <1>7, <1>8 DEF DoneOnce

(* DoneOnce is inductive. *)
LEMMA DoneStep == DoneOnce /\ [SendNext]_screenVars => DoneOnce'
<1> SUFFICES ASSUME DoneOnce, [SendNext]_screenVars
             PROVE  DoneOnce'
  OBVIOUS
<1>1. CASE UNCHANGED <<requestVars, send_is_done>>
  BY <1>1, NoPayment DEF requestVars, DoneOnce
<1>2. CASE Open
  BY <1>1, <1>2, Zenon DEF Open, Create
<1>3. ASSUME NEW c \in Clients, Recreate(c) \/ Leave(c) \/ CancelDialog(c) PROVE DoneOnce'
  BY <1>1, <1>3, Zenon DEF Recreate, Create, Leave, CancelDialog
<1>4. ASSUME NEW c \in Clients, NEW m \in Messages, Pay(c, m) PROVE DoneOnce'
  BY <1>4, PayStep
<1>5. ASSUME NEW m \in Messages, Paid(m) PROVE DoneOnce'
  <2>1. /\ m \in Pending /\ UNCHANGED <<client, send_is_done>>
        /\ outcome' = [n \in Messages |-> IF n \in {m} THEN "answered" ELSE outcome[n]]
    BY <1>5, Zenon DEF Paid, Answer, Become
  <2> QED BY <2>1, NoPayment DEF Pending, DoneOnce, Outcomes
<1>6. ASSUME NEW m \in Messages, Failed(m) PROVE DoneOnce'
  <2>1. /\ m \in Pending /\ UNCHANGED <<client, send_is_done>>
        /\ outcome' = [n \in Messages |-> IF n = m THEN "answered"
                                          ELSE IF n \in Pending THEN "flushed" ELSE outcome[n]]
    BY <1>6, Zenon DEF Failed, Current
  <2> QED BY <2>1, NoPayment DEF Pending, DoneOnce, Outcomes
<1>7. CASE Refresh \/ BalanceAnswered
  BY <1>1, <1>7, Zenon DEF Refresh, BalanceAnswered, refreshKeeps
<1>8. CASE RefreshFails
  <2>1. PICK S \in {Pending, {m \in Pending : ~Current(m)}} :
          outcome' = [n \in Messages |-> IF n \in S THEN "flushed" ELSE outcome[n]]
    BY <1>8, Zenon DEF RefreshFails, Become
  <2>2. S \subseteq Pending
    BY <2>1
  <2>3. UNCHANGED <<client, send_is_done>>
    BY <1>8, Zenon DEF RefreshFails, refreshKeeps
  <2> QED BY <2>1, <2>2, <2>3, NoPayment DEF Pending, DoneOnce, Outcomes
<1> QED BY <1>1, <1>2, <1>3, <1>4, <1>5, <1>6, <1>7, <1>8, Zenon DEF SendNext, screenVars

(* No two payments of one screen means at most one.                        *)
LEMMA OneAtMost == DoneOnce => PaysOnce
<1> SUFFICES ASSUME DoneOnce, NEW c \in Clients PROVE Cardinality(Made(c)) <= 1
  BY DEF PaysOnce, Made
<1>1. CASE Made(c) = {}
  BY <1>1, FS_EmptySet
<1>2. CASE Made(c) # {}
  <2>1. PICK m \in Made(c) : TRUE
    BY <1>2
  <2>2. Made(c) = {m}
    BY <2>1 DEF Made, DoneOnce
  <2> QED BY <2>2, FS_Singleton
<1> QED BY <1>1, <1>2

(* However often its button is touched while the answer is awaited, and    *)
(* its dialog cancelled afterwards, a screen of SendActivity pays once.    *)
THEOREM ScreenPaysOnce == SendSpec => []PaysOnce
BY DoneInitially, DoneStep, OneAtMost, PTL DEF SendSpec

-----------------------------------------------------------------------------
(* The balance, and the screen on top.                                     *)

(* Screens are opened one after the other; the last one is the only one    *)
(* that can be on top, and one that has not been opened has not paid.      *)
ScreensInOrder ==
  /\ opened \in Nat
  /\ screen \in [Clients -> {"new", "open", "destroyed"}]
  /\ client \in [Messages -> Clients]
  /\ \A c \in Clients : screen[c] = "open" => c = opened
  /\ \A c \in Clients : c > opened => screen[c] = "new"
  /\ \A m \in Messages : outcome[m] # "new" =>
       screen[client[m]] # "new" /\ send_is_done[client[m]]

(* As long as no screen was created while a payment was pending, and no    *)
(* answer lowered the balance behind one, the payment under way is of the  *)
(* last screen, and that screen has compared its cost with no more than    *)
(* the balance still is.                                                   *)
LastCovered ==
  /\ balance \in Int /\ balance >= 0
  /\ eth_balance \in [Clients -> Int]
  /\ \A m \in Pending : client[m] = opened /\ Cost <= balance
  /\ opened \in Clients /\ screen[opened] = "open" /\ ~send_is_done[opened] =>
       eth_balance[opened] <= balance

ScreensInv == DoneOnce /\ ScreensInOrder /\ (outdated \/ LastCovered)

(* Screens are numbered in the order they are opened, from 1. *)
LEMMA ClientsAreNumbers == \A c \in Clients : c \in Int /\ c > 0
<1>1. \A c \in 1..Cardinality(Clients) : c \in Int /\ c > 0
  OBVIOUS
<1> QED BY <1>1, SendScreensAssumption

(* Before a screen is opened nothing is paid, and the balance is what the  *)
(* preferences hold.                                                       *)
LEMMA ScreensInitially == SendInit => ScreensInv
<1> SUFFICES ASSUME SendInit PROVE ScreensInv
  OBVIOUS
<1>1. DoneOnce
  BY DoneInitially
<1>2. ScreensInOrder
  BY ClientsAreNumbers DEF SendInit, RequestsInit, ScreensInOrder
<1>3. opened = 0 /\ balance = StartBalance /\ eth_balance = [c \in Clients |-> 0]
  BY Zenon DEF SendInit
<1>4. opened \notin Clients
  BY <1>3, ClientsAreNumbers
<1>5. Pending = {}
  BY DEF SendInit, RequestsInit, Pending
<1>6. eth_balance \in [Clients -> Int] /\ balance \in Int /\ balance >= 0
  BY <1>3, SendScreensAssumption
<1>7. LastCovered
  BY <1>4, <1>5, <1>6 DEF LastCovered
<1> QED BY <1>1, <1>2, <1>7 DEF ScreensInv

(* The next screen reads the balance, and nothing is pending when it does, *)
(* unless the history flag is set.                                         *)
LEMMA CreateKeeps ==
  ASSUME ScreensInv, NEW S \in SUBSET Clients, Create(S),
         \A c \in Clients : screen[c] = "open" <=> c \in S
  PROVE  ScreensInOrder' /\ (outdated' \/ LastCovered')
<1> USE DEF ScreensInv
<1> DEFINE new == opened + 1
<1>1. /\ new \in Clients /\ opened' = new /\ opened \in Nat
      /\ screen' = [c \in Clients |-> IF c = new THEN "open"
                                      ELSE IF c \in S THEN "destroyed" ELSE screen[c]]
      /\ eth_balance' = [eth_balance EXCEPT ![new] = balance]
      /\ outdated' = (outdated \/ Pending # {})
      /\ UNCHANGED <<client, outcome, send_is_done, balance>>
  BY DEF Create, ScreensInOrder, requestVars
<1>2. screen[new] = "new"
  BY <1>1 DEF ScreensInOrder
<1>3. \A c \in Clients : screen'[c] = "open" => c = new
  BY <1>1
<1>4. \A c \in Clients : c > new => screen'[c] = "new"
  <2> SUFFICES ASSUME NEW c \in Clients, c > new PROVE screen'[c] = "new"
    OBVIOUS
  <2>1. c > opened /\ c # new
    BY <1>1, ClientsAreNumbers
  <2>2. screen[c] = "new" /\ c \notin S
    BY <2>1 DEF ScreensInOrder
  <2> QED BY <1>1, <2>1, <2>2
<1>5. \A m \in Messages : outcome'[m] # "new" =>
        screen'[client'[m]] # "new" /\ send_is_done'[client'[m]]
  <2> SUFFICES ASSUME NEW m \in Messages, outcome[m] # "new"
               PROVE  screen'[client[m]] # "new" /\ send_is_done[client[m]]
    BY <1>1
  <2>1. client[m] \in Clients /\ screen[client[m]] # "new" /\ send_is_done[client[m]]
    BY DEF ScreensInOrder
  <2> QED BY <1>1, <2>1
<1>6. ScreensInOrder'
  <2>1. /\ opened' \in Nat /\ screen' \in [Clients -> {"new", "open", "destroyed"}]
        /\ client' \in [Messages -> Clients]
    BY <1>1 DEF ScreensInOrder
  <2> QED BY <1>1, <1>3, <1>4, <1>5, <2>1 DEF ScreensInOrder
<1>7. ASSUME ~outdated' PROVE LastCovered'
  <2>1. ~outdated /\ Pending = {} /\ Pending' = {}
    BY <1>1, <1>7, Zenon DEF Pending
  <2>2. eth_balance' \in [Clients -> Int] /\ eth_balance'[new] = balance
    BY <1>1, <2>1 DEF LastCovered
  <2>3. balance' \in Int /\ balance' >= 0
    BY <1>1, <2>1 DEF LastCovered
  <2> QED BY <1>1, <2>1, <2>2, <2>3 DEF LastCovered
<1> QED BY <1>6, <1>7

(* A screen that goes off the top stays the last one that was opened.      *)
LEMMA OtherStepKeeps ==
  ASSUME ScreensInv, NEW c \in Clients, Leave(c) \/ CancelDialog(c)
  PROVE  ScreensInOrder' /\ (outdated' \/ LastCovered')
<1> USE DEF ScreensInv
<1>1. UNCHANGED <<client, outcome, opened, eth_balance, send_is_done, balance, outdated>>
  BY DEF Leave, CancelDialog, requestVars
<1>2. LastCovered => LastCovered'
  <2>1. opened \in Clients /\ screen'[opened] = "open" => screen[opened] = "open"
    BY DEF Leave, CancelDialog, ScreensInOrder
  <2> QED BY <1>1, <2>1 DEF LastCovered, Pending
<1>3. CASE screen' = screen
  BY <1>1, <1>2, <1>3 DEF ScreensInOrder
<1>4. CASE screen[c] = "open" /\ screen' = [screen EXCEPT ![c] = "destroyed"]
  <2>1. \A d \in Clients : d > opened => d # c
    BY <1>4 DEF ScreensInOrder
  <2>2. ScreensInOrder'
    BY <1>1, <1>4, <2>1 DEF ScreensInOrder
  <2> QED BY <1>1, <1>2, <2>2
<1> QED BY <1>3, <1>4 DEF Leave, CancelDialog

(* do_pay compares the cost with the balance its screen has read.          *)
LEMMA PayKeeps ==
  ASSUME ScreensInv, NEW c \in Clients, NEW m \in Messages, Pay(c, m)
  PROVE  ScreensInOrder' /\ (outdated' \/ LastCovered')
<1> USE DEF ScreensInv
<1>1. /\ ~send_is_done[c] /\ client[m] = c /\ screen[c] = "open" /\ Cost <= eth_balance[c]
      /\ send_is_done' = [send_is_done EXCEPT ![c] = TRUE]
      /\ outcome' = [n \in Messages |-> IF n \in {m} THEN "pending" ELSE outcome[n]]
      /\ UNCHANGED <<client, opened, screen, eth_balance, balance, outdated>>
  BY DEF Pay, Submit, Done, Become, Sufficient
<1>2. c = opened /\ c \in Clients
  BY <1>1 DEF ScreensInOrder
<1>3. send_is_done' \in [Clients -> BOOLEAN] /\ send_is_done'[c]
      /\ \A d \in Clients : send_is_done[d] => send_is_done'[d]
  BY <1>1, Zenon DEF DoneOnce
<1>4. \A n \in Messages : outcome'[n] # "new" => screen[client[n]] # "new" /\ send_is_done'[client[n]]
  <2> SUFFICES ASSUME NEW n \in Messages, outcome'[n] # "new"
               PROVE  screen[client[n]] # "new" /\ send_is_done'[client[n]]
    OBVIOUS
  <2>1. CASE n = m
    BY <1>1, <1>3, <2>1
  <2>2. CASE n # m
    <3>1. outcome[n] # "new" /\ client[n] \in Clients
      BY <1>1, <2>2 DEF ScreensInOrder
    <3>2. screen[client[n]] # "new" /\ send_is_done[client[n]]
      BY <3>1 DEF ScreensInOrder
    <3> QED BY <1>3, <3>1, <3>2
  <2> QED BY <2>1, <2>2
<1>5. ScreensInOrder'
  BY <1>1, <1>4 DEF ScreensInOrder
<1>6. ASSUME LastCovered PROVE LastCovered'
  <2>1. Cost <= balance
    <3>1. eth_balance[c] <= balance /\ eth_balance[c] \in Int /\ balance \in Int
      BY <1>1, <1>2, <1>6 DEF LastCovered
    <3> QED BY <1>1, <3>1, SendScreensAssumption
  <2>2. \A n \in Pending' : client[n] = c /\ Cost <= balance
    <3>1. \A n \in Pending' : n = m \/ n \in Pending
      BY <1>1 DEF Pending
    <3> QED BY <1>1, <1>2, <1>6, <2>1, <3>1 DEF LastCovered
  <2> QED BY <1>1, <1>2, <1>3, <1>6, <2>2 DEF LastCovered
<1> QED BY <1>1, <1>5, <1>6

(* An answer leaves nothing pending, and a payment that was made is one    *)
(* whose cost the balance covered.                                         *)
LEMMA AnswerKeeps ==
  ASSUME ScreensInv, NEW m \in Messages, Paid(m) \/ Failed(m)
  PROVE  ScreensInOrder' /\ (outdated' \/ LastCovered')
<1> USE DEF ScreensInv
<1>1. /\ m \in Pending
      /\ \A n \in Messages : outcome'[n] # "new" <=> outcome[n] # "new"
      /\ \A n \in Messages \ {m} : n \in Pending' => n \in Pending
      /\ m \notin Pending'
      /\ UNCHANGED <<client, opened, screen, eth_balance, send_is_done, outdated>>
  <2>1. CASE Paid(m)
    <3>1. /\ m \in Pending
          /\ outcome' = [n \in Messages |-> IF n \in {m} THEN "answered" ELSE outcome[n]]
          /\ UNCHANGED <<client, opened, screen, eth_balance, send_is_done, outdated>>
      BY <2>1, Zenon DEF Paid, Answer, Become
    <3> QED BY <3>1 DEF Pending
  <2>2. CASE Failed(m)
    <3>1. /\ m \in Pending
          /\ outcome' = [n \in Messages |-> IF n = m THEN "answered"
                                            ELSE IF n \in Pending THEN "flushed" ELSE outcome[n]]
          /\ UNCHANGED <<client, opened, screen, eth_balance, send_is_done, outdated>>
      BY <2>2, Zenon DEF Failed, Current
    <3> QED BY <3>1 DEF Pending
  <2> QED BY <2>1, <2>2
<1>2. ScreensInOrder'
  BY <1>1 DEF ScreensInOrder
<1>3. ASSUME LastCovered PROVE LastCovered'
  <2>1. balance' = balance \/ balance' = balance - Cost
    BY Zenon DEF Paid, Failed
  <2>2. client[m] = opened /\ Cost <= balance /\ Cost \in Nat
    BY <1>1, <1>3, SendScreensAssumption DEF LastCovered
  <2>3. balance' \in Int /\ balance' >= 0
    BY <1>3, <2>1, <2>2 DEF LastCovered
  <2>4. Pending' = {}
    <3> SUFFICES ASSUME NEW n \in Pending' PROVE FALSE
      OBVIOUS
    <3>1. n \in Messages /\ n # m
      BY <1>1 DEF Pending
    <3>2. n \in Pending /\ client[n] = opened
      BY <1>1, <1>3, <3>1 DEF LastCovered
    <3> QED BY <1>1, <2>2, <3>1, <3>2 DEF DoneOnce, Pending
  <2>5. send_is_done[opened]
    BY <1>1, <2>2 DEF ScreensInOrder, Pending
  <2> QED BY <1>1, <1>3, <2>3, <2>4, <2>5 DEF LastCovered
<1> QED BY <1>1, <1>2, <1>3

(* An answer to MainActivity lowers the balance of nobody, or the history  *)
(* flag is set, and one that fails flushes payments.                       *)
LEMMA RefreshKeeps ==
  ASSUME ScreensInv, Refresh \/ BalanceAnswered \/ RefreshFails
  PROVE  ScreensInOrder' /\ (outdated' \/ LastCovered')
<1> USE DEF ScreensInv
<1>1. UNCHANGED <<client, opened, screen, eth_balance, send_is_done>>
  BY Zenon DEF Refresh, BalanceAnswered, RefreshFails, refreshKeeps, requestVars
<1>2. /\ \A n \in Messages : outcome'[n] # "new" <=> outcome[n] # "new"
      /\ Pending' \subseteq Pending
  <2>1. CASE outcome' = outcome
    BY <2>1 DEF Pending
  <2>2. CASE RefreshFails
    <3>1. PICK S \in {Pending, {m \in Pending : ~Current(m)}} :
            outcome' = [n \in Messages |-> IF n \in S THEN "flushed" ELSE outcome[n]]
      BY <2>2, Zenon DEF RefreshFails, Become
    <3>2. S \subseteq Pending
      BY <3>1
    <3> QED BY <3>1, <3>2 DEF Pending
  <2> QED BY <2>1, <2>2, Zenon DEF Refresh, BalanceAnswered, requestVars
<1>3. ScreensInOrder'
  BY <1>1, <1>2 DEF ScreensInOrder
<1>4. ASSUME ~outdated' PROVE LastCovered'
  <2>1. CASE balance' = balance /\ outdated' = outdated
    BY <1>1, <1>2, <1>4, <2>1 DEF LastCovered
  <2>2. CASE BalanceAnswered
    <3>1. /\ balance' \in {balance} \cup Balances /\ ~outdated
          /\ ~(balance' < balance /\ (Pending # {} \/ OnTop # {}))
      BY <1>4, <2>2, Zenon DEF BalanceAnswered
    <3>2. LastCovered /\ balance \in Int /\ balance >= 0 /\ balance' \in Int /\ balance' >= 0
      <4>1. LastCovered
        BY <3>1
      <4>2. balance \in Int /\ balance >= 0
        BY <4>1 DEF LastCovered
      <4>3. balance' = balance \/ balance' \in Balances
        BY <3>1
      <4>4. balance' = balance \/ balance' \in Nat
        BY <4>3, SendScreensAssumption, Zenon
      <4> QED BY <4>1, <4>2, <4>4
    <3>3. Pending # {} \/ OnTop # {} => balance <= balance'
      BY <3>1, <3>2
    <3>4. \A m \in Pending' : client'[m] = opened' /\ Cost <= balance'
      <4> SUFFICES ASSUME NEW m \in Pending' PROVE client[m] = opened /\ Cost <= balance'
        BY <1>1
      <4>1. m \in Pending
        BY <1>2
      <4> QED BY <3>2, <3>3, <4>1, SendScreensAssumption DEF LastCovered
    <3>5. ASSUME opened \in Clients, screen[opened] = "open", ~send_is_done[opened]
          PROVE  eth_balance[opened] <= balance'
      <4>1. OnTop # {}
        BY <3>5 DEF OnTop
      <4>2. eth_balance[opened] <= balance /\ eth_balance[opened] \in Int
        BY <3>2, <3>5 DEF LastCovered
      <4> QED BY <3>2, <3>3, <4>1, <4>2
    <3>6. eth_balance' \in [Clients -> Int]
      BY <1>1, <3>2 DEF LastCovered
    <3> QED BY <1>1, <3>2, <3>4, <3>5, <3>6 DEF LastCovered
  <2> QED BY <2>1, <2>2, Zenon DEF Refresh, RefreshFails
<1> QED BY <1>3, <1>4

(* Every step of the screens.                                              *)
LEMMA ScreensStep == ScreensInv /\ [SendNext]_screenVars => ScreensInv'
<1> SUFFICES ASSUME ScreensInv, [SendNext]_screenVars
             PROVE  ScreensInOrder' /\ (outdated' \/ LastCovered')
  BY DoneStep DEF ScreensInv
<1>1. CASE UNCHANGED screenVars
  BY <1>1 DEF screenVars, requestVars, ScreensInv, ScreensInOrder, LastCovered, Pending
<1>2. CASE Open
  <2>1. Create({}) /\ \A c \in Clients : screen[c] = "open" <=> c \in {}
    BY <1>2 DEF Open, OnTop
  <2> QED BY <2>1, CreateKeeps
<1>3. ASSUME NEW c \in Clients, Recreate(c) PROVE ScreensInOrder' /\ (outdated' \/ LastCovered')
  <2>1. \A d \in Clients : screen[d] = "open" <=> d \in {c}
    BY <1>3 DEF Recreate, ScreensInv, ScreensInOrder
  <2> QED BY <1>3, <2>1, CreateKeeps DEF Recreate
<1>4. ASSUME NEW c \in Clients, Leave(c) \/ CancelDialog(c)
      PROVE  ScreensInOrder' /\ (outdated' \/ LastCovered')
  BY <1>4, OtherStepKeeps
<1>5. ASSUME NEW c \in Clients, NEW m \in Messages, Pay(c, m)
      PROVE  ScreensInOrder' /\ (outdated' \/ LastCovered')
  BY <1>5, PayKeeps
<1>6. ASSUME NEW m \in Messages, Paid(m) \/ Failed(m)
      PROVE  ScreensInOrder' /\ (outdated' \/ LastCovered')
  BY <1>6, AnswerKeeps
<1>7. CASE Refresh \/ BalanceAnswered \/ RefreshFails
  BY <1>7, RefreshKeeps
<1> QED BY <1>1, <1>2, <1>3, <1>4, <1>5, <1>6, <1>7, Zenon DEF SendNext

(* At most one payment is pending, and the balance covers it.              *)
LEMMA CoveredMeans == ScreensInv => CoveredUnlessOutdated
<1> SUFFICES ASSUME ScreensInv, LastCovered PROVE Promised <= balance
  BY DEF ScreensInv, CoveredUnlessOutdated, FundsCovered
<1> USE SendScreensAssumption
<1>1. CASE Pending = {}
  <2>1. Cardinality(Pending) = 0
    BY <1>1, FS_EmptySet
  <2> QED BY <2>1 DEF Promised, LastCovered
<1>2. CASE Pending # {}
  <2>1. PICK m \in Pending : TRUE
    BY <1>2
  <2>2. \A n \in Pending : n = m
    BY <2>1 DEF LastCovered, ScreensInv, DoneOnce, Pending
  <2>3. Pending = {m}
    BY <2>1, <2>2
  <2>4. Cardinality(Pending) = 1
    BY <2>3, FS_Singleton
  <2> QED BY <2>1, <2>4 DEF Promised, LastCovered
<1> QED BY <1>1, <1>2

(* "ensure sufficient funds" (SendActivity.java:352) is about a balance    *)
(* read in onCreate: what it promises holds for any number of screens and  *)
(* payments, as long as no screen is created while a payment is pending    *)
(* and no answer lowers the balance behind a screen that has read it.      *)
THEOREM PaymentsAreCovered == SendSpec => []CoveredUnlessOutdated
BY ScreensInitially, ScreensStep, CoveredMeans, PTL DEF SendSpec

-----------------------------------------------------------------------------
(* Amounts.                                                                *)

(* Numeral lists the digits from 0 to 9. *)
LEMMA DigitsListed ==
  ASSUME NEW d \in Digits \cup {"0"}
  PROVE  DigitOf(d) \in Nat /\ (d = "0" => DigitOf(d) = 0)
<1> DEFINE I == {i \in 1..Len(Numeral) : Numeral[i] = d}
           p == SelectInSeq(Numeral, LAMBDA w : w = d)
<1>1. Len(Numeral) = 10 /\ Numeral[1] = "0"
  BY DEF Numeral
<1>2. I \in SUBSET Nat /\ I # {}
  <2>1. \E i \in 1..10 : Numeral[i] = d
    BY <1>1, PaymentFormAssumption
  <2> QED BY <1>1, <2>1
<1>3. p = IF I # {} THEN CHOOSE x \in I : \A y \in I : x <= y ELSE 0
  BY DEF SelectInSeq, Min
<1>4. I \subseteq 1..10 /\ (d = "0" => 1 \in I)
  BY <1>1
<1> HIDE DEF I
<1>5. \E x \in I : \A y \in I : x <= y
  BY <1>2, Least
<1>6. p \in I /\ \A y \in I : p <= y
  BY <1>2, <1>3, <1>5
<1>7. DigitOf(d) = p - 1
  BY DEF DigitOf
<1> HIDE DEF p
<1> QED BY <1>4, <1>6, <1>7

(* The amount of a text of one digit is that digit. *)
LEMMA OneDigit ==
  ASSUME NEW d \in Digits \cup {"0"}
  PROVE  EtherOf(<<d>>) = Ether * DigitOf(d)
<1> DEFINE D == DOMAIN <<d>>
           Choice(s) == CHOOSE y \in s : \A z \in s : y >= z
           n == DigitOf(d)
           Is(iter) == iter = [s \in SUBSET D |->
             IF s = {} THEN 0
             ELSE LET x == Choice(s)
                  IN 10 * iter[s \ {x}] + DigitOf(<<d>>[x])]
           fold == CHOOSE iter : Is(iter)
<1>1. EtherOf(<<d>>) = Ether * fold[D]
  BY DEF EtherOf, FoldLeft, MapThenFoldSet, Max
<1>2. D = {1} /\ Choice({1}) = 1 /\ {1} \ {1} = {} /\ {1} # {}
  <2>1. D = {1}
    OBVIOUS
  <2>2. Choice({1}) = 1
    OBVIOUS
  <2> QED BY <2>1, <2>2
<1>3. n \in Nat
  BY DigitsListed
<1>4. <<d>>[1] = d
  OBVIOUS
<1>5. DigitOf(<<d>>[1]) = n
  BY <1>4
<1> HIDE DEF D, Choice, n
<1>6. Is([s \in SUBSET D |-> IF s = {} THEN 0 ELSE n])
  <2> DEFINE g == [s \in SUBSET D |-> IF s = {} THEN 0 ELSE n]
  <2>1. \A s \in SUBSET D : s = {} \/ s = {1}
    BY <1>2
  <2>2. g[{}] = 0
    OBVIOUS
  <2>3. 10 * g[{1} \ {Choice({1})}] + DigitOf(<<d>>[Choice({1})]) = n
    <3>1. {1} \ {Choice({1})} = {}
      BY <1>2
    <3>2. DigitOf(<<d>>[Choice({1})]) = n
      BY <1>2, <1>5
    <3>3. 10 * 0 + n = n
      BY <1>3
    <3> HIDE DEF g
    <3> QED BY <2>2, <3>1, <3>2, <3>3
  <2> HIDE DEF g
  <2>4. \A s \in SUBSET D :
          (IF s = {} THEN 0 ELSE n)
            = IF s = {} THEN 0
              ELSE LET x == Choice(s)
                   IN 10 * g[s \ {x}] + DigitOf(<<d>>[x])
    BY <1>2, <2>1, <2>3
  <2> QED BY <2>4, Zenon DEF g
<1>7. Is(fold)
  <2> HIDE DEF Is
  <2> QED BY <1>6
<1>8. fold[D] = n
  <2> HIDE DEF fold
  <2>1. {} \in SUBSET D /\ D \in SUBSET D
    OBVIOUS
  <2>2. fold[{}] = 0
    BY <1>7, <2>1
  <2>3. fold[D] = 10 * fold[D \ {Choice(D)}] + DigitOf(<<d>>[Choice(D)])
    BY <1>2, <1>7, <2>1
  <2>4. fold[D] = 10 * 0 + n
    BY <1>2, <1>5, <2>2, <2>3
  <2> QED BY <1>3, <2>4
<1> QED BY <1>1, <1>8 DEF n

(* A number of ETH is a number of Finneys, and nothing is none. *)
LEMMA EtherIsRound ==
  ASSUME NEW d \in Digits \cup {"0"}
  PROVE  /\ EtherOf(<<d>>) \in Nat /\ Round(EtherOf(<<d>>)) = EtherOf(<<d>>)
         /\ d = "0" => EtherOf(<<d>>) = 0
<1>1. PICK k \in Nat : k = DigitOf(d) /\ (d = "0" => k = 0)
  BY DigitsListed
<1>2. EtherOf(<<d>>) = 10000 * k
  BY <1>1, OneDigit DEF Ether, Finney
<1>3. Round(10000 * k) = 10000 * k
  BY DEF Round, Finney
<1> QED BY <1>1, <1>2, <1>3

(* Writing an amount twice changes it no further. *)
LEMMA RoundTwice ==
  ASSUME NEW a \in Nat
  PROVE  Round(a) \in Nat /\ Round(Round(a)) = Round(a)
<1> DEFINE k == (a + 5) \div 10
<1>1. k \in Nat
  OBVIOUS
<1>2. Round(a) = k * 10
  BY DEF Round, Finney
<1> HIDE DEF k
<1>3. (k * 10 + 5) \div 10 = k
  BY <1>1
<1>4. Round(k * 10) = k * 10
  BY <1>3 DEF Round, Finney
<1> QED BY <1>1, <1>2, <1>4

-----------------------------------------------------------------------------
(* From the code to the payment.                                           *)

(* What has been read from the code. *)
CodeRead ==
  /\ code \in Codes
  /\ stage # "scan" => to_addr = ScannedTo(code) /\ size = ScannedSize(code)

(* The screen that is shown has an address of 42 characters, and shows an  *)
(* amount in its own denomination: the one taken over or entered, as it is *)
(* or to the nearest Finney.                                               *)
AmountShown ==
  /\ to_addr \in {Address, Bare, OwnAddress}
  /\ size \notin {<<>>, NotANumber}
  /\ text.den = denomination
  /\ text.amount \in {taken, Round(taken)}
  /\ ~edited => taken = EtherOf(size)

FormInv ==
  /\ FormTypeOK
  /\ CodeRead
  /\ stage \in {"send", "paid"} => AmountShown
  /\ stage = "paid" => paid = text.amount /\ paid # 0 /\ to_addr \notin {Bare, OwnAddress}

(* Before a code is scanned nothing has been read. *)
LEMMA FormStarts == FormInit => FormInv
<1> SUFFICES ASSUME FormInit PROVE FormInv
  OBVIOUS
<1>1. CodeRead
  BY DEF FormInit, CodeRead
<1>2. text \in [kind : {"number", "comma", "empty"}, amount : Nat, den : Denominations]
  BY DEF FormInit, Denominations
<1>3. FormTypeOK
  BY <1>2 DEF FormInit, FormTypeOK
<1>4. stage = "scan"
  BY DEF FormInit
<1> QED BY <1>1, <1>3, <1>4 DEF FormInv

(* Neither steps nor failed counts for it. *)
LEMMA FormStays ==
  ASSUME FormInv,
         UNCHANGED <<code, stage, to_addr, size, denomination, text, taken, edited, paid>>
  PROVE  FormInv'
<1>1. FormTypeOK'
  BY Zenon DEF FormInv, FormTypeOK
<1>2. CodeRead'
  BY Zenon DEF FormInv, CodeRead
<1>3. stage' \in {"send", "paid"} => AmountShown'
  BY Zenon DEF FormInv, AmountShown
<1> QED BY <1>1, <1>2, <1>3, Zenon DEF FormInv

(* The app ends, and nothing else changes. *)
LEMMA FailKeeps == ASSUME FormInv, Fail, UNCHANGED code PROVE FormInv'
BY FormStays DEF Fail

(* onPreviewFrame reads the address, and of the amount what it reads. *)
LEMMA ScanKeeps == FormInv /\ Scan => FormInv'
<1> SUFFICES ASSUME FormInv, Scan PROVE FormInv'
  OBVIOUS
<1>1. code \in Codes /\ UNCHANGED code
  BY DEF FormInv, CodeRead, Scan
<1>2. CASE Fail
  BY <1>1, <1>2, FailKeeps
<1>3. CASE ~Fail
  <2>1. /\ stage' = "create" /\ to_addr' = ScannedTo(code) /\ size' = ScannedSize(code)
        /\ UNCHANGED <<denomination, text, taken, edited, paid>>
    BY <1>3 DEF Scan
  <2>2. to_addr' \in Recipients \cup {"the whole code"}
    BY <1>1, <2>1 DEF ScannedTo, Codes
  <2>3. size' \in {<<>>, NotANumber} \cup {<<d>> : d \in Digits \cup {"0"}}
    <3>1. \A v \in ScannedAmounts : Tail(v) \in {<<>>} \cup {<<d>> : d \in Digits}
      <4>1. \A d \in Digits : Tail(<<d>>) = <<>>
        OBVIOUS
      <4>2. \A d, e \in Digits : Tail(<<d, e>>) = <<e>>
        OBVIOUS
      <4> SUFFICES ASSUME NEW v \in ScannedAmounts
                   PROVE  Tail(v) \in {<<>>} \cup {<<d>> : d \in Digits}
        OBVIOUS
      <4>3. (\E d \in Digits : v = <<d>>) \/ (\E d, e \in Digits : v = <<d, e>>)
        <5>1. CASE v \in {<<d>> : d \in Digits}
          BY <5>1
        <5>2. CASE v \in {<<d, e>> : d, e \in Digits}
          BY <5>2
        <5> QED BY <5>1, <5>2 DEF ScannedAmounts
      <4>4. CASE \E d \in Digits : v = <<d>>
        BY <4>1, <4>4
      <4>5. CASE \E d, e \in Digits : v = <<d, e>>
        BY <4>2, <4>5
      <4> QED BY <4>3, <4>4, <4>5
    <3>2. code.value \in ScannedAmounts \cup {<<>>} /\ code.priced \in BOOLEAN
      BY <1>1 DEF Codes
    <3>3. CASE ~code.priced
      BY <2>1, <3>3 DEF ScannedSize
    <3>4. CASE code.priced /\ code.value # <<>>
      <4>1. size' = Tail(code.value) /\ code.value \in ScannedAmounts
        BY <2>1, <3>2, <3>4 DEF ScannedSize
      <4> QED BY <3>1, <4>1
    <3>5. CASE code.priced /\ code.value = <<>>
      BY <2>1, <3>5 DEF ScannedSize
    <3> QED BY <3>2, <3>3, <3>4, <3>5
  <2>4. CodeRead'
    BY <1>1, <2>1 DEF CodeRead
  <2>5. FormTypeOK'
    BY <2>1, <2>2, <2>3 DEF FormInv, FormTypeOK
  <2> QED BY <2>1, <2>4, <2>5 DEF FormInv
<1> QED BY <1>2, <1>3

(* What is written on the screen is a number of Finneys. *)
LEMMA WrittenTyped ==
  ASSUME NEW a \in Nat, NEW den \in Denominations
  PROVE  /\ Written(a, den) \in [kind : {"number", "comma", "empty"}, amount : Nat, den : Denominations]
         /\ Written(a, den).den = den /\ Written(a, den).amount = Round(a)
<1>1. Round(a) \in Nat
  BY RoundTwice
<1> QED BY <1>1 DEF Written

(* onCreate writes the amount it has read. *)
LEMMA OnCreateKeeps == FormInv /\ OnCreate => FormInv'
<1> SUFFICES ASSUME FormInv, OnCreate PROVE FormInv'
  OBVIOUS
<1>1. FormTypeOK /\ CodeRead /\ stage = "create" /\ UNCHANGED code
  BY DEF FormInv, OnCreate
<1>2. CASE Fail
  BY <1>1, <1>2, FailKeeps
<1>3. CASE ~Fail
  <2>1. /\ size \notin {<<>>, NotANumber}
        /\ taken' = EtherOf(size) /\ text' = Written(taken', denomination)
        /\ stage' = IF to_addr \in {Address, Bare, OwnAddress} THEN "send" ELSE "left"
        /\ UNCHANGED <<to_addr, size, denomination, edited, paid>>
    BY <1>3 DEF OnCreate
  <2>2. PICK d \in Digits \cup {"0"} : size = <<d>>
    BY <1>1, <2>1 DEF FormTypeOK
  <2>3. taken' \in Nat
    BY <2>1, <2>2, EtherIsRound
  <2>4. denomination \in Denominations /\ denomination' = denomination
    BY <1>1, <2>1 DEF FormTypeOK
  <2>5. /\ text' \in [kind : {"number", "comma", "empty"}, amount : Nat, den : Denominations]
        /\ text'.den = denomination' /\ text'.amount = Round(taken')
    BY <2>1, <2>3, <2>4, WrittenTyped
  <2>6. stage' \in {"left", "send"} /\ (stage' = "send" => to_addr' \in {Address, Bare, OwnAddress})
    BY <2>1
  <2>7. FormTypeOK'
    BY <1>1, <2>1, <2>3, <2>5, <2>6 DEF FormTypeOK
  <2>8. CodeRead'
    BY <1>1, <2>1 DEF CodeRead
  <2>9. stage' = "send" => AmountShown'
    BY <2>1, <2>5, <2>6 DEF AmountShown
  <2> QED BY <2>6, <2>7, <2>8, <2>9 DEF FormInv
<1> QED BY <1>2, <1>3

(* What is entered is taken. *)
LEMMA EditKeeps == ASSUME FormInv, NEW t \in EnteredTexts, Edit(t) PROVE FormInv'
<1>1. FormTypeOK /\ CodeRead /\ AmountShown
  BY DEF FormInv, Edit
<1>2. /\ stage = "send" /\ text' = t /\ taken' = t.amount /\ edited'
      /\ UNCHANGED <<code, stage, to_addr, size, denomination, paid>>
  BY DEF Edit
<1>3. /\ t \in [kind : {"number", "comma", "empty"}, amount : Nat, den : Denominations]
      /\ t.den = denomination
  <2>1. denomination \in Denominations
    BY <1>1 DEF FormTypeOK
  <2>2. CASE t \in [kind : {"number"}, amount : Edits, den : {denomination}]
    BY <2>1, <2>2, PaymentFormAssumption
  <2>3. CASE t \in [kind : {"empty"}, amount : {0}, den : {denomination}]
    BY <2>1, <2>3
  <2> QED BY <2>2, <2>3 DEF EnteredTexts
<1>4. t.amount \in Nat /\ edited' \in BOOLEAN
  BY <1>3 DEF Edit
<1>5. FormTypeOK'
  BY <1>1, <1>2, <1>3, <1>4 DEF FormTypeOK
<1>6. CodeRead' /\ AmountShown'
  BY <1>1, <1>2, <1>3 DEF CodeRead, AmountShown
<1> QED BY <1>2, <1>5, <1>6 DEF FormInv

(* The amount is read as it was written. *)
LEMMA OwnDenomination ==
  ASSUME FormTypeOK, AmountShown
  PROVE  ReadAs(denomination) = text.amount /\ text.amount \in Nat
<1>1. text.den = denomination
  BY DEF AmountShown
<1>2. text \in [kind : {"number", "comma", "empty"}, amount : Nat, den : Denominations]
  BY Zenon DEF FormTypeOK
<1>3. text.amount \in Nat
  BY <1>2
<1>4. ReadAs(denomination) = text.amount
  BY <1>1 DEF ReadAs
<1> QED BY <1>3, <1>4

(* onItemSelected reads the text in the denomination it was written in. *)
LEMMA ItemSelectedKeeps ==
  ASSUME FormInv, NEW den \in Denominations, ItemSelected(den) PROVE FormInv'
<1>1. FormTypeOK /\ CodeRead /\ AmountShown
  BY DEF FormInv, ItemSelected
<1>2. stage = "send" /\ UNCHANGED code
  BY DEF ItemSelected
<1>3. CASE Fail
  BY <1>2, <1>3, FailKeeps
<1>4. CASE ~Fail
  <2>1. /\ denomination' = den /\ text' = Written(SwitchSize(den), den)
        /\ UNCHANGED <<stage, to_addr, size, taken, edited, paid>>
    BY <1>4 DEF ItemSelected
  <2>2. SwitchSize(den) = text.amount /\ text.amount \in Nat
    BY <1>1, OwnDenomination DEF SwitchSize
  <2>3. /\ text' \in [kind : {"number", "comma", "empty"}, amount : Nat, den : Denominations]
        /\ text'.den = den /\ text'.amount = Round(text.amount)
    BY <2>1, <2>2, WrittenTyped
  <2>4. text'.amount = Round(taken)
    BY <1>1, <2>2, <2>3, RoundTwice DEF AmountShown, FormTypeOK
  <2>5. FormTypeOK'
    BY <1>1, <1>2, <2>1, <2>3 DEF FormTypeOK
  <2>6. CodeRead' /\ AmountShown'
    BY <1>1, <1>2, <2>1, <2>3, <2>4 DEF CodeRead, AmountShown
  <2> QED BY <1>2, <2>1, <2>5, <2>6 DEF FormInv
<1> QED BY <1>3, <1>4

(* do_pay takes the amount that is shown, and not to the account itself. *)
LEMMA DoPayKeeps == FormInv /\ DoPay => FormInv'
<1> SUFFICES ASSUME FormInv, DoPay PROVE FormInv'
  OBVIOUS
<1>1. FormTypeOK /\ CodeRead /\ AmountShown
  BY DEF FormInv, DoPay
<1>2. stage = "send" /\ UNCHANGED code
  BY DEF DoPay
<1>3. CASE Fail
  BY <1>2, <1>3, FailKeeps
<1>4. CASE ~Fail
  <2>1. /\ Payable /\ paid' = PaySize /\ stage' = "paid"
        /\ UNCHANGED <<to_addr, size, denomination, text, taken, edited>>
    BY <1>4 DEF DoPay
  <2>2. PaySize = text.amount /\ text.amount \in Nat
    BY <1>1, OwnDenomination DEF PaySize
  <2>3. to_addr \notin {Bare, OwnAddress} /\ PaySize # 0
    BY <2>1 DEF Payable
  <2>4. FormTypeOK'
    BY <1>1, <1>2, <2>1, <2>2 DEF FormTypeOK
  <2>5. CodeRead' /\ AmountShown'
    BY <1>1, <1>2, <2>1 DEF CodeRead, AmountShown
  <2> QED BY <1>2, <2>1, <2>2, <2>3, <2>4, <2>5 DEF FormInv
<1> QED BY <1>3, <1>4

(* Every step of the form. *)
LEMMA FormStep == FormInv /\ [FormNext]_formVars => FormInv'
<1> SUFFICES ASSUME FormInv, [FormNext]_formVars PROVE FormInv'
  OBVIOUS
<1>1. CASE UNCHANGED formVars
  BY <1>1, FormStays DEF formVars
<1> QED BY <1>1, ScanKeeps, OnCreateKeeps, EditKeeps, ItemSelectedKeeps, DoPayKeeps DEF FormNext

(* What holds of the form in every state. *)
LEMMA FormAlways == FormSpec => []FormInv
BY FormStarts, FormStep, PTL DEF FormSpec

(* The screen keeps the amount, however often the denomination is switched *)
(* by the user and by the framework, whatever was scanned and entered, and *)
(* in any locale.                                                          *)
THEOREM FormKeepsAmount == FormSpec => []AmountKept
<1>1. FormInv => AmountKept
  <2> SUFFICES ASSUME FormInv, stage = "send"
               PROVE  text.den = denomination /\ Round(text.amount) = Round(taken)
    BY DEF AmountKept
  <2>1. taken \in Nat /\ text.den = denomination /\ text.amount \in {taken, Round(taken)}
    BY DEF FormInv, FormTypeOK, AmountShown
  <2> QED BY <2>1, RoundTwice
<1> QED BY <1>1, FormAlways, PTL

(* What is paid is the amount entered last, as it is or to the nearest     *)
(* Finney.  When none was entered, it is the amount of the code without    *)
(* its first digit (ScanActivity.java:258).  It goes to the address of the *)
(* code, which is a good one and not the account's own.                    *)
THEOREM FormPaysAsEntered == FormSpec => []PaidAsEntered
<1>1. FormInv => PaidAsEntered
  <2> SUFFICES ASSUME FormInv, stage = "paid"
               PROVE  /\ edited => paid \in {taken, Round(taken)}
                      /\ ~edited => paid = EtherOf(Tail(code.value))
                      /\ to_addr = code.to /\ code.to = Address
    BY DEF PaidAsEntered
  <2>1. /\ FormTypeOK /\ CodeRead /\ AmountShown
        /\ paid = text.amount /\ paid # 0 /\ to_addr \notin {Bare, OwnAddress}
    BY DEF FormInv
  <2>2. paid \in {taken, Round(taken)} /\ to_addr = Address
    BY <2>1 DEF AmountShown
  <2>3. code \in Codes /\ to_addr = ScannedTo(code) /\ size = ScannedSize(code)
    BY <2>1 DEF CodeRead
  <2>4. to_addr = code.to
    BY <2>2, <2>3, PaymentFormAssumption DEF ScannedTo
  <2>5. ASSUME ~edited PROVE paid = EtherOf(Tail(code.value))
    <3>1. PICK d \in Digits \cup {"0"} : size = <<d>>
      BY <2>1 DEF FormTypeOK, AmountShown
    <3>2. taken = EtherOf(size) /\ paid = EtherOf(size)
      BY <2>1, <2>2, <2>5, <3>1, EtherIsRound DEF AmountShown
    <3>3. CASE ~code.priced
      <4>1. size = <<"0">>
        BY <2>3, <3>3 DEF ScannedSize
      <4>2. EtherOf(size) = 0
        BY <4>1, EtherIsRound
      <4> QED BY <2>1, <3>2, <4>2
    <3>4. CASE code.priced /\ code.value # <<>>
      BY <2>3, <3>2, <3>4 DEF ScannedSize
    <3>5. CASE code.priced /\ code.value = <<>>
      BY <2>1, <2>3, <3>5 DEF ScannedSize, AmountShown
    <3> QED BY <3>3, <3>4, <3>5
  <2> QED BY <2>2, <2>4, <2>5
<1> QED BY <1>1, FormAlways, PTL

-----------------------------------------------------------------------------
(* The types of the screens.                                               *)

(* Screens are new until they are opened, and what they have read and show *)
(* is typed.                                                               *)
ScreensTyped ==
  /\ opened \in {0} \cup Clients
  /\ \A c \in Clients : screen[c] = "new" <=> c > opened
  /\ eth_balance \in [Clients -> Int]
  /\ dialog \in [Clients -> BOOLEAN]
  /\ balance \in Int
  /\ refreshing \in BOOLEAN

(* Before a screen is opened nothing is shown. *)
LEMMA TypedInitially == SendInit => ScreensTyped
<1> SUFFICES ASSUME SendInit PROVE ScreensTyped
  OBVIOUS
<1>1. \A c \in Clients : c > 0
  BY ClientsAreNumbers
<1>2. balance \in Int
  <2>1. balance = StartBalance
    BY DEF SendInit
  <2> QED BY <2>1, SendScreensAssumption
<1>3. /\ opened = 0 /\ screen = [c \in Clients |-> "new"]
      /\ eth_balance = [c \in Clients |-> 0] /\ dialog = [c \in Clients |-> FALSE]
      /\ refreshing = FALSE
  BY DEF SendInit
<1>4. dialog \in [Clients -> BOOLEAN]
  BY <1>3, Zenon
<1>5. refreshing \in BOOLEAN
  BY <1>3
<1>6. eth_balance \in [Clients -> Int] /\ opened \in {0} \cup Clients
  BY <1>3
<1>7. \A c \in Clients : screen[c] = "new" <=> c > opened
  BY <1>1, <1>3
<1> QED BY <1>2, <1>4, <1>5, <1>6, <1>7 DEF ScreensTyped

(* The screen that is created is the next one. *)
LEMMA CreateTyped ==
  ASSUME ScreensInv, ScreensTyped, NEW S \in SUBSET Clients, Create(S),
         \A c \in S : screen[c] = "open", dialog' \in [Clients -> BOOLEAN]
  PROVE  ScreensTyped'
<1>1. /\ opened + 1 \in Clients /\ opened' = opened + 1
      /\ screen' = [c \in Clients |-> IF c = opened + 1 THEN "open"
                                      ELSE IF c \in S THEN "destroyed" ELSE screen[c]]
      /\ eth_balance' = [eth_balance EXCEPT ![opened + 1] = balance]
      /\ UNCHANGED <<balance, refreshing>>
  BY DEF Create
<1>2. opened \in Nat /\ \A c \in Clients : c \in Int
  BY ClientsAreNumbers DEF ScreensInv, ScreensInOrder
<1>3. \A c \in Clients : screen'[c] = "new" <=> c > opened'
  BY <1>1, <1>2 DEF ScreensTyped
<1>4. eth_balance' \in [Clients -> Int]
  BY <1>1 DEF ScreensTyped
<1> QED BY <1>1, <1>3, <1>4 DEF ScreensTyped

(* An answer shows a dialog, or the app ends. *)
LEMMA AnswerTyped ==
  ASSUME ScreensTyped, NEW m \in Messages, Paid(m) \/ Failed(m)
  PROVE  ScreensTyped'
<1>1. /\ UNCHANGED <<opened, screen, eth_balance>>
      /\ balance' = balance \/ balance' = balance - Cost
      /\ \E thread \in {"ui", "run"} : PaymentResult(m, thread)
  BY DEF Paid, Failed
<1>2. balance' \in Int
  BY <1>1, SendScreensAssumption DEF ScreensTyped
<1>3. dialog' = dialog \/ dialog' = [dialog EXCEPT ![client[m]] = TRUE]
  BY <1>1 DEF PaymentResult
<1>4. dialog' \in [Clients -> BOOLEAN]
  BY <1>3, Zenon DEF ScreensTyped
<1>5. refreshing' \in BOOLEAN
  BY Zenon DEF Paid, Failed, ScreensTyped
<1> QED BY <1>1, <1>2, <1>4, <1>5 DEF ScreensTyped

(* Every step of the screens. *)
LEMMA TypedStep == ScreensInv /\ ScreensTyped /\ [SendNext]_screenVars => ScreensTyped'
<1> SUFFICES ASSUME ScreensInv, ScreensTyped, [SendNext]_screenVars PROVE ScreensTyped'
  OBVIOUS
<1>1. CASE UNCHANGED screenVars
  BY <1>1 DEF screenVars, ScreensTyped
<1>2. CASE Open
  <2>1. Create({}) /\ dialog' = dialog
    BY <1>2 DEF Open
  <2> QED BY <2>1, CreateTyped DEF ScreensTyped
<1>3. ASSUME NEW c \in Clients, Recreate(c) PROVE ScreensTyped'
  <2>1. Create({c}) /\ screen[c] = "open" /\ dialog' = [dialog EXCEPT ![c] = FALSE]
    BY <1>3 DEF Recreate
  <2>2. dialog' \in [Clients -> BOOLEAN]
    BY <2>1, Zenon DEF ScreensTyped
  <2> QED BY <2>1, <2>2, CreateTyped
<1>4. ASSUME NEW c \in Clients, Leave(c) PROVE ScreensTyped'
  <2>1. /\ screen[c] = "open" /\ screen' = [screen EXCEPT ![c] = "destroyed"]
        /\ dialog' = [dialog EXCEPT ![c] = FALSE]
        /\ UNCHANGED <<opened, eth_balance, balance, refreshing>>
    BY <1>4 DEF Leave
  <2>2. dialog' \in [Clients -> BOOLEAN]
    BY <2>1, Zenon DEF ScreensTyped
  <2>3. \A d \in Clients : screen'[d] = "new" <=> screen[d] = "new"
    BY <2>1 DEF ScreensInv, ScreensInOrder
  <2> QED BY <2>1, <2>2, <2>3 DEF ScreensTyped
<1>5. ASSUME NEW c \in Clients, CancelDialog(c) PROVE ScreensTyped'
  <2>1. /\ dialog' = [dialog EXCEPT ![c] = FALSE]
        /\ UNCHANGED <<opened, screen, eth_balance, balance, refreshing>>
    BY <1>5 DEF CancelDialog
  <2>2. dialog' \in [Clients -> BOOLEAN]
    BY <2>1, Zenon DEF ScreensTyped
  <2> QED BY <2>1, <2>2 DEF ScreensTyped
<1>6. ASSUME NEW c \in Clients, NEW m \in Messages, Pay(c, m) PROVE ScreensTyped'
  BY <1>6 DEF Pay, ScreensTyped
<1>7. ASSUME NEW m \in Messages, Paid(m) \/ Failed(m) PROVE ScreensTyped'
  BY <1>7, AnswerTyped
<1>8. CASE Refresh \/ BalanceAnswered \/ RefreshFails
  <2>1. UNCHANGED <<opened, screen, eth_balance, dialog>> /\ refreshing' \in BOOLEAN
    BY <1>8, Zenon DEF Refresh, BalanceAnswered, RefreshFails, refreshKeeps
  <2>2. balance' \in Int
    <3>1. balance' = balance \/ balance' \in {balance} \cup Balances
      BY <1>8, Zenon DEF Refresh, BalanceAnswered, RefreshFails
    <3>2. balance' = balance \/ balance' \in Balances
      BY <3>1
    <3>3. balance' = balance \/ balance' \in Nat
      BY <3>2, SendScreensAssumption, Zenon
    <3>4. balance \in Int
      BY Zenon DEF ScreensTyped
    <3> QED BY <3>3, <3>4
  <2> QED BY <2>1, <2>2 DEF ScreensTyped
<1> QED BY <1>1, <1>2, <1>3, <1>4, <1>5, <1>6, <1>7, <1>8 DEF SendNext

(* Only the last screen can be on top.                                     *)
LEMMA OneOnTop == ScreensInv /\ ScreensTyped => SendTypeOK
<1> SUFFICES ASSUME ScreensInv, ScreensTyped PROVE SendTypeOK
  OBVIOUS
<1>1. Cardinality(OnTop) <= 1
  <2>1. OnTop \subseteq {opened}
    BY DEF ScreensInv, ScreensInOrder, OnTop
  <2>2. Cardinality(OnTop) \in Nat /\ Cardinality(OnTop) <= Cardinality({opened})
    <3>1. IsFiniteSet({opened})
      BY FS_Singleton
    <3> QED BY <2>1, <3>1, FS_Subset, FS_CardinalityType
  <2>3. Cardinality({opened}) = 1
    BY FS_Singleton
  <2> QED BY <2>2, <2>3
<1> QED BY <1>1 DEF ScreensInv, ScreensInOrder, ScreensTyped, DoneOnce, SendTypeOK

(* What holds of the screens in every state. *)
LEMMA ScreensAlways == SendSpec => [](ScreensInv /\ ScreensTyped)
BY ScreensInitially, ScreensStep, TypedInitially, TypedStep, PTL DEF SendSpec

-----------------------------------------------------------------------------
(* The activity as a whole.                                                *)

(* The screens, the form and the parser share no variable: each step of    *)
(* one is a step of its specification, and the others rest.                *)
THEOREM ActivityIsItsParts == Spec => SendSpec /\ FormSpec /\ JsonSpec
<1>1. Init => SendInit /\ FormInit /\ JsonInit
  BY DEF Init, ScreensAtRest, FormAtRest, AnswerAtRest
<1>2. [Next]_allVars => [SendNext]_screenVars /\ [FormNext]_formVars /\ [JsonNext]_jsonVars
  <2> SUFFICES ASSUME [Next]_allVars
               PROVE  [SendNext]_screenVars /\ [FormNext]_formVars /\ [JsonNext]_jsonVars
    OBVIOUS
  <2>1. CASE Screens
    BY <2>1, Zenon DEF Screens
  <2>2. CASE Form
    BY <2>2, Zenon DEF Form
  <2>3. CASE Reading
    BY <2>3, Zenon DEF Reading
  <2>4. CASE UNCHANGED allVars
    BY <2>4, Zenon DEF allVars
  <2> QED BY <2>1, <2>2, <2>3, <2>4, Zenon DEF Next
<1> QED BY <1>1, <1>2, PTL DEF Spec, SendSpec, FormSpec, JsonSpec

(* The types of all three parts: one screen is on top at a time, the       *)
(* recipient is an address and no other part of the code, and json_parse   *)
(* stays within its text.                                                  *)
THEOREM ActivityTyping == Spec => []ActivityTypeOK
<1>1. FormInv => FormTypeOK
  BY DEF FormInv
<1> QED BY <1>1, ActivityIsItsParts, ScreensAlways, OneOnTop, FormAlways, JsonTyping, PTL
        DEF ActivityTypeOK

(* What is proved of the parts holds of the activity.                      *)
THEOREM ActivityIsSafe ==
  Spec => [](PaysOnce /\ CoveredUnlessOutdated /\ AmountKept /\ PaidAsEntered /\ ReadsField)
BY ActivityIsItsParts, ScreenPaysOnce, PaymentsAreCovered, FormKeepsAmount, FormPaysAsEntered,
   FieldRead, PTL
=============================================================================
