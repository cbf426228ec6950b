----------------------- MODULE TransactionHistoryProofs -----------------------
(***************************************************************************)
(* Proofs about TransactionHistory, for pages and histories of any size    *)
(* and any number of visits to the activity.                               *)
(***************************************************************************)
EXTENDS TransactionHistory, FiniteSetTheorems, TLAPS

Results == [status : {"ok", "error", "unreachable"}, page : SUBSET Transactions]

(* A page has a number of transactions. *)
LEMMA ProcessedNat == ASSUME NEW page \in SUBSET Transactions PROVE Processed(page) \in Nat
<1>1. IsFiniteSet(Transactions)
  BY FS_Interval, HistoryAssumption DEF Transactions
<1>2. IsFiniteSet(page)
  BY <1>1, FS_Subset
<1> QED BY <1>2, FS_CardinalityType DEF Processed

(* The service sends transactions of the account. *)
LEMMA PageOfTransactions ==
  ASSUME HistoryTypeOK, NEW offset \in Nat
  PROVE  Page(offset) \in SUBSET Transactions
BY HistoryAssumption DEF HistoryTypeOK, Page, Transactions

(* A list of pages still to be handled, without its first. *)
LEMMA HeadAndTail ==
  ASSUME NEW S, NEW s \in Seq(S), s # <<>>
  PROVE  Head(s) \in S /\ Tail(s) \in Seq(S) /\ Len(Tail(s)) = Len(s) - 1 /\ Len(s) \in Nat
OBVIOUS

(* A list of pages still to be handled, with one more. *)
LEMMA Appended ==
  ASSUME NEW S, NEW s \in Seq(S), NEW e \in S
  PROVE  Append(s, e) \in Seq(S) /\ Len(Append(s, e)) = Len(s) + 1 /\ Len(s) \in Nat
OBVIOUS

(* Every step of the activity, the queries and the service keeps the types. *)
LEMMA HistoryTypeStep == HistoryTypeOK /\ [HistoryNext]_historyVars => HistoryTypeOK'
<1> SUFFICES ASSUME HistoryTypeOK, [HistoryNext]_historyVars
             PROVE  HistoryTypeOK'
  OBVIOUS
<1> USE HistoryAssumption
<1>1. tasks \in Seq(Nat) /\ results \in Seq(Results) /\ total \in Nat /\ Len(tasks) \in Nat
      /\ Len(results) \in Nat
  BY DEF HistoryTypeOK, Results
<1>2. Empty \in [Transactions -> Nat]
  BY DEF Empty
<1>3. CASE OnResume
  <2>1. tasks' \in Seq(Nat) /\ Len(tasks') = Len(tasks) + 1
    BY <1>1, <1>3, Appended DEF OnResume
  <2>2. overlapped' \in BOOLEAN
    BY <1>3, Zenon DEF OnResume
  <2>3. /\ total' = 0 /\ transaction_list' = Empty /\ resumed_at' = recorded
        /\ shown' = FALSE /\ failed' = FALSE
        /\ UNCHANGED <<recorded, results, crashed>>
    BY <1>3 DEF OnResume
  <2>4. resumes' = resumes + 1 /\ resumes' \in 0..MaxResumes
    BY <1>3 DEF OnResume, HistoryTypeOK
  <2>5. shown' \in BOOLEAN /\ crashed' \in BOOLEAN /\ failed' \in BOOLEAN
    BY <2>3, Zenon DEF HistoryTypeOK
  <2>6. Len(tasks') + Len(results') <= resumes'
    BY <1>1, <2>1, <2>3, <2>4 DEF HistoryTypeOK
  <2> QED BY <1>1, <1>2, <2>1, <2>2, <2>3, <2>4, <2>5, <2>6 DEF HistoryTypeOK, Results
<1>4. CASE HandlePage
  <2> DEFINE page == Head(results).page
  <2>1. page \in SUBSET Transactions
    <3>1. results # <<>>
      BY <1>4 DEF HandlePage, Handle
    <3>2. Head(results) \in Results
      BY <1>1, <3>1, HeadAndTail
    <3> QED BY <3>2 DEF Results
  <2>2. Processed(page) \in Nat
    BY <2>1, ProcessedNat
  <2>3. Added(page) \in [Transactions -> Nat]
    BY DEF Added, HistoryTypeOK
  <2>4. /\ total' \in Nat /\ transaction_list' \in [Transactions -> Nat]
        /\ shown' \in BOOLEAN
    <3>1. transaction_list' = Added(page) /\ total' = total + Processed(page)
      BY <1>4 DEF HandlePage
    <3>2. shown' \in {shown, TRUE}
      BY <1>4 DEF HandlePage
    <3>3. shown \in BOOLEAN
      BY DEF HistoryTypeOK
    <3>4. shown' \in BOOLEAN
      BY <3>2, <3>3, Zenon
    <3> HIDE DEF page
    <3> QED BY <1>1, <2>2, <2>3, <3>1, <3>4
  <2>5. results' \in Seq(Results) /\ Len(results') = Len(results) - 1
    BY <1>1, <1>4, HeadAndTail DEF HandlePage, Handle
  <2>6. tasks' \in Seq(Nat) /\ Len(tasks') \in {Len(tasks), Len(tasks) + 1}
    <3>1. tasks' = Append(tasks, total') \/ tasks' = tasks
      BY <1>4 DEF HandlePage
    <3>2. Append(tasks, total') \in Seq(Nat) /\ Len(Append(tasks, total')) = Len(tasks) + 1
      BY <1>1, <2>4, Appended
    <3> HIDE DEF page
    <3> QED BY <1>1, <3>1, <3>2
  <2>7. UNCHANGED <<recorded, resumes, resumed_at, overlapped, crashed, failed>>
    BY <1>4 DEF HandlePage, Handle
  <2> HIDE DEF page
  <2> QED BY <1>1, <2>4, <2>5, <2>6, <2>7 DEF HistoryTypeOK, Results
<1>5. CASE HandleServiceError
  <2>1. results' \in Seq(Results) /\ Len(results') = Len(results) - 1
    BY <1>1, <1>5, HeadAndTail DEF HandleServiceError, Handle
  <2> QED BY <1>1, <1>5, <2>1 DEF HandleServiceError, Handle, HistoryTypeOK, Results
<1>6. CASE HandleUnreachable
  <2>1. /\ tasks' = <<>> /\ results' = <<>> /\ crashed' = TRUE /\ failed' = TRUE
        /\ UNCHANGED <<recorded, transaction_list, total, shown, resumes, resumed_at,
                       overlapped>>
    BY <1>6 DEF HandleUnreachable, Handle
  <2> QED BY <1>1, <2>1 DEF HistoryTypeOK
<1>7. CASE Query
  <2>1. Head(tasks) \in Nat /\ tasks' \in Seq(Nat) /\ Len(tasks') = Len(tasks) - 1
    BY <1>1, <1>7, HeadAndTail DEF Query
  <2>2. PICK answer \in {Answer("ok", Page(Head(tasks))), Answer("error", {}),
                         Answer("unreachable", {})} : results' = Append(results, answer)
    BY <1>7 DEF Query
  <2>3. answer \in Results
    BY <2>1, PageOfTransactions DEF Answer, Results
  <2>4. results' \in Seq(Results) /\ Len(results') = Len(results) + 1
    BY <1>1, <2>2, <2>3, Appended
  <2>5. UNCHANGED <<recorded, transaction_list, total, shown, crashed, resumes,
                    resumed_at, overlapped, failed>>
    BY <1>7 DEF Query
  <2> QED BY <1>1, <2>1, <2>4, <2>5 DEF HistoryTypeOK, Results
<1>8. CASE Record
  BY <1>8 DEF Record, HistoryTypeOK
<1>9. CASE UNCHANGED historyVars
  BY <1>9 DEF historyVars, HistoryTypeOK
<1> QED BY <1>3, <1>4, <1>5, <1>6, <1>7, <1>8, <1>9 DEF HistoryNext, Paging

(* The empty list of an activity that was not resumed yet. *)
LEMMA HistoryTypeInitially == HistoryInit => HistoryTypeOK
<1> SUFFICES ASSUME HistoryInit PROVE HistoryTypeOK
  OBVIOUS
<1>1. transaction_list \in [Transactions -> Nat]
  BY DEF HistoryInit, Empty
<1>2. /\ recorded \in 0..MaxTransactions /\ tasks = <<>> /\ results = <<>> /\ total = 0
      /\ resumes = 0 /\ resumed_at = 0
      /\ shown = FALSE /\ crashed = FALSE /\ overlapped = FALSE /\ failed = FALSE
  BY DEF HistoryInit
<1>3. shown \in BOOLEAN /\ crashed \in BOOLEAN /\ overlapped \in BOOLEAN /\ failed \in BOOLEAN
  BY <1>2, Zenon
<1>4. tasks \in Seq(Nat) /\ results \in Seq(Results) /\ Len(tasks) = 0 /\ Len(results) = 0
  BY <1>2
<1> QED BY <1>1, <1>2, <1>3, <1>4, HistoryAssumption DEF HistoryTypeOK, Results

(* The fields of HistoryActivity keep their types, and each onResume has   *)
(* at most one page under way: the pages of two visits never multiply.     *)
THEOREM HistoryTypeCorrect == HistorySpec => []HistoryTypeOK
BY HistoryTypeInitially, HistoryTypeStep, PTL DEF HistorySpec

-----------------------------------------------------------------------------
(* What is listed.                                                         *)

(* The page at an offset when r transactions were recorded. *)
PageAt(offset, r) == {t \in 1..r : t + offset <= r /\ t + offset + PageSize > r}

(* What is still to be listed, of what was recorded when the activity was  *)
(* resumed, is among the r - total oldest.                                 *)
ListedDownTo(r) ==
  \A t \in Wanted : t <= resumed_at /\ t + total > r => transaction_list[t] > 0

(* ... and none of them is, if nothing was recorded since the activity was *)
(* resumed.                                                                *)
NotListedBelow ==
  recorded = resumed_at =>
    \A t \in Transactions : transaction_list[t] # 0 => t + total > recorded

NothingComes == tasks = <<>> /\ results = <<>>

PageIsQueried ==
  /\ tasks = <<total>> /\ results = <<>>
  /\ ListedDownTo(recorded)
  /\ NotListedBelow

(* The page that has come is that of some moment since the activity was    *)
(* resumed.                                                                *)
PageHasCome ==
  /\ tasks = <<>>
  /\ \E a \in Results :
       /\ results = <<a>>
       /\ a.status = "ok" =>
            /\ \E r \in resumed_at..recorded : a.page = PageAt(total, r) /\ ListedDownTo(r)
            /\ NotListedBelow

(* When no pages of an earlier visit were to come, one page is under way   *)
(* at a time, at the offset of what has been processed.                    *)
OnePage ==
  /\ NothingComes \/ PageIsQueried \/ PageHasCome
  /\ Complete
  /\ ListedOnce

ListInv ==
  /\ HistoryTypeOK
  /\ resumed_at <= recorded
  /\ overlapped \/ OnePage

(* How long a page is: it is full unless it reaches the oldest transaction. *)
LEMMA PageLength ==
  ASSUME NEW r \in 0..MaxTransactions, NEW offset \in Nat
  PROVE  /\ Processed(PageAt(offset, r)) \in Nat
         /\ Processed(PageAt(offset, r)) <= PageSize
         /\ \A t \in 1..r : t + offset + PageSize <= r => Processed(PageAt(offset, r)) = PageSize
<1> USE HistoryAssumption
<1> DEFINE low == r - offset - PageSize + 1
           high == r - offset
<1>1. low \in Int /\ high \in Int /\ high - low + 1 = PageSize /\ low <= high /\ PageSize \in Nat
  OBVIOUS
<1>2. IsFiniteSet(low..high) /\ Cardinality(low..high) = PageSize
  BY <1>1, FS_Interval
<1>3. PageAt(offset, r) \subseteq low..high
  BY DEF PageAt
<1>4. Processed(PageAt(offset, r)) \in Nat /\ Processed(PageAt(offset, r)) <= PageSize
  BY <1>2, <1>3, FS_Subset, FS_CardinalityType DEF Processed
<1>5. ASSUME NEW t \in 1..r, t + offset + PageSize <= r
      PROVE  PageAt(offset, r) = low..high
  BY <1>5 DEF PageAt
<1> QED BY <1>2, <1>4, <1>5 DEF Processed

(* Before the activity is first resumed nothing is asked for.              *)
LEMMA ListInitially == HistoryInit => ListInv
<1> SUFFICES ASSUME HistoryInit PROVE ListInv
  OBVIOUS
<1>1. HistoryTypeOK
  BY HistoryTypeInitially
<1>2. /\ recorded \in Nat /\ resumed_at = 0 /\ tasks = <<>> /\ results = <<>> /\ shown = FALSE
      /\ transaction_list = Empty
  BY HistoryAssumption DEF HistoryInit
<1>3. Complete /\ ListedOnce
  BY <1>2 DEF Complete, ListedOnce, Empty
<1> QED BY <1>1, <1>2, <1>3 DEF ListInv, OnePage, NothingComes

(* onResume starts from an empty list, and knows of no other page when     *)
(* nothing was to come.                                                    *)
LEMMA ResumeLists ==
  ASSUME ListInv, OnResume
  PROVE  resumed_at' <= recorded' /\ (overlapped' \/ OnePage')
<1>1. /\ recorded' = recorded /\ resumed_at' = recorded /\ total' = 0 /\ shown' = FALSE
      /\ transaction_list' = Empty /\ tasks' = Append(tasks, 0) /\ results' = results
      /\ overlapped' = (tasks # <<>> \/ results # <<>>)
  BY DEF OnResume
<1>2. recorded \in Nat
  BY HistoryAssumption DEF ListInv, HistoryTypeOK
<1>3. ASSUME ~overlapped' PROVE OnePage'
  <2>1. tasks = <<>> /\ results = <<>>
    BY <1>1, <1>3, Zenon
  <2>2. tasks' = <<total'>> /\ results' = <<>>
    BY <1>1, <2>1
  <2>3. \A t \in Transactions : transaction_list'[t] = 0 /\ t \in Nat
    BY <1>1 DEF Empty, Transactions
  <2>4. \A t \in Wanted : t \in Nat
    BY HistoryAssumption DEF Transactions
  <2>5. ListedDownTo(recorded)' /\ NotListedBelow'
    BY <1>1, <1>2, <2>3, <2>4 DEF ListedDownTo, NotListedBelow
  <2>6. Complete' /\ ListedOnce'
    BY <1>1, <2>3 DEF Complete, ListedOnce
  <2> QED BY <2>2, <2>5, <2>6 DEF OnePage, PageIsQueried
<1> QED BY <1>1, <1>2, <1>3

(* The page that is asked for is that of the moment it is asked for.       *)
LEMMA QueryLists ==
  ASSUME ListInv, Query
  PROVE  resumed_at' <= recorded' /\ (overlapped' \/ OnePage')
<1>1. UNCHANGED <<recorded, transaction_list, total, shown, crashed, resumes,
                  resumed_at, overlapped, failed>>
  BY DEF Query
<1>2. ASSUME ~overlapped PROVE OnePage'
  <2>1. PageIsQueried
    BY <1>2 DEF Query, ListInv, OnePage, NothingComes, PageHasCome
  <2>2. tasks = <<total>> /\ tasks' = <<>>
    BY <2>1 DEF PageIsQueried, Query
  <2>3. PICK answer \in {Answer("ok", Page(total)), Answer("error", {}),
                         Answer("unreachable", {})} : results' = <<answer>>
    BY <2>1 DEF PageIsQueried, Query
  <2>4. total \in Nat /\ recorded \in Nat /\ resumed_at \in Nat /\ resumed_at <= recorded
    BY HistoryAssumption DEF ListInv, HistoryTypeOK
  <2>5. Page(total) = PageAt(total, recorded)
    BY DEF Page, PageAt
  <2>6. answer \in Results
    BY <2>3, <2>4, PageOfTransactions DEF Answer, Results, ListInv
  <2>7. answer.status = "ok" => answer.page = PageAt(total, recorded)
    BY <2>3, <2>5 DEF Answer
  <2>8. ListedDownTo(recorded)' /\ NotListedBelow'
    BY <1>1, <2>1 DEF PageIsQueried, ListedDownTo, NotListedBelow
  <2>9. PageHasCome'
    <3>1. recorded \in resumed_at..recorded
      BY <2>4
    <3>2. PageAt(total, recorded)' = PageAt(total, recorded)
      BY <1>1 DEF PageAt
    <3> QED BY <1>1, <2>2, <2>3, <2>6, <2>7, <2>8, <3>1, <3>2 DEF PageHasCome
  <2>10. Complete' /\ ListedOnce'
    BY <1>1, <1>2 DEF ListInv, OnePage, Complete, ListedOnce
  <2> QED BY <2>9, <2>10 DEF OnePage
<1> QED BY <1>1, <1>2 DEF ListInv

(* A transaction that is recorded moves the pages to older transactions:   *)
(* those that have moved are listed already.                               *)
LEMMA RecordLists ==
  ASSUME ListInv, Record
  PROVE  resumed_at' <= recorded' /\ (overlapped' \/ OnePage')
<1>1. /\ recorded' = recorded + 1
      /\ UNCHANGED <<tasks, results, transaction_list, total, shown, crashed, resumes,
                     resumed_at, overlapped, failed>>
  BY DEF Record
<1>2. total \in Nat /\ recorded \in Nat /\ resumed_at \in Nat /\ resumed_at <= recorded
  BY HistoryAssumption DEF ListInv, HistoryTypeOK
<1>3. ASSUME ~overlapped PROVE OnePage'
  <2>1. recorded' # resumed_at'
    BY <1>1, <1>2
  <2>2. Complete' /\ ListedOnce' /\ NotListedBelow'
    BY <1>1, <1>3, <2>1 DEF ListInv, OnePage, Complete, ListedOnce, NotListedBelow
  <2>3. CASE NothingComes
    BY <1>1, <2>2, <2>3 DEF OnePage, NothingComes
  <2>4. CASE PageIsQueried
    <3>1. \A t \in Wanted : t \in Nat
      BY HistoryAssumption DEF Transactions
    <3>2. ListedDownTo(recorded)'
      BY <1>1, <1>2, <2>4, <3>1 DEF PageIsQueried, ListedDownTo
    <3> QED BY <1>1, <2>2, <2>4, <3>2 DEF OnePage, PageIsQueried
  <2>5. CASE PageHasCome
    <3>1. PICK a \in Results :
            /\ results = <<a>>
            /\ a.status = "ok" =>
                 \E r \in resumed_at..recorded : a.page = PageAt(total, r) /\ ListedDownTo(r)
      BY <2>5 DEF PageHasCome
    <3>2. a.status = "ok" =>
            \E r \in resumed_at'..recorded' : a.page = PageAt(total, r)' /\ ListedDownTo(r)'
      <4> SUFFICES ASSUME NEW r \in resumed_at..recorded,
                          a.page = PageAt(total, r), ListedDownTo(r)
                   PROVE  a.page = PageAt(total, r)' /\ ListedDownTo(r)' /\ r \in resumed_at'..recorded'
        BY <3>1
      <4>1. r \in resumed_at'..recorded'
        BY <1>1, <1>2
      <4>2. a.page = PageAt(total, r)'
        BY <1>1 DEF PageAt
      <4>3. ListedDownTo(r)'
        BY <1>1 DEF ListedDownTo
      <4> QED BY <4>1, <4>2, <4>3
    <3> QED BY <1>1, <2>2, <2>5, <3>1, <3>2 DEF OnePage, PageHasCome
  <2> QED BY <1>3, <2>3, <2>4, <2>5 DEF ListInv, OnePage
<1> QED BY <1>1, <1>2, <1>3 DEF ListInv

(* A page that failed ends the visit.                                      *)
LEMMA FailureLists ==
  ASSUME ListInv, HandleServiceError \/ HandleUnreachable
  PROVE  resumed_at' <= recorded' /\ (overlapped' \/ OnePage')
<1>1. /\ UNCHANGED <<recorded, resumed_at, overlapped, transaction_list>>
      /\ failed' = TRUE /\ results # <<>>
      /\ \/ results' = <<>> /\ tasks' = <<>>
         \/ results' = Tail(results) /\ tasks' = tasks
  BY DEF HandleServiceError, HandleUnreachable, Handle
<1>2. ASSUME ~overlapped PROVE OnePage'
  <2>1. PageHasCome
    BY <1>1, <1>2 DEF ListInv, OnePage, NothingComes, PageIsQueried
  <2>2. NothingComes'
    BY <1>1, <2>1 DEF NothingComes, PageHasCome
  <2>3. Complete' /\ ListedOnce'
    BY <1>1, <1>2 DEF ListInv, OnePage, Complete, ListedOnce
  <2> QED BY <2>2, <2>3 DEF OnePage
<1> QED BY <1>1, <1>2 DEF ListInv

(* A page is added to the list, and followed by the next one if it is full. *)
LEMMA PageLists ==
  ASSUME ListInv, HandlePage
  PROVE  resumed_at' <= recorded' /\ (overlapped' \/ OnePage')
<1> USE HistoryAssumption
<1> DEFINE page == Head(results).page
<1>1. /\ UNCHANGED <<recorded, resumed_at, overlapped, failed>>
      /\ results # <<>> /\ Head(results).status = "ok"
      /\ transaction_list' = Added(page) /\ total' = total + Processed(page)
      /\ results' = Tail(results)
      /\ \/ IsFull(page) /\ tasks' = Append(tasks, total') /\ shown' = shown
         \/ ~IsFull(page) /\ shown' = TRUE /\ tasks' = tasks
  BY DEF HandlePage, Handle
<1>2. /\ total \in Nat /\ recorded \in 0..MaxTransactions /\ resumed_at \in Nat
      /\ resumed_at <= recorded /\ transaction_list \in [Transactions -> Nat]
  BY DEF ListInv, HistoryTypeOK
<1>3. ASSUME ~overlapped PROVE OnePage'
  <2>1. PageHasCome
    BY <1>1, <1>3 DEF ListInv, OnePage, NothingComes, PageIsQueried
  <2>2. /\ tasks = <<>> /\ results' = <<>> /\ NotListedBelow
        /\ \E r \in resumed_at..recorded : page = PageAt(total, r) /\ ListedDownTo(r)
    BY <1>1, <2>1 DEF PageHasCome
  <2>3. PICK r \in resumed_at..recorded : page = PageAt(total, r) /\ ListedDownTo(r)
    BY <2>2
  <2>4. r \in 0..MaxTransactions
    BY <1>2
  <2>5. /\ Processed(page) \in Nat /\ Processed(page) <= PageSize
        /\ \A t \in 1..r : t + total + PageSize <= r => Processed(page) = PageSize
    BY <1>2, <2>3, <2>4, PageLength
  <2>6. \A t \in Transactions :
          t \in page <=> t + total <= r /\ t + total + PageSize > r
    BY <1>2, <2>3, <2>4, SMTT(30) DEF PageAt, Transactions
  <2>7. \A t \in Transactions :
          transaction_list'[t] = transaction_list[t] + IF t \in page \cap Wanted THEN 1 ELSE 0
    BY <1>1 DEF Added
  <2>8. /\ \A t \in Transactions : transaction_list[t] \in Nat /\ t \in Nat /\ t >= 1
        /\ \A t \in Wanted : t \in Transactions
    BY <1>2 DEF Transactions
  <2> HIDE DEF page
  <2>9. \A t \in Wanted : transaction_list[t] > 0 => transaction_list'[t] > 0
    BY <2>7, <2>8
  <2>10. ListedOnce'
    <3> SUFFICES ASSUME recorded = resumed_at, NEW t \in Transactions
                 PROVE  transaction_list'[t] <= 1
      BY <1>1 DEF ListedOnce
    <3>1. r = recorded
      BY <1>2
    <3>2. transaction_list[t] <= 1
      BY <1>3 DEF ListInv, OnePage, ListedOnce
    <3>3. transaction_list[t] # 0 => t + total > r
      BY <2>2, <3>1 DEF NotListedBelow
    <3> QED BY <1>2, <2>6, <2>7, <2>8, <3>2, <3>3
  <2>11. CASE IsFull(page)
    <3>1. Processed(page) = PageSize /\ total' = total + PageSize
      BY <1>1, <2>5, <2>11 DEF IsFull
    <3>2. tasks' = <<total'>> /\ shown' = shown
      BY <1>1, <2>2, <2>11
    <3>3. ListedDownTo(recorded)'
      <4> SUFFICES ASSUME NEW t \in Wanted, t <= resumed_at, t + total' > recorded
                   PROVE  transaction_list'[t] > 0
        BY <1>1 DEF ListedDownTo
      <4>1. CASE t + total > r
        BY <2>3, <2>9, <4>1 DEF ListedDownTo
      <4>2. CASE t + total <= r
        <5>1. t \in page
          BY <1>2, <2>6, <2>8, <3>1, <4>2
        <5> QED BY <2>7, <2>8, <5>1
      <4> QED BY <1>2, <2>8, <4>1, <4>2
    <3>4. NotListedBelow'
      <4> SUFFICES ASSUME recorded = resumed_at, NEW t \in Transactions, transaction_list'[t] # 0
                   PROVE  t + total' > recorded
        BY <1>1 DEF NotListedBelow
      <4>1. r = recorded
        BY <1>2
      <4>2. t \in page \/ transaction_list[t] # 0
        BY <2>7, <2>8
      <4>3. transaction_list[t] # 0 => t + total > r
        BY <2>2, <4>1 DEF NotListedBelow
      <4> QED BY <1>2, <2>6, <2>8, <3>1, <4>1, <4>2, <4>3
    <3>5. Complete'
      BY <1>1, <1>3, <2>9, <3>2 DEF ListInv, OnePage, Complete
    <3> QED BY <2>2, <2>10, <3>2, <3>3, <3>4, <3>5 DEF OnePage, PageIsQueried
  <2>12. CASE ~IsFull(page)
    <3>1. \A t \in 1..r : t + total + PageSize > r
      BY <1>2, <2>5, <2>12 DEF IsFull
    <3>2. \A t \in Wanted : t <= resumed_at => transaction_list'[t] > 0
      <4> SUFFICES ASSUME NEW t \in Wanted, t <= resumed_at
                   PROVE  transaction_list'[t] > 0
        OBVIOUS
      <4>1. CASE t + total > r
        BY <2>3, <2>9, <4>1 DEF ListedDownTo
      <4>2. CASE t + total <= r
        <5>1. t \in 1..r
          BY <1>2, <2>8
        <5>2. t \in page
          BY <2>6, <2>8, <3>1, <4>2, <5>1
        <5> QED BY <2>7, <2>8, <5>2
      <4> QED BY <1>2, <2>8, <4>1, <4>2
    <3>3. Complete'
      BY <1>1, <3>2 DEF Complete
    <3>4. NothingComes'
      BY <1>1, <2>2, <2>12 DEF NothingComes
    <3> QED BY <2>10, <3>3, <3>4 DEF OnePage
  <2> QED BY <2>11, <2>12
<1> QED BY <1>1, <1>2, <1>3 DEF ListInv

(* Every step of the activity, the queries and the service.                *)
LEMMA ListStep == ListInv /\ [HistoryNext]_historyVars => ListInv'
<1> SUFFICES ASSUME ListInv, [HistoryNext]_historyVars
             PROVE  resumed_at' <= recorded' /\ (overlapped' \/ OnePage')
  BY HistoryTypeStep DEF ListInv
<1>1. CASE UNCHANGED historyVars
  BY <1>1 DEF historyVars, ListInv, OnePage, NothingComes, PageIsQueried, PageHasCome, PageAt,
              ListedDownTo, NotListedBelow, Complete, ListedOnce
<1> QED BY <1>1, ResumeLists, QueryLists, RecordLists, FailureLists, PageLists
        DEF HistoryNext, Paging

(* When the list is put on the screen and no page failed, it has every     *)
(* payment recorded before the activity was resumed, however long the      *)
(* history is and whatever is recorded while the pages come in, unless     *)
(* pages of an earlier onResume were still to come.                        *)
THEOREM ListIsComplete == HistorySpec => []Complete
<1>1. ListInv => Complete
  BY Zenon DEF ListInv, OnePage, Complete
<1> QED BY <1>1, ListInitially, ListStep, PTL DEF HistorySpec

(* No payment is listed twice, unless pages of an earlier onResume were    *)
(* still to come or a new transaction has moved the pages.                 *)
THEOREM NoPaymentTwice == HistorySpec => []ListedOnce
<1>1. ListInv => ListedOnce
  BY Zenon DEF ListInv, OnePage, ListedOnce
<1> QED BY <1>1, ListInitially, ListStep, PTL DEF HistorySpec
=============================================================================
