------------------------- MODULE TransactionHistory -------------------------
(***************************************************************************)
(* HistoryActivity: the list of the account's payments, read page by page  *)
(* from the history service.                                               *)
(*                                                                         *)
(* The account's transactions are numbered in the order in which they were *)
(* recorded; a page is asked for by its offset from the most recent one.   *)
(* HTTP_Query_Tasks are carried out one after the other in the background  *)
(* (AsyncTask.execute), and their results are handed to the UI thread in   *)
(* that order; onResume starts from the first page again whether or not    *)
(* pages of an earlier onResume are still to come.                         *)
(***************************************************************************)
EXTENDS Naturals, Sequences, FiniteSets

CONSTANTS PageSize,          \* 50: how many transactions the service sends at once
          MaxTransactions,   \* how many the account ever has (bounds the model)
          MaxResumes,        \* how often onResume is called (bounds the model)
          Wanted             \* the transactions the activity lists: those sent, or
                             \* those received

Transactions == 1..MaxTransactions

ASSUME HistoryAssumption ==
  /\ PageSize \in 1..100
  /\ MaxTransactions \in Nat
  /\ MaxResumes \in Nat
  /\ Wanted \subseteq Transactions

VARIABLES
  recorded,           \* number of transactions the service knows
  tasks,              \* offsets of the pages to be queried, in order
  results,            \* what the queries brought, still to be handled
  transaction_list,   \* how often each transaction is in the list
  total,              \* total_transactions_processed
  shown,              \* the list has been put on the screen since the last onResume
  crashed,            \* an exception on the UI thread has ended the app
  resumes,            \* number of onResume calls so far
  \* history, since the last onResume
  resumed_at,         \* what was recorded then
  overlapped,         \* pages of an earlier onResume were still to come then
  failed              \* a page could not be retrieved

historyVars == <<recorded, tasks, results, transaction_list, total, shown, crashed,
                 resumes, resumed_at, overlapped, failed>>

Empty == [t \in Transactions |-> 0]

HistoryInit ==
  /\ recorded \in 0..MaxTransactions
  /\ tasks = <<>>
  /\ results = <<>>
  /\ transaction_list = Empty
  /\ total = 0
  /\ shown = FALSE
  /\ crashed = FALSE
  /\ resumes = 0
  /\ resumed_at = 0
  /\ overlapped = FALSE
  /\ failed = FALSE

-----------------------------------------------------------------------------
(* Mutant: onCreate has asked for the first page already. *)
MutOnResume ==
  /\ ~crashed
  /\ resumes < MaxResumes
  /\ resumes' = resumes + 1
  /\ total' = 0
  /\ transaction_list' = Empty
  /\ tasks' = tasks \o <<0, 0>>
  /\ shown' = FALSE
  /\ resumed_at' = recorded
  /\ overlapped' = (tasks # <<>> \/ results # <<>>)
  /\ failed' = FALSE
  /\ UNCHANGED <<recorded, results, crashed>>

(* onResume: a new list, from offset 0. *)
OnResume ==
  /\ ~crashed
  /\ resumes < MaxResumes
  /\ resumes' = resumes + 1
  /\ total' = 0
  /\ transaction_list' = Empty
  /\ tasks' = Append(tasks, 0)
  /\ shown' = FALSE
  /\ resumed_at' = recorded
  /\ overlapped' = (tasks # <<>> \/ results # <<>>)
  /\ failed' = FALSE
  /\ UNCHANGED <<recorded, results, crashed>>

(* Mutant: transactions that are not listed are not counted either. *)
MutProcessed(page) == Cardinality(page \cap Wanted)

(* "returns number of transactions processed (not number added to list)". *)
Processed(page) == Cardinality(page)

Added(page) ==
  [t \in Transactions |->
     transaction_list[t] + IF t \in page \cap Wanted THEN 1 ELSE 0]

(* Mutant: an empty page is taken for a full one. *)
MutIsFull(page) == Processed(page) >= PageSize \/ page = {}

IsFull(page) == Processed(page) >= PageSize

Handle(status) ==
  /\ results # <<>>
  /\ Head(results).status = status
  /\ UNCHANGED <<recorded, resumes, resumed_at, overlapped>>

(* Mutant: the next page is asked for before this one is counted. *)
MutHandlePage ==
  LET page == Head(results).page IN
  /\ Handle("ok")
  /\ transaction_list' = Added(page)
  /\ total' = total + Processed(page)
  /\ IF IsFull(page)
     THEN tasks' = Append(tasks, total) /\ UNCHANGED shown
     ELSE shown' = TRUE /\ UNCHANGED tasks
  /\ results' = Tail(results)
  /\ UNCHANGED <<crashed, failed>>

(* handle_http_rsp with a page: on to the next one, or show the list. *)
HandlePage ==
  LET page == Head(results).page IN
  /\ Handle("ok")
  /\ transaction_list' = Added(page)
  /\ total' = total + Processed(page)
  /\ IF IsFull(page)
     THEN tasks' = Append(tasks, total') /\ UNCHANGED shown
     ELSE shown' = TRUE /\ UNCHANGED tasks
  /\ results' = Tail(results)
  /\ UNCHANGED <<crashed, failed>>

(* An answer without status 1: the list is shown as it is. *)
HandleServiceError ==
  /\ Handle("error")
  /\ shown' = TRUE
  /\ failed' = TRUE
  /\ results' = Tail(results)
  /\ UNCHANGED <<tasks, transaction_list, total, crashed>>

(* The empty answer of a query that failed: rsp.substring(0, 30) throws,   *)
(* and the app is gone with all it was doing.                              *)
HandleUnreachable ==
  /\ Handle("unreachable")
  /\ crashed' = TRUE
  /\ failed' = TRUE
  /\ tasks' = <<>>
  /\ results' = <<>>
  /\ UNCHANGED <<transaction_list, total, shown>>

-----------------------------------------------------------------------------
(* The page at an offset: the most recent transactions but for offset many *)
(* (external).                                                             *)
Page(offset) ==
  {t \in 1..recorded : t + offset <= recorded /\ t + offset + PageSize > recorded}

Answer(status, page) == [status |-> status, page |-> page]

(* The background thread queries the service for the next page. *)
Query ==
  /\ tasks # <<>>
  /\ \E answer \in {Answer("ok", Page(Head(tasks))), Answer("error", {}),
                     Answer("unreachable", {})} :
       results' = Append(results, answer)
  /\ tasks' = Tail(tasks)
  /\ UNCHANGED <<recorded, transaction_list, total, shown, crashed, resumes,
                 resumed_at, overlapped, failed>>

(* Another transaction of the account is recorded (external). *)
Record ==
  /\ recorded < MaxTransactions
  /\ recorded' = recorded + 1
  /\ UNCHANGED <<tasks, results, transaction_list, total, shown, crashed, resumes,
                 resumed_at, overlapped, failed>>

Paging == Query \/ HandlePage \/ HandleServiceError \/ HandleUnreachable

HistoryNext == OnResume \/ Paging \/ Record

(* The background thread and the UI thread run. *)
HistorySpec == HistoryInit /\ [][HistoryNext]_historyVars /\ WF_historyVars(Paging)

-----------------------------------------------------------------------------
(* Properties.                                                             *)

Idle == tasks = <<>> /\ results = <<>>

(* The fields have values the code can give them, and each onResume has at *)
(* most one page under way.                                                *)
HistoryTypeOK ==
  /\ recorded \in 0..MaxTransactions
  /\ tasks \in Seq(Nat)
  /\ results \in Seq([status : {"ok", "error", "unreachable"}, page : SUBSET Transactions])
  /\ transaction_list \in [Transactions -> Nat]
  /\ total \in Nat
  /\ resumes \in 0..MaxResumes /\ resumed_at \in 0..MaxTransactions
  /\ shown \in BOOLEAN /\ crashed \in BOOLEAN
  /\ overlapped \in BOOLEAN /\ failed \in BOOLEAN
  /\ Len(tasks) + Len(results) <= resumes

(* When the list is put on the screen and no page failed, it has every     *)
(* payment recorded before the activity was resumed, even when others were *)
(* recorded while the pages came in -- provided no pages of an earlier     *)
(* onResume were still to come.                                            *)
Complete ==
  shown /\ ~failed /\ ~overlapped =>
    \A t \in Wanted : t <= resumed_at => transaction_list[t] > 0

(* No payment is listed twice, unless pages of an earlier onResume were    *)
(* still to come or a new transaction has moved the pages.                 *)
ListedOnce ==
  ~overlapped /\ recorded = resumed_at =>
    \A t \in Transactions : transaction_list[t] <= 1

(* Paging always comes to an end. *)
PagingEnds == []<>Idle

(* get_transactions goes on from total_transactions_processed, of which    *)
(* HistoryActivity.java:135 says "returns number of transactions processed *)
(* (not number added to list)": when the activity comes to rest with no    *)
(* page failed, the offsets have left out no payment recorded before it    *)
(* was resumed.                                                            *)
NoneLeftOut ==
  shown /\ ~failed /\ Idle =>
    \A t \in Wanted : t <= resumed_at => transaction_list[t] > 0
=============================================================================
