# EtherPay in TLA+

EtherPay is an Ethereum wallet for Android. It keeps one private key, asks web
services (etherchain.org, etherscan.io) about the account, signs payments on the
phone and hands them to a node. This directory holds TLA+ specifications of the
part of it that decides what happens to a payment, the model-checking
configurations that check them with TLC, and proofs checked by TLAPS.

Paths are relative to `app/src/main/java/com/bringcommunications/etherpay/`, those of
the scanner library to `zBarBuild/src/main/jni/`.

## Inventory

| Component | State it keeps | Operations | What makes it correct |
|---|---|---|---|
| `Payment_Processor`, scheduling | `send_message_list`, `balance_message_list`, `current_send_message`, `current_balance_message`, `client_map`, each message's `is_suspended` and `wait_until_sec` | `send`, `refresh_balance`, `has_message`, `cancel_messages`, `run`, `call_next_callback`, `dispose_current_message` | no request is lost, handled twice or handled after it was cancelled; an answer is handled for the message it belongs to; the thread never sleeps on work; only a query can hold a request up |
| `Payment_Processor`, payments and balances | the preferences (`last_tx_nonce`, `verified_nonce`, `balance`, `verified_balance` and the times they changed), `gas_price_history`, each message's `nonce` and `process_count` | `send_guts`, `refresh_balance_guts`, `handle_http_rsp`, `update_nonce_logic` | no nonce is used for two pending payments or left out; the client is told the truth; the balance shown is never more than what is left |
| `HTTP_Query_Task`, `DNS_Resolver`, `DNS_Entry` | the queries waiting, under way and posted; `dns_cache`, shared by lookup threads | `execute`, `doInBackground`, `ResolveHostIP`, `send_http_query`, `DNS_Resolver.run`, `onPostExecute` | queries are carried out and answered one at a time, in order, once, and truthfully; no failure but a silent service leaves one unanswered; no stale address is used |
| `MainActivity` | `acct_addr`, `private_key` (preferences) | `onResume` (imports an account), `onStop`, `do_refresh`, `do_pay`, `delete_old_key_import_new` | a refresh is asked for when none is under way; nothing of the old account survives an import |
| `SendActivity` | the screen, its `eth_balance`, `send_is_done`, the amount and its denomination | `onCreate`, `onItemSelected`, `do_pay`, `payment_result` | one payment per screen; enough funds; the amount paid is the amount on the screen, and goes to the scanned address |
| `HistoryActivity` | `transaction_list`, `total_transactions_processed` | `onResume`, `get_transactions`, `set_transactions` | each transaction is listed, and once; paging ends; a failure is shown |
| `ScanActivity`, `CameraPreview` | `mCamera`, `previewing`, the surfaces, the posted autofocus | the life cycle, `do_scan_guts`, `onPreviewFrame`, `doAutoFocus`, the surface callbacks | the camera is not left open; a code is handed over once; no focus on a stopped preview |
| `zBarBuild` (scanner) | symbol sets and their reference counts, shared by the UI thread and Java's finalizer thread | `zbar_scan_image`, `recycle_syms`, `zbar_symbol_set_ref`, the destroy methods | no set is freed in use, none leaks |
| `Util` | none | `json_parse` | the value of the field that was asked for |
| `ReceiveActivity`, `Transaction_Array_Adapter`, `Transaction_Info` | none that changes | display | - |
| `ethereumj-core` | none between calls | signing, RLP | outside this project |

### How they interact

- The activities call the static methods of `Payment_Processor` on the UI thread
  and get `payment_result` / `balance_result` back.
- `Payment_Processor.run` is a thread of its own. It selects a message under
  `monitor` and then calls the message's guts, which usually start an
  `HTTP_Query_Task`.
- `HTTP_Query_Task` works in the background and calls `handle_http_rsp` on the UI
  thread (`onPostExecute`). From there the guts are called again, so the guts of a
  message run on the processor thread the first time and after a wait, and on the
  UI thread after an answer.
- A callback names the *kind* of its message (`"nonce-send"`, `"balance-refresh"`),
  not the message: the handler takes the current message of that kind.
- All queries of the app, those of `HistoryActivity` too, share one serial executor
  and the static `dns_cache`.
- `ScanActivity` hands a scanned code to `SendActivity` (in the intent) or to
  `MainActivity` (a key to import, in the preferences).
- Every camera frame becomes a scanner `Image`; when nothing refers to it any more,
  Java's finalizer thread destroys it while the UI thread may be in the next frame.
- The preferences are shared by all of them.

### What is hard about it

Two threads that both change the lists, the current messages and `client_map`; a
decision taken inside the monitor and taken again outside it; wait and notify;
cancellation and flushing while a message is being processed; payments sent in
"rapid fire" before the chain confirms the earlier ones; services that lag, lie
low, fail or lose a reply after having acted, or never answer; transactions the network forgets;
three different rules by which an estimated balance is replaced by a reported
one; a process that is killed before its preferences are in the file; an account
exchanged under the processor; lookups that outlive the query they were made for;
camera, surface, frame and focus callbacks in any order; reference counts two
threads share. `PROJECT.json` lists these under `hazards`, at their lines, with the
properties that cover them or the reason none does yet.

## Modules

| Module | What it is |
|---|---|
| `PaymentRequests` | What the clients are promised: each request goes from new to pending to answered, cancelled by its own client, or flushed by another's failure. |
| `PaymentScheduler` | The scheduling, one action per handler or monitor block, with what the guts decide left open. Implements `PaymentRequests`. |
| `PaymentProcessor` | Extends `PaymentScheduler`: fills in the guts, the handlers, the preferences, and a model of the account on the chain and its services. Implements `PaymentScheduler`. |
| `TransactionHistory` | `HistoryActivity`: the list of payments read page by page. It shares nothing with the processor but `HTTP_Query_Task`. |
| `ProcessorRestart` | Extends `PaymentProcessor`: a process that is killed, with what its preferences file holds. |
| `AccountImport` | Extends `PaymentProcessor`: `MainActivity`, which erases the account and imports another while the processor works. |
| `QueryService` | What `HTTP_Query_Task` promises its clients. |
| `QueryTask` | `HTTP_Query_Task` and `DNS_Resolver`. Implements `QueryService`. |
| `SendScreens` | Extends `PaymentRequests`: the `SendActivity` screens, which make payments and are told of them, beside `MainActivity`'s refresh. |
| `PaymentForm` | From the scanned code to the amount paid, on one screen. |
| `JsonAnswers` | `Util.json_parse`, against a reference definition. |
| `CameraSession` | `ScanActivity` and `CameraPreview`: life cycle, camera, surfaces, focus. |
| `SymbolSets` | The scanner's symbol sets and their reference counts. |
| `QrScan` | Composes `CameraSession` and `SymbolSets`. Implements `CameraSession`. |
| `MC...` | The instances TLC checks. `MCSendActivity` explores `SendScreens`, `PaymentForm` and `JsonAnswers` in one run: they share no variable, so a behaviour is one of one of them beside the others at rest. |
| `PaymentSchedulerProofs` | Theorems about `PaymentScheduler`, among them that it implements `PaymentRequests`. |
| `PaymentProcessorProofs` | `PaymentProcessor` implements `PaymentScheduler`; the verified nonce. |
| `ProcessorPaymentsProofs` | Extends it: theorems about the payments of `PaymentProcessor`, `ProcessorRestart` and `AccountImport`. |
| `TransactionHistoryProofs`, `QueryTaskProofs`, `QrScanProofs`, `JsonAnswersProofs` | Theorems about the module of that name (`QrScanProofs`: of `CameraSession` and `SymbolSets` too). |
| `SendActivityProofs` | Extends `MCSendActivity` and `JsonAnswersProofs`: theorems about `SendScreens`, `PaymentForm` and the three parts of the activity together. |

### PaymentScheduler and the code

A message is the number of its `queue_message` call, so each `LinkedList` is the
set of its elements, taken smallest first. `client` is chosen in the initial
state, since a message never changes its client. `timer[m]` is the remaining wait
(`wait_until_sec - now_sec`), with `NotWaiting` for `wait_until_sec = 0`; the code
tells the two apart and so does the model. `http[m]` counts the queries under way
for `m` (a property says it is never more than one). `delivering[t]` is the
message thread `t` has disposed of and is about to call the client for: the
callback comes after the monitor block, and another thread may run in between.
`outcome` is a history variable.

| Action | Code (`Payment_Processor.java`) |
|---|---|
| `QueueMessage` | `send` / `refresh_balance` / `queue_message`, 116-138, 168-181 |
| `CancelMessages` | `cancel_client_messages`, 232-253, called by `MainActivity.onStop` |
| `SelectSuspended`, `SelectNew`, `WaitOnMonitor`, `WaitTimeout` | the monitor block of `run`, 263-304 |
| `RunQuery`, `RunDispose` | after the monitor block, 305-313: the guts ask a query, or finish the message |
| `RspQuery`, `RspSuspend`, `RspDispose` | `handle_http_rsp` on the UI thread, by how it ends: another query, `call_next_callback(.., 5)`, `dispose_current_message` |
| `Deliver` | the client callback of `dispose_current_message`, 208-212 |
| `Tick` | a second passes |

The UI thread runs one callback at a time: `UiFree` keeps every UI action from
starting between a disposal and its callback on that thread.

### PaymentProcessor and the code

`prefs` is the `SharedPreferences` record, with the code's names; the pure
operators (`NextNonce`, `RapidFire`, `ForcedAdoption`, `UpdateNonce`,
`RecordPayment`, `NonceTooLow`, `UpdateBalance`) are what the handlers read from
and write to it. `Guts` and `Asks` are `send_guts` and `refresh_balance_guts`:
what they write, and which query they make. `HandleGas` ... `HandlePrice` and
`HandleError` are the branches of `handle_http_rsp`; each ends in `Continue`,
`Later` or `Finish`, which carry the matching scheduler action. `query` is the
query under way and its answer.

The account is `mined` (how many of its transactions are on the chain), `tx`
(which message's transaction has which nonce), `chain_balance` and what others
still pay in. The network's actions are external: a service answers truly, but
the nonce service may be up to `ApiLag` transactions behind (the code's comment
at 934-936 says so), the history's first page, the only one the processor reads, may
hold no transaction of the account's own any more (`CrowdedPage`; -1 is then read from
it: the code skips other senders, 681-685), any query may fail, an accepted broadcast's reply may be
lost (`MayLoseReply`), a pending transaction may be forgotten (`MaxDrops`), and
transactions are mined in the order of their nonces, at most `MineBound` after
they were accepted. The node accepts a transaction only if the account can pay for
it at its estimated cost besides what is pending (`Payable`), so what it accepted
can be mined; the code itself does not look at the balance once a payment is queued.

Left out: the branches guarded by `acct_has_no_txs`, `tx_err_occurred` and
`want_raw_tx` (no code ever sets the first two to true, and both callers of
`send` pass false for the third); the values of prices (a price is known or not);
logging, toasts and interim results. `(now_sec & 7) == 0` in `send_guts` is a free
choice. The gas price stays known for 60 * 60 * 1000 *seconds* once five samples
are there, longer than any modelled behaviour.

### TransactionHistory and the code

`HistoryActivity.onResume` empties the list, sets `total_transactions_processed`
(`total`) to 0 and asks for the page at offset 0; `handle_http_rsp` adds a page to
the list, its size to the total, and asks for the page at the total while a page
is full. `AsyncTask.execute` carries out one query after the other, so `tasks` and
`results` are sequences and pages are handled in the order they were asked for.
Transactions are numbered as they are recorded; `Page(offset)` is what the service
answers, and `Record` moves all offsets by one, at any time. A query may also be
answered with an error, or not at all (the empty answer of
`HTTP_Query_Task.onPostExecute`, for which `substring(0, 30)` throws). `Wanted` is
what `show_sent` and `show_received` let through. `resumed_at`, `overlapped` and
`failed` are history variables. The list keeps how often each transaction is in it,
not the order or the fields of its entries.

| Action | Code (`HistoryActivity.java`) |
|---|---|
| `OnResume` | `onResume`, with `get_transactions(0)`, 129-133, 308-316 |
| `Query` | `HTTP_Query_Task` in the background |
| `HandlePage`, `HandleServiceError`, `HandleUnreachable` | `handle_http_rsp` and `set_transactions`, 135-302, by the answer |
| `Record` | external: another transaction of the account |

### ProcessorRestart, AccountImport and the code

`ProcessorRestart` adds `file`, what the preferences file holds. `apply()` changes
`prefs` at once; `WriteFile` is Android writing them some time later; `Kill` ends the
process at any point: the new one has empty queues, no current message and the
preferences of the file. What the network was sent stays sent, and a broadcast that was
on its way (`in_flight`) may still `Arrive`, be refused or be lost, with nobody left to
hear of it.

`AccountImport` puts `MainActivity` in front of the processor: `DeleteOldKey`
(`delete_old_key_import_new`), the scan, and `Import`, the part of `onResume` that
derives the address and sets preferences back (196-243). The processor's actions are
unchanged; `asked_about` keeps whose address or signature is in the query under way,
and `ServeErased` answers one for an account that is no longer the one in the
preferences, or for none at all. `own` is a history variable: every balance the imported
account has had, and what is left of each after what it has paid itself, which is
everything an estimate for that account can be. Both modules extend `PaymentProcessor`, so its actions appear in them
whole.

### QueryTask and the code

Queries are numbered by their `execute` calls. `tasks`, `active`/`phase` and `posted`
are the executor's queue, the task in `doInBackground` and the tasks whose
`onPostExecute` is still to run; `lookup[q]` is the thread `ResolveHostIP` starts for
`q`. External assumptions: `AsyncTask.execute` runs the tasks one at a time in order
(true since Android 3), and all of the app's URLs are `https`, so that the address
found is not put into the URL (`send_http_query` replaces the host of `http` URLs
only) and the lookup decides whether the connection is tried. An address is the time
at which the name service gave it. The lookup threads read and write the fields of the
`DNS_Entry` objects they share without a lock, so each read and each write is a step of
its own. When `openConnection` itself throws, `urlConnection` is null in the `finally`
clause and the app ends (`phase` = "died").

| Action | Code (`HTTP_Query_Task.java`) |
|---|---|
| `Execute`, `Begin`, `Finish` | `execute`, the start of `doInBackground`, `onPostExecute` |
| `Resolved`, `Unresolved` | the end of `thread.join(DNS_TIMEOUT)` in `ResolveHostIP` |
| `OpenFails`, `ConnectFails`, `Connected`, `ReadAll`, `ReadFails` | `send_http_query` |
| `LookupStart`, `LookupGet`, `LookupCheck`, `LookupAddr`, `LookupAnswered`, `LookupStamp`, `LookupFailed`, `LookupPut` | `DNS_Resolver.run`, one step for each access to the clock, to `dns_cache` or to a field of an entry |

### SendScreens, PaymentForm, JsonAnswers and the code

In `SendScreens` the clients of `PaymentRequests` are the objects of `SendActivity`:
`Open`, `Recreate` (an options menu item, or a rotation), `Leave`, `CancelDialog`,
`Pay` (`do_pay`), and the ways the processor settles a payment, `Paid` and `Failed`,
with `payment_result` and its dialog, which may be called on the processor thread.
`Refresh`, `BalanceAnswered` and `RefreshFails` are `MainActivity`'s refresh, whose
answers come while a screen is on top: one may replace the balance in the preferences
(by a value of `Balances`), and a failing one flushes the payments that are queued
without a word to their screens. External assumptions: `AlertDialog` needs a `Looper`
thread and a window; an activity that is rotated is created anew. All payments cost the
same. `outdated` is a history variable: a screen was created while a payment was
pending, or an answer has lowered the balance under a screen or a payment.

`PaymentForm` follows one code: `Scan` is what `ScanActivity.onPreviewFrame` cuts from it,
`OnCreate`, `ItemSelected` and `DoPay` are `SendActivity`'s handlers. A code is a record
of what it is made of: the recipient (`Bare` is one that does not begin with "0x", which
the guard at 251 does not recognize behind "ethereum:"), whether it is plain, whether it
has a value and which, and whether it names a gas. `ScannedTo` and `ScannedSize` are what
the substrings give, the first digit of a value lost. Amounts are in tenths of a Finney.
Left out: amounts beyond the precision of a float, the range of an int or the nine
characters of the field, and those half way between two Finneys.

`JsonAnswers` takes one iteration of `json_parse`'s loop per step, over texts of
tokens; `FieldValue` reads the value off the object the text was made from. A word is
a name or a value; the names `indexOf` also finds the field's name in are `Hits`.

### CameraSession, SymbolSets, QrScan and the code

A session is one call of `do_scan_guts`, with its `Camera` and its `CameraPreview`;
older previews stay in the layout and keep their camera. In `surfaceChanged` each of its
three calls may fail alone: the frames may come although the preview is broken, and
the autofocus fail although both were started. Every action is one callback
on the UI thread. External assumptions, from Android's documentation: the order of
life-cycle callbacks; surfaces are created when the window is shown and destroyed
after it no longer is; a call on a released camera, and `autoFocus` without a
preview, throws a `RuntimeException`; a second permission request while the first is
shown is answered with an empty array. An uncaught exception ends the app (`died`).

`SymbolSets` has one action per step in which either thread reads or writes a count:
`*cnt += delta` is a load and a store, since `config.h` undefines `HAVE_LIBPTHREAD`
(line 60). `raced` is a history variable: both threads have been counting on one set
at once. What the decoders find in an image is a free choice.

In `QrScan` a frame begins when the camera has a callback and `previewing` holds;
`onPreviewFrame` then runs to its end before another callback of the activity, with
the finalizer thread beside it.

## Runs

| Run | Bounds | Shows |
|---|---|---|
| `scheduler` | 4 messages, 2 payers, 1 wallet, no symmetry (97 thousand states) | type invariant, `OneConversation`, `SelectionStands`, `NoLostWakeup`, `OnePlace`, `NoPhantomRequests`, the refinement `ImplementsRequests`, and `OnlyQueriesHoldUp` under `FairSpec` |
| `processor_nonce` | 3 payments of 2 payers, one of whom has a recipient that cannot be decoded; `ApiLag` 1 (2.4 million states) | `VerifiedIsOnChain`, `NoNonceClash`, `NoNonceGap`, `ReportIsTrue` |
| `processor_restart` | 2 payments, replies may be lost, one kill, broadcasts still on their way (3.0 million states) | `NoNonceGap`, `PaidOnce` (not `ReportIsTrue`: a lost reply is reported as a failure) |
| `processor_balance` | 3 messages of a payer and a wallet, a deposit, a balance that does not cover all of them, real cost below the estimate, one transaction may be forgotten, no `CrowdedPage` (1.9 million states) | `BalanceNeverOverstated`, `UpToDateMeansSettled`, the type invariant |
| `processor_nonce_too_low` | 3 payments | violated: see Findings |
| `processor_adoption` | 2 payments, 12 ticks | violated: see Findings |
| `account_import` | 3 messages of a payer and the wallet, one import, payments that cost 1 of 5 and of 2, one transaction may be forgotten (1.2 million states) | `CleanImport` |
| `query_task` | 3 queries for one host, cache time and clock of one tick (160 thousand states) | the type invariant, `FreshAddress`, the refinement `ImplementsService`, `AnsweredUnlessSilent` under `FairSpec` |
| `history` | pages of 2, 6 transactions of which 4 are listed, 2 visits (16 thousand states) | `Complete`, `ListedOnce`, `PagingEnds`, the type invariant (with it: at most one page under way for each visit) |
| `history_resume` | the same | violated: see Findings |
| `qr_scan` | 2 openings of the camera, 3 frames (700 thousand states) | `NoCameraLeftOpen`, `ResultOnce`, `FocusOnlyOnPreview`, `ExactUnlessRaced`, `AllocatedIffHeld`, the types |
| `send_activity` | 4 screens and 3 payments of 2 from a balance of 5, which an answer may set to 1 or 5; amounts of up to two scanned digits, 4 edits and switches; answers of up to 3 members (160 thousand states) | `PaysOnce`, `CoveredUnlessOutdated`, `AmountKept`, `PaidAsEntered`, `ReadsField`, the types |

Why these bounds are enough: four messages let one kind have a current message,
a queued one, a second client's, and a message of the other kind, which is every
relation the scheduling code looks at. Three payments give rapid fire two steps
past the last verified nonce. In the processor's runs a tick stands for 30 to 60
seconds; what counts is the order of the intervals, which is the code's
(`BalanceInterval` 30 s < `BalanceForcedAdoption` = `LongEtherTransaction` 60 s <
`NonceForcedAdoption` 210 s < `PriceInterval` 300 s; 5 stands for both of the
last two; in `processor_adoption`, where they matter, 7 and 10 ticks of 30 seconds).
`CrowdedPage` is TRUE in all of the processor's runs but `processor_balance`, which it would
make half as large again; the theorems on the balance hold with it. Time stops at `MaxTime`, so a behaviour covers one settling cycle. In `processor_nonce`
it stops before the forced adoption, after which `NoNonceClash` does not hold, as
`processor_adoption` shows; up to then nonces do not clash, and the theorem
`NoncesDoNotClash` says that an unjustified adoption is the only way to a clash.
`MineBound <= NonceForcedAdoption` in every run: a transaction that is merely slow,
beyond the code's 210 seconds, is adopted over as well. Two payments are what a
kill can come between, and a second kill meets the same empty queues as the first.
In `account_import` the two accounts differ in balance and in the number of their
transactions, so a value of the wrong account shows.

In the history's runs six transactions in pages of two make three full pages and
an empty last one, which is every turn the paging can take (a first, a following
and a last page, full or not); the second of two visits meets the pages of the
first at any point. `PageSize` is 50 in the code, and the proofs hold for any.

Three queries are one that was given up on, whose lookup goes on, and two after it
for the same host; lookups for another host share no entry with them. One tick is enough
for an entry to be older than the cache time. Two sessions of the camera are what an old
surface can be confused with; three frames are one whose image is destroyed late, one that shares its set, and one
that finds it given up. The proofs hold for any number of sessions and queries.
Two digits make a value with a first digit and a rest. Three members put a field
before, between and behind others. The proofs hold for any number of screens,
payments, edits and members.

Deadlock is checked in the runs of the scheduler and the processor. Time never runs
out for a waiting processor thread (`WaitTimeout`), so a state without successor
would be a real one. It is off where a behaviour may end: the history, the queries and
the screens rest when their bounds are used up, the activity of `qr_scan` is
destroyed, and `account_import`'s messages are bounded.

### Fairness

`FairSpec` of the scheduler has weak fairness of the processor thread, of the UI thread's
client callback, and of time: Android schedules both threads and the clock runs. Nothing
is assumed of the answers, since the code guarantees none: the connection has no read
timeout, and a failing *gas price* query is repeated without end (`HandleGas`).
`OnlyQueriesHoldUp` therefore says that a request comes to its end or to a moment at
which a query is under way, and this at every moment. New requests and cancellations have
no fairness.

`HistorySpec` has weak fairness of `Paging` (the background thread and the UI
thread run); visits and new transactions have none.

`FairSpec` of `QueryTask` has weak fairness of what the code and Android see to
themselves (the executor and the UI thread run, the wait for the lookup and the
connection have a time limit); none of the reading, of the lookups, of `execute` and of
the clock. `AnsweredUnlessSilent` has what the code does not guarantee as its hypothesis: no
connection stays in the reading loop for ever, and the app does not die. `PagingEnds` of
the history takes the answers of its queries as given. The other modules have no
fairness and no liveness property.

## Findings

- `processor_nonce_too_low`: `Payment_Processor.java:784` says "force check nonce...",
  but rapid fire sends the refused nonce again without asking.
- `processor_adoption`: `Payment_Processor.java:949-950` takes a verified nonce that has
  not changed for 210 seconds for a sign that "apparently some tx failed". In the run the
  first payment is mined within a minute, but the page of the history that is read
  shows none of the account's transactions any more; `last_tx_nonce` is set back to the
  verified nonce, and the next payment will have a nonce that is used.
- `history_resume`: the last page of an earlier visit, one that is not full, asked for
  before `onResume` and handled after it is counted in the offset of the new visit
  (`HistoryActivity.java:274`), so the pages of the new visit skip as many transactions,
  and the list comes to rest without them. (A full page asks for its own follow-up, which
  fills the gap.) Without such an overlap the list is complete (`Complete`).

## Where code and text disagree

More disagreements with a comment, a doc or a message were met while modelling. They
have no run of their own; the formula or action named shows each in the module.

- `dispose_current_message(.., flush_all)` clears `client_map` although another message
  may be current; when that one ends it takes the count of a request made since.
  `cancel_messages` then leaves that request queued (`MainActivity.java:249`: no need
  "to keep that request queued anymore"). `PaymentScheduler`: `Dispose`, then
  `CancelMessages` with a count below the number of queued messages.
- After a failed gas price query the payment asks again, at once and without end
  (`Payment_Processor.java:611`), where line 612 says "we can continue on using the
  default or historical gas price". `PaymentProcessor`: `HandleGas` by way of `Continue`.
- A failing request flushes the queued messages of every other client without calling
  them back (`Payment_Processor.java:191`): `Flush` of `PaymentRequests`. A screen whose
  payment is flushed stays open with a button that is done. `SendScreens`: `Failed` of
  another payment, and `RefreshFails`.
- The error message of `HistoryActivity.java:172` is cut from the answer with
  `substring(0, 30)`, which throws for the empty answer of an unreachable service.
  `TransactionHistory`: `HandleUnreachable` sets `crashed`.
- The connection has no read timeout (`HTTP_Query_Task.java:190`): a service that has
  accepted it and says nothing keeps every later query of the app waiting. `QueryTask`:
  `AnsweredUnlessSilent` without its hypothesis fails.
- `openConnection` may throw before `urlConnection` is assigned, and the `finally` clause
  uses it (`HTTP_Query_Task.java:187`, 213). `QueryTask`: `OpenFails`.
- The camera may be released before its surface was created; `surface_been_destroyed`
  does not notice, and the exception is not the one that is caught
  (`CameraPreview.java:86-91`). `CameraSession`: `SurfaceCreated` with `died` =
  "released camera".
- `getCameraInstance`, "a safe way to get an instance of the Camera object"
  (`ScanActivity.java:186`), returns null, which `do_scan_guts` uses. `CameraSession`:
  `DoScanGuts` with `died` = "null camera".
- `_zbar_refcnt` counts without a lock in this build (`zbar/refcnt.h:83-89`,
  `config.h:60`), on two threads: an update may be lost. `SymbolSets`: `CountIsExact`
  fails; `ExactUnlessRaced` says that nothing else goes wrong.
- `last_tx_nonce` reaches the file some time after the node accepted the payment
  (`Payment_Processor.java:763`): a process killed in between gives the next payment
  the same nonce. `ProcessorRestart`: `NoNonceClash` fails.
- An answer about the erased account is stored as the imported one's
  (`MainActivity.java:220`, `strings.xml:57`). `AccountImport`: `NonceIsOwn` and
  `BalanceIsOwn` fail unless `quiet`.
- A payment is signed with the key of the moment it is its turn
  (`Payment_Processor.java:487`): one made before an import is paid from the imported
  account. `AccountImport`: `Pay`, `DeleteOldKey`, `Import`, and its broadcast.
- `do_pay` "ensure[s] sufficient funds" (`SendActivity.java:352`) against a balance that
  knows nothing of pending payments. It is read once, in `onCreate`, and not again when an
  answer lowers it. `SendScreens`: `FundsCovered` fails; `CoveredUnlessOutdated` says when it
  holds.
- The result of a payment is shown by the object that made it, also when that has been
  destroyed (`SendActivity.java:296-313`). `SendScreens`: `died` = "dialog of a destroyed
  activity".
- A payment that cannot be encoded is answered on the processor thread, which cannot
  make a dialog (`Payment_Processor.java:494`). `SendScreens`: `died` = "dialog made on the
  processor thread".
- A balance above 2^63-1 wei (9.22 ETH) cannot be read with `Long.valueOf`
  (`Payment_Processor.java:807`); the example at line 797 is larger. Not modelled.
- `indexOf("value=") + "value=".length() + 1` is one character too far
  (`ScanActivity.java:258`) for the format in the comment above it (249): 25 is read as 5,
  a single digit ends the app in `onCreate`, and a code that ends in "value=" ends it in
  `substring`. `PaymentForm`: `ScannedSize`, `EndsInValue`, and `Fail` in `Scan` and
  `OnCreate`; `PaidAsEntered` says what is paid for an amount nobody has edited.
- An emptied size field ends the app (`SendActivity.java:332`, `246`), where line 329
  says "validate size". `PaymentForm`: `Fail` in `DoPay`.
- Where the locale writes a decimal comma, the first switch of the denomination throws
  (`SendActivity.java:257`). `PaymentForm`: `Fail` in `ItemSelected` with
  `PointLocale = FALSE`.

## Proofs

All for arbitrary constants that satisfy the named assumptions of the modules (natural
numbers for the bounds, disjoint sets of clients; the intervals are not assumed to be
in any order).

### Scheduling

- `TypeCorrect`: `Spec => []TypeOK`.
- `OneConversationAtATime` and `SelectionAlwaysStands`: neither is inductive alone.
  `ConversationInv` adds `Fresh` (a message that is queued or still to come is
  suspended, not waiting for a time, and not current) and `Selection` (outside a
  selection every suspended current message has a time to wait for, and a selection
  clears the time of exactly one, with no message active). The argument: only the processor
  thread makes a message active, only when no other is; and from then until its
  answer is handled `run` can do nothing but wait.
- `NoWakeupIsLost`: `NoLostWakeup` is inductive given the types. Every step that makes a
  message takeable (it is queued, or the active one ends or is suspended) notifies; every
  other step leaves fewer takeable ones or changes none of it.
- `NoRequestIsPhantom`: inductive with `ConversationInv`. A disposal takes one from the
  count and one from what the client holds, or clears all counts; a cancellation takes
  the client's queued messages from both, and the count never below zero. The proof
  counts sets with `FiniteSetTheorems`.
- `EveryRequestInOnePlace`: `PlacesInv` says that the pending requests are the messages
  that are somewhere (`PendingSomewhere`), that a message being handed to its client has
  left the lists and the two threads hand over different ones (`GivenApart`), that new
  requests are the numbers not given out yet, and that the processor thread calls back
  before it selects again. `Fresh` keeps lists and current messages apart.
- `SchedulerImplementsRequests`: `Spec => ImplementsRequests`, the refinement of the
  abstract promise. From `PlacesInv`, each action maps to making, answering, cancelling
  or flushing requests that are pending at that moment, or to a stutter.

### Payments, nonces and balances

- `ProcessorImplementsScheduler`: every step of `PaymentProcessor` is a step of
  `PaymentScheduler` or leaves it alone, so the theorems above hold of it
  (`ProcessorOneConversation`).
- `VerifiedNonceIsOnChain`: `ProcessorSpec => []VerifiedIsOnChain`. The invariant
  `NonceInv` adds that an answer under way tells of no more than the chain has
  (`AnswerTrue`; the chain only grows, so it stays true while the answer travels),
  and that a payment at the node has the nonce `last_tx_nonce + 1`: therefore one
  refused as too low proves that nonce used, which is what makes
  `verified_nonce = last_tx_nonce + 1` right in that handler.
- `ProcessorTypesHold`: `ProcessorSpec => []ProcessorTypeOK`, from `DataInv`. That times
  are 0 or since the start and that answers tell of nonces and balances is in
  `FieldInv`. The range of the nonces takes counting: `CountInv` bounds what is sent, what
  is chosen and `last_tx_nonce` by one nonce for each message that is over
  (`Top`), and one more while a payment has been accepted and not yet answered
  (`Bound`). That the account is never overdrawn is `Due <= chain_balance`.
- `PaymentsAreMadeOnce`: `RestartSpec => []PaidOnce`, with no hypothesis on the network:
  kills, lost replies and forgotten transactions included. `PaymentInv` says that a
  transaction on the network was made by a message that is `Over` (numbered, in no
  list, not current) or by the current one whose accepted broadcast has just been
  answered. A message that is over never becomes current again (`OverStable`), and a
  kill makes every message over.
- `ReportsAreTrue`: `ReportInv` ties the transactions to the results: each was made by a
  message reported as paid or about to be.
- `NoGapInNonces`, `NoGapAfterRestart`: `GapInv` adds that `last_tx_nonce` was *sent* (is
  on the chain or pending). The next nonce is one more, so the pool stays without gaps.
  A kill goes back to an older `last_tx_nonce`, which has been sent as well
  (`RestartGapInv`).
- `NoncesDoNotClash`: the app knows of everything pending: a pending transaction's nonce
  is at most `last_tx_nonce`, or that of the accepted broadcast whose answer is on its
  way (`PoolKnown`).
- `UpToDateIsSettled`: the handlers ask for a balance, and report one, only when
  `last_tx_nonce = verified_nonce`; the verified nonce is on the chain, and what is
  pending is known, so nothing is pending.
- `BalanceIsCovered`: `BalanceInv`, that the balance shown is at most the one on the chain
  less what the pool will cost, with the real cost as slack between an acceptance and
  its handling. A reported balance is taken only when the pool was empty when it was
  asked for (as above) and nothing has been paid since, because a conversation is with
  one message at a time. `RealCost <= EstCost` is the assumption of the module.
- `ImportedNonceIsOwn`, `ImportIsClean`: after an import that found the processor idle,
  every query under way is about the new account and its answer true of the new chain
  (`OwnAnswers`). Every balance that is stored is then an answer about the new account, or an
  estimate from one, less a payment of its own (`OwnBalance`); what payments cost and
  what others pay in does not matter.

### The other components

- `HistoryTypeCorrect`: `HistorySpec => []HistoryTypeOK`, for pages and histories of
  any size (`HistoryAssumption`). `HistoryTypeOK` is inductive: a full page takes one
  result and makes one task, so the pages under way are bounded by the visits.
- `ListIsComplete`, `NoPaymentTwice`: unless visits overlapped, at most one page is under
  way and it is asked for at the offset of what has been processed (`OnePage`). What is
  still to be listed of the history at the visit is among the `r - total` oldest of the
  `r` transactions recorded when the page was served (`ListedDownTo`): a transaction
  recorded later moves all offsets up, so a page may repeat entries and never skips any.
- `QueriesImplementService`: `QuerySpec => ImplementsService`. The steps that map to
  steps of `QueryService` are `Execute`, `Connected` and `Finish`; all others stutter.
  The invariant `TaskInv` says that a query without an answer is queued, under way or
  posted, those posted before the one under way and that before those queued
  (`InOrder`), that the service has
  acted on none of those still to come (`ServedInOrder`), and that what is posted with
  a response was acted on (`TrueReplies`).
- `QueryTypesHold`, `AddressAlwaysFresh`: `LookupInv` says of the shared entries that only
  made ones with an address are put (`EntriesPut`), that an address is no older than the
  timestamp beside it (`EntriesDated`), and of each lookup what it knows between its
  unsynchronized reads and writes (`LookupSound`): an entry found fresh stays fresh for it,
  because other lookups replace its address only by later ones.
- `ScanImplementsSession`: `ScanSpec => SessionSpec`. With it `CameraAlwaysReleased`,
  `CodeHandedOverOnce` and `FocusAlwaysOnPreview` follow from `SessionInv`: no camera
  is open but `mCamera`, which is null outside `onStart` .. `onPause` (`OnlyItsOwn`);
  after a code was found the activity finishes and `previewing` stays FALSE, because
  only `do_scan_guts` sets it and a finishing activity is not started (`LastResult`);
  while `previewing` holds, nobody has stopped the preview (`PreviewRuns`).
- `CountsExactUnlessRaced`, `NoSetLostOrLeaked`, `ScanTypesHold`: `MemoryInv` says what the
  Java objects refer to in each phase of their lives (`RefersBack`, `Lives`), that a count
  is loaded only where it is about to be stored, and, unless the threads have raced
  (`Counted`), that each count is the cardinality of the references to its set, that a
  loaded count is still the current one, and that a set is allocated as long as it is
  referred to.
- `ScreenPaysOnce`: `SendSpec => []PaysOnce`, from `DoneOnce`: a screen that is not done
  has made no payment, and no two payments are of one screen.
- `PaymentsAreCovered`: unless `outdated`, the payment under way is of the last screen, which
  compared its cost with a balance that has not become less since (`LastCovered`).
- `FormKeepsAmount`, `FormPaysAsEntered`: `FormInv` says that the screen shows what was read
  from the code (`CodeRead`), and in the field, in its denomination, the amount taken over
  or entered, as it is or to the nearest Finney (`AmountShown`). Rounding an amount twice
  is rounding it once (`RoundTwice`), so switching the denomination does not drift; the
  ether of a digit is a whole number of Finneys, which rounding leaves as it is
  (`EtherIsRound`).
- `FieldRead`: a text is taken apart at its quotes. `Balanced` gives the set of positions
  inside quotes, in which everything `indexOf` can find of the field's name lies;
  `Holds` and `Sound` say which names the text holds as members and that each has
  its member's value. `JoinSound` puts sound texts together, so the members in any order
  are sound by induction on their number (`ListSound`), and so is the answer with its
  status around the object (`AnswerSound`). The invariant `JsonKept` is then that
  `json_parse` always stands outside quotes and has not passed the field; from there the
  next match is the field, or a longer name that is skipped to its closing quote
  (`NextQuoted`, `NameAlone`). What it takes is the value without its quotes
  (`ReadValue`, `UnquotedQuoted`). `JsonTyping`: it stays within the text.
- `ActivityIsItsParts`: the instance TLC checks implements `SendSpec`, `FormSpec` and
  `JsonSpec`, because the three share no variable. `ActivityTyping` and
  `ActivityIsSafe` carry the results of each over to it.

The provers cannot use the library's induction theorems, which take an operator. Where
the proofs above need induction (the members of an answer, the tokens of a text) they use
`SetInduction`, which says of a *set* that holds 0 and each successor that it holds every
natural number, and is proved from the well-foundedness of strict inclusion on finite
sets.

### What the proofs assume

A hypothesis stands in a theorem where the statement is false without it:

- `drops = 0` or `MaxDrops = 0` (the network forgets nothing) in the theorems on nonces,
  reports and balances: a forgotten transaction leaves a gap until its nonce is
  adopted, and an adoption may take a later payment for gone that is still pending.
  (`processor_balance` has a forgotten one, and ends before an adoption.)
- `~MayLoseReply` in `ReportsAreTrue`, `NoncesDoNotClash`, `UpToDateIsSettled` and
  `BalanceIsCovered`: a payment whose reply is lost is reported as failed although it
  was made, and its nonce is given out again.
- `AdoptionJustified` in the last three, which then say that, with the other hypotheses,
  this heuristic is the only way to a clash. It is not true of the code
  (`processor_adoption`): the history may show nothing of the account's own, the nonce
  service may lag behind a payment while a later one of a rapid fire is still young, and a
  transaction may be slower than 210 seconds.
- `PaymentFormAssumption` and `JsonAssumption`, on the data of the two modules: no address is
  empty or the text of a whole code, no word is a quote or punctuation, and the
  field's name is not part of the words and numbers around the object.

### Only model-checked

- Liveness (`OnlyQueriesHoldUp`, `AnsweredUnlessSilent`, `PagingEnds`): beyond the prover.
- The properties of the three runs that expect a violation, which are false.

## Not modelled

- `ReceiveActivity`, `Transaction_Array_Adapter`, `Transaction_Info`, resources and build
  files: no state that changes, layout only.
- `ethereumj-core`: a copy of a third-party library, of which the app uses signing,
  hashing and RLP; which recipients cannot be decoded is a constant
  (`Unencodable`).
- Most of `zBarBuild`: copies of zbar and libiconv. More than nine tenths of the
  repository's C are conversion tables and image decoders, which keep no state between
  two calls of the app and belong to those projects; the part in which two of the
  app's threads meet, the symbol sets, is modelled. Measured in lines the specifications
  therefore cover little of the repository, and most of EtherPay itself.
- In the app: texts, toasts, animations, the prices' values, the width of `long` and
  `float`, the value of a key.

## Plan

1. Done: every component that keeps state, as above.
2. Done: every safety property of the passing runs is proved, under the hypotheses above.
3. Worth modelling later: the value of the gas price (the least of the last samples),
   and `long` arithmetic of balances.
