--------------------------- MODULE QueryTaskProofs ---------------------------
(***************************************************************************)
(* HTTP_Query_Task implements QueryService, for any number of queries and  *)
(* of hosts, whatever the lookups do; and what the lookups do to the cache *)
(* they share.                                                             *)
(***************************************************************************)
EXTENDS QueryTask, TLAPS

(* The types the order of the tasks rests on. *)
Typed ==
  /\ asked \in 0..MaxQueries
  /\ tasks \subseteq 1..asked /\ posted \subseteq 1..asked /\ served \subseteq 1..asked
  /\ active \in 0..asked
  /\ active = NoQuery <=> phase = "idle"
  /\ reply \in [Queries -> Replies \cup {"none"}]
  /\ answer \in [Queries -> Replies \cup {"none"}]

(* A query without an answer is still to be made, queued, being carried    *)
(* out, or posted to the UI thread; what is posted was made before what is *)
(* being carried out, and that before what is queued.                      *)
InOrder ==
  /\ \A q \in Queries :
       answer[q] = "none" <=> q > asked \/ q \in tasks \/ q = active \/ q \in posted
  /\ \A p \in posted, t \in tasks : p < t
  /\ \A t \in tasks : active < t
  /\ active # NoQuery => \A p \in posted : p < active

(* The service has carried out nothing that is still to come, and the one  *)
(* being carried out once its connection was accepted.                     *)
ServedInOrder ==
  /\ \A s \in served, t \in tasks : s < t
  /\ phase \in {"resolve", "connect"} => \A s \in served : s < active
  /\ phase = "read" => active \in served

(* Only what was carried out is posted with a response.                    *)
TrueReplies ==
  \A p \in posted : reply[p] \in Replies /\ (reply[p] = "response" => p \in served)

TaskInv == Typed /\ InOrder /\ ServedInOrder /\ TrueReplies

-----------------------------------------------------------------------------
(* No query has been made at first. *)
LEMMA TaskInitially == QueryInit => TaskInv
BY QueryAssumption
   DEF QueryInit, TaskInv, Typed, InOrder, ServedInOrder, TrueReplies, NoQuery, Queries

(* A lookup, and the clock, leave the queries alone.                       *)
LEMMA LookupsApart ==
  ASSUME TaskInv, UNCHANGED <<asked, taskVars, served, answer>>
  PROVE  TaskInv'
BY DEF TaskInv, Typed, InOrder, ServedInOrder, TrueReplies, taskVars

(* A step of a lookup thread changes nothing else.                         *)
LEMMA LookingLeaves ==
  ASSUME NEW q \in Queries, Looking(q)
  PROVE  UNCHANGED <<asked, host, taskVars, now_sec, served, answer>>
BY Zenon DEF Looking, LookupStart, LookupGet, LookupCheck, LookupAddr, LookupAnswered, LookupStamp,
             LookupFailed, LookupPut, LookupStep

(* doInBackground ends, with a response only when the service has acted.   *)
LEMMA PostStep ==
  ASSUME TaskInv, NEW r \in Replies, Post(r), UNCHANGED served, active # NoQuery,
         r = "response" => active \in served
  PROVE  TaskInv'
<1> USE QueryAssumption DEF TaskInv
<1>1. /\ active \in 1..asked /\ active \in Queries
  BY DEF Typed, NoQuery, Queries
<1>2. /\ reply' = [reply EXCEPT ![active] = r]
      /\ posted' = posted \cup {active}
      /\ active' = NoQuery
      /\ phase' = "idle"
      /\ UNCHANGED <<asked, tasks, answer, served>>
  BY DEF Post
<1>3. reply'[active] = r /\ \A p \in posted : p # active /\ reply'[p] = reply[p]
  BY <1>1, <1>2 DEF Typed, InOrder, Queries
<1>4. Typed'
  BY <1>1, <1>2 DEF Typed, NoQuery
<1>5. InOrder'
  BY <1>1, <1>2 DEF Typed, InOrder, NoQuery, Queries
<1>6. ServedInOrder'
  BY <1>2 DEF ServedInOrder
<1>7. TrueReplies'
  BY <1>2, <1>3 DEF TrueReplies
<1> QED BY <1>4, <1>5, <1>6, <1>7

(* TaskInv is inductive. *)
LEMMA TaskStep == TaskInv /\ [QueryNext]_queryVars => TaskInv'
<1> SUFFICES ASSUME TaskInv, [QueryNext]_queryVars
             PROVE  TaskInv'
  OBVIOUS
<1> USE QueryAssumption DEF TaskInv
<1>1. CASE Execute
  <2>1. /\ asked < MaxQueries /\ asked' = asked + 1 /\ tasks' = tasks \cup {asked + 1}
        /\ UNCHANGED <<active, phase, reply, posted, served, answer>>
    BY <1>1 DEF Execute
  <2>2. Typed'
    BY <2>1 DEF Typed
  <2>3. InOrder'
    BY <2>1 DEF Typed, InOrder, Queries, NoQuery
  <2>4. ServedInOrder' /\ TrueReplies'
    BY <2>1 DEF Typed, ServedInOrder, TrueReplies
  <2> QED BY <2>2, <2>3, <2>4
<1>2. ASSUME NEW q \in Queries, Begin(q) PROVE TaskInv'
  <2>1. /\ active = NoQuery /\ q \in tasks /\ (\A t \in tasks : q <= t)
        /\ tasks' = tasks \ {q} /\ active' = q /\ phase' = "resolve"
        /\ UNCHANGED <<asked, reply, posted, served, answer>>
    BY <1>2 DEF Begin, FirstOf
  <2>2. Typed'
    BY <2>1 DEF Typed, Queries, NoQuery
  <2>3. InOrder'
    BY <2>1 DEF Typed, InOrder, Queries, NoQuery
  <2>4. ServedInOrder' /\ TrueReplies'
    BY <2>1 DEF Typed, ServedInOrder, TrueReplies
  <2> QED BY <2>2, <2>3, <2>4
<1>3. ASSUME NEW q \in Queries, Finish(q) PROVE TaskInv'
  <2>1. /\ q \in posted /\ posted' = posted \ {q} /\ answer' = [answer EXCEPT ![q] = reply[q]]
        /\ UNCHANGED <<asked, tasks, active, phase, reply, served>>
    BY <1>3 DEF Finish, FirstOf
  <2>2. reply[q] \in Replies /\ reply[q] # "none" /\ answer'[q] = reply[q]
        /\ \A r \in Queries : r # q => answer'[r] = answer[r]
    BY <2>1 DEF Typed, TrueReplies, Replies
  <2>3. Typed'
    BY <2>1, <2>2 DEF Typed
  <2>4. q <= asked /\ q \notin tasks /\ q # active
    BY <2>1 DEF Typed, InOrder, NoQuery
  <2>5. InOrder'
    BY <2>1, <2>2, <2>4 DEF Typed, InOrder, Queries
  <2>6. ServedInOrder' /\ TrueReplies'
    BY <2>1 DEF ServedInOrder, TrueReplies
  <2> QED BY <2>3, <2>5, <2>6
<1>4. ASSUME NEW q \in Queries, Looking(q) PROVE TaskInv'
  <2>1. UNCHANGED <<asked, taskVars, served, answer>>
    BY <1>4, LookingLeaves
  <2> QED BY <2>1, LookupsApart
<1>5. CASE Resolved \/ OpenFails
  <2>1. /\ \/ phase = "resolve" /\ phase' = "connect"
           \/ phase = "connect" /\ phase' = "died"
        /\ UNCHANGED <<asked, tasks, active, reply, posted, served, answer>>
    BY <1>5 DEF Resolved, OpenFails
  <2> QED BY <2>1 DEF Typed, InOrder, ServedInOrder, TrueReplies
<1>6. CASE Unresolved \/ ConnectFails
  <2>1. Post("empty") /\ phase \in {"resolve", "connect"} /\ UNCHANGED served
    BY <1>6 DEF Unresolved, ConnectFails, PostFailure
  <2> QED BY <2>1, PostStep DEF Typed, Replies
<1>7. CASE Connected
  <2>1. /\ phase = "connect" /\ phase' = "read" /\ served' = served \cup {active}
        /\ UNCHANGED <<asked, tasks, active, reply, posted, answer>>
    BY <1>7 DEF Connected
  <2>2. Typed'
    BY <2>1 DEF Typed, NoQuery
  <2>3. InOrder' /\ TrueReplies'
    BY <2>1 DEF InOrder, TrueReplies
  <2>4. ServedInOrder'
    BY <2>1 DEF InOrder, ServedInOrder
  <2> QED BY <2>2, <2>3, <2>4
<1>8. CASE Reading
  <2>1. phase = "read" /\ UNCHANGED served /\ \E r \in Replies : Post(r)
    BY <1>8 DEF Reading, ReadAll, ReadFails, PostFailure, Replies
  <2> QED BY <2>1, PostStep DEF Typed, ServedInOrder
<1>9. CASE Elapse \/ UNCHANGED queryVars
  <2>1. UNCHANGED <<asked, taskVars, served, answer>>
    BY <1>9, Zenon DEF Elapse, queryVars
  <2> QED BY <2>1, LookupsApart
<1> QED BY <1>1, <1>2, <1>3, <1>4, <1>5, <1>6, <1>7, <1>8, <1>9, Zenon
        DEF QueryNext, Resolving, Connecting

(* TaskInv holds of the queries. *)
LEMMA TaskInvariant == QuerySpec => []TaskInv
BY TaskInitially, TaskStep, PTL DEF QuerySpec

-----------------------------------------------------------------------------
(* Every step of the queries is a step of the abstract service or leaves   *)
(* it alone.                                                               *)
LEMMA ServiceStep ==
  TaskInv /\ [QueryNext]_queryVars => [Service!ServiceNext]_(Service!serviceVars)
<1> SUFFICES ASSUME TaskInv, [QueryNext]_queryVars
             PROVE  Service!ServiceNext \/ UNCHANGED Service!serviceVars
  OBVIOUS
<1> USE QueryAssumption DEF TaskInv
<1>1. CASE Execute
  BY <1>1 DEF Execute, Service!ServiceNext, Service!MakeQuery
<1>2. ASSUME NEW q \in Queries, Finish(q) PROVE Service!ServiceNext
  <2>1. /\ q \in posted /\ (\A p \in posted : q <= p)
        /\ answer' = [answer EXCEPT ![q] = reply[q]] /\ UNCHANGED <<asked, served>>
    BY <1>2 DEF Finish, FirstOf
  <2>2. reply[q] \in {"response", "empty"} /\ (reply[q] = "response" => q \in served)
    BY <2>1 DEF TrueReplies, Replies
  <2>3. q \in Service!Unanswered
    BY <2>1 DEF Service!Unanswered, Typed, InOrder, Queries
  <2>4. ASSUME NEW r \in Service!Unanswered PROVE q <= r
    <3>1. r \in tasks \/ r = active \/ r \in posted
      BY <2>4 DEF Service!Unanswered, Typed, InOrder, Queries
    <3> QED BY <2>1, <2>4, <3>1 DEF Service!Unanswered, Typed, InOrder, NoQuery
  <2>5. Service!CallBack(q, reply[q])
    BY <2>1, <2>2, <2>3, <2>4 DEF Service!CallBack
  <2> QED BY <2>2, <2>5 DEF Service!ServiceNext, Service!Queries, Queries
<1>3. CASE Connected
  <2>1. phase = "connect" /\ served' = served \cup {active} /\ UNCHANGED <<asked, answer>>
    BY <1>3 DEF Connected
  <2>2. active \in 1..asked /\ active \in Queries
    BY <2>1 DEF Typed, NoQuery, Queries
  <2>3. active \in Service!Unanswered
    BY <2>2 DEF Service!Unanswered, InOrder
  <2>4. Service!Serve(active)
    BY <2>1, <2>3 DEF Service!Serve, ServedInOrder
  <2> QED BY <2>2, <2>4 DEF Service!ServiceNext, Service!Queries, Queries
<1>4. ASSUME NEW q \in Queries, Begin(q) \/ Looking(q) PROVE UNCHANGED Service!serviceVars
  BY <1>4, LookingLeaves, Zenon DEF Begin, Service!serviceVars
<1>5. CASE Resolving \/ OpenFails \/ ConnectFails \/ Reading
  BY <1>5, Zenon DEF Resolving, Resolved, Unresolved, OpenFails, ConnectFails, Reading, ReadAll, ReadFails,
                     PostFailure, Post, Service!serviceVars
<1>6. CASE Elapse \/ UNCHANGED queryVars
  BY <1>6, Zenon DEF Elapse, queryVars, Service!serviceVars
<1> QED BY <1>1, <1>2, <1>3, <1>4, <1>5, <1>6, Zenon DEF QueryNext, Connecting

(* The queries of the app are carried out one at a time and in the order   *)
(* of execute, and each client is called back once and truthfully, however *)
(* many queries there are and whatever the lookups do beside them.         *)
THEOREM QueriesImplementService == QuerySpec => ImplementsService
<1>1. QueryInit => Service!ServiceInit
  BY DEF QueryInit, Service!ServiceInit, Service!Queries, Queries
<1> QED BY <1>1, TaskInvariant, ServiceStep, PTL
        DEF QuerySpec, ImplementsService, Service!ServiceSpec

-----------------------------------------------------------------------------
(* The lookups and the cache they share.                                   *)

LookupTypes ==
  /\ host \in [Queries -> Hosts]
  /\ lookup \in [Queries -> LookupRecords]
  /\ dns_cache \in [Hosts -> {NoEntry} \cup Queries]
  /\ entry \in [Queries -> [addr : {NullAddr} \cup 0..MaxTime, timestamp : 0..MaxTime]]
  /\ now_sec \in 0..MaxTime

(* The entry of lookup e has been made, if it makes one at all. *)
PastGet(e) == lookup[e].pc \notin {"none", "start", "get"}

HasAddress(e) == entry[e].addr # NullAddr

(* Only entries that have been made, and have an address, are put.         *)
EntriesPut ==
  \A h \in Hosts : dns_cache[h] # NoEntry => PastGet(dns_cache[h]) /\ HasAddress(dns_cache[h])

(* No time is later than the clock, and no address older than the          *)
(* timestamp beside it.                                                    *)
EntriesDated ==
  \A e \in Queries :
    /\ entry[e].addr <= now_sec /\ entry[e].timestamp <= now_sec
    /\ HasAddress(e) => entry[e].addr >= entry[e].timestamp

(* What a lookup knows of the entry it shares: that it has been made; that *)
(* it has an address, from the find or the answer on; that the address     *)
(* which goes with a timestamp that counts is young enough; and that a     *)
(* timestamp to be written is not later than the address.                  *)
LookupSound(q) ==
  /\ lookup[q].now <= now_sec
  /\ lookup[q].pc \in {"check", "addr", "ask", "stamp", "put"} =>
       lookup[q].entry \in Queries /\ PastGet(lookup[q].entry)
  /\ lookup[q].pc \in {"check", "addr", "stamp", "put"} => HasAddress(lookup[q].entry)
  /\ lookup[q].pc = "addr" => entry[lookup[q].entry].addr > lookup[q].now - CacheTime
  /\ lookup[q].pc = "stamp" => entry[lookup[q].entry].addr >= lookup[q].now
  /\ lookup[q].pc \in {"stamp", "put", "done"} => lookup[q].addr > lookup[q].now - CacheTime

NotBegun == \A q \in Queries : q > asked \/ q \in tasks => lookup[q].pc = "none"

(* Where doInBackground is. *)
PhaseNamed == phase \in {"idle", "resolve", "connect", "read", "died"}

LookupInv ==
  /\ LookupTypes /\ EntriesPut /\ EntriesDated /\ NotBegun
  /\ \A q \in Queries : LookupSound(q)

(* Nothing has been looked up at first. *)
LEMMA LookupInitially == QueryInit => LookupInv
<1> SUFFICES ASSUME QueryInit PROVE LookupInv
  OBVIOUS
<1> USE QueryAssumption
<1>1. LookupTypes
  BY DEF QueryInit, LookupTypes, LookupRecords
<1>2. EntriesPut
  BY DEF QueryInit, EntriesPut
<1>3. EntriesDated
  BY DEF QueryInit, EntriesDated, HasAddress, NullAddr
<1>4. NotBegun
  BY DEF QueryInit, NotBegun
<1>5. \A q \in Queries : LookupSound(q)
  BY DEF QueryInit, LookupSound
<1> QED BY <1>1, <1>2, <1>3, <1>4, <1>5 DEF LookupInv

-----------------------------------------------------------------------------
(* What a step of one lookup does to the others.                           *)

(* Lookup q goes on, and the others stay where they are. *)
Becomes(q, pc, now, e, addr) ==
  /\ lookup' \in [Queries -> LookupRecords]
  /\ lookup'[q].pc = pc /\ lookup'[q].now = now
  /\ lookup'[q].entry = e /\ lookup'[q].addr = addr
  /\ \A r \in Queries : r # q => lookup'[r] = lookup[r]

(* Entries that have been made keep an address, and get only younger ones. *)
EntriesGrow ==
  \A e \in Queries : PastGet(e) =>
    /\ PastGet(e)'
    /\ HasAddress(e) => HasAddress(e)' /\ entry'[e].addr >= entry[e].addr

(* Then what a lookup knows that does not go on stays true.                *)
LEMMA SoundStays ==
  ASSUME LookupTypes, LookupTypes', NEW q \in Queries, LookupSound(q), lookup'[q] = lookup[q],
         EntriesGrow, now_sec' >= now_sec
  PROVE  LookupSound(q)'
<1> USE QueryAssumption
<1>0. PICK e : e = lookup[q].entry
  OBVIOUS
<1>1. /\ lookup[q].now \in Int /\ now_sec \in Int /\ now_sec' \in Int /\ CacheTime \in Int
  BY DEF LookupTypes, LookupRecords
<1>2. \A i \in Queries : entry[i].addr \in Int /\ entry'[i].addr \in Int
  BY DEF LookupTypes, NullAddr
<1>3. ASSUME lookup[q].pc \in {"check", "addr", "ask", "stamp", "put"}
      PROVE  e \in Queries /\ PastGet(e) /\ PastGet(e)'
  <2>1. e \in Queries /\ PastGet(e)
    BY <1>0, <1>3, Zenon DEF LookupSound
  <2> QED BY <2>1, Zenon DEF EntriesGrow
<1>4. ASSUME lookup[q].pc \in {"check", "addr", "stamp", "put"}
      PROVE  HasAddress(e)' /\ entry'[e].addr >= entry[e].addr
  <2>1. HasAddress(e) /\ e \in Queries /\ PastGet(e)
    BY <1>0, <1>3, <1>4, Zenon DEF LookupSound
  <2> QED BY <2>1, Zenon DEF EntriesGrow
<1>5. lookup'[q].entry = e /\ lookup'[q].pc = lookup[q].pc /\ lookup'[q].now = lookup[q].now
      /\ lookup'[q].addr = lookup[q].addr
  BY <1>0
<1>6. /\ lookup[q].now <= now_sec
      /\ lookup[q].pc = "addr" => entry[e].addr > lookup[q].now - CacheTime
      /\ lookup[q].pc = "stamp" => entry[e].addr >= lookup[q].now
      /\ lookup[q].pc \in {"stamp", "put", "done"} => lookup[q].addr > lookup[q].now - CacheTime
  BY <1>0, Zenon DEF LookupSound
<1>8. lookup'[q].now <= now_sec'
  BY <1>1, <1>5, <1>6
<1>9. lookup'[q].pc = "addr" => entry'[e].addr > lookup'[q].now - CacheTime
  BY <1>1, <1>2, <1>3, <1>4, <1>5, <1>6
<1>10. lookup'[q].pc = "stamp" => entry'[e].addr >= lookup'[q].now
  BY <1>1, <1>2, <1>3, <1>4, <1>5, <1>6
<1>11. lookup'[q].pc \in {"check", "addr", "ask", "stamp", "put"} =>
         e \in Queries /\ lookup'[e].pc \notin {"none", "start", "get"}
  BY <1>3, <1>5 DEF PastGet
<1>12. lookup'[q].pc \in {"check", "addr", "stamp", "put"} => entry'[e].addr # NullAddr
  BY <1>4, <1>5 DEF HasAddress
<1> QED BY <1>5, <1>6, <1>8, <1>9, <1>10, <1>11, <1>12 DEF LookupSound, PastGet, HasAddress

(* A step of one lookup keeps LookupInv when it keeps what that lookup     *)
(* knows.                                                                  *)
LEMMA OneLookup ==
  ASSUME LookupInv, NEW q \in Queries, NEW pc, NEW now, NEW e, NEW addr,
         Becomes(q, pc, now, e, addr), LookupTypes', EntriesPut', EntriesDated', EntriesGrow,
         LookupSound(q)', now_sec' = now_sec,
         q \notin tasks', ~(q > asked), asked' = asked, tasks' \subseteq tasks
  PROVE  LookupInv'
<1> USE DEF LookupInv
<1>1. now_sec' >= now_sec
  BY DEF LookupTypes
<1>2. \A r \in Queries : LookupSound(r)'
  <2>1. ASSUME NEW r \in Queries, r # q PROVE LookupSound(r)'
    <3>1. lookup'[r] = lookup[r]
      BY <2>1 DEF Becomes
    <3> QED BY <1>1, <3>1, SoundStays
  <2> QED BY <2>1
<1>3. NotBegun'
  BY DEF NotBegun, Becomes, Queries
<1> QED BY <1>2, <1>3

(* The rest of the task leaves the lookups alone, and the clock only goes  *)
(* on.                                                                     *)
LEMMA LookupsWait ==
  ASSUME LookupInv, UNCHANGED <<host, lookup, dns_cache, entry>>,
         now_sec' \in 0..MaxTime, now_sec' >= now_sec, NotBegun'
  PROVE  LookupInv'
<1> USE QueryAssumption DEF LookupInv
<1>1. LookupTypes'
  BY DEF LookupTypes
<1>2. EntriesPut'
  BY DEF EntriesPut, PastGet, HasAddress
<1>3. now_sec \in Int /\ now_sec' \in Int
      /\ \A e \in Queries : entry[e].addr \in Int /\ entry[e].timestamp \in Int
  BY DEF LookupTypes, NullAddr
<1>4. EntriesDated'
  BY <1>3 DEF EntriesDated, HasAddress
<1>5. EntriesGrow
  BY <1>3 DEF EntriesGrow, PastGet, HasAddress
<1>6. \A q \in Queries : LookupSound(q)'
  BY <1>1, <1>5, SoundStays
<1> QED BY <1>1, <1>2, <1>4, <1>6

-----------------------------------------------------------------------------
(* The steps of a lookup.                                                  *)

(* What the fields of a lookup hold. *)
LEMMA LookupFields ==
  ASSUME LookupTypes, NEW q \in Queries
  PROVE  /\ lookup[q].now \in 0..MaxTime /\ now_sec \in 0..MaxTime /\ MaxTime \in Nat
         /\ lookup[q].entry \in {NoEntry} \cup Queries
         /\ lookup[q].addr \in {NullAddr} \cup 0..MaxTime
         /\ \A e \in Queries : /\ entry[e].addr \in {NullAddr} \cup 0..MaxTime
                               /\ entry[e].timestamp \in 0..MaxTime
         /\ CacheTime \in Nat \ {0}
BY QueryAssumption DEF LookupTypes, LookupRecords

(* A lookup with one field changed. *)
WithPc(rec, pc)     == [rec EXCEPT !.pc = pc]
WithNow(rec, now)   == [rec EXCEPT !.now = now]
WithEntry(rec, e)   == [rec EXCEPT !.entry = e]
WithAddr(rec, addr) == [rec EXCEPT !.addr = addr]

Steps == {"start", "get", "check", "addr", "ask", "stamp", "put", "done", "failed"}

(* A changed field keeps its type when its value has it, and the others    *)
(* their values.                                                           *)
LEMMA PcSet ==
  ASSUME NEW rec \in LookupRecords, NEW pc \in Steps
  PROVE  /\ WithPc(rec, pc) \in LookupRecords /\ WithPc(rec, pc).pc = pc
         /\ WithPc(rec, pc).now = rec.now /\ WithPc(rec, pc).entry = rec.entry
         /\ WithPc(rec, pc).addr = rec.addr
BY DEF LookupRecords, WithPc, Steps

(* So does a changed time. *)
LEMMA NowSet ==
  ASSUME NEW rec \in LookupRecords, NEW now \in 0..MaxTime
  PROVE  /\ WithNow(rec, now) \in LookupRecords /\ WithNow(rec, now).pc = rec.pc
         /\ WithNow(rec, now).now = now /\ WithNow(rec, now).entry = rec.entry
         /\ WithNow(rec, now).addr = rec.addr
BY DEF LookupRecords, WithNow

(* A changed entry. *)
LEMMA EntrySet ==
  ASSUME NEW rec \in LookupRecords, NEW e \in Queries
  PROVE  /\ WithEntry(rec, e) \in LookupRecords /\ WithEntry(rec, e).pc = rec.pc
         /\ WithEntry(rec, e).now = rec.now /\ WithEntry(rec, e).entry = e
         /\ WithEntry(rec, e).addr = rec.addr
BY DEF LookupRecords, WithEntry

(* A changed address. *)
LEMMA AddrSet ==
  ASSUME NEW rec \in LookupRecords, NEW addr \in {NullAddr} \cup 0..MaxTime
  PROVE  /\ WithAddr(rec, addr) \in LookupRecords /\ WithAddr(rec, addr).pc = rec.pc
         /\ WithAddr(rec, addr).now = rec.now /\ WithAddr(rec, addr).entry = rec.entry
         /\ WithAddr(rec, addr).addr = addr
BY DEF LookupRecords, WithAddr

(* A lookup takes on the fields of a record. *)
LEMMA RecordBecomes ==
  ASSUME LookupTypes, NEW q \in Queries, NEW rec \in LookupRecords,
         lookup' = [lookup EXCEPT ![q] = rec],
         NEW pc, NEW now, NEW e, NEW addr,
         rec.pc = pc, rec.now = now, rec.entry = e, rec.addr = addr
  PROVE  Becomes(q, pc, now, e, addr)
BY DEF LookupTypes, Becomes

(* A step that only moves on. *)
LEMMA PcBecomes ==
  ASSUME LookupTypes, NEW q \in Queries, NEW pc \in Steps,
         lookup' = [lookup EXCEPT ![q].pc = pc]
  PROVE  Becomes(q, pc, lookup[q].now, lookup[q].entry, lookup[q].addr)
<1>1. PICK rec : rec = WithPc(lookup[q], pc)
  OBVIOUS
<1>2. lookup[q] \in LookupRecords
  BY DEF LookupTypes
<1>3. lookup' = [lookup EXCEPT ![q] = rec]
  BY <1>1 DEF WithPc
<1>4. rec \in LookupRecords /\ rec.pc = pc /\ rec.now = lookup[q].now
      /\ rec.entry = lookup[q].entry /\ rec.addr = lookup[q].addr
  BY <1>1, <1>2, PcSet
<1> QED BY <1>3, <1>4, RecordBecomes, Zenon

(* One that also reads the clock. *)
LEMMA NowBecomes ==
  ASSUME LookupTypes, NEW q \in Queries,
         lookup' = [lookup EXCEPT ![q].pc = "get", ![q].now = now_sec]
  PROVE  Becomes(q, "get", now_sec, lookup[q].entry, lookup[q].addr)
<1>1. PICK got : got = WithPc(lookup[q], "get")
  OBVIOUS
<1>2. PICK rec : rec = WithNow(got, now_sec)
  OBVIOUS
<1>3. lookup[q] \in LookupRecords /\ now_sec \in 0..MaxTime
  BY DEF LookupTypes
<1>4. got \in LookupRecords /\ got.pc = "get" /\ got.entry = lookup[q].entry
      /\ got.addr = lookup[q].addr
  BY <1>1, <1>3, PcSet DEF Steps
<1>5. lookup' = [lookup EXCEPT ![q] = rec]
  BY <1>1, <1>2 DEF WithPc, WithNow
<1>6. rec \in LookupRecords /\ rec.pc = "get" /\ rec.now = now_sec
      /\ rec.entry = lookup[q].entry /\ rec.addr = lookup[q].addr
  BY <1>2, <1>3, <1>4, NowSet
<1> QED BY <1>5, <1>6, RecordBecomes, Zenon

(* One that also takes an entry. *)
LEMMA EntryBecomes ==
  ASSUME LookupTypes, NEW q \in Queries, NEW e \in Queries, NEW pc \in Steps,
         lookup' = [lookup EXCEPT ![q].pc = pc, ![q].entry = e]
  PROVE  Becomes(q, pc, lookup[q].now, e, lookup[q].addr)
<1>1. PICK moved : moved = WithPc(lookup[q], pc)
  OBVIOUS
<1>2. PICK rec : rec = WithEntry(moved, e)
  OBVIOUS
<1>3. lookup[q] \in LookupRecords
  BY DEF LookupTypes
<1>4. moved \in LookupRecords /\ moved.pc = pc /\ moved.now = lookup[q].now
      /\ moved.addr = lookup[q].addr
  BY <1>1, <1>3, PcSet
<1>5. lookup' = [lookup EXCEPT ![q] = rec]
  BY <1>1, <1>2 DEF WithPc, WithEntry
<1>6. rec \in LookupRecords /\ rec.pc = pc /\ rec.now = lookup[q].now
      /\ rec.entry = e /\ rec.addr = lookup[q].addr
  BY <1>2, <1>4, EntrySet
<1> QED BY <1>5, <1>6, RecordBecomes, Zenon

(* One that also takes an address. *)
LEMMA AddrBecomes ==
  ASSUME LookupTypes, NEW q \in Queries, NEW pc \in Steps,
         NEW addr \in {NullAddr} \cup 0..MaxTime,
         lookup' = [lookup EXCEPT ![q].pc = pc, ![q].addr = addr]
  PROVE  Becomes(q, pc, lookup[q].now, lookup[q].entry, addr)
<1>1. PICK moved : moved = WithPc(lookup[q], pc)
  OBVIOUS
<1>2. PICK rec : rec = WithAddr(moved, addr)
  OBVIOUS
<1>3. lookup[q] \in LookupRecords
  BY DEF LookupTypes
<1>4. moved \in LookupRecords /\ moved.pc = pc /\ moved.now = lookup[q].now
      /\ moved.entry = lookup[q].entry
  BY <1>1, <1>3, PcSet
<1>5. lookup' = [lookup EXCEPT ![q] = rec]
  BY <1>1, <1>2 DEF WithPc, WithAddr
<1>6. rec \in LookupRecords /\ rec.pc = pc /\ rec.now = lookup[q].now
      /\ rec.entry = lookup[q].entry /\ rec.addr = addr
  BY <1>2, <1>4, AddrSet
<1> QED BY <1>5, <1>6, RecordBecomes, Zenon

(* What lookup q knows after its step. *)
LEMMA SoundNext ==
  ASSUME NEW q \in Queries, NEW pc, NEW now, NEW e, NEW addr, Becomes(q, pc, now, e, addr),
         now <= now_sec',
         pc \in {"check", "addr", "ask", "stamp", "put"} => e \in Queries /\ PastGet(e)',
         pc \in {"check", "addr", "stamp", "put"} => HasAddress(e)',
         pc = "addr" => entry'[e].addr > now - CacheTime,
         pc = "stamp" => entry'[e].addr >= now,
         pc \in {"stamp", "put", "done"} => addr > now - CacheTime
  PROVE  LookupSound(q)'
BY DEF LookupSound, Becomes, PastGet, HasAddress

(* The entries are kept by a step of lookup q that leaves them alone.      *)
LEMMA MovesOn ==
  ASSUME LookupInv, NEW q \in Queries, NEW pc, NEW now, NEW e, NEW addr,
         Becomes(q, pc, now, e, addr), PastGet(q) => pc \notin {"none", "start", "get"},
         UNCHANGED <<host, dns_cache, entry, now_sec>>
  PROVE  LookupTypes' /\ EntriesPut' /\ EntriesDated' /\ EntriesGrow
<1> USE QueryAssumption DEF LookupInv
<1>1. \A r \in Queries : PastGet(r) => PastGet(r)'
  BY DEF Becomes, PastGet
<1>2. LookupTypes'
  BY DEF LookupTypes, Becomes
<1>3. EntriesPut'
  <2>1. \A h \in Hosts : dns_cache[h] # NoEntry => dns_cache[h] \in Queries
    BY DEF LookupTypes
  <2> QED BY <1>1, <2>1 DEF EntriesPut, HasAddress, PastGet
<1>4. EntriesDated'
  BY DEF EntriesDated, HasAddress
<1>5. EntriesGrow
  <2>1. \A r \in Queries : entry[r].addr \in Int
    BY DEF LookupTypes, NullAddr
  <2> QED BY <1>1, <2>1 DEF EntriesGrow, HasAddress
<1> QED BY <1>2, <1>3, <1>4, <1>5

(* They are kept when one of them, i, is changed that nobody has put, or   *)
(* that gets a younger address, or a timestamp not later than its address. *)
LEMMA Changes ==
  ASSUME LookupInv, NEW q \in Queries, NEW pc, NEW now, NEW e, NEW addr,
         Becomes(q, pc, now, e, addr), PastGet(q) => pc \notin {"none", "start", "get"},
         UNCHANGED <<host, dns_cache, now_sec>>,
         NEW i \in Queries,
         entry' \in [Queries -> [addr : {NullAddr} \cup 0..MaxTime, timestamp : 0..MaxTime]],
         \A r \in Queries : r # i => entry'[r] = entry[r],
         PastGet(i) /\ HasAddress(i) => HasAddress(i)' /\ entry'[i].addr >= entry[i].addr,
         entry'[i].addr <= now_sec, entry'[i].timestamp <= now_sec,
         HasAddress(i)' => entry'[i].addr >= entry'[i].timestamp
  PROVE  LookupTypes' /\ EntriesPut' /\ EntriesDated' /\ EntriesGrow
<1> USE QueryAssumption DEF LookupInv
<1>1. \A r \in Queries : PastGet(r) => PastGet(r)'
  BY DEF Becomes, PastGet
<1>2. LookupTypes'
  BY DEF LookupTypes, Becomes
<1>3. EntriesDated'
  BY DEF EntriesDated, HasAddress
<1>4. EntriesGrow
  <2>1. \A r \in Queries : entry[r].addr \in Int
    BY DEF LookupTypes, NullAddr
  <2>2. ASSUME NEW r \in Queries, PastGet(r), HasAddress(r)
        PROVE  HasAddress(r)' /\ entry'[r].addr >= entry[r].addr
    <3>1. CASE r = i
      BY <2>2, <3>1
    <3>2. CASE r # i
      BY <2>1, <2>2, <3>2 DEF HasAddress
    <3> QED BY <3>1, <3>2
  <2> QED BY <1>1, <2>2, Zenon DEF EntriesGrow
<1>5. EntriesPut'
  <2>1. ASSUME NEW h \in Hosts, dns_cache'[h] # NoEntry
        PROVE  (PastGet(dns_cache[h]) /\ HasAddress(dns_cache[h]))'
    <3>1. PICK f : f = dns_cache[h]
      OBVIOUS
    <3>2. f \in Queries /\ PastGet(f) /\ HasAddress(f) /\ dns_cache'[h] = f
      BY <2>1, <3>1 DEF EntriesPut, LookupTypes
    <3>3. PastGet(f)' /\ HasAddress(f)'
      BY <1>4, <3>2, Zenon DEF EntriesGrow
    <3> QED BY <3>2, <3>3 DEF PastGet, HasAddress
  <2> QED BY <2>1 DEF EntriesPut
<1> QED BY <1>2, <1>3, <1>4, <1>5

(* execute's number is past, and the task is not queued any more, once its *)
(* lookup has begun.                                                       *)
LEMMA HasBegun ==
  ASSUME LookupInv, NEW q \in Queries, lookup[q].pc # "none", UNCHANGED <<asked, tasks>>
  PROVE  q \notin tasks' /\ ~(q > asked) /\ asked' = asked /\ tasks' \subseteq tasks
BY DEF LookupInv, NotBegun

(* An address at least as young as a timestamp that counts is young enough. *)
LEMMA CountsBound ==
  ASSUME NEW now \in 0..MaxTime, NEW stamp \in 0..MaxTime, NEW addr \in Int,
         addr >= stamp, now - stamp < CacheTime
  PROVE  addr > now - CacheTime
BY QueryAssumption

(* The task starts its lookup thread. *)
LEMMA BeginKeepsLookups ==
  ASSUME TaskInv, LookupInv, NEW q \in Queries, Begin(q)
  PROVE  LookupInv'
<1> USE QueryAssumption
<1>1. /\ q \in tasks /\ tasks' = tasks \ {q} /\ lookup' = [lookup EXCEPT ![q].pc = "start"]
      /\ UNCHANGED <<asked, host, dns_cache, entry, now_sec>>
  BY DEF Begin, FirstOf
<1>2. LookupTypes /\ lookup[q].pc = "none" /\ ~PastGet(q) /\ lookup[q].now <= now_sec
  BY <1>1 DEF LookupInv, NotBegun, PastGet, LookupSound
<1>3. Becomes(q, "start", lookup[q].now, lookup[q].entry, lookup[q].addr)
  BY <1>1, <1>2, PcBecomes DEF Steps
<1>4. LookupTypes' /\ EntriesPut' /\ EntriesDated' /\ EntriesGrow
  BY <1>1, <1>2, <1>3, MovesOn
<1>5. LookupSound(q)'
  BY <1>1, <1>2, <1>3, SoundNext
<1>6. q \notin tasks' /\ ~(q > asked) /\ asked' = asked /\ tasks' \subseteq tasks
  BY <1>1 DEF TaskInv, Typed
<1> QED BY <1>1, <1>3, <1>4, <1>5, <1>6, OneLookup

(* The steps of a lookup that leave the entries and the cache alone.       *)
LEMMA MovingKeepsLookups ==
  ASSUME LookupInv, NEW q \in Queries,
         LookupStart(q) \/ LookupCheck(q) \/ LookupAddr(q) \/ LookupFailed(q)
  PROVE  LookupInv'
<1> USE QueryAssumption
<1>1. /\ LookupTypes /\ EntriesDated /\ LookupSound(q)
      /\ UNCHANGED <<asked, tasks, host, dns_cache, entry, now_sec>>
      /\ lookup[q].pc \in {"start", "check", "addr", "ask"}
  BY DEF LookupInv, LookupStart, LookupCheck, LookupAddr, LookupFailed, LookupStep, taskVars
<1>2. PICK e : e = lookup[q].entry
  OBVIOUS
<1>3. PICK t : t = lookup[q].now
  OBVIOUS
<1>4. /\ t \in 0..MaxTime /\ now_sec \in 0..MaxTime /\ t <= now_sec
      /\ lookup[q].addr \in {NullAddr} \cup 0..MaxTime
      /\ \A i \in Queries : /\ entry[i].addr \in {NullAddr} \cup 0..MaxTime
                            /\ entry[i].timestamp \in 0..MaxTime
  BY <1>1, <1>3, LookupFields DEF LookupSound
<1>5. lookup[q].pc # "start" => e \in Queries /\ PastGet(e) /\ PastGet(q)
  BY <1>1, <1>2 DEF LookupSound, PastGet
<1>6. q \notin tasks' /\ ~(q > asked) /\ asked' = asked /\ tasks' \subseteq tasks
  BY <1>1, HasBegun
<1>7. ASSUME NEW pc, NEW now, NEW addr, Becomes(q, pc, now, e, addr),
             lookup[q].pc # "start" => pc \notin {"none", "start", "get"}, now <= now_sec,
             pc \in {"get", "addr", "ask", "put", "failed"},
             lookup[q].pc = "start" => pc = "get",
             pc \in {"addr", "put"} => HasAddress(e),
             pc = "addr" => entry[e].addr > now - CacheTime,
             pc = "put" => addr > now - CacheTime
      PROVE  LookupInv'
  <2>1. PastGet(q) => pc \notin {"none", "start", "get"}
    BY <1>7 DEF PastGet
  <2>2. LookupTypes' /\ EntriesPut' /\ EntriesDated' /\ EntriesGrow
    BY <1>1, <1>7, <2>1, MovesOn
  <2>3. pc # "get" => e \in Queries /\ PastGet(e)'
    BY <1>5, <1>7, <2>2 DEF EntriesGrow
  <2>4. HasAddress(e) => HasAddress(e)'
    BY <1>1 DEF HasAddress
  <2>5. entry'[e].addr = entry[e].addr /\ now_sec' = now_sec
    BY <1>1
  <2>6. LookupSound(q)'
    BY <1>7, <2>3, <2>4, <2>5, SoundNext
  <2> QED BY <1>1, <1>6, <1>7, <2>2, <2>6, OneLookup
<1>8. CASE LookupStart(q)
  <2>1. lookup[q].pc = "start" /\ lookup' = [lookup EXCEPT ![q].pc = "get", ![q].now = now_sec]
    BY <1>8 DEF LookupStart, LookupStep
  <2>2. Becomes(q, "get", now_sec, e, lookup[q].addr)
    BY <1>1, <1>2, <2>1, NowBecomes
  <2> QED BY <1>4, <1>7, <2>1, <2>2
<1>9. CASE LookupCheck(q)
  <2>1. PICK pc \in {"addr", "ask"} :
          /\ lookup' = [lookup EXCEPT ![q].pc = pc] /\ (pc = "addr" => IsFresh(e, t))
    BY <1>2, <1>3, <1>9 DEF LookupCheck
  <2>2. lookup[q].pc = "check" /\ HasAddress(e) /\ e \in Queries
    BY <1>1, <1>2, <1>5, <1>9 DEF LookupCheck, LookupStep, LookupSound
  <2>3. Becomes(q, pc, t, e, lookup[q].addr)
    BY <1>1, <1>2, <1>3, <2>1, PcBecomes DEF Steps
  <2>4. pc = "addr" => entry[e].addr > t - CacheTime
    <3>1. entry[e].addr \in Int /\ entry[e].addr >= entry[e].timestamp
      BY <1>1, <1>4, <2>2 DEF EntriesDated, NullAddr
    <3> QED BY <1>4, <2>1, <2>2, <3>1, CountsBound DEF IsFresh
  <2> QED BY <1>4, <1>7, <2>1, <2>2, <2>3, <2>4
<1>10. CASE LookupAddr(q)
  <2>0. PICK a : a = entry[e].addr
    OBVIOUS
  <2>1. PICK pc \in {"put", "ask"} :
          /\ pc = "put" => a # NullAddr
          /\ lookup' = [lookup EXCEPT ![q].pc = pc, ![q].addr = a]
    <3>1. lookup' = [lookup EXCEPT ![q].addr = entry[e].addr,
                       ![q].pc = IF entry[e].addr = NullAddr THEN "ask" ELSE "put"]
      BY <1>2, <1>10 DEF LookupAddr
    <3>2. PICK pc : pc = IF a = NullAddr THEN "ask" ELSE "put"
      OBVIOUS
    <3>3. lookup' = [lookup EXCEPT ![q].pc = pc, ![q].addr = a]
      BY <1>1, <2>0, <3>1, <3>2 DEF LookupTypes, LookupRecords
    <3>4. pc \in {"put", "ask"} /\ (pc = "put" => a # NullAddr)
      BY <3>2
    <3> QED BY <3>3, <3>4, Zenon
  <2>2. lookup[q].pc = "addr" /\ HasAddress(e) /\ e \in Queries
        /\ entry[e].addr > t - CacheTime
    BY <1>1, <1>2, <1>3, <1>5, <1>10 DEF LookupAddr, LookupStep, LookupSound
  <2>3. Becomes(q, pc, t, e, a)
    BY <1>1, <1>2, <1>3, <1>4, <2>0, <2>1, <2>2, AddrBecomes DEF Steps
  <2> QED BY <1>4, <1>7, <2>0, <2>1, <2>2, <2>3
<1>11. CASE LookupFailed(q)
  <2>1. lookup[q].pc = "ask" /\ lookup' = [lookup EXCEPT ![q].pc = "failed"]
    BY <1>11 DEF LookupFailed, LookupStep
  <2>2. Becomes(q, "failed", t, e, lookup[q].addr)
    BY <1>1, <1>2, <1>3, <2>1, PcBecomes DEF Steps
  <2> QED BY <1>4, <1>7, <2>1, <2>2
<1> QED BY <1>8, <1>9, <1>10, <1>11

(* A lookup that misses the cache makes an entry, which nobody shares yet; *)
(* one that finds an entry takes one that has been put.                    *)
LEMMA GetKeepsLookups ==
  ASSUME LookupInv, NEW q \in Queries, LookupGet(q)
  PROVE  LookupInv'
<1> USE QueryAssumption
<1>1. /\ LookupTypes /\ EntriesPut /\ LookupSound(q)
      /\ lookup[q].pc = "get" /\ ~PastGet(q)
      /\ UNCHANGED <<asked, tasks, host, dns_cache, now_sec>>
  BY DEF LookupInv, LookupGet, LookupStep, taskVars, PastGet
<1>2. /\ lookup[q].now \in 0..MaxTime /\ now_sec \in 0..MaxTime /\ lookup[q].now <= now_sec
  BY <1>1, LookupFields DEF LookupSound
<1>3. q \notin tasks' /\ ~(q > asked) /\ asked' = asked /\ tasks' \subseteq tasks
  BY <1>1, HasBegun
<1>4. PICK f \in Found(q) :
        IF f = NoEntry
        THEN /\ lookup' = [lookup EXCEPT ![q].pc = "ask", ![q].entry = q]
             /\ entry' = [entry EXCEPT ![q] = [addr |-> NullAddr, timestamp |-> lookup[q].now]]
        ELSE /\ lookup' = [lookup EXCEPT ![q].pc = "check", ![q].entry = f]
             /\ UNCHANGED entry
  BY DEF LookupGet
<1>5. CASE f = NoEntry
  <2>1. Becomes(q, "ask", lookup[q].now, q, lookup[q].addr)
    BY <1>1, <1>4, <1>5, EntryBecomes DEF Steps
  <2>2. /\ entry' \in [Queries -> [addr : {NullAddr} \cup 0..MaxTime, timestamp : 0..MaxTime]]
        /\ entry'[q].addr = NullAddr /\ entry'[q].timestamp = lookup[q].now
        /\ \A r \in Queries : r # q => entry'[r] = entry[r]
    <3>1. PICK made : made = [addr |-> NullAddr, timestamp |-> lookup[q].now]
      OBVIOUS
    <3>2. /\ made \in [addr : {NullAddr} \cup 0..MaxTime, timestamp : 0..MaxTime]
          /\ made.addr = NullAddr /\ made.timestamp = lookup[q].now
      BY <1>2, <3>1
    <3>3. entry' = [entry EXCEPT ![q] = made]
      BY <1>4, <1>5, <3>1
    <3> QED BY <1>1, <3>2, <3>3 DEF LookupTypes
  <2>3. ~HasAddress(q)' /\ entry'[q].addr <= now_sec /\ entry'[q].timestamp <= now_sec
    BY <1>2, <2>2 DEF HasAddress, NullAddr
  <2>4. LookupTypes' /\ EntriesPut' /\ EntriesDated' /\ EntriesGrow
    BY <1>1, <2>1, <2>2, <2>3, Changes
  <2>5. PastGet(q)'
    BY <2>1 DEF Becomes, PastGet
  <2>6. LookupSound(q)'
    BY <1>1, <1>2, <2>1, <2>5, SoundNext
  <2> QED BY <1>1, <1>3, <2>1, <2>4, <2>6, OneLookup
<1>6. CASE f # NoEntry
  <2>1. f = dns_cache[host[q]] /\ host[q] \in Hosts
    BY <1>1, <1>6 DEF Found, LookupTypes
  <2>2. f \in Queries /\ PastGet(f) /\ HasAddress(f)
    BY <1>1, <1>6, <2>1 DEF EntriesPut, LookupTypes
  <2>3. Becomes(q, "check", lookup[q].now, f, lookup[q].addr)
    BY <1>1, <1>4, <1>6, <2>2, EntryBecomes DEF Steps
  <2>4. LookupTypes' /\ EntriesPut' /\ EntriesDated' /\ EntriesGrow
    BY <1>1, <1>4, <1>6, <2>3, MovesOn
  <2>5. PastGet(f)' /\ HasAddress(f)'
    BY <2>2, <2>4 DEF EntriesGrow
  <2>6. LookupSound(q)'
    BY <1>1, <1>2, <2>2, <2>3, <2>5, SoundNext
  <2> QED BY <1>1, <1>3, <2>3, <2>4, <2>6, OneLookup
<1> QED BY <1>5, <1>6

(* The name service's answer is written to the entry, shared or not: it    *)
(* makes the entry younger.                                                *)
LEMMA AnsweredKeepsLookups ==
  ASSUME LookupInv, NEW q \in Queries, LookupAnswered(q)
  PROVE  LookupInv'
<1> USE QueryAssumption
<1>1. /\ LookupTypes /\ EntriesDated /\ LookupSound(q)
      /\ lookup[q].pc = "ask"
      /\ lookup' = [lookup EXCEPT ![q].pc = "stamp", ![q].addr = now_sec]
      /\ entry' = [entry EXCEPT ![lookup[q].entry].addr = now_sec]
      /\ UNCHANGED <<asked, tasks, host, dns_cache, now_sec>>
  BY DEF LookupInv, LookupAnswered, LookupStep, taskVars
<1>2. PICK e : e = lookup[q].entry
  OBVIOUS
<1>3. e \in Queries /\ PastGet(e)
  BY <1>1, <1>2 DEF LookupSound
<1>4. /\ lookup[q].now \in 0..MaxTime /\ now_sec \in 0..MaxTime /\ lookup[q].now <= now_sec
      /\ CacheTime \in Nat \ {0} /\ now_sec # NullAddr
      /\ \A i \in Queries : /\ entry[i].addr \in {NullAddr} \cup 0..MaxTime
                            /\ entry[i].timestamp \in 0..MaxTime
  BY <1>1, LookupFields DEF LookupSound, NullAddr
<1>5. q \notin tasks' /\ ~(q > asked) /\ asked' = asked /\ tasks' \subseteq tasks
  BY <1>1, HasBegun
<1>6. Becomes(q, "stamp", lookup[q].now, e, now_sec)
  BY <1>1, <1>2, <1>4, AddrBecomes DEF Steps
<1>7. /\ entry' \in [Queries -> [addr : {NullAddr} \cup 0..MaxTime, timestamp : 0..MaxTime]]
      /\ entry'[e].addr = now_sec /\ entry'[e].timestamp = entry[e].timestamp
      /\ \A r \in Queries : r # e => entry'[r] = entry[r]
  BY <1>1, <1>2, <1>3, <1>4 DEF LookupTypes
<1>8. /\ HasAddress(e)' /\ entry'[e].addr >= entry[e].addr /\ entry'[e].addr <= now_sec
      /\ entry'[e].timestamp <= now_sec /\ entry'[e].addr >= entry'[e].timestamp
  BY <1>1, <1>3, <1>4, <1>7 DEF HasAddress, EntriesDated, NullAddr
<1>9. LookupTypes' /\ EntriesPut' /\ EntriesDated' /\ EntriesGrow
  BY <1>1, <1>3, <1>6, <1>7, <1>8, Changes
<1>10. PastGet(e)'
  BY <1>3, <1>9 DEF EntriesGrow
<1>11. now_sec > lookup[q].now - CacheTime /\ entry'[e].addr >= lookup[q].now
       /\ lookup[q].now <= now_sec'
  BY <1>1, <1>4, <1>7
<1>12. LookupSound(q)'
  BY <1>3, <1>6, <1>8, <1>10, <1>11, SoundNext
<1> QED BY <1>1, <1>5, <1>6, <1>9, <1>12, OneLookup

(* The timestamp written is not later than the address, which another      *)
(* lookup may have written since.                                          *)
LEMMA StampKeepsLookups ==
  ASSUME LookupInv, NEW q \in Queries, LookupStamp(q)
  PROVE  LookupInv'
<1> USE QueryAssumption
<1>1. /\ LookupTypes /\ EntriesDated /\ LookupSound(q)
      /\ lookup[q].pc = "stamp"
      /\ lookup' = [lookup EXCEPT ![q].pc = "put"]
      /\ entry' = [entry EXCEPT ![lookup[q].entry].timestamp = lookup[q].now]
      /\ UNCHANGED <<asked, tasks, host, dns_cache, now_sec>>
  BY DEF LookupInv, LookupStamp, LookupStep, taskVars
<1>2. PICK e : e = lookup[q].entry
  OBVIOUS
<1>3. /\ e \in Queries /\ PastGet(e) /\ HasAddress(e)
      /\ entry[e].addr >= lookup[q].now /\ lookup[q].addr > lookup[q].now - CacheTime
  BY <1>1, <1>2 DEF LookupSound
<1>4. /\ lookup[q].now \in 0..MaxTime /\ now_sec \in 0..MaxTime /\ lookup[q].now <= now_sec
      /\ \A i \in Queries : /\ entry[i].addr \in {NullAddr} \cup 0..MaxTime
                            /\ entry[i].timestamp \in 0..MaxTime
  BY <1>1, LookupFields DEF LookupSound
<1>5. q \notin tasks' /\ ~(q > asked) /\ asked' = asked /\ tasks' \subseteq tasks
  BY <1>1, HasBegun
<1>6. Becomes(q, "put", lookup[q].now, e, lookup[q].addr)
  BY <1>1, <1>2, PcBecomes DEF Steps
<1>7. /\ entry' \in [Queries -> [addr : {NullAddr} \cup 0..MaxTime, timestamp : 0..MaxTime]]
      /\ entry'[e].addr = entry[e].addr /\ entry'[e].timestamp = lookup[q].now
      /\ \A r \in Queries : r # e => entry'[r] = entry[r]
  BY <1>1, <1>2, <1>3, <1>4 DEF LookupTypes
<1>8. /\ HasAddress(e)' /\ entry'[e].addr >= entry[e].addr /\ entry'[e].addr <= now_sec
      /\ entry'[e].timestamp <= now_sec /\ entry'[e].addr >= entry'[e].timestamp
  BY <1>1, <1>3, <1>4, <1>7 DEF HasAddress, EntriesDated, NullAddr
<1>9. LookupTypes' /\ EntriesPut' /\ EntriesDated' /\ EntriesGrow
  BY <1>1, <1>3, <1>6, <1>7, <1>8, Changes
<1>10. PastGet(e)'
  BY <1>3, <1>9 DEF EntriesGrow
<1>11. LookupSound(q)'
  BY <1>1, <1>3, <1>4, <1>6, <1>8, <1>10, SoundNext
<1> QED BY <1>1, <1>5, <1>6, <1>9, <1>11, OneLookup

(* The entry that is put has been made and has an address.                 *)
LEMMA PutKeepsLookups ==
  ASSUME LookupInv, NEW q \in Queries, LookupPut(q)
  PROVE  LookupInv'
<1> USE QueryAssumption
<1>1. /\ LookupTypes /\ EntriesPut /\ EntriesDated /\ LookupSound(q)
      /\ lookup[q].pc = "put"
      /\ lookup' = [lookup EXCEPT ![q].pc = "done"]
      /\ dns_cache' = [dns_cache EXCEPT ![host[q]] = lookup[q].entry]
      /\ UNCHANGED <<asked, tasks, host, entry, now_sec>>
  BY DEF LookupInv, LookupPut, LookupStep, taskVars
<1>2. PICK e : e = lookup[q].entry
  OBVIOUS
<1>3. /\ e \in Queries /\ PastGet(e) /\ HasAddress(e) /\ PastGet(q)
      /\ lookup[q].addr > lookup[q].now - CacheTime /\ lookup[q].now <= now_sec
  BY <1>1, <1>2 DEF LookupSound, PastGet
<1>4. q \notin tasks' /\ ~(q > asked) /\ asked' = asked /\ tasks' \subseteq tasks
  BY <1>1, HasBegun
<1>5. Becomes(q, "done", lookup[q].now, e, lookup[q].addr)
  BY <1>1, <1>2, PcBecomes DEF Steps
<1>6. \A r \in Queries : PastGet(r) => PastGet(r)'
  BY <1>5 DEF Becomes, PastGet
<1>7. \A r \in Queries : (HasAddress(r)' <=> HasAddress(r)) /\ entry[r].addr \in Int
  BY <1>1 DEF HasAddress, LookupTypes, NullAddr
<1>8. EntriesGrow
  BY <1>1, <1>6, <1>7 DEF EntriesGrow
<1>9. LookupTypes'
  BY <1>1, <1>2, <1>3, <1>5 DEF LookupTypes, Becomes
<1>10. EntriesPut'
  <2>1. ASSUME NEW h \in Hosts, dns_cache'[h] # NoEntry
        PROVE  (PastGet(dns_cache[h]) /\ HasAddress(dns_cache[h]))'
    <3>1. PICK f : f = dns_cache'[h]
      OBVIOUS
    <3>2. f \in Queries /\ PastGet(f) /\ HasAddress(f)
      BY <1>1, <1>2, <1>3, <2>1, <3>1 DEF EntriesPut, LookupTypes
    <3>3. PastGet(f)' /\ HasAddress(f)'
      BY <1>6, <1>7, <3>2
    <3> QED BY <3>1, <3>3 DEF PastGet, HasAddress
  <2> QED BY <2>1 DEF EntriesPut
<1>11. EntriesDated'
  BY <1>1 DEF EntriesDated, HasAddress
<1>12. LookupSound(q)'
  BY <1>1, <1>3, <1>5, SoundNext
<1> QED BY <1>1, <1>4, <1>5, <1>8, <1>9, <1>10, <1>11, <1>12, OneLookup

(* LookupInv is inductive, given the order of the tasks. *)
LEMMA LookupInvStep == TaskInv /\ LookupInv /\ [QueryNext]_queryVars => LookupInv'
<1> SUFFICES ASSUME TaskInv, LookupInv, [QueryNext]_queryVars
             PROVE  LookupInv'
  OBVIOUS
<1>0. now_sec \in 0..MaxTime /\ NotBegun /\ MaxTime \in Nat
  BY QueryAssumption DEF LookupInv, LookupTypes
<1>1. CASE Execute
  <2>1. /\ asked' = asked + 1 /\ tasks' = tasks \cup {asked + 1}
        /\ UNCHANGED <<host, lookup, dns_cache, entry, now_sec>>
    BY <1>1 DEF Execute, lookupVars
  <2>2. NotBegun'
    BY <1>0, <2>1 DEF NotBegun, TaskInv, Typed, Queries
  <2> QED BY <1>0, <2>1, <2>2, LookupsWait
<1>2. ASSUME NEW q \in Queries, Begin(q) PROVE LookupInv'
  BY <1>2, BeginKeepsLookups
<1>3. ASSUME NEW q \in Queries, Looking(q) PROVE LookupInv'
  BY <1>3, MovingKeepsLookups, GetKeepsLookups, AnsweredKeepsLookups, StampKeepsLookups,
     PutKeepsLookups DEF Looking
<1>4. ASSUME NEW q \in Queries, Finish(q) PROVE UNCHANGED <<asked, tasks, lookupVars, host, now_sec>>
  BY <1>4, Zenon DEF Finish
<1>5. ASSUME Resolving \/ Connecting \/ Reading
      PROVE  UNCHANGED <<asked, tasks, lookupVars, host, now_sec>>
  BY <1>5, Zenon DEF Resolving, Resolved, Unresolved, Connecting, OpenFails, ConnectFails, Connected,
                     Reading, ReadAll, ReadFails, PostFailure, Post
<1>6. ASSUME UNCHANGED <<asked, tasks, lookupVars, host, now_sec>> PROVE LookupInv'
  <2>1. NotBegun'
    BY <1>0, <1>6 DEF NotBegun, lookupVars
  <2> QED BY <1>0, <1>6, <2>1, LookupsWait DEF lookupVars
<1>7. CASE Elapse
  <2>1. /\ now_sec < MaxTime /\ now_sec' = now_sec + 1
        /\ UNCHANGED <<asked, tasks, host, lookup, dns_cache, entry>>
    BY <1>7 DEF Elapse, taskVars, lookupVars
  <2>2. NotBegun'
    BY <1>0, <2>1 DEF NotBegun
  <2>3. now_sec' \in 0..MaxTime /\ now_sec' >= now_sec
    BY <1>0, <2>1
  <2> QED BY <2>1, <2>2, <2>3, LookupsWait
<1>8. CASE UNCHANGED queryVars
  BY <1>6, <1>8 DEF queryVars, taskVars, lookupVars
<1> QED BY <1>1, <1>2, <1>3, <1>4, <1>5, <1>6, <1>7, <1>8 DEF QueryNext

(* LookupInv holds of the queries and their lookup threads. *)
LEMMA LookupInvariant == QuerySpec => []LookupInv
BY LookupInitially, LookupInvStep, TaskInvariant, PTL DEF QuerySpec

(* dns_cache never holds an entry without an address, and every variable   *)
(* of the task and of the lookups keeps its type, whatever the lookups     *)
(* that were given up on do to the cache behind the task's back.           *)
THEOREM QueryTypesHold == QuerySpec => []QueryTypeOK
<1>1. TaskInv /\ LookupInv /\ PhaseNamed => QueryTypeOK
  <2> SUFFICES ASSUME TaskInv, LookupInv, PhaseNamed PROVE QueryTypeOK
    OBVIOUS
  <2>1. asked \in 0..MaxQueries /\ MaxQueries \in Nat
    BY QueryAssumption DEF TaskInv, Typed
  <2>2. 1..asked \subseteq Queries /\ 0..asked \subseteq {NoQuery} \cup Queries
    BY <2>1 DEF Queries, NoQuery
  <2>3. /\ tasks \subseteq Queries /\ posted \subseteq Queries /\ served \subseteq Queries
        /\ active \in {NoQuery} \cup Queries
    BY <2>2 DEF TaskInv, Typed
  <2>4. \A h \in Hosts : dns_cache[h] # NoEntry => entry[dns_cache[h]].addr # NullAddr
    BY DEF LookupInv, EntriesPut, HasAddress
  <2>5. /\ active = NoQuery <=> phase = "idle"
        /\ reply \in [Queries -> Replies \cup {"none"}]
        /\ answer \in [Queries -> Replies \cup {"none"}]
    BY DEF TaskInv, Typed
  <2> QED BY <2>1, <2>3, <2>4, <2>5 DEF QueryTypeOK, LookupInv, LookupTypes, PhaseNamed
<1>2. QueryInit => PhaseNamed
  BY DEF QueryInit, PhaseNamed
<1>3. PhaseNamed /\ [QueryNext]_queryVars => PhaseNamed'
  <2> SUFFICES ASSUME PhaseNamed, [QueryNext]_queryVars PROVE PhaseNamed'
    OBVIOUS
  <2>1. ASSUME NEW q \in Queries, Looking(q) PROVE UNCHANGED phase
    BY <2>1, LookingLeaves DEF taskVars
  <2> QED BY <2>1 DEF PhaseNamed, QueryNext, Execute, Begin, Finish, Resolving, Resolved, Unresolved,
                      Connecting, OpenFails, ConnectFails, Connected, Reading, ReadAll, ReadFails,
                      PostFailure, Post, Elapse, queryVars, taskVars
<1> QED BY <1>1, <1>2, <1>3, TaskInvariant, LookupInvariant, PTL DEF QuerySpec

(* No query is made on the strength of an address that was too old when    *)
(* its own lookup began (DNS_Resolver.run, which shares dns_cache without  *)
(* a lock with the lookups that were given up on), for any cache time and  *)
(* any number of queries and hosts.                                        *)
THEOREM AddressAlwaysFresh == QuerySpec => []FreshAddress
<1>1. LookupInv => FreshAddress
  BY DEF LookupInv, LookupSound, FreshAddress
<1> QED BY <1>1, LookupInvariant, PTL
=============================================================================
