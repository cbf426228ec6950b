------------------------------ MODULE QueryTask ------------------------------
(***************************************************************************)
(* HTTP_Query_Task: the queries of the whole app, one after the other.     *)
(*                                                                         *)
(*  - execute may be called on any thread; AsyncTask's serial executor     *)
(*    runs doInBackground of one task at a time, first come first served;  *)
(*  - doInBackground starts a lookup thread for the host (DNS_Resolver),   *)
(*    waits for it 15 seconds at most, and then makes the connection.  A   *)
(*    lookup that was given up on goes on, and shares dns_cache with the   *)
(*    lookups after it, without a lock;                                    *)
(*  - onPostExecute calls the client back on the UI thread.                *)
(*                                                                         *)
(* Queries are numbered in the order of their execute calls, so a queue    *)
(* that is only appended to and taken from is the set of its members.      *)
(* An address is represented by the time at which a lookup stored it, a    *)
(* DNS_Entry by the query whose lookup made the object; the fields of an   *)
(* entry are read and written one by one.  All of the app's URLs are       *)
(* https: the address found is not put into the URL, the lookup only       *)
(* decides whether the connection is tried.                                *)
(***************************************************************************)
EXTENDS Integers

CONSTANTS MaxQueries,    \* how many queries are made (bounds the model)
          Hosts,         \* etherchain.org, api.etherscan.io
          CacheTime,     \* how long an entry of dns_cache counts (60 * 60 * 1000)
          MaxTime        \* the clock stops there (bounds the model)

ASSUME QueryAssumption ==
  /\ MaxQueries \in Nat
  /\ CacheTime \in Nat \ {0}
  /\ MaxTime \in Nat

Queries  == 1..MaxQueries
NoQuery  == 0
NoEntry  == 0
NullAddr == -1
Replies  == {"response", "empty"}

VARIABLES
  asked,       \* number of execute calls so far
  host,        \* host[q]: the host of q's URL
  tasks,       \* the tasks the executor has not begun
  active,      \* the task in doInBackground
  phase,       \* where it is: "resolve", "connect" or "read"; "died" with the app
  reply,       \* reply[q]: what q's task will hand over
  posted,      \* the tasks whose onPostExecute the UI thread has not run yet
  lookup,      \* lookup[q]: the DNS_Resolver and its thread
  dns_cache,   \* dns_cache[h]: the entry of host h
  entry,       \* entry[q]: the DNS_Entry made by q's lookup
  now_sec,
  served,      \* history: the queries the service has carried out
  answer       \* history: what each client was called back with

taskVars   == <<tasks, active, phase, reply, posted>>
lookupVars == <<lookup, dns_cache, entry>>
queryVars  == <<asked, host, taskVars, lookupVars, now_sec, served, answer>>

QueryInit ==
  /\ asked = 0
  /\ host \in [Queries -> Hosts]
  /\ tasks = {}
  /\ active = NoQuery
  /\ phase = "idle"
  /\ reply = [q \in Queries |-> "none"]
  /\ posted = {}
  /\ lookup = [q \in Queries |-> [pc |-> "none", now |-> 0, entry |-> NoEntry, addr |-> NullAddr]]
  /\ dns_cache = [h \in Hosts |-> NoEntry]
  /\ entry = [q \in Queries |-> [addr |-> NullAddr, timestamp |-> 0]]
  /\ now_sec = 0
  /\ served = {}
  /\ answer = [q \in Queries |-> "none"]

Alive == phase # "died"

FirstOf(S, q) == q \in S /\ \A r \in S : q <= r

-----------------------------------------------------------------------------
(* The executor. *)

(* new HTTP_Query_Task(..).execute(..). *)
Execute ==
  /\ Alive
  /\ asked < MaxQueries
  /\ asked' = asked + 1
  /\ tasks' = tasks \cup {asked + 1}
  /\ UNCHANGED <<host, active, phase, reply, posted, lookupVars, now_sec, served, answer>>

(* Mutant: THREAD_POOL_EXECUTOR, which takes the tasks in any order. *)
MutBegin(q) ==
  /\ active = NoQuery
  /\ q \in tasks
  /\ tasks' = tasks \ {q}
  /\ active' = q
  /\ phase' = "resolve"
  /\ lookup' = [lookup EXCEPT ![q].pc = "start"]
  /\ UNCHANGED <<asked, host, reply, posted, dns_cache, entry, now_sec, served, answer>>

(* doInBackground up to the start of the lookup thread. *)
Begin(q) ==
  /\ active = NoQuery
  /\ FirstOf(tasks, q)
  /\ tasks' = tasks \ {q}
  /\ active' = q
  /\ phase' = "resolve"
  /\ lookup' = [lookup EXCEPT ![q].pc = "start"]
  /\ UNCHANGED <<asked, host, reply, posted, dns_cache, entry, now_sec, served, answer>>

(* doInBackground ends: r is what the task hands over to the UI thread. *)
Post(r) ==
  /\ reply' = [reply EXCEPT ![active] = r]
  /\ posted' = posted \cup {active}
  /\ active' = NoQuery
  /\ phase' = "idle"
  /\ UNCHANGED <<asked, host, tasks, lookupVars, now_sec, answer>>

(* Mutant: the client is not told of a query that failed. *)
MutPostFailure == active' = NoQuery /\ phase' = "idle"
  /\ UNCHANGED <<asked, host, tasks, reply, posted, lookupVars, now_sec, answer>>

(* exception_occurred: the response is the empty string. *)
PostFailure == Post("empty")

(* onPostExecute. *)
Finish(q) ==
  /\ Alive
  /\ FirstOf(posted, q)
  /\ posted' = posted \ {q}
  /\ answer' = [answer EXCEPT ![q] = reply[q]]
  /\ UNCHANGED <<asked, host, tasks, active, phase, reply, lookupVars, now_sec, served>>

-----------------------------------------------------------------------------
(* ResolveHostIP and send_http_query, in the background. *)

(* thread.join returns because the lookup has ended, with an address. *)
Resolved ==
  /\ phase = "resolve"
  /\ lookup[active].pc = "done"
  /\ phase' = "connect"
  /\ UNCHANGED <<asked, host, tasks, active, reply, posted, lookupVars, now_sec, served, answer>>

(* Mutant: thread.join without a time limit. *)
MutUnresolved ==
  /\ phase = "resolve"
  /\ lookup[active].pc = "failed"
  /\ PostFailure
  /\ UNCHANGED served

(* The lookup has failed, or takes longer than DNS_TIMEOUT. *)
Unresolved ==
  /\ phase = "resolve"
  /\ lookup[active].pc # "done"
  /\ PostFailure
  /\ UNCHANGED served

(* openConnection throws: urlConnection is null in the finally clause, and *)
(* what that throws on the background thread ends the app.                 *)
OpenFails ==
  /\ phase = "connect"
  /\ phase' = "died"
  /\ UNCHANGED <<asked, host, tasks, active, reply, posted, lookupVars, now_sec, served, answer>>

(* The connection times out, or fails otherwise. *)
ConnectFails ==
  /\ phase = "connect"
  /\ PostFailure
  /\ UNCHANGED served

(* The service receives the request (external). *)
Connected ==
  /\ phase = "connect"
  /\ phase' = "read"
  /\ served' = served \cup {active}
  /\ UNCHANGED <<asked, host, tasks, active, reply, posted, lookupVars, now_sec, answer>>

(* The reading loop reaches the end of the response. *)
ReadAll ==
  /\ phase = "read"
  /\ Post("response")
  /\ UNCHANGED served

(* The connection breaks: what has been read of the response is dropped. *)
ReadFails ==
  /\ phase = "read"
  /\ PostFailure
  /\ UNCHANGED served

-----------------------------------------------------------------------------
(* DNS_Resolver.run, on its own thread. *)

(* Mutant: an entry counts for ever. *)
MutIsFresh(e, now) == entry[e].addr # NullAddr

IsFresh(e, now) == now - entry[e].timestamp < CacheTime

(* dns_cache.get finds the entry, or misses it while another lookup is at  *)
(* its put (the HashMap is not synchronized).                              *)
Found(q) ==
  {dns_cache[host[q]]} \cup
  IF \E r \in Queries \ {q} : lookup[r].pc = "put" THEN {NoEntry} ELSE {}

(* A step of q's lookup thread. *)
LookupStep(q, from) ==
  /\ Alive
  /\ lookup[q].pc = from
  /\ UNCHANGED <<asked, host, taskVars, now_sec, served, answer>>

(* The thread starts, and reads the clock. *)
LookupStart(q) ==
  /\ LookupStep(q, "start")
  /\ lookup' = [lookup EXCEPT ![q].pc = "get", ![q].now = now_sec]
  /\ UNCHANGED <<dns_cache, entry>>

LookupGet(q) ==
  /\ LookupStep(q, "get")
  /\ \E e \in Found(q) :
       IF e = NoEntry
       THEN /\ lookup' = [lookup EXCEPT ![q].pc = "ask", ![q].entry = q]
            /\ entry' = [entry EXCEPT ![q] = [addr |-> NullAddr, timestamp |-> lookup[q].now]]
       ELSE /\ lookup' = [lookup EXCEPT ![q].pc = "check", ![q].entry = e]
            /\ UNCHANGED entry
  /\ UNCHANGED dns_cache

(* dns_entry.timestamp is read. *)
LookupCheck(q) ==
  /\ LookupStep(q, "check")
  /\ lookup' = [lookup EXCEPT ![q].pc =
                  IF IsFresh(lookup[q].entry, lookup[q].now) THEN "addr" ELSE "ask"]
  /\ UNCHANGED <<dns_cache, entry>>

(* dns_entry.addr is read; every entry that can be found has one. *)
LookupAddr(q) ==
  /\ LookupStep(q, "addr")
  /\ lookup' = [lookup EXCEPT ![q].addr = entry[lookup[q].entry].addr,
                  ![q].pc = IF entry[lookup[q].entry].addr = NullAddr THEN "ask" ELSE "put"]
  /\ UNCHANGED <<dns_cache, entry>>

(* InetAddress.getByName returns, and dns_entry.addr is written: other     *)
(* lookups may share the entry by now.                                     *)
LookupAnswered(q) ==
  /\ LookupStep(q, "ask")
  /\ lookup' = [lookup EXCEPT ![q].pc = "stamp", ![q].addr = now_sec]
  /\ entry' = [entry EXCEPT ![lookup[q].entry].addr = now_sec]
  /\ UNCHANGED dns_cache

(* dns_entry.timestamp is written. *)
LookupStamp(q) ==
  /\ LookupStep(q, "stamp")
  /\ lookup' = [lookup EXCEPT ![q].pc = "put"]
  /\ entry' = [entry EXCEPT ![lookup[q].entry].timestamp = lookup[q].now]
  /\ UNCHANGED dns_cache

(* Mutant: the exception is caught before the put. *)
MutLookupFailed(q) ==
  /\ LookupStep(q, "ask")
  /\ lookup' = [lookup EXCEPT ![q].pc = "put"]
  /\ UNCHANGED <<dns_cache, entry>>

(* UnknownHostException. *)
LookupFailed(q) ==
  /\ LookupStep(q, "ask")
  /\ lookup' = [lookup EXCEPT ![q].pc = "failed"]
  /\ UNCHANGED <<dns_cache, entry>>

(* dns_cache.put and set: the thread ends. *)
LookupPut(q) ==
  /\ LookupStep(q, "put")
  /\ lookup' = [lookup EXCEPT ![q].pc = "done"]
  /\ dns_cache' = [dns_cache EXCEPT ![host[q]] = lookup[q].entry]
  /\ UNCHANGED entry

Elapse ==
  /\ Alive
  /\ now_sec < MaxTime
  /\ now_sec' = now_sec + 1
  /\ UNCHANGED <<asked, host, taskVars, lookupVars, served, answer>>

-----------------------------------------------------------------------------
Resolving   == Resolved \/ Unresolved
Connecting  == OpenFails \/ ConnectFails \/ Connected
Reading     == ReadAll \/ ReadFails
Looking(q)  ==
  \/ LookupStart(q) \/ LookupGet(q) \/ LookupCheck(q) \/ LookupAddr(q)
  \/ LookupAnswered(q) \/ LookupStamp(q) \/ LookupFailed(q) \/ LookupPut(q)

QueryNext ==
  \/ Execute
  \/ \E q \in Queries : Begin(q) \/ Finish(q) \/ Looking(q)
  \/ Resolving \/ Connecting \/ Reading
  \/ Elapse

QuerySpec == QueryInit /\ [][QueryNext]_queryVars

(* The executor and the UI thread run; the wait for the lookup and the     *)
(* making of the connection have a time limit.  The lookup itself need     *)
(* never end, nor the reading of the response (only setConnectTimeout is   *)
(* called).                                                                *)
Fairness ==
  /\ WF_queryVars(\E q \in Queries : Begin(q))
  /\ WF_queryVars(\E q \in Queries : Finish(q))
  /\ WF_queryVars(Resolving)
  /\ WF_queryVars(Connecting)

FairSpec == QuerySpec /\ Fairness

-----------------------------------------------------------------------------
(* Properties.                                                             *)

LookupRecords == [pc : {"none", "start", "get", "check", "addr", "ask", "stamp", "put",
                        "done", "failed"}, now : 0..MaxTime,
                  entry : {NoEntry} \cup Queries, addr : {NullAddr} \cup 0..MaxTime]

(* The variables keep their types, and an entry dns_cache holds always has *)
(* an address: run never puts one without.                                 *)
QueryTypeOK ==
  /\ asked \in 0..MaxQueries
  /\ host \in [Queries -> Hosts]
  /\ tasks \subseteq Queries /\ posted \subseteq Queries
  /\ active \in {NoQuery} \cup Queries
  /\ phase \in {"idle", "resolve", "connect", "read", "died"}
  /\ active = NoQuery <=> phase = "idle"
  /\ reply \in [Queries -> Replies \cup {"none"}]
  /\ answer \in [Queries -> Replies \cup {"none"}]
  /\ lookup \in [Queries -> LookupRecords]
  /\ dns_cache \in [Hosts -> {NoEntry} \cup Queries]
  /\ entry \in [Queries -> [addr : {NullAddr} \cup 0..MaxTime, timestamp : 0..MaxTime]]
  /\ \A h \in Hosts : dns_cache[h] # NoEntry => entry[dns_cache[h]].addr # NullAddr
  /\ now_sec \in 0..MaxTime
  /\ served \subseteq Queries

(* A lookup that was given up on may still write to dns_cache, over what   *)
(* later lookups have put there.  Even so no query is made on the strength *)
(* of an address that was older than the cache time when its own lookup    *)
(* began.                                                                  *)
FreshAddress ==
  \A q \in Queries :
    lookup[q].pc = "done" => lookup[q].addr > lookup[q].now - CacheTime

(* The queries of the app keep QueryService's promise: one at a time, in   *)
(* the order of execute, each client called back once and truthfully.      *)
Service == INSTANCE QueryService WITH
  MaxQueries <- MaxQueries, asked <- asked, served <- served, answer <- answer

ImplementsService == Service!ServiceSpec

(* "perform an http query, and then execute a callback fcn"                *)
(* (HTTP_Query_Task.java:51): the client of every query is called back,    *)
(* however the lookup, the connection and the queries before it fare,      *)
(* unless a service accepts a connection and is silent on it for ever, or  *)
(* the app dies.                                                           *)
AnsweredUnlessSilent ==
  []<>(phase \notin {"read", "died"}) => \A q \in Queries : asked >= q ~> answer[q] # "none"
=============================================================================
