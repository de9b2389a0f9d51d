---------------------------- MODULE DnsForwarder ----------------------------
(***************************************************************************)
(* The DNS forwarder: src/src/services/dns_forwarder.rs.  Every query is   *)
(* handled by a task of its own; the tasks share the cache, the registry   *)
(* of pending queries and one upstream socket, whose replies a receiver    *)
(* task hands out by transaction id.  The runtime has several threads, so  *)
(* an action is what a task does under one lock, or between two awaits.    *)
(*                                                                         *)
(* An answer is known by the question it answers.  The client's own        *)
(* transaction id, which every reply is given back, is left out, and so    *)
(* are queries and replies that do not parse: nothing changes for them.    *)
(***************************************************************************)
EXTENDS Integers, FiniteSets, FiniteSetsExt

CONSTANTS
    Tasks,     \* the tasks that handle queries
    Keys,      \* the questions
    Xids,      \* the 16-bit transaction ids
    Servers,   \* the resolvers a lease may name
    FALLBACK_DNS_SERVER,
    Elsewhere, \* stands for every address that no query goes to
    MAX_PENDING_QUERIES,
    Ttls,      \* the least TTLs of answers, in ticks
    MAX_TTL,   \* MAX_TTL_SECS, in ticks
    XidReuse,  \* whether an id may be drawn while its last use is not over
    None

ASSUME XidAssumption ==
    /\ IsFiniteSet(Xids)
    /\ MAX_PENDING_QUERIES \in Nat /\ MAX_PENDING_QUERIES < Cardinality(Xids)
    /\ XidReuse \in BOOLEAN
ASSUME TtlAssumption == Ttls \subseteq Nat /\ MAX_TTL \in Nat \ {0}

Resolvers == Servers \cup {FALLBACK_DNS_SERVER}
ASSUME ElsewhereAssumption == Elsewhere \notin Resolvers

Entry == [owner: Tasks, upstream_ip: Resolvers]
CacheEntry == [answer: Keys, left: 0 .. MAX_TTL]
ASSUME NothingAssumption ==
    /\ None \notin Keys /\ None \notin Xids /\ None \notin Resolvers
    /\ None \notin Entry /\ None \notin CacheEntry

VARIABLES
    forwarder,    \* the task that owns the sockets
    task,         \* task[t]: the query t handles and where it is
    pending,      \* pending[x]: the query registered under id x, or None
    inbox,        \* inbox[t]: the answer handed to t, or None
    wire,         \* queries on their way to a resolver, or their answers back
    cache         \* cache[k]: the answer kept for question k, or None

vars == <<forwarder, task, pending, inbox, wire, cache>>

Registering == {"send", "wait", "cleanup"}
TaskPhases == {"idle", "lookup", "upstream", "register", "store"} \cup Registering

Task == [phase: TaskPhases, key: Keys \cup {None}, xid: Xids \cup {None},
         server: Resolvers \cup {None}]
Datagram == [xid: Xids, server: Resolvers \cup {Elsewhere}, key: Keys]

DnsTypeOK ==
    /\ forwarder \in {"binding", "bind_failed", "bound", "running", "stopped"}
    /\ task \in [Tasks -> Task]
    /\ pending \in [Xids -> Entry \cup {None}]
    /\ inbox \in [Tasks -> Keys \cup {None}]
    /\ wire \subseteq Datagram
    /\ cache \in [Keys -> CacheEntry \cup {None}]

Idle == [phase |-> "idle", key |-> None, xid |-> None, server |-> None]

Init ==
    /\ forwarder = "binding"
    /\ task = [t \in Tasks |-> Idle]
    /\ pending = [x \in Xids |-> None]
    /\ inbox = [t \in Tasks |-> None]
    /\ wire = {}
    /\ cache = [k \in Keys |-> None]
-----------------------------------------------------------------------------
(***************************************************************************)
(* start_dns_forwarder                                                     *)
(***************************************************************************)
tables == <<task, pending, inbox, wire, cache>>

BindListener ==
    /\ forwarder = "binding"
    /\ forwarder' \in {"bound", "bind_failed"}
    /\ UNCHANGED tables

\* Five seconds later the task returns.
BindFailed ==
    /\ forwarder = "bind_failed"
    /\ forwarder' = "stopped"
    /\ UNCHANGED tables

BindUpstream ==
    /\ forwarder = "bound"
    /\ forwarder' \in {"running", "stopped"}
    /\ UNCHANGED tables

\* A query is read and a task spawned for it.
ReceiveQuery(t, key) ==
    /\ forwarder = "running"
    /\ task[t].phase = "idle"
    /\ task' = [task EXCEPT ![t] = [Idle EXCEPT !.phase = "lookup", !.key = key]]
    /\ UNCHANGED <<forwarder, pending, inbox, wire, cache>>
-----------------------------------------------------------------------------
(***************************************************************************)
(* handle_dns_query                                                        *)
(***************************************************************************)
Goes(t, phase) == task' = [task EXCEPT ![t].phase = phase]

\* The task ends, with a reply to its client or without.
Ends(t) == task' = [task EXCEPT ![t] = Idle]

IsFresh(k) == cache[k] # None /\ cache[k].left > 0

LookupHit(t) ==
    /\ task[t].phase = "lookup"
    /\ IsFresh(task[t].key)
    /\ Ends(t)
    /\ UNCHANGED <<forwarder, pending, inbox, wire, cache>>

\* An expired entry is removed on the way.
LookupMiss(t) ==
    /\ task[t].phase = "lookup"
    /\ ~IsFresh(task[t].key)
    /\ cache' = [cache EXCEPT ![task[t].key] = None]
    /\ Goes(t, "upstream")
    /\ UNCHANGED <<forwarder, pending, inbox, wire>>

\* The first resolver of the shared lease, which the DHCP client replaces at
\* any time, or the fallback if it names none.
GetUpstreamDns(t) ==
    /\ task[t].phase = "upstream"
    /\ \E server \in Resolvers :
          task' = [task EXCEPT ![t].phase = "register", ![t].server = server]
    /\ UNCHANGED <<forwarder, pending, inbox, wire, cache>>
-----------------------------------------------------------------------------
(***************************************************************************)
(* forward_query                                                           *)
(***************************************************************************)
InUse == {x \in Xids : pending[x] # None}

TooManyPending(t) ==
    /\ task[t].phase = "register"
    /\ Cardinality(InUse) >= MAX_PENDING_QUERIES
    /\ Ends(t)
    /\ UNCHANGED <<forwarder, pending, inbox, wire, cache>>

\* The last use of an id is over: no task still holds it, no answer is awaited.
IsOver(x) ==
    /\ \A t \in Tasks : task[t].phase \in Registering => task[t].xid # x
    /\ \A d \in wire : d.xid # x

\* Ids are drawn until one is not in the registry: that is all the code asks of it.
RegisterAs(t, x) ==
    /\ pending[x] = None
    /\ XidReuse \/ IsOver(x)
    /\ pending' = [pending EXCEPT ![x] = [owner |-> t, upstream_ip |-> task[t].server]]
    /\ task' = [task EXCEPT ![t].phase = "send", ![t].xid = x]
    /\ UNCHANGED <<forwarder, inbox, wire, cache>>

\* Mistake: the limit is compared one too late.
RegisterOneMore(t, x) ==
    /\ task[t].phase = "register"
    /\ Cardinality(InUse) <= MAX_PENDING_QUERIES
    /\ RegisterAs(t, x)

Register(t, x) ==
    /\ task[t].phase = "register"
    /\ Cardinality(InUse) < MAX_PENDING_QUERIES
    /\ RegisterAs(t, x)

\* Whatever is registered under t's id is removed, without a look at its owner.
Unregister(t) == pending' = [pending EXCEPT ![task[t].xid] = None]

\* Mistake: the query goes out under the client's id instead of the registered one.
SendClientXid(t) ==
    /\ task[t].phase = "send"
    /\ \E x \in Xids : wire' = wire \cup {[xid |-> x, server |-> task[t].server, key |-> task[t].key]}
    /\ Goes(t, "wait")
    /\ UNCHANGED <<forwarder, pending, inbox, cache>>

SendUpstream(t) ==
    /\ task[t].phase = "send"
    /\ wire' = wire \cup {[xid |-> task[t].xid, server |-> task[t].server, key |-> task[t].key]}
    /\ Goes(t, "wait")
    /\ UNCHANGED <<forwarder, pending, inbox, cache>>

SendFails(t) ==
    /\ task[t].phase = "send"
    /\ Unregister(t)
    /\ Ends(t)
    /\ inbox' = [inbox EXCEPT ![t] = None]
    /\ UNCHANGED <<forwarder, wire, cache>>

\* Mistake: there is no timer.
GiveUpOnDrop(t) ==
    /\ task[t].phase = "wait"
    /\ inbox[t] = None
    /\ pending[task[t].xid] # [owner |-> t, upstream_ip |-> task[t].server]
    /\ Goes(t, "cleanup")
    /\ UNCHANGED <<forwarder, pending, inbox, wire, cache>>

\* The timer fires, or the registry dropped the sender of t's channel.
GiveUp(t) ==
    /\ task[t].phase = "wait"
    /\ inbox[t] = None
    /\ Goes(t, "cleanup")
    /\ UNCHANGED <<forwarder, pending, inbox, wire, cache>>

\* Mistake: a query that was given up stays registered.
CleanupForgotten(t) ==
    /\ task[t].phase = "cleanup"
    /\ Ends(t)
    /\ UNCHANGED <<forwarder, pending, inbox, wire, cache>>

Cleanup(t) ==
    /\ task[t].phase = "cleanup"
    /\ Unregister(t)
    /\ Ends(t)
    /\ UNCHANGED <<forwarder, inbox, wire, cache>>

TakeReply(t) ==
    /\ task[t].phase = "wait"
    /\ inbox[t] # None
    /\ Goes(t, "store")
    /\ UNCHANGED <<forwarder, pending, inbox, wire, cache>>

\* Mistake: the TTL is not capped.
InsertUncapped(t, ttl) ==
    /\ task[t].phase = "store"
    /\ Ends(t)
    /\ inbox' = [inbox EXCEPT ![t] = None]
    /\ cache' = IF ttl = 0 THEN cache
                ELSE [cache EXCEPT ![task[t].key] = [answer |-> inbox[t], left |-> ttl]]
    /\ UNCHANGED <<forwarder, pending, wire>>

\* Mistake: the entry is removed on this way out, too, where it is no longer t's.
InsertCacheAndUnregister(t, ttl) ==
    /\ task[t].phase = "store"
    /\ Unregister(t)
    /\ Ends(t)
    /\ inbox' = [inbox EXCEPT ![t] = None]
    /\ cache' = IF ttl = 0 THEN cache
                ELSE [cache EXCEPT ![task[t].key] =
                         [answer |-> inbox[t], left |-> Min({MAX_TTL, ttl})]]
    /\ UNCHANGED <<forwarder, wire>>

\* insert_cache under the question asked, with the answer's least TTL, and the
\* reply to the client.  With a TTL of 0, nothing is cached.
InsertCache(t, ttl) ==
    /\ task[t].phase = "store"
    /\ Ends(t)
    /\ inbox' = [inbox EXCEPT ![t] = None]
    /\ cache' = IF ttl = 0 THEN cache
                ELSE [cache EXCEPT ![task[t].key] =
                         [answer |-> inbox[t], left |-> Min({MAX_TTL, ttl})]]
    /\ UNCHANGED <<forwarder, pending, wire>>
-----------------------------------------------------------------------------
(***************************************************************************)
(* The receiver, the resolvers and time                                    *)
(***************************************************************************)

\* Mistake: what is registered under the reply's id stays registered.
DispatchOnly(d) ==
    LET p == pending[d.xid] IN
    /\ inbox' = IF p # None /\ p.upstream_ip = d.server /\ task[p.owner].phase \in {"send", "wait"}
                THEN [inbox EXCEPT ![p.owner] = d.key]
                ELSE inbox
    /\ UNCHANGED pending

\* What is registered under the reply's id is removed first and its source
\* compared after; an owner that no longer waits has dropped its channel.
Dispatch(d) ==
    LET p == pending[d.xid] IN
    /\ pending' = [pending EXCEPT ![d.xid] = None]
    /\ inbox' = IF p # None /\ p.upstream_ip = d.server /\ task[p.owner].phase \in {"send", "wait"}
                THEN [inbox EXCEPT ![p.owner] = d.key]
                ELSE inbox

\* Any datagram arrives, under any id: an answer, which may arrive again, or one
\* from an address that was not asked.
ReceiveReply(d) ==
    /\ d \in wire \/ d.server = Elsewhere
    /\ wire' \in {wire, wire \ {d}}
    /\ Dispatch(d)
    /\ UNCHANGED <<forwarder, task, cache>>

Lose(d) ==
    /\ d \in wire
    /\ wire' = wire \ {d}
    /\ UNCHANGED <<forwarder, task, pending, inbox, cache>>

PruneCache ==
    /\ forwarder = "running"
    /\ cache' = [k \in Keys |-> IF IsFresh(k) THEN cache[k] ELSE None]
    /\ UNCHANGED <<forwarder, task, pending, inbox, wire>>

Tick ==
    /\ cache' = [k \in Keys |->
                    IF IsFresh(k) THEN [cache[k] EXCEPT !.left = @ - 1] ELSE cache[k]]
    /\ UNCHANGED <<forwarder, task, pending, inbox, wire>>

TaskStep(t) ==
    \/ LookupHit(t)
    \/ LookupMiss(t)
    \/ GetUpstreamDns(t)
    \/ TooManyPending(t)
    \/ \E x \in Xids : Register(t, x)
    \/ SendUpstream(t)
    \/ SendFails(t)
    \/ GiveUp(t)
    \/ Cleanup(t)
    \/ TakeReply(t)
    \/ \E ttl \in Ttls : InsertCache(t, ttl)

Next ==
    \/ BindListener
    \/ BindFailed
    \/ BindUpstream
    \/ \E t \in Tasks, key \in Keys : ReceiveQuery(t, key)
    \/ \E t \in Tasks : TaskStep(t)
    \/ \E d \in Datagram : ReceiveReply(d) \/ Lose(d)
    \/ PruneCache
    \/ Tick

Spec == Init /\ [][Next]_vars

\* The runtime schedules every spawned task.
FairSpec == Spec /\ \A t \in Tasks : WF_vars(TaskStep(t))
-----------------------------------------------------------------------------
(***************************************************************************)
(* Properties                                                              *)
(***************************************************************************)

\* No entry of the registry outlives its query: whichever of the timer, a send
\* error, a late, repeated or foreign reply comes first, and even when an id is
\* drawn again early, each entry is one that its owner's task has yet to leave.
NoEntryLeaks ==
    \A x \in InUse :
        LET t == pending[x].owner IN
        /\ task[t].phase \in Registering
        /\ task[t].xid = x

\* The limit on pending queries is kept.
PendingBounded == Cardinality(InUse) <= MAX_PENDING_QUERIES

\* An answer goes to the query it answers, and into the cache under the
\* question it answers.  The comments of forward_query rest it on ids being
\* unique among active queries; it holds if an id is not drawn again before its
\* last use is over, late answers included, and not otherwise.
AnswerMatches ==
    /\ \A t \in Tasks : inbox[t] \in {task[t].key, None}
    /\ \A k \in Keys : cache[k] # None => cache[k].answer = k

\* While ids are not drawn early, the entry of a query that sends or waits goes
\* only by the query's own step, with its answer, or by a datagram from an address
\* that was not asked: no other query's cleanup and no late or repeated answer
\* takes it.  The datagram from elsewhere does, since the receiver removes the
\* entry before it compares the source; that the query then has no answer is what
\* ImplementsResolver and QueryEnds allow for.
Registered(t) == pending[task[t].xid] = [owner |-> t, upstream_ip |-> task[t].server]
EntryUndisturbed ==
    [][\A t \in Tasks :
          task[t].phase \in {"send", "wait"} /\ Registered(t) /\ task'[t] = task[t] =>
              \/ Registered(t)'
              \/ inbox'[t] = task[t].key
              \/ \E d \in Datagram :
                    d.xid = task[t].xid /\ d.server = Elsewhere /\ ReceiveReply(d)]_vars

\* While ids are not drawn early, the forwarder implements the abstract resolver:
\* losses, repeated and late replies, timeouts and the concurrent use of the
\* cache show in nothing but questions that end without an answer.
Asked == [t \in Tasks |-> task[t].key]
Kept == [k \in Keys |-> IF IsFresh(k) THEN cache[k].answer ELSE None]
AbstractResolver == INSTANCE Resolver
    WITH Askers <- Tasks, Questions <- Keys, Nothing <- None,
         question <- Asked, answer <- inbox, kept <- Kept
ImplementsResolver == AbstractResolver!Spec

\* Every query ends, with a reply or without: no task waits for ever.
QueryEnds == \A t \in Tasks : task[t].phase = "lookup" ~> task[t].phase = "idle"
=============================================================================
