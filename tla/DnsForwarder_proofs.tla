------------------------- MODULE DnsForwarder_proofs ------------------------
(***************************************************************************)
(* Theorems about the DNS forwarder, for every number of concurrent        *)
(* queries, of transaction ids and of pending queries allowed.             *)
(***************************************************************************)
EXTENDS DnsForwarder, FiniteSetTheorems, TLAPS

-----------------------------------------------------------------------------
(***************************************************************************)
(* The inductive invariant                                                 *)
(***************************************************************************)

\* What a task has, phase by phase; only a task that is sending, waiting or
\* done waiting has an answer in its channel.
TaskInv ==
    \A t \in Tasks :
        /\ task[t].phase # "idle" => task[t].key \in Keys
        /\ task[t].phase \in Registering => task[t].xid \in Xids
        /\ task[t].phase \in {"register"} \cup Registering => task[t].server \in Resolvers
        /\ inbox[t] # None => task[t].phase \in {"send", "wait", "store"}
        /\ task[t].phase = "store" => inbox[t] # None

\* Each entry is its owner's, under the owner's id and resolver, and the owner
\* has no answer yet.
EntryInv ==
    \A x \in Xids :
        pending[x] # None =>
            /\ task[pending[x].owner].phase \in Registering
            /\ task[pending[x].owner].xid = x
            /\ task[pending[x].owner].server = pending[x].upstream_ip
            /\ inbox[pending[x].owner] = None

IInv == DnsTypeOK /\ TaskInv /\ EntryInv

LEMMA MinOfTwo ==
    ASSUME NEW a \in Int, NEW b \in Int
    PROVE  Min({a, b}) \in {a, b} /\ Min({a, b}) <= a /\ Min({a, b}) <= b
<1>1. \E x \in {a, b} : \A y \in {a, b} : x =< y
  OBVIOUS
<1> QED BY <1>1 DEF Min

LEMMA InitIInv == Init => IInv
BY NothingAssumption
   DEF Init, IInv, DnsTypeOK, TaskInv, EntryInv, Idle, Task, TaskPhases, Registering

\* A task that is idle, or looks for its answer or its resolver, owns no entry.
LEMMA OwnerRegisters ==
    ASSUME IInv, NEW x \in Xids, pending[x] # None
    PROVE  /\ pending[x] \in Entry
           /\ pending[x].owner \in Tasks
           /\ pending[x].upstream_ip \in Resolvers
           /\ task[pending[x].owner].phase \in Registering
           /\ task[pending[x].owner].xid = x
           /\ task[pending[x].owner].server = pending[x].upstream_ip
           /\ inbox[pending[x].owner] = None
BY DEF IInv, DnsTypeOK, EntryInv, Entry

LEMMA ForwarderInv ==
    ASSUME IInv, BindListener \/ BindFailed \/ BindUpstream
    PROVE  IInv'
<1>1. /\ forwarder' \in {"binding", "bind_failed", "bound", "running", "stopped"}
      /\ UNCHANGED tables
  BY DEF BindListener, BindFailed, BindUpstream
<1> QED BY <1>1 DEF IInv, DnsTypeOK, TaskInv, EntryInv, tables

\* Steps of a task that touch neither the registry nor its channel.
LEMMA LookupInv ==
    ASSUME IInv, NEW t \in Tasks,
           \/ \E key \in Keys : ReceiveQuery(t, key)
           \/ LookupHit(t)
           \/ LookupMiss(t)
           \/ GetUpstreamDns(t)
           \/ TooManyPending(t)
    PROVE  IInv'
<1>1. /\ task[t] \in Task
      /\ task[t].phase \in {"idle", "lookup", "upstream", "register"}
      /\ UNCHANGED <<forwarder, pending, inbox, wire>>
  BY DEF ReceiveQuery, LookupHit, LookupMiss, GetUpstreamDns, TooManyPending, IInv, DnsTypeOK
<1>2. \E r \in Task :
         /\ task' = [task EXCEPT ![t] = r]
         /\ r.phase \in {"idle", "lookup", "upstream", "register"}
         /\ r.phase # "idle" => r.key \in Keys
         /\ r.phase = "register" => r.server \in Resolvers
  <2>1. CASE \E key \in Keys : ReceiveQuery(t, key)
    <3> PICK key \in Keys : ReceiveQuery(t, key)
      BY <2>1
    <3> DEFINE r == [Idle EXCEPT !.phase = "lookup", !.key = key]
    <3>1. r \in Task /\ r.phase = "lookup" /\ r.key = key
      BY DEF Idle, Task, TaskPhases
    <3>2. task' = [task EXCEPT ![t] = r]
      BY DEF ReceiveQuery
    <3> QED BY <3>1, <3>2
  <2>2. CASE LookupHit(t) \/ TooManyPending(t)
    <3>1. task' = [task EXCEPT ![t] = Idle]
      BY <2>2 DEF LookupHit, TooManyPending, Ends
    <3>2. Idle \in Task /\ Idle.phase = "idle"
      BY DEF Idle, Task, TaskPhases
    <3> QED BY <3>1, <3>2
  <2>3. CASE LookupMiss(t)
    <3> DEFINE r == [task[t] EXCEPT !.phase = "upstream"]
    <3>1. r \in Task /\ r.phase = "upstream" /\ r.key = task[t].key
      BY <1>1 DEF Task, TaskPhases
    <3>2. task' = [task EXCEPT ![t] = r] /\ task[t].key \in Keys
      BY <2>3, <1>1 DEF LookupMiss, Goes, IInv, TaskInv, DnsTypeOK
    <3> QED BY <3>1, <3>2
  <2>4. CASE GetUpstreamDns(t)
    <3> PICK server \in Resolvers :
               task' = [task EXCEPT ![t].phase = "register", ![t].server = server]
      BY <2>4 DEF GetUpstreamDns
    <3> DEFINE r == [task[t] EXCEPT !.phase = "register", !.server = server]
    <3>1. r \in Task /\ r.phase = "register" /\ r.key = task[t].key /\ r.server = server
      BY <1>1 DEF Task, TaskPhases
    <3>2. task' = [task EXCEPT ![t] = r]
      BY DEF IInv, DnsTypeOK
    <3>3. task[t].key \in Keys
      BY <2>4 DEF GetUpstreamDns, IInv, TaskInv
    <3> QED BY <3>1, <3>2, <3>3
  <2> QED BY <2>1, <2>2, <2>3, <2>4
<1>3. cache' \in [Keys -> CacheEntry \cup {None}]
  BY DEF ReceiveQuery, LookupHit, LookupMiss, GetUpstreamDns, TooManyPending, IInv, DnsTypeOK
<1>4. DnsTypeOK'
  BY <1>1, <1>2, <1>3 DEF IInv, DnsTypeOK
<1>5. inbox[t] = None
  BY <1>1 DEF IInv, TaskInv
<1>6. TaskInv'
  BY <1>1, <1>2, <1>5 DEF IInv, TaskInv, DnsTypeOK, Registering
<1>7. EntryInv'
  BY <1>1, <1>2, OwnerRegisters DEF EntryInv, IInv, DnsTypeOK, Registering
<1> QED BY <1>4, <1>6, <1>7 DEF IInv

\* A phase change keeps everything else of the task.
LEMMA GoesKeeps ==
    ASSUME IInv, NEW t \in Tasks, NEW p \in TaskPhases, Goes(t, p)
    PROVE  /\ task' \in [Tasks -> Task]
           /\ task'[t].phase = p
           /\ task'[t].key = task[t].key
           /\ task'[t].xid = task[t].xid
           /\ task'[t].server = task[t].server
           /\ \A u \in Tasks \ {t} : task'[u] = task[u]
<1>1. task \in [Tasks -> Task]
  BY DEF IInv, DnsTypeOK
<1>2. task' = [task EXCEPT ![t].phase = p]
  BY DEF Goes
<1> QED BY <1>1, <1>2 DEF Task

LEMMA RegisterInv ==
    ASSUME IInv, NEW t \in Tasks, NEW x \in Xids, Register(t, x)
    PROVE  IInv'
<1> DEFINE r == [task[t] EXCEPT !.phase = "send", !.xid = x]
           e == [owner |-> t, upstream_ip |-> task[t].server]
<1>1. /\ task[t] \in Task /\ task[t].phase = "register" /\ task[t].key \in Keys
      /\ task[t].server \in Resolvers /\ inbox[t] = None
  BY DEF Register, IInv, DnsTypeOK, TaskInv, Registering
<1>2. r \in Task /\ r.phase = "send" /\ r.xid = x /\ r.key = task[t].key
      /\ r.server = task[t].server
  BY <1>1 DEF Task, TaskPhases, Registering
<1>3. e \in Entry /\ e.owner = t /\ e.upstream_ip = task[t].server
  BY <1>1 DEF Entry
<1>4. /\ task' = [task EXCEPT ![t] = r]
      /\ pending' = [pending EXCEPT ![x] = e]
      /\ pending[x] = None
      /\ UNCHANGED <<forwarder, inbox, wire, cache>>
  BY DEF Register, RegisterAs, IInv, DnsTypeOK
<1> HIDE DEF r, e
<1>5. DnsTypeOK'
  BY <1>2, <1>3, <1>4 DEF IInv, DnsTypeOK
<1>6. TaskInv'
  BY <1>1, <1>2, <1>4 DEF IInv, TaskInv, DnsTypeOK, Registering
<1>7. EntryInv'
  <2> SUFFICES ASSUME NEW y \in Xids, pending'[y] # None
               PROVE  /\ task'[pending'[y].owner].phase \in Registering
                      /\ task'[pending'[y].owner].xid = y
                      /\ task'[pending'[y].owner].server = pending'[y].upstream_ip
                      /\ inbox'[pending'[y].owner] = None
    BY DEF EntryInv
  <2>1. CASE y = x
    BY <1>1, <1>2, <1>3, <1>4, <2>1 DEF IInv, DnsTypeOK, Registering
  <2>2. CASE y # x
    <3>1. pending'[y] = pending[y] /\ pending[y] # None
      BY <1>4, <2>2 DEF IInv, DnsTypeOK
    <3>2. pending[y].owner # t
      BY <1>1, <3>1, OwnerRegisters DEF Registering
    <3> QED BY <1>4, <3>1, <3>2, OwnerRegisters DEF IInv, DnsTypeOK
  <2> QED BY <2>1, <2>2
<1> QED BY <1>5, <1>6, <1>7 DEF IInv

\* A task that moves on within forward_query, its entry and its channel untouched.
LEMMA WaitInv ==
    ASSUME IInv, NEW t \in Tasks, SendUpstream(t) \/ GiveUp(t) \/ TakeReply(t)
    PROVE  IInv'
<1>1. PICK p \in {"wait", "cleanup", "store"} :
             /\ Goes(t, p)
             /\ p = "cleanup" => inbox[t] = None
             /\ p = "store" => inbox[t] # None
  BY DEF SendUpstream, GiveUp, TakeReply
<1>2. /\ task[t] \in Task /\ task[t].phase \in {"send", "wait"} /\ task[t].xid \in Xids
      /\ task[t].key \in Keys /\ task[t].server \in Resolvers
  BY DEF SendUpstream, GiveUp, TakeReply, IInv, DnsTypeOK, TaskInv, Registering
<1>3. UNCHANGED <<forwarder, pending, inbox, cache>>
  BY DEF SendUpstream, GiveUp, TakeReply
<1>4. wire' \subseteq Datagram
  BY <1>2 DEF SendUpstream, GiveUp, TakeReply, IInv, DnsTypeOK, Datagram
<1>5. /\ task' \in [Tasks -> Task]
      /\ task'[t].phase = p
      /\ task'[t].key = task[t].key
      /\ task'[t].xid = task[t].xid
      /\ task'[t].server = task[t].server
      /\ \A u \in Tasks \ {t} : task'[u] = task[u]
  BY <1>1, GoesKeeps DEF TaskPhases, Registering
<1>6. DnsTypeOK'
  BY <1>3, <1>4, <1>5 DEF IInv, DnsTypeOK
<1>7. TaskInv'
  BY <1>1, <1>2, <1>3, <1>5 DEF IInv, TaskInv, Registering
<1>8. EntryInv'
  BY <1>1, <1>3, <1>5, OwnerRegisters DEF EntryInv, Registering
<1> QED BY <1>6, <1>7, <1>8 DEF IInv

\* A task that ends leaves neither an entry nor an answer behind.
LEMMA EndInv ==
    ASSUME IInv, NEW t \in Tasks,
           SendFails(t) \/ Cleanup(t) \/ \E ttl \in Ttls : InsertCache(t, ttl)
    PROVE  IInv'
<1>1. Idle \in Task /\ Idle.phase = "idle"
  BY DEF Idle, Task, TaskPhases
<1>2. task' = [task EXCEPT ![t] = Idle] /\ UNCHANGED <<forwarder, wire>>
  BY DEF SendFails, Cleanup, InsertCache, Ends
<1>3. inbox' \in [Tasks -> Keys \cup {None}] /\ inbox'[t] = None
      /\ \A u \in Tasks \ {t} : inbox'[u] = inbox[u]
  BY DEF SendFails, Cleanup, InsertCache, IInv, DnsTypeOK, TaskInv
<1>4. /\ pending' \in [Xids -> Entry \cup {None}]
      /\ \A x \in Xids : pending'[x] \in {pending[x], None}
      /\ \A x \in Xids : pending'[x] # None => pending[x].owner # t
  <2>1. CASE SendFails(t) \/ Cleanup(t)
    <3>1. task[t].xid \in Xids /\ pending' = [pending EXCEPT ![task[t].xid] = None]
      BY <2>1 DEF SendFails, Cleanup, Unregister, IInv, TaskInv, Registering
    <3> QED BY <3>1, OwnerRegisters DEF IInv, DnsTypeOK
  <2>2. CASE \E ttl \in Ttls : InsertCache(t, ttl)
    <3>1. pending' = pending /\ task[t].phase = "store"
      BY <2>2 DEF InsertCache
    <3> QED BY <3>1, OwnerRegisters DEF IInv, DnsTypeOK, Registering
  <2> QED BY <2>1, <2>2
<1>5. cache' \in [Keys -> CacheEntry \cup {None}]
  <2>1. CASE SendFails(t) \/ Cleanup(t)
    BY <2>1 DEF SendFails, Cleanup, IInv, DnsTypeOK
  <2>2. CASE \E ttl \in Ttls : InsertCache(t, ttl)
    <3> PICK ttl \in Ttls : InsertCache(t, ttl)
      BY <2>2
    <3>1. task[t].key \in Keys /\ inbox[t] \in Keys
      BY DEF InsertCache, IInv, TaskInv, DnsTypeOK
    <3>2. Min({MAX_TTL, ttl}) \in 0 .. MAX_TTL
      BY MinOfTwo, TtlAssumption
    <3>3. [answer |-> inbox[t], left |-> Min({MAX_TTL, ttl})] \in CacheEntry
      BY <3>1, <3>2 DEF CacheEntry
    <3> QED BY <3>1, <3>3 DEF InsertCache, IInv, DnsTypeOK
  <2> QED BY <2>1, <2>2
<1>6. DnsTypeOK'
  BY <1>1, <1>2, <1>3, <1>4, <1>5 DEF IInv, DnsTypeOK
<1>7. TaskInv'
  BY <1>1, <1>2, <1>3 DEF IInv, TaskInv, DnsTypeOK, Registering
<1>8. EntryInv'
  BY <1>1, <1>2, <1>3, <1>4, OwnerRegisters DEF EntryInv, IInv, DnsTypeOK
<1> QED BY <1>6, <1>7, <1>8 DEF IInv

LEMMA ReceiveReplyInv ==
    ASSUME IInv, NEW d \in Datagram, ReceiveReply(d)
    PROVE  IInv'
<1> DEFINE p == pending[d.xid]
<1>1. d.xid \in Xids /\ d.key \in Keys /\ d.key # None
  BY NothingAssumption DEF Datagram
<1>2. wire' \subseteq Datagram /\ UNCHANGED <<forwarder, task, cache>>
  BY DEF ReceiveReply, IInv, DnsTypeOK
<1>3. /\ pending' = [pending EXCEPT ![d.xid] = None]
      /\ \/ inbox' = inbox
         \/ /\ p # None
            /\ task[p.owner].phase \in {"send", "wait"}
            /\ inbox' = [inbox EXCEPT ![p.owner] = d.key]
  BY DEF ReceiveReply, Dispatch
<1>4. pending' \in [Xids -> Entry \cup {None}] /\ inbox' \in [Tasks -> Keys \cup {None}]
  BY <1>1, <1>3 DEF IInv, DnsTypeOK
<1>5. DnsTypeOK'
  BY <1>2, <1>4 DEF IInv, DnsTypeOK
<1>6. TaskInv'
  BY <1>1, <1>2, <1>3, OwnerRegisters DEF IInv, TaskInv, DnsTypeOK
<1>7. EntryInv'
  <2> SUFFICES ASSUME NEW y \in Xids, pending'[y] # None
               PROVE  /\ task'[pending'[y].owner].phase \in Registering
                      /\ task'[pending'[y].owner].xid = y
                      /\ task'[pending'[y].owner].server = pending'[y].upstream_ip
                      /\ inbox'[pending'[y].owner] = None
    BY DEF EntryInv
  <2>1. y # d.xid /\ pending'[y] = pending[y]
    BY <1>1, <1>3 DEF IInv, DnsTypeOK
  <2>2. p # None => p.owner # pending[y].owner
    BY <1>1, <2>1, OwnerRegisters
  <2> QED BY <1>1, <1>2, <1>3, <2>1, <2>2, OwnerRegisters DEF IInv, DnsTypeOK
<1> QED BY <1>5, <1>6, <1>7 DEF IInv

LEMMA EnvironmentInv ==
    ASSUME IInv, (\E d \in Datagram : Lose(d)) \/ PruneCache \/ Tick
    PROVE  IInv'
<1>1. UNCHANGED <<forwarder, task, pending, inbox>> /\ wire' \subseteq Datagram
  BY DEF Lose, PruneCache, Tick, IInv, DnsTypeOK
<1>2. cache' \in [Keys -> CacheEntry \cup {None}]
  <2>1. CASE (\E d \in Datagram : Lose(d)) \/ PruneCache
    BY <2>1 DEF Lose, PruneCache, IInv, DnsTypeOK
  <2>2. CASE Tick
    <3>1. ASSUME NEW k \in Keys, IsFresh(k)
          PROVE  [cache[k] EXCEPT !.left = @ - 1] \in CacheEntry
      <4>1. cache[k] \in CacheEntry /\ cache[k].left \in 1 .. MAX_TTL
        BY <3>1, TtlAssumption DEF IsFresh, IInv, DnsTypeOK, CacheEntry
      <4> QED BY <4>1, TtlAssumption DEF CacheEntry
    <3> QED BY <2>2, <3>1 DEF Tick, IInv, DnsTypeOK
  <2> QED BY <2>1, <2>2
<1> QED BY <1>1, <1>2 DEF IInv, DnsTypeOK, TaskInv, EntryInv

LEMMA NextIInv ==
    ASSUME IInv, [Next]_vars
    PROVE  IInv'
<1>1. CASE UNCHANGED vars
  BY <1>1 DEF vars, IInv, DnsTypeOK, TaskInv, EntryInv
<1>2. ASSUME NEW t \in Tasks, TaskStep(t)
      PROVE  IInv'
  BY <1>2, LookupInv, RegisterInv, WaitInv, EndInv DEF TaskStep
<1> QED BY <1>1, <1>2, ForwarderInv, LookupInv, ReceiveReplyInv, EnvironmentInv DEF Next

LEMMA InvariantHolds == Spec => []IInv
BY InitIInv, NextIInv, PTL DEF Spec
-----------------------------------------------------------------------------
(***************************************************************************)
(* The registry of pending queries                                         *)
(***************************************************************************)

\* Every task, entry, datagram and cached answer has its type.
THEOREM DnsTypeCorrect == Spec => []DnsTypeOK
<1>1. IInv => DnsTypeOK
  BY DEF IInv
<1> QED BY <1>1, InvariantHolds, PTL

\* No entry of the registry outlives the query it was made for, even when ids
\* are drawn again early.
THEOREM RegistryDoesNotLeak == Spec => []NoEntryLeaks
<1>1. IInv => NoEntryLeaks
  BY OwnerRegisters DEF NoEntryLeaks, InUse
<1> QED BY <1>1, InvariantHolds, PTL

LEMMA InUseFinite ==
    IsFiniteSet(InUse) /\ Cardinality(InUse) \in Nat
BY XidAssumption, FS_Subset, FS_CardinalityType DEF InUse

\* A step adds an entry only below the limit, and one at most.
LEMMA InUseSteps ==
    ASSUME IInv, [Next]_vars
    PROVE  \/ InUse' \subseteq InUse
           \/ /\ Cardinality(InUse) < MAX_PENDING_QUERIES
              /\ \E x \in Xids : InUse' = InUse \cup {x} /\ x \notin InUse
<1>1. CASE \E t \in Tasks, x \in Xids : Register(t, x)
  <2> PICK t \in Tasks, x \in Xids : Register(t, x)
    BY <1>1
  <2> DEFINE e == [owner |-> t, upstream_ip |-> task[t].server]
  <2>1. e \in Entry /\ e # None
    BY NothingAssumption DEF Register, IInv, TaskInv, Entry
  <2>2. pending' = [pending EXCEPT ![x] = e] /\ pending[x] = None
        /\ Cardinality(InUse) < MAX_PENDING_QUERIES
    BY DEF Register, RegisterAs
  <2>3. InUse' = InUse \cup {x} /\ x \notin InUse
    BY <2>1, <2>2 DEF InUse, IInv, DnsTypeOK
  <2> QED BY <2>2, <2>3
<1>2. CASE ~\E t \in Tasks, x \in Xids : Register(t, x)
  <2>1. pending' = pending \/ \E x : pending' = [pending EXCEPT ![x] = None]
    BY <1>2 DEF Next, vars, tables, TaskStep, BindListener, BindFailed, BindUpstream, ReceiveQuery,
                LookupHit, LookupMiss, GetUpstreamDns, TooManyPending, SendUpstream, SendFails,
                GiveUp, Cleanup, Unregister, TakeReply, InsertCache, ReceiveReply, Dispatch, Lose,
                PruneCache, Tick
  <2> QED BY <2>1 DEF InUse, IInv, DnsTypeOK
<1> QED BY <1>1, <1>2

\* The registry never holds more than MAX_PENDING_QUERIES entries.
THEOREM PendingIsBounded == Spec => []PendingBounded
<1>1. Init => PendingBounded
  <2> SUFFICES ASSUME Init PROVE Cardinality(InUse) <= MAX_PENDING_QUERIES
    BY DEF PendingBounded
  <2>1. InUse = {}
    BY DEF Init, InUse
  <2> QED BY <2>1, FS_EmptySet, XidAssumption
<1>2. IInv /\ PendingBounded /\ [Next]_vars => PendingBounded'
  <2> SUFFICES ASSUME IInv, PendingBounded, [Next]_vars
               PROVE  Cardinality(InUse') <= MAX_PENDING_QUERIES
    BY DEF PendingBounded
  <2>1. CASE InUse' \subseteq InUse
    <3>1. Cardinality(InUse') <= Cardinality(InUse) /\ Cardinality(InUse') \in Nat
      BY <2>1, InUseFinite, FS_Subset, FS_CardinalityType
    <3> QED BY <3>1, InUseFinite, XidAssumption DEF PendingBounded
  <2>2. CASE /\ Cardinality(InUse) < MAX_PENDING_QUERIES
             /\ \E x \in Xids : InUse' = InUse \cup {x} /\ x \notin InUse
    <3> PICK x \in Xids : InUse' = InUse \cup {x} /\ x \notin InUse
      BY <2>2
    <3>1. Cardinality(InUse') = Cardinality(InUse) + 1
      BY InUseFinite, FS_AddElement
    <3> QED BY <2>2, <3>1, InUseFinite, XidAssumption
  <2> QED BY <2>1, <2>2, InUseSteps
<1> QED BY <1>1, <1>2, InvariantHolds, PTL DEF Spec

\* So there is always an id that is not in the registry, and the search for one,
\* which draws ids with the registry locked until one is free, can end: the limit
\* does "prevent infinite search loops under high load", as forward_query has it.
THEOREM SomeIdIsFree == Spec => [](\E x \in Xids : pending[x] = None)
<1>1. PendingBounded => \E x \in Xids : pending[x] = None
  <2> SUFFICES ASSUME PendingBounded, \A x \in Xids : pending[x] # None
               PROVE  FALSE
    OBVIOUS
  <2>1. InUse = Xids
    BY DEF InUse
  <2>2. Cardinality(Xids) <= MAX_PENDING_QUERIES
    BY <2>1 DEF PendingBounded
  <2> QED BY <2>2, XidAssumption, FS_CardinalityType
<1> QED BY <1>1, PendingIsBounded, PTL
-----------------------------------------------------------------------------
(***************************************************************************)
(* Answers, while no id is drawn before its last use is over               *)
(***************************************************************************)

\* No two queries hold one id, and what is on the wire under the id of a query is
\* that query.
FreshInv ==
    /\ \A t, u \in Tasks :
          t # u /\ task[t].phase \in Registering /\ task[u].phase \in Registering
              => task[t].xid # task[u].xid
    /\ \A d \in wire, t \in Tasks :
          task[t].phase \in Registering /\ task[t].xid = d.xid
              => d.key = task[t].key /\ d.server = task[t].server
    /\ AnswerMatches

\* A step in which no task starts to hold an id, no datagram is added and no
\* channel or cached answer changes but to None.
LEMMA QuietStep ==
    ASSUME IInv, FreshInv,
           wire' \subseteq wire, inbox' = inbox,
           \A k \in Keys : cache'[k] # None => cache[k] # None /\ cache'[k].answer = cache[k].answer,
           \A t \in Tasks :
              \/ task'[t] = task[t]
              \/ /\ task'[t].phase \notin Registering
                 /\ inbox[t] = None
              \/ /\ task[t].phase \in Registering
                 /\ task'[t].key = task[t].key
                 /\ task'[t].xid = task[t].xid
                 /\ task'[t].server = task[t].server
    PROVE  FreshInv'
<1> USE DEF FreshInv
<1>1. (\A t, u \in Tasks :
          t # u /\ task[t].phase \in Registering /\ task[u].phase \in Registering
              => task[t].xid # task[u].xid)'
  OBVIOUS
<1>2. (\A d \in wire, t \in Tasks :
          task[t].phase \in Registering /\ task[t].xid = d.xid
              => d.key = task[t].key /\ d.server = task[t].server)'
  OBVIOUS
<1>3. AnswerMatches'
  BY DEF AnswerMatches
<1> QED BY <1>1, <1>2, <1>3

LEMMA LookupFresh ==
    ASSUME IInv, FreshInv, NEW t \in Tasks,
           \/ \E key \in Keys : ReceiveQuery(t, key)
           \/ LookupHit(t)
           \/ LookupMiss(t)
           \/ GetUpstreamDns(t)
           \/ TooManyPending(t)
    PROVE  FreshInv'
<1>1. task \in [Tasks -> Task] /\ inbox[t] = None
  BY DEF ReceiveQuery, LookupHit, LookupMiss, GetUpstreamDns, TooManyPending, IInv, DnsTypeOK,
         TaskInv
<1>2. UNCHANGED <<pending, inbox, wire>>
  BY DEF ReceiveQuery, LookupHit, LookupMiss, GetUpstreamDns, TooManyPending
<1>3. task'[t].phase \notin Registering /\ \A u \in Tasks \ {t} : task'[u] = task[u]
  <2>1. CASE \E key \in Keys : ReceiveQuery(t, key)
    <3> PICK key \in Keys : ReceiveQuery(t, key)
      BY <2>1
    <3> DEFINE r == [Idle EXCEPT !.phase = "lookup", !.key = key]
    <3>1. r.phase = "lookup"
      BY DEF Idle
    <3>2. task' = [task EXCEPT ![t] = r]
      BY DEF ReceiveQuery
    <3> HIDE DEF r
    <3> QED BY <1>1, <3>1, <3>2 DEF Registering
  <2>2. CASE LookupHit(t) \/ TooManyPending(t)
    BY <1>1, <2>2 DEF LookupHit, TooManyPending, Ends, Idle, Registering
  <2>3. CASE LookupMiss(t)
    BY <2>3, GoesKeeps DEF LookupMiss, TaskPhases, Registering
  <2>4. CASE GetUpstreamDns(t)
    BY <1>1, <2>4 DEF GetUpstreamDns, Task, Registering
  <2> QED BY <2>1, <2>2, <2>3, <2>4
<1>4. \A k \in Keys : cache'[k] # None => cache[k] # None /\ cache'[k].answer = cache[k].answer
  BY DEF ReceiveQuery, LookupHit, LookupMiss, GetUpstreamDns, TooManyPending, IInv, DnsTypeOK
<1> QED BY <1>1, <1>2, <1>3, <1>4, QuietStep

LEMMA RegisterFresh ==
    ASSUME IInv, FreshInv, XidReuse = FALSE, NEW t \in Tasks, NEW x \in Xids, Register(t, x)
    PROVE  FreshInv'
<1>1. /\ task'[t].phase = "send" /\ task'[t].xid = x
      /\ task'[t].key = task[t].key /\ task'[t].server = task[t].server
      /\ \A u \in Tasks \ {t} : task'[u] = task[u]
  BY DEF Register, RegisterAs, IInv, DnsTypeOK, Task
<1>2. /\ \A u \in Tasks : task[u].phase \in Registering => task[u].xid # x
      /\ \A d \in wire : d.xid # x
      /\ inbox[t] = None
  BY DEF Register, RegisterAs, IsOver, IInv, TaskInv
<1>3. UNCHANGED <<inbox, wire, cache>>
  BY DEF Register, RegisterAs
<1>4. (\A u, v \in Tasks :
          u # v /\ task[u].phase \in Registering /\ task[v].phase \in Registering
              => task[u].xid # task[v].xid)'
  BY <1>1, <1>2 DEF FreshInv
<1>5. (\A d \in wire, u \in Tasks :
          task[u].phase \in Registering /\ task[u].xid = d.xid
              => d.key = task[u].key /\ d.server = task[u].server)'
  BY <1>1, <1>2, <1>3 DEF FreshInv
<1>6. AnswerMatches'
  BY <1>1, <1>3 DEF FreshInv, AnswerMatches
<1> QED BY <1>4, <1>5, <1>6 DEF FreshInv

LEMMA WaitFresh ==
    ASSUME IInv, FreshInv, NEW t \in Tasks, SendUpstream(t) \/ GiveUp(t) \/ TakeReply(t)
    PROVE  FreshInv'
<1>1. CASE SendUpstream(t)
  <2> DEFINE d == [xid |-> task[t].xid, server |-> task[t].server, key |-> task[t].key]
  <2>1. /\ task'[t].phase = "wait" /\ task[t].phase = "send"
        /\ task'[t].key = task[t].key /\ task'[t].xid = task[t].xid
        /\ task'[t].server = task[t].server
        /\ \A u \in Tasks \ {t} : task'[u] = task[u]
    BY <1>1, GoesKeeps DEF SendUpstream, TaskPhases, Registering
  <2>2. wire' = wire \cup {d} /\ UNCHANGED <<pending, inbox, cache>>
    BY <1>1 DEF SendUpstream
  <2>3. d.xid = task[t].xid /\ d.key = task[t].key /\ d.server = task[t].server
    OBVIOUS
  <2> HIDE DEF d
  <2>4. (\A u, v \in Tasks :
            u # v /\ task[u].phase \in Registering /\ task[v].phase \in Registering
                => task[u].xid # task[v].xid)'
    BY <2>1 DEF FreshInv, Registering
  <2>5. (\A c \in wire, u \in Tasks :
            task[u].phase \in Registering /\ task[u].xid = c.xid
                => c.key = task[u].key /\ c.server = task[u].server)'
    BY <2>1, <2>2, <2>3 DEF FreshInv, Registering
  <2>6. AnswerMatches'
    BY <2>1, <2>2 DEF FreshInv, AnswerMatches
  <2> QED BY <2>4, <2>5, <2>6 DEF FreshInv
<1>2. CASE GiveUp(t)
  <2>1. /\ task'[t].phase = "cleanup" /\ task[t].phase = "wait"
        /\ task'[t].key = task[t].key /\ task'[t].xid = task[t].xid
        /\ task'[t].server = task[t].server
        /\ \A u \in Tasks \ {t} : task'[u] = task[u]
    BY <1>2, GoesKeeps DEF GiveUp, TaskPhases, Registering
  <2>2. UNCHANGED <<pending, inbox, wire, cache>>
    BY <1>2 DEF GiveUp
  <2> QED BY <2>1, <2>2, QuietStep DEF Registering
<1>3. CASE TakeReply(t)
  <2>1. /\ task'[t].phase = "store" /\ task[t].phase = "wait" /\ inbox[t] # None
        /\ task'[t].key = task[t].key /\ task'[t].xid = task[t].xid
        /\ task'[t].server = task[t].server
        /\ \A u \in Tasks \ {t} : task'[u] = task[u]
    BY <1>3, GoesKeeps DEF TakeReply, TaskPhases, Registering
  <2>2. UNCHANGED <<pending, inbox, wire, cache>>
    BY <1>3 DEF TakeReply
  <2> QED BY <2>1, <2>2, QuietStep DEF Registering
<1> QED BY <1>1, <1>2, <1>3

LEMMA EndFresh ==
    ASSUME IInv, FreshInv, NEW t \in Tasks,
           SendFails(t) \/ Cleanup(t) \/ \E ttl \in Ttls : InsertCache(t, ttl)
    PROVE  FreshInv'
<1>1. /\ task'[t].phase = "idle" /\ task'[t].key = None
      /\ \A u \in Tasks \ {t} : task'[u] = task[u]
      /\ wire' = wire
  <2>1. task' = [task EXCEPT ![t] = Idle] /\ wire' = wire
    BY DEF SendFails, Cleanup, InsertCache, Ends
  <2>2. Idle.phase = "idle" /\ Idle.key = None
    BY DEF Idle
  <2> QED BY <2>1, <2>2 DEF IInv, DnsTypeOK
<1>2. inbox'[t] = None /\ \A u \in Tasks \ {t} : inbox'[u] = inbox[u]
  BY DEF SendFails, Cleanup, InsertCache, IInv, DnsTypeOK, TaskInv
<1>3. (\A u, v \in Tasks :
          u # v /\ task[u].phase \in Registering /\ task[v].phase \in Registering
              => task[u].xid # task[v].xid)'
  BY <1>1 DEF FreshInv, Registering
<1>4. (\A d \in wire, u \in Tasks :
          task[u].phase \in Registering /\ task[u].xid = d.xid
              => d.key = task[u].key /\ d.server = task[u].server)'
  BY <1>1 DEF FreshInv, Registering
<1>5. AnswerMatches'
  <2>1. \A u \in Tasks : inbox'[u] \in {task'[u].key, None}
    BY <1>1, <1>2 DEF FreshInv, AnswerMatches
  <2>2. \A k \in Keys : cache'[k] # None => cache'[k].answer = k
    <3>1. CASE SendFails(t) \/ Cleanup(t)
      BY <3>1 DEF SendFails, Cleanup, FreshInv, AnswerMatches
    <3>2. CASE \E ttl \in Ttls : InsertCache(t, ttl)
      <4>1. task[t].key \in Keys /\ inbox[t] = task[t].key
        BY <3>2 DEF InsertCache, IInv, TaskInv, FreshInv, AnswerMatches
      <4> QED BY <3>2, <4>1 DEF InsertCache, IInv, DnsTypeOK, FreshInv, AnswerMatches
    <3> QED BY <3>1, <3>2
  <2> QED BY <2>1, <2>2 DEF AnswerMatches
<1> QED BY <1>3, <1>4, <1>5 DEF FreshInv

\* Only an answer of the resolver that was asked reaches a channel.
LEMMA AcceptedIsAnswer ==
    ASSUME IInv, NEW d \in Datagram, ReceiveReply(d),
           pending[d.xid] # None, pending[d.xid].upstream_ip = d.server
    PROVE  d \in wire
<1>1. d.xid \in Xids
  BY DEF Datagram
<1>2. d.server \in Resolvers
  BY <1>1, OwnerRegisters
<1> QED BY <1>2, ElsewhereAssumption DEF ReceiveReply

LEMMA ReceiveReplyFresh ==
    ASSUME IInv, FreshInv, NEW d \in Datagram, ReceiveReply(d)
    PROVE  FreshInv'
<1> DEFINE p == pending[d.xid]
<1>1. d.xid \in Xids
  BY DEF Datagram
<1>2. wire' \subseteq wire /\ UNCHANGED <<task, cache>>
  BY DEF ReceiveReply
<1>3. inbox' = IF p # None /\ p.upstream_ip = d.server
                  /\ task[p.owner].phase \in {"send", "wait"}
               THEN [inbox EXCEPT ![p.owner] = d.key]
               ELSE inbox
  BY DEF ReceiveReply, Dispatch
<1>4. p # None /\ p.upstream_ip = d.server =>
         p.owner \in Tasks /\ d.key = task[p.owner].key
  BY <1>1, OwnerRegisters, AcceptedIsAnswer DEF FreshInv
<1>5. \A u \in Tasks : inbox'[u] = inbox[u] \/ inbox'[u] = task[u].key
  BY <1>3, <1>4 DEF IInv, DnsTypeOK
<1>6. AnswerMatches'
  BY <1>2, <1>5 DEF FreshInv, AnswerMatches
<1> QED BY <1>2, <1>6 DEF FreshInv

\* Steps of the forwarder, the wire and the clock: at most, something goes.
LEMMA EnvironmentFresh ==
    ASSUME IInv, FreshInv,
           \/ BindListener \/ BindFailed \/ BindUpstream
           \/ \E d \in Datagram : Lose(d)
           \/ PruneCache \/ Tick \/ UNCHANGED vars
    PROVE  FreshInv'
<1>1. UNCHANGED <<task, pending, inbox>> /\ wire' \subseteq wire
  BY DEF BindListener, BindFailed, BindUpstream, Lose, PruneCache, Tick, vars, tables
<1>2. \A k \in Keys : cache'[k] # None => cache[k] # None /\ cache'[k].answer = cache[k].answer
  <2>1. CASE Tick
    <3> SUFFICES ASSUME NEW k \in Keys, cache'[k] # None
                 PROVE  cache[k] # None /\ cache'[k].answer = cache[k].answer
      OBVIOUS
    <3>1. CASE IsFresh(k)
      <4>1. cache[k] \in CacheEntry /\ cache[k] # None
        BY <3>1 DEF IsFresh, IInv, DnsTypeOK
      <4>2. cache'[k] = [cache[k] EXCEPT !.left = @ - 1]
        BY <2>1, <3>1 DEF Tick
      <4> QED BY <4>1, <4>2 DEF CacheEntry
    <3>2. CASE ~IsFresh(k)
      BY <2>1, <3>2 DEF Tick
    <3> QED BY <3>1, <3>2
  <2>2. CASE PruneCache
    BY <2>2 DEF PruneCache
  <2>3. CASE ~Tick /\ ~PruneCache
    BY <2>3 DEF BindListener, BindFailed, BindUpstream, Lose, vars, tables
  <2> QED BY <2>1, <2>2, <2>3
<1> QED BY <1>1, <1>2, QuietStep

LEMMA NextFresh ==
    ASSUME IInv, FreshInv, XidReuse = FALSE, [Next]_vars
    PROVE  FreshInv'
<1>1. ASSUME NEW t \in Tasks, TaskStep(t)
      PROVE  FreshInv'
  BY <1>1, LookupFresh, RegisterFresh, WaitFresh, EndFresh DEF TaskStep
<1> QED BY <1>1, LookupFresh, ReceiveReplyFresh, EnvironmentFresh DEF Next

LEMMA FreshHolds ==
    ASSUME XidReuse = FALSE
    PROVE  Spec => []FreshInv
<1>1. Init => FreshInv
  BY DEF Init, FreshInv, AnswerMatches, Idle, Registering
<1>2. IInv /\ FreshInv /\ [Next]_vars => FreshInv'
  BY NextFresh
<1> QED BY <1>1, <1>2, InvariantHolds, PTL DEF Spec

\* Every query gets the answer to its own question, and the cache keeps every
\* answer under the question it answers, unless an id is drawn again early.
THEOREM AnswersMatchQuestions ==
    ASSUME XidReuse = FALSE
    PROVE  Spec => []AnswerMatches
<1>1. FreshInv => AnswerMatches
  BY DEF FreshInv
<1> QED BY <1>1, FreshHolds, PTL

\* A step that changes the entry of a query that sends or waits and not the query
\* itself is the arrival of a datagram under its id.
LEMMA EntryChanges ==
    ASSUME IInv, FreshInv, [Next]_vars, NEW t \in Tasks,
           task[t].phase \in {"send", "wait"}, Registered(t), UNCHANGED task[t],
           ~Registered(t)'
    PROVE  \E d \in Datagram : d.xid = task[t].xid /\ ReceiveReply(d)
<1>1. task[t].xid \in Xids /\ pending \in [Xids -> Entry \cup {None}]
  BY DEF IInv, DnsTypeOK, TaskInv, Registering
<1>2. pending[task[t].xid] # None
  <2>1. task[t].server \in Resolvers
    BY DEF IInv, TaskInv, Registering
  <2> QED BY <2>1, NothingAssumption DEF Registered, Entry
<1>3. pending'[task[t].xid] # pending[task[t].xid]
  BY DEF Registered
<1>4. ASSUME NEW u \in Tasks, TaskStep(u) PROVE FALSE
  <2>1. CASE \E x \in Xids : Register(u, x)
    BY <1>1, <1>2, <1>3, <2>1 DEF Register, RegisterAs
  <2>2. CASE SendFails(u) \/ Cleanup(u)
    <3>1. u # t
      <4>1. task'[u] = Idle /\ Idle.phase = "idle"
        BY <2>2 DEF SendFails, Cleanup, Ends, Idle, IInv, DnsTypeOK
      <4> QED BY <4>1
    <3>2. /\ task[u].phase \in Registering
          /\ pending' = [pending EXCEPT ![task[u].xid] = None]
      BY <2>2 DEF SendFails, Cleanup, Unregister, Registering
    <3>3. task[u].xid # task[t].xid
      BY <3>1, <3>2 DEF FreshInv, Registering
    <3> QED BY <1>1, <1>3, <3>2, <3>3
  <2>3. UNCHANGED pending \/ SendFails(u) \/ Cleanup(u) \/ \E x \in Xids : Register(u, x)
    BY <1>4 DEF TaskStep, LookupHit, LookupMiss, GetUpstreamDns, TooManyPending, SendUpstream,
                GiveUp, TakeReply, InsertCache
  <2> QED BY <1>3, <2>1, <2>2, <2>3
<1>5. PICK d \in Datagram : ReceiveReply(d)
  <2>1. CASE \/ BindListener \/ BindFailed \/ BindUpstream \/ UNCHANGED vars
             \/ \E u \in Tasks, key \in Keys : ReceiveQuery(u, key)
             \/ \E d \in Datagram : Lose(d)
             \/ PruneCache \/ Tick
    BY <1>3, <2>1 DEF BindListener, BindFailed, BindUpstream, ReceiveQuery, Lose, PruneCache,
                      Tick, vars, tables
  <2> QED BY <1>4, <2>1 DEF Next
<1>6. pending' = [pending EXCEPT ![d.xid] = None]
  BY <1>5 DEF ReceiveReply, Dispatch
<1>7. d.xid = task[t].xid
  BY <1>1, <1>3, <1>6
<1> QED BY <1>5, <1>7

\* Unless an id is drawn again early, the entry of a query that sends or waits goes
\* only by the query's own step, with its answer, or by a datagram from an address
\* that was not asked.
THEOREM EntriesStay ==
    ASSUME XidReuse = FALSE
    PROVE  Spec => EntryUndisturbed
<1>1. ASSUME IInv, FreshInv, [Next]_vars, NEW t \in Tasks,
             task[t].phase \in {"send", "wait"}, Registered(t), task'[t] = task[t],
             ~Registered(t)'
      PROVE  \/ inbox'[t] = task[t].key
             \/ \E d \in Datagram :
                   d.xid = task[t].xid /\ d.server = Elsewhere /\ ReceiveReply(d)
  <2>1. PICK d \in Datagram : d.xid = task[t].xid /\ ReceiveReply(d)
    BY <1>1, EntryChanges
  <2>2. CASE d \notin wire
    BY <2>1, <2>2 DEF ReceiveReply
  <2>3. CASE d \in wire
    <3>1. d.key = task[t].key /\ d.server = task[t].server
      BY <1>1, <2>1, <2>3 DEF FreshInv, Registering
    <3>2. pending[d.xid] = [owner |-> t, upstream_ip |-> d.server]
      BY <1>1, <2>1, <3>1 DEF Registered
    <3>3. pending[d.xid] # None
      <4>1. task[t].server \in Resolvers
        BY <1>1 DEF IInv, TaskInv, Registering
      <4> QED BY <3>1, <3>2, <4>1, NothingAssumption DEF Entry
    <3>4. inbox' = [inbox EXCEPT ![t] = d.key]
      BY <1>1, <2>1, <3>2, <3>3 DEF ReceiveReply, Dispatch
    <3> QED BY <1>1, <3>1, <3>4 DEF IInv, DnsTypeOK
  <2> QED BY <2>2, <2>3
<1>2. IInv /\ FreshInv /\ [Next]_vars =>
         [\A t \in Tasks :
             task[t].phase \in {"send", "wait"} /\ Registered(t) /\ task'[t] = task[t] =>
                 \/ Registered(t)'
                 \/ inbox'[t] = task[t].key
                 \/ \E d \in Datagram :
                       d.xid = task[t].xid /\ d.server = Elsewhere /\ ReceiveReply(d)]_vars
  BY <1>1
<1> QED BY <1>2, InvariantHolds, FreshHolds, PTL DEF Spec, EntryUndisturbed
-----------------------------------------------------------------------------
(***************************************************************************)
(* The forwarder implements the abstract resolver                          *)
(***************************************************************************)
IdleInv == \A t \in Tasks : task[t].phase = "idle" => task[t].key = None

\* A step of a task leaves its question alone, or ends the task, or both.
KeepsQuestion(t) ==
    /\ task \in [Tasks -> Task] /\ task' \in [Tasks -> Task]
    /\ task'[t].key = task[t].key /\ task[t].phase # "idle" /\ task'[t].phase # "idle"
    /\ \A u \in Tasks \ {t} : task'[u] = task[u]
    /\ UNCHANGED inbox

LEMMA WorkKeepsQuestion ==
    ASSUME IInv, NEW t \in Tasks,
           \/ LookupMiss(t) \/ GetUpstreamDns(t) \/ SendUpstream(t) \/ GiveUp(t) \/ TakeReply(t)
           \/ \E x \in Xids : Register(t, x)
    PROVE  KeepsQuestion(t)
<1>1. task \in [Tasks -> Task] /\ task[t] \in Task
  BY DEF IInv, DnsTypeOK
<1>2. CASE LookupMiss(t) \/ SendUpstream(t) \/ GiveUp(t) \/ TakeReply(t)
  <2>1. PICK p \in {"upstream", "wait", "cleanup", "store"} : Goes(t, p)
    BY <1>2 DEF LookupMiss, SendUpstream, GiveUp, TakeReply
  <2>2. task[t].phase # "idle" /\ UNCHANGED inbox
    BY <1>2 DEF LookupMiss, SendUpstream, GiveUp, TakeReply
  <2>3. p \in TaskPhases /\ p # "idle"
    BY DEF TaskPhases, Registering
  <2> QED BY <1>1, <2>1, <2>2, <2>3, GoesKeeps DEF KeepsQuestion
<1>3. CASE GetUpstreamDns(t)
  <2> PICK server \in Resolvers :
             task' = [task EXCEPT ![t].phase = "register", ![t].server = server]
    BY <1>3 DEF GetUpstreamDns
  <2> DEFINE r == [task[t] EXCEPT !.phase = "register", !.server = server]
  <2>1. r \in Task /\ r.phase = "register" /\ r.key = task[t].key
    BY <1>1 DEF Task, TaskPhases
  <2>2. task' = [task EXCEPT ![t] = r]
    BY <1>1
  <2>3. task[t].phase # "idle" /\ UNCHANGED inbox
    BY <1>3 DEF GetUpstreamDns
  <2> HIDE DEF r
  <2> QED BY <1>1, <2>1, <2>2, <2>3 DEF KeepsQuestion
<1>4. CASE \E x \in Xids : Register(t, x)
  <2> PICK x \in Xids : Register(t, x)
    BY <1>4
  <2> DEFINE r == [task[t] EXCEPT !.phase = "send", !.xid = x]
  <2>1. r \in Task /\ r.phase = "send" /\ r.key = task[t].key
    BY <1>1 DEF Task, TaskPhases, Registering
  <2>2. task' = [task EXCEPT ![t] = r]
    BY <1>1 DEF Register, RegisterAs
  <2>3. task[t].phase # "idle" /\ UNCHANGED inbox
    BY DEF Register, RegisterAs
  <2> HIDE DEF r
  <2> QED BY <1>1, <2>1, <2>2, <2>3 DEF KeepsQuestion
<1> QED BY <1>2, <1>3, <1>4

\* What has expired may go, and nothing that is kept has changed.
LEMMA KeptStays ==
    ASSUME \A k \in Keys : cache'[k] = cache[k] \/ (~IsFresh(k) /\ cache'[k] = None)
    PROVE  Kept' = Kept
<1>1. \A k \in Keys : (IsFresh(k)' <=> IsFresh(k)) /\ (IsFresh(k) => cache'[k] = cache[k])
  BY DEF IsFresh
<1>2. Kept' = [k \in Keys |-> IF IsFresh(k)' THEN cache'[k].answer ELSE None]
  BY DEF Kept
<1>3. Kept = [k \in Keys |-> IF IsFresh(k) THEN cache[k].answer ELSE None]
  BY DEF Kept
<1> QED BY <1>1, <1>2, <1>3

LEMMA AskedStays ==
    ASSUME NEW t \in Tasks, KeepsQuestion(t)
    PROVE  Asked' = Asked
<1>1. \A u \in Tasks : task'[u].key = task[u].key
  BY DEF KeepsQuestion
<1> QED BY <1>1 DEF Asked

\* A task that ends is done with its question.
LEMMA EndsFinishes ==
    ASSUME IInv, NEW t \in Tasks, task[t].phase # "idle", Ends(t),
           inbox' = [inbox EXCEPT ![t] = None],
           \/ Kept' = Kept
           \/ inbox[t] # None /\ Kept' = [Kept EXCEPT ![task[t].key] = inbox[t]]
    PROVE  AbstractResolver!Finish(t)
<1>1. task \in [Tasks -> Task] /\ task[t].key \in Keys /\ task[t].key # None
  BY NothingAssumption DEF IInv, DnsTypeOK, TaskInv
<1>2. task' = [task EXCEPT ![t] = Idle] /\ Idle.key = None
  BY DEF Ends, Idle
<1>3. Asked' = [Asked EXCEPT ![t] = None] /\ Asked[t] = task[t].key
  BY <1>1, <1>2 DEF Asked
<1> HIDE DEF Asked, Kept
<1> QED BY <1>1, <1>3 DEF AbstractResolver!Finish

\* Those who end without an answer, and those who keep theirs.
LEMMA EndRefines ==
    ASSUME IInv, NEW t \in Tasks,
           \/ LookupHit(t) \/ TooManyPending(t) \/ SendFails(t) \/ Cleanup(t)
           \/ \E ttl \in Ttls : InsertCache(t, ttl)
    PROVE  AbstractResolver!Finish(t)
<1>1. task[t].phase # "idle" /\ Ends(t)
  BY DEF LookupHit, TooManyPending, SendFails, Cleanup, InsertCache
<1>2. inbox' = [inbox EXCEPT ![t] = None]
  <2>1. CASE LookupHit(t) \/ TooManyPending(t) \/ Cleanup(t)
    <3>1. inbox' = inbox /\ inbox[t] = None
      BY <2>1 DEF LookupHit, TooManyPending, Cleanup, IInv, TaskInv
    <3> QED BY <3>1 DEF IInv, DnsTypeOK
  <2>2. CASE SendFails(t) \/ \E ttl \in Ttls : InsertCache(t, ttl)
    BY <2>2 DEF SendFails, InsertCache
  <2> QED BY <2>1, <2>2
<1>3. CASE LookupHit(t) \/ TooManyPending(t) \/ SendFails(t) \/ Cleanup(t)
  <2>1. cache' = cache
    BY <1>3 DEF LookupHit, TooManyPending, SendFails, Cleanup
  <2>2. Kept' = Kept
    BY <2>1, KeptStays
  <2> QED BY <1>1, <1>2, <2>2, EndsFinishes
<1>4. CASE \E ttl \in Ttls : InsertCache(t, ttl)
  <2> PICK ttl \in Ttls : InsertCache(t, ttl)
    BY <1>4
  <2>1. CASE ttl = 0
    <3>1. Kept' = Kept
      BY <2>1, KeptStays DEF InsertCache
    <3> QED BY <1>1, <1>2, <3>1, EndsFinishes
  <2>2. CASE ttl # 0
    <3> DEFINE e == [answer |-> inbox[t], left |-> Min({MAX_TTL, ttl})]
    <3>1. /\ inbox[t] \in Keys /\ inbox[t] # None
          /\ cache \in [Keys -> CacheEntry \cup {None}]
      BY NothingAssumption DEF InsertCache, IInv, TaskInv, DnsTypeOK
    <3>2. PICK q \in Keys : q = task[t].key
      BY DEF InsertCache, IInv, TaskInv
    <3>3. Min({MAX_TTL, ttl}) \in 0 .. MAX_TTL /\ Min({MAX_TTL, ttl}) > 0
      <4>1. ttl \in Nat /\ ttl > 0 /\ MAX_TTL \in Nat /\ MAX_TTL > 0
        BY <2>2, TtlAssumption
      <4>2. MAX_TTL \in Int /\ ttl \in Int
        BY <4>1
      <4>3. /\ Min({MAX_TTL, ttl}) \in {MAX_TTL, ttl}
            /\ Min({MAX_TTL, ttl}) <= MAX_TTL
        BY <4>2, MinOfTwo, Zenon
      <4> QED BY <4>1, <4>3
    <3>4. e \in CacheEntry /\ e # None /\ e.answer = inbox[t] /\ e.left > 0
      BY <3>1, <3>3, NothingAssumption DEF CacheEntry
    <3>5. cache' = [cache EXCEPT ![q] = e]
      BY <2>2, <3>2 DEF InsertCache
    <3> HIDE DEF e
    <3>6. Kept' = [Kept EXCEPT ![q] = inbox[t]]
      <4>1. Kept' = [k \in Keys |-> IF IsFresh(k)' THEN cache'[k].answer ELSE None]
        BY DEF Kept
      <4>2. Kept = [k \in Keys |-> IF IsFresh(k) THEN cache[k].answer ELSE None]
        BY DEF Kept
      <4>3. cache'[q] = e
        BY <3>1, <3>5
      <4>4. IsFresh(q)' /\ cache'[q].answer = inbox[t]
        BY <3>4, <4>3 DEF IsFresh
      <4>5. \A k \in Keys \ {q} : cache'[k] = cache[k] /\ (IsFresh(k)' <=> IsFresh(k))
        BY <3>1, <3>5 DEF IsFresh
      <4> HIDE DEF Kept
      <4> QED BY <4>1, <4>2, <4>4, <4>5
    <3> QED BY <1>1, <1>2, <3>1, <3>2, <3>6, EndsFinishes
  <2> QED BY <2>1, <2>2
<1> QED BY <1>3, <1>4

\* An answer is the first that its owner is given, and to the owner's question.
LEMMA ReplyRefines ==
    ASSUME IInv, FreshInv, NEW d \in Datagram, ReceiveReply(d)
    PROVE  \/ UNCHANGED <<Asked, inbox, Kept>>
           \/ \E t \in Tasks : AbstractResolver!Answer(t)
<1> DEFINE p == pending[d.xid]
<1>1. d.xid \in Xids /\ UNCHANGED <<task, cache>>
  BY DEF Datagram, ReceiveReply
<1>2. Asked' = Asked /\ Kept' = Kept
  BY <1>1, KeptStays DEF Asked
<1>3. CASE p # None /\ p.upstream_ip = d.server /\ task[p.owner].phase \in {"send", "wait"}
  <2>1. inbox' = [inbox EXCEPT ![p.owner] = d.key]
    BY <1>3 DEF ReceiveReply, Dispatch
  <2>2. /\ p.owner \in Tasks /\ inbox[p.owner] = None
        /\ task[p.owner].phase \in Registering /\ task[p.owner].xid = d.xid
    BY <1>1, <1>3, OwnerRegisters
  <2>3. d.key = task[p.owner].key /\ task[p.owner].key \in Keys
    BY <1>3, <2>2, AcceptedIsAnswer DEF FreshInv, IInv, TaskInv, Registering
  <2>4. Asked[p.owner] = d.key /\ d.key # None
    BY <2>2, <2>3, NothingAssumption DEF Asked
  <2> HIDE DEF p, Asked, Kept
  <2>5. AbstractResolver!Answer(p.owner)
    BY <1>2, <2>1, <2>2, <2>4 DEF AbstractResolver!Answer
  <2> QED BY <2>2, <2>5
<1>4. CASE ~(p # None /\ p.upstream_ip = d.server /\ task[p.owner].phase \in {"send", "wait"})
  <2>1. inbox' = inbox
    BY <1>4 DEF ReceiveReply, Dispatch
  <2> QED BY <1>2, <2>1
<1> QED BY <1>3, <1>4

\* What expires in a tick is forgotten.
LEMMA TickRefines ==
    ASSUME IInv, Tick
    PROVE  \E Q \in SUBSET Keys : AbstractResolver!Forget(Q)
<1> DEFINE Q == {k \in Keys : ~IsFresh(k)'}
<1>1. ASSUME NEW k \in Keys, IsFresh(k)'
      PROVE  IsFresh(k) /\ cache'[k].answer = cache[k].answer
  <2>1. CASE IsFresh(k)
    <3>1. cache[k] \in CacheEntry
      BY <2>1 DEF IsFresh, IInv, DnsTypeOK
    <3>2. cache'[k] = [cache[k] EXCEPT !.left = @ - 1]
      BY <2>1 DEF Tick
    <3> QED BY <2>1, <3>1, <3>2 DEF CacheEntry
  <2>2. CASE ~IsFresh(k)
    <3>1. cache'[k] = cache[k]
      BY <2>2 DEF Tick
    <3> QED BY <1>1, <2>2, <3>1 DEF IsFresh
  <2> QED BY <2>1, <2>2
<1>2. Kept' = [k \in Keys |-> IF k \in Q THEN None ELSE Kept[k]]
  <2>1. Kept' = [k \in Keys |-> IF IsFresh(k)' THEN cache'[k].answer ELSE None]
    BY DEF Kept
  <2>2. \A k \in Keys : Kept[k] = IF IsFresh(k) THEN cache[k].answer ELSE None
    BY DEF Kept
  <2> HIDE DEF Kept
  <2> QED BY <1>1, <2>1, <2>2
<1>3. UNCHANGED <<Asked, inbox>>
  BY DEF Tick, Asked
<1> HIDE DEF Q, Kept, Asked
<1>4. AbstractResolver!Forget(Q)
  BY <1>2, <1>3, Zenon DEF AbstractResolver!Forget
<1>5. Q \in SUBSET Keys
  BY DEF Q
<1> QED BY <1>4, <1>5

\* Steps that show in nothing that those who ask can see.
LEMMA HiddenSteps ==
    ASSUME IInv,
           \/ BindListener \/ BindFailed \/ BindUpstream
           \/ \E d \in Datagram : Lose(d)
           \/ PruneCache \/ UNCHANGED vars
    PROVE  UNCHANGED <<Asked, inbox, Kept>>
<1>1. UNCHANGED <<task, inbox>>
  BY DEF BindListener, BindFailed, BindUpstream, Lose, PruneCache, vars, tables
<1>2. \A k \in Keys : cache'[k] = cache[k] \/ (~IsFresh(k) /\ cache'[k] = None)
  BY DEF BindListener, BindFailed, BindUpstream, Lose, PruneCache, vars, tables
<1> QED BY <1>1, <1>2, KeptStays DEF Asked

\* A task works on its question unseen, and ends with it.
LEMMA TaskRefines ==
    ASSUME IInv, NEW t \in Tasks, TaskStep(t)
    PROVE  UNCHANGED <<Asked, inbox, Kept>> \/ AbstractResolver!Finish(t)
<1>1. CASE \/ LookupMiss(t) \/ GetUpstreamDns(t) \/ SendUpstream(t) \/ GiveUp(t) \/ TakeReply(t)
           \/ \E x \in Xids : Register(t, x)
  <2>1. KeepsQuestion(t)
    BY <1>1, WorkKeepsQuestion
  <2>2. \A k \in Keys : cache'[k] = cache[k] \/ (~IsFresh(k) /\ cache'[k] = None)
    BY <1>1 DEF LookupMiss, GetUpstreamDns, SendUpstream, GiveUp, TakeReply, Register, RegisterAs,
                IInv, DnsTypeOK
  <2>3. UNCHANGED inbox
    BY <2>1 DEF KeepsQuestion
  <2> QED BY <2>1, <2>2, <2>3, AskedStays, KeptStays
<1>2. CASE \/ LookupHit(t) \/ TooManyPending(t) \/ SendFails(t) \/ Cleanup(t)
           \/ \E ttl \in Ttls : InsertCache(t, ttl)
  BY <1>2, EndRefines
<1> QED BY <1>1, <1>2 DEF TaskStep

LEMMA AskRefines ==
    ASSUME IInv, IdleInv, NEW t \in Tasks, NEW key \in Keys, ReceiveQuery(t, key)
    PROVE  AbstractResolver!Ask(t, key)
<1> DEFINE r == [Idle EXCEPT !.phase = "lookup", !.key = key]
<1>1. task' = [task EXCEPT ![t] = r] /\ task[t].key = None /\ UNCHANGED <<inbox, cache>>
  BY DEF ReceiveQuery, IdleInv
<1>2. r.key = key /\ task \in [Tasks -> Task]
  BY DEF Idle, IInv, DnsTypeOK
<1> HIDE DEF r
<1>3. Asked' = [Asked EXCEPT ![t] = key] /\ Asked[t] = None
  BY <1>1, <1>2 DEF Asked
<1>4. Kept' = Kept
  BY <1>1, KeptStays
<1> HIDE DEF Asked, Kept
<1> QED BY <1>1, <1>3, <1>4 DEF AbstractResolver!Ask

LEMMA IdleSteps ==
    ASSUME IInv, IdleInv, [Next]_vars
    PROVE  IdleInv'
<1>1. task \in [Tasks -> Task]
  BY DEF IInv, DnsTypeOK
<1>2. ASSUME NEW t \in Tasks, NEW r,
             task' = [task EXCEPT ![t] = r], r.phase = "idle" => r.key = None
      PROVE  IdleInv'
  BY <1>1, <1>2 DEF IdleInv
<1>3. ASSUME NEW t \in Tasks, NEW key \in Keys, ReceiveQuery(t, key) PROVE IdleInv'
  <2> DEFINE r == [Idle EXCEPT !.phase = "lookup", !.key = key]
  <2>1. task' = [task EXCEPT ![t] = r]
    BY <1>3 DEF ReceiveQuery
  <2>2. r.phase # "idle"
    BY DEF Idle
  <2> HIDE DEF r
  <2> QED BY <1>2, <2>1, <2>2
<1>4. ASSUME NEW t \in Tasks, TaskStep(t) PROVE IdleInv'
  <2>1. CASE \/ LookupMiss(t) \/ GetUpstreamDns(t) \/ SendUpstream(t) \/ GiveUp(t)
             \/ TakeReply(t) \/ \E x \in Xids : Register(t, x)
    <3>1. KeepsQuestion(t)
      BY <2>1, WorkKeepsQuestion
    <3> QED BY <3>1 DEF KeepsQuestion, IdleInv
  <2>2. CASE \/ LookupHit(t) \/ TooManyPending(t) \/ SendFails(t) \/ Cleanup(t)
             \/ \E ttl \in Ttls : InsertCache(t, ttl)
    <3>1. task' = [task EXCEPT ![t] = Idle]
      BY <2>2 DEF LookupHit, TooManyPending, SendFails, Cleanup, InsertCache, Ends
    <3> QED BY <1>2, <3>1 DEF Idle
  <2> QED BY <1>4, <2>1, <2>2 DEF TaskStep
<1>5. CASE UNCHANGED task
  BY <1>5 DEF IdleInv
<1>6. CASE \/ BindListener \/ BindFailed \/ BindUpstream \/ UNCHANGED vars
           \/ \E d \in Datagram : ReceiveReply(d) \/ Lose(d)
           \/ PruneCache \/ Tick
  BY <1>5, <1>6 DEF BindListener, BindFailed, BindUpstream, ReceiveReply, Lose, PruneCache, Tick,
                    vars, tables
<1> QED BY <1>3, <1>4, <1>6 DEF Next

\* The forwarder implements the abstract resolver, unless an id is drawn again
\* early: whatever is lost, late or repeated, a question gets one answer at most
\* and its own, and the cache keeps nothing else.
THEOREM ForwarderImplementsResolver ==
    ASSUME XidReuse = FALSE
    PROVE  Spec => ImplementsResolver
<1>1. Init => AbstractResolver!Init /\ IdleInv
  BY DEF Init, AbstractResolver!Init, Asked, Kept, Idle, IsFresh, IdleInv
<1>2. IInv /\ FreshInv /\ IdleInv /\ [Next]_vars
      => [AbstractResolver!Next]_(AbstractResolver!resolverVars) /\ IdleInv'
  <2> SUFFICES ASSUME IInv, FreshInv, IdleInv, [Next]_vars
               PROVE  [AbstractResolver!Next]_(AbstractResolver!resolverVars)
    BY IdleSteps
  <2> USE DEF AbstractResolver!Next, AbstractResolver!resolverVars
  <2> HIDE DEF Asked, Kept
  <2>1. ASSUME NEW t \in Tasks, NEW key \in Keys, ReceiveQuery(t, key)
        PROVE  AbstractResolver!Next
    BY <2>1, AskRefines
  <2>2. ASSUME NEW t \in Tasks, TaskStep(t)
        PROVE  [AbstractResolver!Next]_(AbstractResolver!resolverVars)
    BY <2>2, TaskRefines
  <2>3. ASSUME NEW d \in Datagram, ReceiveReply(d)
        PROVE  [AbstractResolver!Next]_(AbstractResolver!resolverVars)
    BY <2>3, ReplyRefines
  <2>4. CASE Tick
    BY <2>4, TickRefines
  <2>5. CASE \/ BindListener \/ BindFailed \/ BindUpstream \/ UNCHANGED vars
             \/ (\E d \in Datagram : Lose(d)) \/ PruneCache
    BY <2>5, HiddenSteps
  <2> QED BY <2>1, <2>2, <2>3, <2>4, <2>5 DEF Next
<1> QED BY <1>1, <1>2, InvariantHolds, FreshHolds, PTL
        DEF Spec, ImplementsResolver, AbstractResolver!Spec
=============================================================================
