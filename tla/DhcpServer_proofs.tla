-------------------------- MODULE DhcpServer_proofs -------------------------
(***************************************************************************)
(* Theorems about the LAN DHCP server, for every network size, every       *)
(* number of clients and every lease length.                               *)
(***************************************************************************)
EXTENDS DhcpServer, WellFoundedInduction, TLAPS

-----------------------------------------------------------------------------
(***************************************************************************)
(* The lease table's operators                                             *)
(***************************************************************************)

\* A nonempty set of naturals has a least element, which Min returns.
LEMMA MinOfNaturals ==
    ASSUME NEW S, S \subseteq Nat, S # {}
    PROVE  Min(S) \in S
<1>1. PICK x \in S : \A y \in S : ~(<<y, x>> \in OpToRel(<, Nat))
  BY NatLessThanWellFounded, WFMin
<1>2. \A y \in S : x =< y
  <2>1. SUFFICES ASSUME NEW y \in S PROVE x =< y
    OBVIOUS
  <2>2. <<y, x>> \notin OpToRel(<, Nat) /\ y \in Nat /\ x \in Nat
    BY <1>1
  <2>3. ~(y < x)
    BY <2>2, Zenon DEF OpToRel
  <2>4. x \in Nat /\ y \in Nat
    OBVIOUS
  <2> QED BY <2>3, <2>4
<1> QED BY <1>2, Zenon DEF Min

\* Every host address is an address of the network.
LEMMA HostsInNet == Hosts \subseteq Net /\ Net \subseteq Nat
BY NetAssumption DEF Hosts, Net

\* next_available_ip returns nothing only when no host is free, and otherwise
\* a host that is free in the index and is not the router's address.
LEMMA NextAvailableIpIsFree ==
    ASSUME NEW t
    PROVE  \/ NextAvailableIp(t) = None /\ FreeHosts(t) = {}
           \/ /\ NextAvailableIp(t) \in Net
              /\ NextAvailableIp(t) # server_ip
              /\ NextAvailableIp(t) \notin t.allocated_ips
<1>1. CASE FreeHosts(t) = {}
  BY <1>1 DEF NextAvailableIp
<1>2. CASE FreeHosts(t) # {}
  <2>1. FreeHosts(t) \subseteq Nat
    BY HostsInNet DEF FreeHosts
  <2>2. Min(FreeHosts(t)) \in FreeHosts(t)
    BY <1>2, <2>1, MinOfNaturals
  <2>3. NextAvailableIp(t) \in FreeHosts(t)
    BY <1>2, <2>2 DEF NextAvailableIp
  <2> QED BY <2>3, HostsInNet DEF FreeHosts, IsIpAvailable
<1> QED BY <1>1, <1>2

\* What insert, remove, evict_expired and time leave is a table.
LEMMA InsertType ==
    ASSUME NEW t \in Table, NEW m \in Macs, NEW ip \in Net
    PROVE  Insert(t, m, ip) \in Table
BY LeaseAssumption DEF Insert, Table, FreshLease, ClientLease

LEMMA RemoveType ==
    ASSUME NEW t \in Table, NEW m \in Macs
    PROVE  Remove(t, m) \in Table
BY DEF Remove, Table

LEMMA EntryType ==
    ASSUME NEW t \in Table, NEW m \in Macs, HasEntry(t, m)
    PROVE  Get(t, m) \in ClientLease /\ Get(t, m).ip \in Net
BY DEF Table, HasEntry, Get, ClientLease

LEMMA EvictExpiredType ==
    ASSUME NEW t \in Table
    PROVE  EvictExpired(t) \in Table
<1>1. RetainLive(t) \in [Macs -> ClientLease \cup {None}]
  BY EntryType DEF RetainLive, IsLive
<1>2. IpsOf(t, {m \in Macs : IsLive(t, m)}) \subseteq Net
  BY EntryType DEF IpsOf
<1> QED BY <1>1, <1>2 DEF EvictExpired, Table

LEMMA AgeType ==
    ASSUME NEW lease \in ClientLease
    PROVE  /\ Age(lease) \in ClientLease
           /\ Age(lease).ip = lease.ip
           /\ Age(lease).left > 0 => lease.left > 0
BY LeaseAssumption DEF Age, ClientLease

LEMMA AgedType ==
    ASSUME NEW t \in Table
    PROVE  Aged(t) \in Table
BY EntryType, AgeType DEF Aged, Table

\* insert gives m a full lease of ip, remove leaves m none, and neither
\* touches the entry of another client.
LEMMA InsertEntries ==
    ASSUME NEW t \in Table, NEW m \in Macs, NEW ip \in Net, NEW c \in Macs
    PROVE  /\ c = m => /\ IsLive(Insert(t, m, ip), c)
                       /\ Get(Insert(t, m, ip), c).ip = ip
           /\ c # m => Get(Insert(t, m, ip), c) = Get(t, c)
<1>1. FreshLease(ip) \in ClientLease /\ FreshLease(ip).ip = ip /\ FreshLease(ip).left > 0
  BY LeaseAssumption DEF FreshLease, ClientLease
<1>2. Get(Insert(t, m, ip), m) = FreshLease(ip)
  BY DEF Get, Insert, Table
<1>3. c # m => Get(Insert(t, m, ip), c) = Get(t, c)
  BY DEF Get, Insert, Table
<1> QED BY <1>1, <1>2, <1>3, NoneAssumption DEF IsLive, HasEntry

LEMMA RemoveEntries ==
    ASSUME NEW t \in Table, NEW m \in Macs, NEW c \in Macs
    PROVE  /\ c = m => ~HasEntry(Remove(t, m), c)
           /\ c # m => Get(Remove(t, m), c) = Get(t, c)
BY DEF Get, Remove, Table, HasEntry

\* evict_expired keeps the live entries as they are and no other, and leaves
\* exactly their addresses in the index.
LEMMA EvictExpiredEntries ==
    ASSUME NEW t \in Table, NEW c \in Macs
    PROVE  /\ IsLive(t, c) => Get(EvictExpired(t), c) = Get(t, c)
           /\ IsLive(EvictExpired(t), c) <=> IsLive(t, c)
           /\ HasEntry(EvictExpired(t), c) <=> IsLive(t, c)
           /\ IsLive(t, c) => Get(t, c).ip \in EvictExpired(t).allocated_ips
<1>1. Get(EvictExpired(t), c) = IF IsLive(t, c) THEN Get(t, c) ELSE None
  BY DEF Get, EvictExpired, RetainLive
<1>2. IsLive(t, c) => HasEntry(t, c)
  BY DEF IsLive
<1>3. IsLive(t, c) => Get(t, c).ip \in EvictExpired(t).allocated_ips
  BY <1>2 DEF EvictExpired, IpsOf
<1> QED BY <1>1, <1>2, <1>3 DEF IsLive, HasEntry

\* Time leaves every entry its address and makes no lease live.
LEMMA AgedEntries ==
    ASSUME NEW t \in Table, NEW c \in Macs
    PROVE  /\ HasEntry(Aged(t), c) <=> HasEntry(t, c)
           /\ HasEntry(t, c) => Get(Aged(t), c).ip = Get(t, c).ip
           /\ IsLive(Aged(t), c) => IsLive(t, c)
<1>1. Get(Aged(t), c) = IF HasEntry(t, c) THEN Age(Get(t, c)) ELSE None
  BY DEF Get, Aged, Table
<1>2. HasEntry(t, c) => /\ Age(Get(t, c)) \in ClientLease
                        /\ Age(Get(t, c)).ip = Get(t, c).ip
                        /\ Age(Get(t, c)).left > 0 => Get(t, c).left > 0
  BY EntryType, AgeType
<1> QED BY <1>1, <1>2, NoneAssumption DEF HasEntry, IsLive
-----------------------------------------------------------------------------
(***************************************************************************)
(* What a step may do to the table                                         *)
(***************************************************************************)
Reserves(m, ip) ==
    /\ ~HasEntry(leases, m)
    /\ ip \notin Evicted.allocated_ips
    /\ leases' = Insert(Evicted, m, ip)

Leases(m, ip) ==
    /\ ~IsIpTakenByOther(leases, ip, m)
    /\ leases' = Insert(leases, m, ip)

TableStep ==
    \/ UNCHANGED leases
    \/ leases' = EmptyTable
    \/ leases' = Evicted
    \/ leases' = Aged(leases)
    \/ \E m \in Macs : leases' = Remove(leases, m)
    \/ \E m \in Macs, ip \in Net \ {server_ip} : Reserves(m, ip) \/ Leases(m, ip)

\* Every packet handler changes the table in one of these ways, for the client
\* the packet names.
LEMMA DispatchTableStep ==
    ASSUME TypeOK, NEW pkt \in Packet, ProcessIncomingPacket(pkt)
    PROVE  LET m == pkt.chaddr IN
           \/ UNCHANGED leases
           \/ leases' = Evicted
           \/ ~Spoofed(pkt) /\ leases' = Remove(leases, m)
           \/ ~Spoofed(pkt) /\ \E ip \in Net \ {server_ip} : Reserves(m, ip) \/ Leases(m, ip)
<1> DEFINE m == pkt.chaddr
<1>1. CASE Spoofed(pkt)
  BY <1>1 DEF ProcessIncomingPacket
<1>2. CASE ~Spoofed(pkt) /\ HandleDiscover(m)
  <2>1. CASE Reoffer(m)
    BY <2>1 DEF Reoffer
  <2>2. CASE OfferNew(m)
    <3>1. Reserves(m, NextAvailableIp(Evicted))
      BY <2>2, NextAvailableIpIsFree DEF OfferNew, Reserves
    <3> QED BY <3>1, <2>2, <1>2, NextAvailableIpIsFree DEF OfferNew
  <2>3. CASE PoolExhausted(m)
    BY <2>3 DEF PoolExhausted
  <2> QED BY <1>2, <2>1, <2>2, <2>3 DEF HandleDiscover
<1>3. CASE ~Spoofed(pkt) /\ HandleRequest(m, pkt.requested)
  BY <1>3 DEF HandleRequest, SendNak, AckRequest, ValidateRequestedIp, Leases
<1>4. CASE ~Spoofed(pkt) /\ RemoveLease(m)
  BY <1>4 DEF RemoveLease
<1>5. \/ Spoofed(pkt)
      \/ HandleDiscover(m) \/ HandleRequest(m, pkt.requested) \/ RemoveLease(m)
      \/ UNCHANGED leases
  BY DEF ProcessIncomingPacket, Dispatch, HandleDecline, HandleRelease
<1> QED BY <1>1, <1>2, <1>3, <1>4, <1>5

LEMMA NextTableStep ==
    ASSUME TypeOK, [Next]_vars
    PROVE  TableStep
<1>1. ASSUME NEW pkt \in Packet, ReceivePacket(pkt) PROVE TableStep
  <2>1. pkt.chaddr \in Macs
    BY DEF Packet
  <2> QED BY <1>1, <2>1, DispatchTableStep DEF ReceivePacket, TableStep
<1>2. CASE OpenSocket \/ ReadError \/ Reboot \/ Tick \/ UNCHANGED vars
  BY <1>2 DEF OpenSocket, ReadError, Reboot, Tick, vars, TableStep
<1> QED BY <1>1, <1>2 DEF Next
-----------------------------------------------------------------------------
(***************************************************************************)
(* Type correctness                                                        *)
(***************************************************************************)
LEMMA InitTypeOK == Init => TypeOK
BY NoneAssumption DEF Init, TypeOK, EmptyTable, Table, Reply

LEMMA TableStepType ==
    ASSUME leases \in Table, TableStep
    PROVE  leases' \in Table
<1>1. Evicted \in Table
  BY EvictExpiredType DEF Evicted
<1>2. EmptyTable \in Table
  BY DEF EmptyTable, Table
<1> QED BY <1>1, <1>2, AgedType, RemoveType, InsertType DEF TableStep, Reserves, Leases

LEMMA NextReplyType ==
    ASSUME TypeOK, [Next]_vars
    PROVE  reply' \in Reply \cup {None} /\ socket' \in {"open", "closed"}
<1>1. ASSUME NEW type \in {"Offer", "Ack", "Nak"}, NEW m \in Macs,
             NEW ip \in Net \cup {None}, SendReply(type, m, ip)
      PROVE  reply' \in Reply \cup {None}
  BY <1>1 DEF SendReply, Reply
<1>2. ASSUME NEW pkt \in Packet, ReceivePacket(pkt)
      PROVE  reply' \in Reply \cup {None}
  <2> DEFINE m == pkt.chaddr
  <2>1. m \in Macs
    BY DEF Packet
  <2>2. ASSUME HandleDiscover(m) PROVE reply' \in Reply \cup {None}
    <3>1. HasEntry(leases, m) => Get(leases, m).ip \in Net
      BY <2>1, EntryType DEF TypeOK
    <3> QED BY <2>1, <2>2, <3>1, <1>1, NextAvailableIpIsFree
            DEF HandleDiscover, Reoffer, OfferNew, PoolExhausted
  <2>3. ASSUME HandleRequest(m, pkt.requested) PROVE reply' \in Reply \cup {None}
    BY <2>1, <2>3, <1>1 DEF HandleRequest, SendNak, AckRequest, ValidateRequestedIp
  <2> QED BY <1>2, <2>2, <2>3
          DEF ReceivePacket, ProcessIncomingPacket, Dispatch, HandleDecline, HandleRelease,
              RemoveLease
<1>3. CASE OpenSocket \/ ReadError \/ Reboot \/ Tick \/ UNCHANGED vars
  BY <1>3 DEF OpenSocket, ReadError, Reboot, Tick, vars, TypeOK
<1>4. ASSUME NEW pkt \in Packet, ReceivePacket(pkt) PROVE socket' \in {"open", "closed"}
  BY <1>4 DEF ReceivePacket, TypeOK
<1>5. CASE OpenSocket \/ ReadError \/ Reboot \/ Tick \/ UNCHANGED vars
  BY <1>5 DEF OpenSocket, ReadError, Reboot, Tick, vars, TypeOK
<1> QED BY <1>2, <1>3, <1>4, <1>5 DEF Next

\* The lease table, the socket and the frame sent always have their types; in
\* particular only addresses of the LAN's network ever enter the table,
\* whatever addresses the clients request.
THEOREM TypeCorrect == Spec => []TypeOK
<1>1. TypeOK /\ [Next]_vars => TypeOK'
  BY NextTableStep, TableStepType, NextReplyType DEF TypeOK
<1> QED BY InitTypeOK, <1>1, PTL DEF Spec
-----------------------------------------------------------------------------
(***************************************************************************)
(* No address is leased twice                                              *)
(***************************************************************************)

\* A table whose live leases are, with their addresses, live leases of t.
LiveWithin(u, t) ==
    \A c \in Macs : IsLive(u, c) => IsLive(t, c) /\ Get(u, c).ip = Get(t, c).ip

UniqueIn(t) ==
    \A c, d \in Macs :
        c # d /\ IsLive(t, c) /\ IsLive(t, d) => Get(t, c).ip # Get(t, d).ip

\* Leases that only end cannot come to clash.
LEMMA LiveWithinUnique ==
    ASSUME NEW t, NEW u, UniqueIn(t), LiveWithin(u, t)
    PROVE  UniqueIn(u)
BY DEF UniqueIn, LiveWithin

\* A lease of an address that no other live lease has keeps them distinct.
LEMMA InsertUnique ==
    ASSUME NEW t \in Table, UniqueIn(t), NEW m \in Macs, NEW ip \in Net,
           ~IsIpTakenByOther(t, ip, m)
    PROVE  UniqueIn(Insert(t, m, ip))
<1> DEFINE u == Insert(t, m, ip)
<1>1. Get(u, m).ip = ip
  BY InsertEntries
<1>2. ASSUME NEW c \in Macs \ {m}, IsLive(u, c)
      PROVE  IsLive(t, c) /\ Get(u, c).ip = Get(t, c).ip /\ Get(t, c).ip # ip
  BY <1>2, InsertEntries DEF IsLive, HasEntry, IsIpTakenByOther
<1> QED BY <1>1, <1>2 DEF UniqueIn

LEMMA TableStepUnique ==
    ASSUME TypeOK, UniqueLiveLease, TableStep
    PROVE  UniqueLiveLease'
<1>1. UniqueIn(leases) /\ leases \in Table
  BY DEF UniqueIn, UniqueLiveLease, TypeOK
<1>2. LiveWithin(Evicted, leases) /\ Evicted \in Table
  BY <1>1, EvictExpiredEntries, EvictExpiredType DEF LiveWithin, Evicted
<1>3. SUFFICES UniqueIn(leases')
  BY DEF UniqueIn, UniqueLiveLease
<1>4. CASE UNCHANGED leases
  BY <1>1, <1>4
<1>5. CASE leases' = EmptyTable
  BY <1>5 DEF UniqueIn, EmptyTable, IsLive, HasEntry, Get
<1>6. CASE leases' = Evicted
  BY <1>1, <1>2, <1>6, LiveWithinUnique
<1>7. CASE leases' = Aged(leases)
  <2>1. LiveWithin(Aged(leases), leases)
    BY <1>1, AgedEntries DEF LiveWithin, IsLive
  <2> QED BY <1>1, <2>1, <1>7, LiveWithinUnique
<1>8. ASSUME NEW m \in Macs, leases' = Remove(leases, m)
      PROVE  UniqueIn(leases')
  <2>1. LiveWithin(Remove(leases, m), leases)
    BY <1>1, RemoveEntries DEF LiveWithin, IsLive, HasEntry
  <2> QED BY <1>1, <2>1, <1>8, LiveWithinUnique
<1>9. ASSUME NEW m \in Macs, NEW ip \in Net, Reserves(m, ip)
      PROVE  UniqueIn(leases')
  <2>1. UniqueIn(Evicted)
    BY <1>1, <1>2, LiveWithinUnique
  <2>2. ~IsIpTakenByOther(Evicted, ip, m)
    BY <1>1, <1>9, EvictExpiredEntries DEF IsIpTakenByOther, Reserves, Evicted
  <2> QED BY <1>2, <2>1, <2>2, <1>9, InsertUnique DEF Reserves
<1>10. ASSUME NEW m \in Macs, NEW ip \in Net, Leases(m, ip)
       PROVE  UniqueIn(leases')
  BY <1>1, <1>10, InsertUnique DEF Leases
<1> QED BY <1>4, <1>5, <1>6, <1>7, <1>8, <1>9, <1>10 DEF TableStep

\* No two clients ever have a live lease of one address: neither a DISCOVER
\* that takes the first free host of an index that another client's RELEASE
\* has left incomplete, nor a REQUEST for an arbitrary address, breaks it.
THEOREM NoAddressLeasedTwice == Spec => []UniqueLiveLease
<1>1. Init => UniqueLiveLease
  BY DEF Init, UniqueLiveLease, EmptyTable, IsLive, HasEntry, Get
<1>2. TypeOK /\ UniqueLiveLease /\ [Next]_vars => UniqueLiveLease'
  BY NextTableStep, TableStepUnique
<1> QED BY <1>1, <1>2, TypeCorrect, PTL DEF Spec
-----------------------------------------------------------------------------
(***************************************************************************)
(* No address leaks, and the router's own is never leased                  *)
(***************************************************************************)
IndexCovered(t) == t.allocated_ips \subseteq IpsOf(t, Macs)
ServerFree(t) == server_ip \notin IpsOf(t, Macs)

\* insert drops the address of the client's old entry from the index: every
\* other indexed address still has the entry that had it.
LEMMA InsertIndex ==
    ASSUME NEW t \in Table, NEW m \in Macs, NEW ip \in Net
    PROVE  /\ IndexCovered(t) => IndexCovered(Insert(t, m, ip))
           /\ ServerFree(t) /\ ip # server_ip => ServerFree(Insert(t, m, ip))
<1> DEFINE u == Insert(t, m, ip)
<1>1. HasEntry(u, m) /\ Get(u, m).ip = ip
  BY InsertEntries DEF IsLive
<1>2. \A c \in Macs \ {m} : Get(u, c) = Get(t, c)
  BY InsertEntries
<1>3. u.allocated_ips = (t.allocated_ips \ IpsOf(t, {m})) \cup {ip}
  BY DEF Insert
<1>4. IndexCovered(t) => IndexCovered(u)
  <2>1. SUFFICES ASSUME IndexCovered(t), NEW a \in u.allocated_ips
                 PROVE  \E c \in Macs : HasEntry(u, c) /\ a = Get(u, c).ip
    BY DEF IndexCovered, IpsOf
  <2>2. CASE a = ip
    BY <1>1, <2>2
  <2>3. CASE a # ip
    <3>1. PICK c \in Macs : HasEntry(t, c) /\ a = Get(t, c).ip
      BY <1>3, <2>1, <2>3 DEF IndexCovered, IpsOf
    <3>2. c # m
      BY <1>3, <2>3, <3>1 DEF IpsOf
    <3> QED BY <1>2, <3>1, <3>2 DEF HasEntry
  <2> QED BY <2>2, <2>3
<1>5. ServerFree(t) /\ ip # server_ip => ServerFree(u)
  BY <1>1, <1>2 DEF ServerFree, IpsOf, HasEntry
<1> QED BY <1>4, <1>5

LEMMA RemoveIndex ==
    ASSUME NEW t \in Table, NEW m \in Macs
    PROVE  /\ IndexCovered(t) => IndexCovered(Remove(t, m))
           /\ ServerFree(t) => ServerFree(Remove(t, m))
<1>1. \A c \in Macs \ {m} : Get(Remove(t, m), c) = Get(t, c)
  BY RemoveEntries
<1>2. ~HasEntry(Remove(t, m), m)
  BY RemoveEntries
<1>3. Remove(t, m).allocated_ips = t.allocated_ips \ IpsOf(t, {m})
  BY DEF Remove
<1> QED BY <1>1, <1>2, <1>3 DEF IndexCovered, ServerFree, IpsOf, HasEntry

\* evict_expired rebuilds the index from the entries it keeps.
LEMMA EvictExpiredIndex ==
    ASSUME NEW t \in Table
    PROVE  /\ IndexCovered(EvictExpired(t))
           /\ ServerFree(t) => ServerFree(EvictExpired(t))
<1>1. \A c \in Macs : IsLive(t, c) => /\ HasEntry(EvictExpired(t), c)
                                     /\ Get(EvictExpired(t), c) = Get(t, c)
  BY EvictExpiredEntries
<1>2. \A c \in Macs : HasEntry(EvictExpired(t), c) => IsLive(t, c)
  BY EvictExpiredEntries
<1>3. EvictExpired(t).allocated_ips = IpsOf(t, {m \in Macs : IsLive(t, m)})
  BY DEF EvictExpired
<1> QED BY <1>1, <1>2, <1>3 DEF IndexCovered, ServerFree, IpsOf, IsLive

LEMMA AgedIndex ==
    ASSUME NEW t \in Table
    PROVE  /\ IndexCovered(t) => IndexCovered(Aged(t))
           /\ ServerFree(t) => ServerFree(Aged(t))
<1>1. Aged(t).allocated_ips = t.allocated_ips
  BY DEF Aged, Table
<1> QED BY <1>1, AgedEntries DEF IndexCovered, ServerFree, IpsOf

LEMMA TableStepIndex ==
    ASSUME TypeOK, NoLeakedAddress, ServerIpNeverLeased, TableStep
    PROVE  NoLeakedAddress' /\ ServerIpNeverLeased'
<1> DEFINE Good(t) == IndexCovered(t) /\ ServerFree(t)
<1>1. Good(leases) /\ leases \in Table
  BY DEF IndexCovered, ServerFree, NoLeakedAddress, ServerIpNeverLeased, TypeOK
<1>2. Good(Evicted) /\ Evicted \in Table
  BY <1>1, EvictExpiredIndex, EvictExpiredType DEF Evicted
<1>3. Good(EmptyTable)
  BY DEF IndexCovered, ServerFree, EmptyTable, IpsOf, HasEntry, Get
<1>4. Good(Aged(leases))
  BY <1>1, AgedIndex
<1>5. ASSUME NEW m \in Macs PROVE Good(Remove(leases, m))
  BY <1>1, RemoveIndex
<1>6. ASSUME NEW m \in Macs, NEW ip \in Net \ {server_ip}
      PROVE  Good(Insert(leases, m, ip)) /\ Good(Insert(Evicted, m, ip))
  BY <1>1, <1>2, InsertIndex
<1>7. Good(leases')
  BY <1>1, <1>2, <1>3, <1>4, <1>5, <1>6 DEF TableStep, Reserves, Leases
<1> QED BY <1>7 DEF IndexCovered, ServerFree, NoLeakedAddress, ServerIpNeverLeased

LEMMA TableKeepsPool == Spec => [](NoLeakedAddress /\ ServerIpNeverLeased)
<1>1. Init => NoLeakedAddress /\ ServerIpNeverLeased
  BY DEF Init, NoLeakedAddress, ServerIpNeverLeased, EmptyTable, IpsOf, HasEntry, Get
<1>2. /\ TypeOK /\ NoLeakedAddress /\ ServerIpNeverLeased /\ [Next]_vars
      => NoLeakedAddress' /\ ServerIpNeverLeased'
  BY NextTableStep, TableStepIndex
<1> QED BY <1>1, <1>2, TypeCorrect, PTL DEF Spec

\* An indexed address always has an entry, so the pool never shrinks for good.
THEOREM PoolNeverShrinks == Spec => []NoLeakedAddress
BY TableKeepsPool, PTL

\* Neither a DISCOVER nor a REQUEST, whatever it asks for, puts the router's own
\* address into the table.
THEOREM RouterKeepsItsAddress == Spec => []ServerIpNeverLeased
BY TableKeepsPool, PTL
-----------------------------------------------------------------------------
(***************************************************************************)
(* What a step may never do                                                *)
(***************************************************************************)

\* A DISCOVER of a client without an entry goes unanswered only when every
\* host but the router is under a live lease.
THEOREM ExhaustionIsReal == Spec => NoFalseExhaustion
<1>1. ASSUME TypeOK, NEW m \in Macs, PoolExhausted(m)
      PROVE  Hosts \ {server_ip} \subseteq IpsOf(leases, {c \in Macs : IsLive(leases, c)})
  <2>1. FreeHosts(Evicted) = {}
    <3>1. NextAvailableIp(Evicted) = None
      BY <1>1 DEF PoolExhausted
    <3>2. None \notin Net
      BY NoneAssumption, NetAssumption DEF Net
    <3> QED BY <3>1, <3>2, NextAvailableIpIsFree
  <2>2. Evicted.allocated_ips = IpsOf(leases, {c \in Macs : IsLive(leases, c)})
    BY DEF Evicted, EvictExpired
  <2> QED BY <2>1, <2>2 DEF FreeHosts, IsIpAvailable
<1>2. TypeOK /\ [Next]_vars =>
        [\A m \in Macs : socket = "open" /\ PoolExhausted(m) =>
           Hosts \ {server_ip} \subseteq IpsOf(leases, {c \in Macs : IsLive(leases, c)})]_vars
  BY <1>1
<1> QED BY <1>2, TypeCorrect, PTL DEF Spec, NoFalseExhaustion

\* A step that is not a packet of m, nor a reboot, leaves m's live lease its
\* entry and its address.
LEMMA OthersKeepLease ==
    ASSUME TypeOK, NEW m \in Macs, IsLive(leases, m),
           \/ UNCHANGED leases
           \/ leases' = Evicted
           \/ leases' = Aged(leases)
           \/ \E c \in Macs \ {m} :
                \/ leases' = Remove(leases, c)
                \/ \E ip \in Net : Reserves(c, ip) \/ Leases(c, ip)
    PROVE  KeepsLease(m)
<1>1. leases \in Table /\ HasEntry(leases, m)
  BY DEF TypeOK, IsLive
<1>2. Evicted \in Table /\ Get(Evicted, m) = Get(leases, m)
  BY <1>1, EvictExpiredType, EvictExpiredEntries DEF Evicted
<1>3. CASE UNCHANGED leases \/ leases' = Evicted
  BY <1>1, <1>2, <1>3 DEF KeepsLease, HasEntry
<1>4. CASE leases' = Aged(leases)
  BY <1>1, <1>4, AgedEntries DEF KeepsLease, HasEntry
<1>5. ASSUME NEW c \in Macs \ {m}, leases' = Remove(leases, c)
      PROVE  KeepsLease(m)
  <2>1. Get(leases', m) = Get(leases, m)
    BY <1>1, <1>5, RemoveEntries
  <2> QED BY <1>1, <2>1 DEF KeepsLease, HasEntry
<1>6. ASSUME NEW c \in Macs \ {m}, NEW ip \in Net, Reserves(c, ip) \/ Leases(c, ip)
      PROVE  KeepsLease(m)
  <2>1. Get(leases', m) = Get(leases, m)
    BY <1>1, <1>2, <1>6, InsertEntries DEF Reserves, Leases
  <2> QED BY <1>1, <2>1 DEF KeepsLease, HasEntry
<1> QED BY <1>3, <1>4, <1>5, <1>6

\* A client's live lease ends or moves only by expiring, by a reboot or by a
\* packet of its own.
THEOREM OnlyTheClientEndsItsLease == Spec => LiveLeaseUndisturbed
<1> DEFINE Ended(m) ==
             \/ Reboot
             \/ \E pkt \in Packet : pkt.chaddr = m /\ ~Spoofed(pkt) /\ ReceivePacket(pkt)
<1>1. ASSUME TypeOK, Next, NEW m \in Macs, IsLive(leases, m), ~KeepsLease(m)
      PROVE  Ended(m)
  <2>1. ASSUME NEW pkt \in Packet, ReceivePacket(pkt) PROVE Ended(m)
    <3>1. pkt.chaddr \in Macs /\ ProcessIncomingPacket(pkt)
      BY <2>1 DEF Packet, ReceivePacket
    <3>2. CASE pkt.chaddr = m /\ ~Spoofed(pkt)
      BY <2>1, <3>2
    <3>3. CASE pkt.chaddr = m /\ Spoofed(pkt)
      BY <1>1, <3>1, <3>3, OthersKeepLease DEF ProcessIncomingPacket
    <3>4. CASE pkt.chaddr # m
      BY <1>1, <3>1, <3>4, DispatchTableStep, OthersKeepLease
    <3> QED BY <3>2, <3>3, <3>4
  <2>2. CASE OpenSocket \/ ReadError \/ Tick
    BY <1>1, <2>2, OthersKeepLease DEF OpenSocket, ReadError, Tick
  <2> QED BY <1>1, <2>1, <2>2 DEF Next
<1>2. TypeOK /\ [Next]_vars =>
        [\A m \in Macs : IsLive(leases, m) /\ ~KeepsLease(m) => Ended(m)]_vars
  BY <1>1
<1> QED BY <1>2, TypeCorrect, PTL DEF Spec, LiveLeaseUndisturbed
-----------------------------------------------------------------------------
(***************************************************************************)
(* What the server sends                                                   *)
(***************************************************************************)

\* A frame that was just sent says what the table holds: the address offered is
\* the one of the client's entry, the one acknowledged is under a full lease.
ReplyBacked ==
    reply # None =>
        /\ reply.type = "Offer" => /\ HasEntry(leases, reply.mac)
                                  /\ Get(leases, reply.mac).ip = reply.ip
        /\ reply.type = "Ack" => Get(leases, reply.mac) = FreshLease(reply.ip)

LEMMA DiscoverReply ==
    ASSUME TypeOK, NEW m \in Macs, HandleDiscover(m)
    PROVE  ReplyBacked'
<1>1. CASE Reoffer(m)
  BY <1>1 DEF Reoffer, SendReply, ReplyBacked
<1>2. CASE OfferNew(m)
  <2> DEFINE ip == NextAvailableIp(Evicted)
  <2>1. /\ ip \in Net /\ leases' = Insert(Evicted, m, ip)
        /\ reply' \in {[type |-> "Offer", mac |-> m, ip |-> ip], None}
    BY <1>2, NextAvailableIpIsFree DEF OfferNew, SendReply
  <2>2. Evicted \in Table
    BY EvictExpiredType DEF TypeOK, Evicted
  <2> HIDE DEF ip
  <2>3. HasEntry(leases', m) /\ Get(leases', m).ip = ip
    BY <2>1, <2>2, InsertEntries DEF IsLive
  <2> QED BY <2>1, <2>3 DEF ReplyBacked
<1>3. CASE PoolExhausted(m)
  BY <1>3 DEF PoolExhausted, ReplyBacked
<1> QED BY <1>1, <1>2, <1>3 DEF HandleDiscover

LEMMA RequestReply ==
    ASSUME TypeOK, NEW m \in Macs, NEW requested, HandleRequest(m, requested)
    PROVE  ReplyBacked'
<1>1. ASSUME NEW ip, AckRequest(m, ip) PROVE ReplyBacked'
  <2>1. Get(leases', m) = FreshLease(ip)
    BY <1>1 DEF AckRequest, Insert, Get, TypeOK, Table
  <2> QED BY <1>1, <2>1 DEF AckRequest, SendReply, ReplyBacked
<1>2. ASSUME NEW ip, SendNak(m, ip) PROVE ReplyBacked'
  BY <1>2 DEF SendNak, SendReply, ReplyBacked
<1>3. CASE reply' = None
  BY <1>3 DEF ReplyBacked
<1> QED BY <1>1, <1>2, <1>3 DEF HandleRequest

\* The handlers change the table before they answer, and answer what they have
\* entered: no OFFER and no ACK leaves the server for an address that is not in
\* the client's entry, and every ACK starts a full lease.
THEOREM RepliesAreBacked == Spec => []ReplyBacked
<1>1. Init => ReplyBacked
  BY DEF Init, ReplyBacked
<1>2. TypeOK /\ ReplyBacked /\ [Next]_vars => ReplyBacked'
  <2> SUFFICES ASSUME TypeOK, ReplyBacked, [Next]_vars PROVE ReplyBacked'
    OBVIOUS
  <2>1. ASSUME NEW pkt \in Packet, ReceivePacket(pkt) PROVE ReplyBacked'
    <3>1. pkt.chaddr \in Macs
      BY DEF Packet
    <3>2. reply' = None => ReplyBacked'
      BY DEF ReplyBacked
    <3> QED BY <2>1, <3>1, <3>2, DiscoverReply, RequestReply
            DEF ReceivePacket, ProcessIncomingPacket, Dispatch, HandleDecline, HandleRelease,
                RemoveLease
  <2>2. CASE OpenSocket \/ ReadError \/ Reboot \/ Tick
    BY <2>2 DEF OpenSocket, ReadError, Reboot, Tick, ReplyBacked
  <2>3. CASE UNCHANGED vars
    BY <2>3 DEF vars, ReplyBacked
  <2> QED BY <2>1, <2>2, <2>3 DEF Next
<1> QED BY <1>1, <1>2, TypeCorrect, PTL DEF Spec

\* OfferNotTaken, which the program does not keep, fails in one case alone: what
\* is offered although another client leases it is the address of the client's
\* own entry, which has expired and which get returned all the same.
THEOREM OnlyStaleEntriesClash ==
    Spec => [](~OfferNotTaken => /\ HasEntry(leases, reply.mac)
                                 /\ ~IsLive(leases, reply.mac)
                                 /\ Get(leases, reply.mac).ip = reply.ip)
<1>1. TypeOK /\ ReplyBacked /\ UniqueLiveLease =>
        (~OfferNotTaken => /\ HasEntry(leases, reply.mac)
                           /\ ~IsLive(leases, reply.mac)
                           /\ Get(leases, reply.mac).ip = reply.ip)
  <2> SUFFICES ASSUME TypeOK, ReplyBacked, UniqueLiveLease, ~OfferNotTaken
               PROVE  /\ HasEntry(leases, reply.mac)
                      /\ ~IsLive(leases, reply.mac)
                      /\ Get(leases, reply.mac).ip = reply.ip
    OBVIOUS
  <2>1. /\ reply # None /\ reply.type = "Offer" /\ reply.mac \in Macs
        /\ IsIpTakenByOther(leases, reply.ip, reply.mac)
    BY DEF OfferNotTaken, TypeOK, Reply
  <2>2. HasEntry(leases, reply.mac) /\ Get(leases, reply.mac).ip = reply.ip
    BY <2>1 DEF ReplyBacked
  <2>3. ~IsLive(leases, reply.mac)
    BY <2>1, <2>2 DEF IsIpTakenByOther, UniqueLiveLease
  <2> QED BY <2>2, <2>3
<1> QED BY <1>1, TypeCorrect, RepliesAreBacked, NoAddressLeasedTwice, PTL
-----------------------------------------------------------------------------
(***************************************************************************)
(* The server implements the abstract pool                                 *)
(***************************************************************************)
HolderIn(t) == [m \in Macs |-> IF IsLive(t, m) THEN Get(t, m).ip ELSE None]

\* Leases that only end free the addresses of their clients.
LEMMA EndingFrees ==
    ASSUME LiveWithin(leases', leases)
    PROVE  Pool!Next
<1> DEFINE C == {m \in Macs : ~IsLive(leases', m)}
<1>1. LiveHolder' = HolderIn(leases') /\ LiveHolder = HolderIn(leases)
  BY DEF LiveHolder, HolderIn
<1>2. HolderIn(leases') = [m \in Macs |-> IF m \in C THEN None ELSE HolderIn(leases)[m]]
  BY DEF LiveWithin, HolderIn
<1>3. Pool!Free(C)
  BY <1>1, <1>2 DEF Pool!Free
<1> QED BY <1>3 DEF Pool!Next

\* A lease inserted for an address no other client has is a grant of it.
LEMMA InsertGrants ==
    ASSUME NEW t \in Table, HolderIn(t) = LiveHolder, NEW m \in Macs, NEW ip \in Net,
           ~IsIpTakenByOther(t, ip, m), leases' = Insert(t, m, ip)
    PROVE  Pool!Next
<1>1. LiveHolder' = HolderIn(Insert(t, m, ip))
  BY DEF LiveHolder, HolderIn
<1>2. \A c \in Macs \ {m} : Get(Insert(t, m, ip), c) = Get(t, c)
  BY InsertEntries
<1>3. IsLive(Insert(t, m, ip), m) /\ Get(Insert(t, m, ip), m).ip = ip
  BY InsertEntries
<1>4. HolderIn(Insert(t, m, ip)) = [HolderIn(t) EXCEPT ![m] = ip]
  BY <1>2, <1>3 DEF HolderIn, IsLive, HasEntry
<1>5. ip # None
  BY NoneAssumption, NetAssumption DEF Net
<1>6. \A d \in Macs \ {m} : HolderIn(t)[d] # ip
  BY <1>5 DEF HolderIn, IsIpTakenByOther
<1>7. Pool!Grant(m, ip)
  BY <1>1, <1>4, <1>6 DEF Pool!Grant
<1> QED BY <1>7 DEF Pool!Next

LEMMA TableStepRefines ==
    ASSUME TypeOK, TableStep
    PROVE  [Pool!Next]_LiveHolder
<1>1. leases \in Table /\ Evicted \in Table
  BY EvictExpiredType DEF TypeOK, Evicted
<1>2. CASE UNCHANGED leases
  BY <1>2 DEF LiveHolder
<1>3. CASE leases' = EmptyTable
  BY <1>3, EndingFrees DEF LiveWithin, EmptyTable, IsLive, HasEntry, Get
<1>4. CASE leases' = Evicted
  BY <1>1, <1>4, EvictExpiredEntries, EndingFrees DEF LiveWithin, Evicted
<1>5. CASE leases' = Aged(leases)
  <2>1. LiveWithin(Aged(leases), leases)
    BY <1>1, AgedEntries DEF LiveWithin, IsLive
  <2> QED BY <1>5, <2>1, EndingFrees
<1>6. ASSUME NEW m \in Macs, leases' = Remove(leases, m) PROVE Pool!Next
  <2>1. LiveWithin(Remove(leases, m), leases)
    BY <1>1, RemoveEntries DEF LiveWithin, IsLive, HasEntry
  <2> QED BY <1>6, <2>1, EndingFrees
<1>7. ASSUME NEW m \in Macs, NEW ip \in Net, Reserves(m, ip) PROVE Pool!Next
  <2>1. HolderIn(Evicted) = LiveHolder
    BY <1>1, EvictExpiredEntries DEF HolderIn, LiveHolder, Evicted
  <2>2. ~IsIpTakenByOther(Evicted, ip, m)
    BY <1>1, <1>7, EvictExpiredEntries DEF IsIpTakenByOther, Reserves, Evicted
  <2> QED BY <1>1, <1>7, <2>1, <2>2, InsertGrants DEF Reserves
<1>8. ASSUME NEW m \in Macs, NEW ip \in Net, Leases(m, ip) PROVE Pool!Next
  <2>1. HolderIn(leases) = LiveHolder
    BY DEF HolderIn, LiveHolder
  <2> QED BY <1>1, <1>8, <2>1, InsertGrants DEF Leases
<1> QED BY <1>2, <1>3, <1>4, <1>5, <1>6, <1>7, <1>8 DEF TableStep

\* Seen through the live leases, the server is the abstract pool: it grants
\* only what nobody holds and otherwise only frees.
THEOREM ServerImplementsPool == Spec => ImplementsPool
<1>1. Init => Pool!Init
  BY DEF Init, Pool!Init, LiveHolder, EmptyTable, IsLive, HasEntry, Get
<1>2. TypeOK /\ [Next]_vars => [Pool!Next]_LiveHolder
  BY NextTableStep, TableStepRefines
<1> QED BY <1>1, <1>2, TypeCorrect, PTL DEF Spec, ImplementsPool, Pool!Spec
=============================================================================
