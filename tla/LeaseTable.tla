----------------------------- MODULE LeaseTable -----------------------------
(***************************************************************************)
(* The lease table of the LAN DHCP server: LeaseTable of                   *)
(* src/src/services/dhcp_server.rs as operators on a table t, which is a   *)
(* record of the map by_mac and of the index allocated_ips kept beside it. *)
(*                                                                         *)
(* Addresses are offsets in the LAN's network: 0 is the network address,   *)
(* NetSize - 1 the broadcast address, and NetSize stands for every address *)
(* outside the network.  An expiry is kept as the number of ticks left     *)
(* until it (0: the expiry has passed), which time's passing counts down,  *)
(* so that the state space needs no bound on the clock.                    *)
(***************************************************************************)
EXTENDS Integers, FiniteSets, FiniteSetsExt

CONSTANTS
    Macs,        \* the clients, by hardware address
    NetSize,     \* number of addresses of the LAN's network
    server_ip,   \* the router's own address in it
    LAN_LEASE,   \* LAN_LEASE_SECS, in ticks
    None         \* the absence of a lease, of an address or of a message

Net == 0 .. NetSize - 1
Ip == 0 .. NetSize

\* ipnet's hosts(): all addresses of a /31 or /32, else neither end.
Hosts == IF NetSize <= 2 THEN Net ELSE 1 .. NetSize - 2

ClientLease == [ip: Net, left: 0 .. LAN_LEASE]
Table == [by_mac: [Macs -> ClientLease \cup {None}], allocated_ips: SUBSET Net]

ASSUME NetAssumption == NetSize \in Nat \ {0} /\ server_ip \in Net
ASSUME LeaseAssumption == LAN_LEASE \in Nat \ {0}
ASSUME NoneAssumption == None \notin ClientLease /\ None \notin Int
-----------------------------------------------------------------------------
EmptyTable == [by_mac |-> [m \in Macs |-> None], allocated_ips |-> {}]

Get(t, m) == t.by_mac[m]
HasEntry(t, m) == Get(t, m) # None
IsLive(t, m) == HasEntry(t, m) /\ Get(t, m).left > 0

\* The addresses of the clients C that have an entry.
IpsOf(t, C) == {Get(t, m).ip : m \in {c \in C : HasEntry(t, c)}}

FreshLease(ip) == [ip |-> ip, left |-> LAN_LEASE]

Insert(t, m, ip) ==
    [by_mac |-> [t.by_mac EXCEPT ![m] = FreshLease(ip)],
     allocated_ips |-> (t.allocated_ips \ IpsOf(t, {m})) \cup {ip}]

\* Mistake: a released address stays in the index.
RemoveLeavesIndex(t, m) == [t EXCEPT !.by_mac[m] = None]

Remove(t, m) ==
    [by_mac |-> [t.by_mac EXCEPT ![m] = None],
     allocated_ips |-> t.allocated_ips \ IpsOf(t, {m})]

IsIpAvailable(t, ip) == ip \notin t.allocated_ips

\* Mistake: the client itself is not excepted.
IsIpTaken(t, ip, m) == \E c \in Macs : IsLive(t, c) /\ Get(t, c).ip = ip

IsIpTakenByOther(t, ip, m) ==
    \E c \in Macs \ {m} : IsLive(t, c) /\ Get(t, c).ip = ip

\* Mistake: a lease in its last tick is evicted as well.
RetainOutlivingTick(t) ==
    [m \in Macs |-> IF HasEntry(t, m) /\ Get(t, m).left > 1 THEN Get(t, m) ELSE None]

RetainLive(t) == [m \in Macs |-> IF IsLive(t, m) THEN Get(t, m) ELSE None]

\* Mistake: the index is not rebuilt.
EvictLeavesIndex(t) == [t EXCEPT !.by_mac = RetainLive(t)]

EvictExpired(t) ==
    [by_mac |-> RetainLive(t),
     allocated_ips |-> IpsOf(t, {m \in Macs : IsLive(t, m)})]

\* The two halves of next_available_ip: the table it leaves is EvictExpired(t),
\* and this is the address it returns on that table.
FreeHosts(t) == {ip \in Hosts : ip # server_ip /\ IsIpAvailable(t, ip)}
NextAvailableIp(t) == IF FreeHosts(t) = {} THEN None ELSE Min(FreeHosts(t))

\* Mistake: the time left of an expired entry goes on falling.
AgeBelowZero(lease) == [lease EXCEPT !.left = @ - 1]

\* A tick of the clock brings every expiry one tick nearer.
Age(lease) == [lease EXCEPT !.left = IF @ > 0 THEN @ - 1 ELSE 0]
Aged(t) ==
    [t EXCEPT !.by_mac = [m \in Macs |-> IF HasEntry(t, m) THEN Age(Get(t, m)) ELSE None]]
=============================================================================
