----------------------------- MODULE DhcpServer -----------------------------
(***************************************************************************)
(* The LAN DHCP server: start_dhcp_server, run_server_loop and the packet  *)
(* handlers of src/src/services/dhcp_server.rs.                            *)
(*                                                                         *)
(* The server is one task: a packet is handled to its end before the next  *)
(* is read, so each handler is one action, with the table it leaves and    *)
(* the frame it puts on the wire.  The only thing that interleaves with it *)
(* is time.  The table outlives the raw socket but not the router.         *)
(***************************************************************************)
EXTENDS LeaseTable

VARIABLES
    leases,  \* the lease table
    socket,  \* the raw socket on the LAN interface
    reply    \* the frame the last step sent, or None

vars == <<leases, socket, reply>>

RequestTypes == {"Discover", "Request", "Decline", "Release", "Inform"}

\* A well-formed BootRequest: chaddr is the client it names, source who sent
\* the Ethernet frame (that client, a relay that set giaddr, or another
\* station), requested the Requested IP Address option of a REQUEST.
Packet ==
    {pkt \in [type: RequestTypes, chaddr: Macs, source: {"chaddr", "relay", "other"},
              requested: Ip \cup {None}] :
        pkt.type # "Request" => pkt.requested = None}

Reply == [type: {"Offer", "Ack", "Nak"}, mac: Macs, ip: Net \cup {None}]

TypeOK ==
    /\ leases \in Table
    /\ socket \in {"open", "closed"}
    /\ reply \in Reply \cup {None}

Init ==
    /\ leases = EmptyTable
    /\ socket = "closed"
    /\ reply = None
-----------------------------------------------------------------------------
\* The payload may fail to encode and send_raw_packet swallows an error: the
\* handler has changed the table either way.
SendReply(type, m, ip) == reply' \in {[type |-> type, mac |-> m, ip |-> ip], None}

\* The entry that get returns is re-offered whatever its expiry.
Reoffer(m) ==
    /\ HasEntry(leases, m)
    /\ SendReply("Offer", m, Get(leases, m).ip)
    /\ UNCHANGED leases

Evicted == EvictExpired(leases)

OfferNew(m) ==
    /\ ~HasEntry(leases, m)
    /\ NextAvailableIp(Evicted) # None
    /\ leases' = Insert(Evicted, m, NextAvailableIp(Evicted))
    /\ SendReply("Offer", m, NextAvailableIp(Evicted))

PoolExhausted(m) ==
    /\ ~HasEntry(leases, m)
    /\ NextAvailableIp(Evicted) = None
    /\ leases' = Evicted
    /\ reply' = None

HandleDiscover(m) == Reoffer(m) \/ OfferNew(m) \/ PoolExhausted(m)

\* The option, else the address of the client's entry, else None.
RequestedIp(t, m, requested) ==
    IF requested = None /\ HasEntry(t, m) THEN Get(t, m).ip ELSE requested

\* Mistakes: one of the three tests of the address is left out.
ValidateAnyNetwork(t, ip, m) == ip # server_ip /\ ~IsIpTakenByOther(t, ip, m)
ValidateServerIp(t, ip, m) == ip \in Net /\ ~IsIpTakenByOther(t, ip, m)
ValidateTakenIp(t, ip, m) == ip # server_ip /\ ip \in Net

ValidateRequestedIp(t, ip, m) ==
    /\ ip # server_ip
    /\ ip \in Net
    /\ ~IsIpTakenByOther(t, ip, m)

SendNak(m, ip) ==
    /\ ~ValidateRequestedIp(leases, ip, m)
    /\ SendReply("Nak", m, None)
    /\ UNCHANGED leases

\* Mistake: the ACK of a renewal leaves the old expiry in the table.
AckKeepsExpiry(m, ip) ==
    /\ ValidateRequestedIp(leases, ip, m)
    /\ leases' = IF IsLive(leases, m) /\ Get(leases, m).ip = ip
                 THEN leases ELSE Insert(leases, m, ip)
    /\ SendReply("Ack", m, ip)

AckRequest(m, ip) ==
    /\ ValidateRequestedIp(leases, ip, m)
    /\ leases' = Insert(leases, m, ip)
    /\ SendReply("Ack", m, ip)

\* The server identifier of the request is not looked at.
HandleRequest(m, requested) ==
    LET ip == RequestedIp(leases, m, requested) IN
    \/ /\ ip # None
       /\ SendNak(m, ip) \/ AckRequest(m, ip)
    \/ /\ ip = None
       /\ reply' = None
       /\ UNCHANGED leases

RemoveLease(m) == leases' = Remove(leases, m) /\ reply' = None
HandleDecline(m) == RemoveLease(m)
HandleRelease(m) == RemoveLease(m)

\* The anti-spoofing check: only a relay may speak for another client.
Spoofed(pkt) == pkt.source = "other"

Dispatch(pkt) ==
    \/ pkt.type = "Discover" /\ HandleDiscover(pkt.chaddr)
    \/ pkt.type = "Request" /\ HandleRequest(pkt.chaddr, pkt.requested)
    \/ pkt.type = "Decline" /\ HandleDecline(pkt.chaddr)
    \/ pkt.type = "Release" /\ HandleRelease(pkt.chaddr)
    \/ pkt.type \notin {"Discover", "Request", "Decline", "Release"}
       /\ reply' = None /\ UNCHANGED leases

ProcessIncomingPacket(pkt) ==
    \/ ~Spoofed(pkt) /\ Dispatch(pkt)
    \/ Spoofed(pkt) /\ reply' = None /\ UNCHANGED leases

ReceivePacket(pkt) ==
    /\ socket = "open"
    /\ ProcessIncomingPacket(pkt)
    /\ UNCHANGED socket
-----------------------------------------------------------------------------
\* setup_server_socket succeeded; a failure only sleeps and tries again.
OpenSocket ==
    /\ socket = "closed"
    /\ socket' = "open"
    /\ reply' = None
    /\ UNCHANGED leases

\* run_server_loop returns on a read error: the socket is closed, the table kept.
ReadError ==
    /\ socket = "open"
    /\ socket' = "closed"
    /\ reply' = None
    /\ UNCHANGED leases

\* The router restarts: start_dhcp_server begins with an empty table.
Reboot ==
    /\ leases' = EmptyTable
    /\ socket' = "closed"
    /\ reply' = None

Tick ==
    /\ leases' = Aged(leases)
    /\ reply' = None
    /\ UNCHANGED socket

Next ==
    \/ \E pkt \in Packet : ReceivePacket(pkt)
    \/ OpenSocket
    \/ ReadError
    \/ Reboot
    \/ Tick

Spec == Init /\ [][Next]_vars
-----------------------------------------------------------------------------
(***************************************************************************)
(* Properties                                                              *)
(***************************************************************************)

\* No address is leased to two clients at once, whatever the order of offers,
\* requests for arbitrary addresses, releases, expiries and re-offers.
UniqueLiveLease ==
    \A c, d \in Macs :
        c # d /\ IsLive(leases, c) /\ IsLive(leases, d)
            => Get(leases, c).ip # Get(leases, d).ip

\* No address leaks: whatever is in the index has an entry in by_mac, so that
\* it comes back to the pool when that entry goes.
NoLeakedAddress == leases.allocated_ips \subseteq IpsOf(leases, Macs)

\* The router's own address is never handed out.
ServerIpNeverLeased == server_ip \notin IpsOf(leases, Macs)

\* A DISCOVER of a client with no entry goes unanswered only when every host
\* address but the router's is under a live lease: a stale index or an
\* expired entry never makes the pool look exhausted.
NoFalseExhaustion ==
    [][\A m \in Macs :
         socket = "open" /\ PoolExhausted(m) =>
            Hosts \ {server_ip} \subseteq IpsOf(leases, {c \in Macs : IsLive(leases, c)})]_vars

\* A live lease ends, or moves to another address, only by expiring, by a
\* reboot or by a packet of the very client that holds it: no message of
\* another client, and no eviction, takes it away.
KeepsLease(m) == HasEntry(leases, m)' /\ (Get(leases, m).ip)' = Get(leases, m).ip
LiveLeaseUndisturbed ==
    [][\A m \in Macs :
         IsLive(leases, m) /\ ~KeepsLease(m) =>
            \/ Reboot
            \/ \E pkt \in Packet : pkt.chaddr = m /\ ~Spoofed(pkt) /\ ReceivePacket(pkt)]_vars

\* The server implements the abstract pool: a client holds the address of its
\* live lease.
LiveHolder ==
    [m \in Macs |-> IF IsLive(leases, m) THEN Get(leases, m).ip ELSE None]
Pool == INSTANCE AddressPool
            WITH Clients <- Macs, Addresses <- Net, Nothing <- None, holder <- LiveHolder
ImplementsPool == Pool!Spec
-----------------------------------------------------------------------------
(***************************************************************************)
(* What the source says of an offer and the program does not keep          *)
(***************************************************************************)

\* "Re-offer the same IP if this client already has a live lease": an offer
\* never names an address that is under another client's live lease.
OfferNotTaken ==
    reply # None /\ reply.type = "Offer" => ~IsIpTakenByOther(leases, reply.ip, reply.mac)
=============================================================================
