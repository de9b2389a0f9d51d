------------------------------- MODULE LanDhcp ------------------------------
(***************************************************************************)
(* The LAN DHCP server together with its clients and the wire between      *)
(* them.  The clients are not part of the repository: they are the state   *)
(* machine of RFC 2131 that the server's replies and comments presuppose,  *)
(* with a lease that runs from the sending of the REQUEST.  The LAN keeps  *)
(* the order of the frames of one station but may lose any of them.        *)
(***************************************************************************)
EXTENDS DhcpServer, Sequences

CONSTANTS
    Wanted,      \* addresses a client may remember from an earlier lease
    Squatted,    \* addresses that stations use without asking
    MaxInFlight, \* frames of one client under way to the server
    MaxReplies,  \* replies under way to one client
    Faults,      \* whether frames are lost, the socket fails, the router reboots
    Prompt       \* whether exchanges are short beside a tick of the lease clock

ASSUME WantedAssumption == Wanted \subseteq Ip /\ Squatted \subseteq Net
ASSUME MaxInFlightAssumption == MaxInFlight \in Nat \ {0} /\ MaxReplies \in Nat \ {0}
ASSUME ModeAssumption == Faults \in BOOLEAN /\ Prompt \in BOOLEAN

VARIABLES
    client,       \* client[m]: where m is in the protocol and what it holds
    to_server,    \* to_server[m]: frames of m under way, oldest first
    to_client,    \* to_client[m]: replies to m under way, oldest first
    since_reboot  \* ticks since the router's table was last lost, up to a lease

lanVars == <<leases, socket, reply, client, to_server, to_client, since_reboot>>

Phases == {"off", "init", "selecting", "requesting", "bound", "renewing"}

\* ip: the address in use, or the one asked for while requesting; left: ticks
\* until the lease in use ends; since: ticks since the REQUEST was sent.
Client == [phase: Phases, ip: Ip \cup {None}, left: 0 .. LAN_LEASE, since: 0 .. LAN_LEASE]

\* cur: whether the frame carries the client's current transaction id.  Answers
\* to a frame that does not are ignored by the client, so they are left out.
Message == [type: {"Discover", "Request", "Decline", "Release"},
            requested: Ip \cup {None}, cur: BOOLEAN]
Answer == [type: {"Offer", "Ack", "Nak"}, ip: Net \cup {None}]

LanTypeOK ==
    /\ TypeOK
    /\ client \in [Macs -> Client]
    /\ \A m \in Macs :
          /\ to_server[m] \in Seq(Message) /\ Len(to_server[m]) <= MaxInFlight
          /\ to_client[m] \in Seq(Answer) /\ Len(to_client[m]) <= MaxReplies
    /\ since_reboot \in 0 .. LAN_LEASE

\* A client that uses no address, and one that uses one.
At(phase, ip) == [phase |-> phase, ip |-> ip, left |-> 0, since |-> 0]
Off == At("off", None)
Idle == At("init", None)
Holds(phase, ip, left, since) == [phase |-> phase, ip |-> ip, left |-> left, since |-> since]

LanInit ==
    /\ Init
    /\ client = [m \in Macs |-> Off]
    /\ to_server = [m \in Macs |-> <<>>]
    /\ to_client = [m \in Macs |-> <<>>]
    /\ since_reboot = LAN_LEASE

Using(m) == client[m].phase \in {"bound", "renewing"}
Quiet(m) == to_server[m] = <<>> /\ to_client[m] = <<>>
-----------------------------------------------------------------------------
(***************************************************************************)
(* The clients                                                             *)
(***************************************************************************)
Old(msg) == [msg EXCEPT !.cur = FALSE]
Stale(frames) == [i \in DOMAIN frames |-> Old(frames[i])]
Frame(type, requested) == [type |-> type, requested |-> requested, cur |-> TRUE]

\* m sends another frame of the current exchange.
Send(m, type, requested) ==
    /\ Len(to_server[m]) < MaxInFlight
    /\ to_server' = [to_server EXCEPT ![m] = Append(@, Frame(type, requested))]

\* m opens an exchange, under a new transaction id, with a frame.
SendNew(m, type, requested) ==
    /\ Len(to_server[m]) < MaxInFlight
    /\ to_server' = [to_server EXCEPT ![m] = Append(Stale(@), Frame(type, requested))]
    /\ to_client' = [to_client EXCEPT ![m] = <<>>]

\* The exchange is over: no more answers of it are heard.
CloseExchange(m) ==
    /\ to_server' = [to_server EXCEPT ![m] = Stale(@)]
    /\ to_client' = [to_client EXCEPT ![m] = <<>>]

Becomes(m, record) ==
    /\ client' = [client EXCEPT ![m] = record]
    /\ reply' = None
    /\ UNCHANGED <<leases, socket, since_reboot>>

Discover(m) ==
    /\ client[m].phase \in {"off", "init"}
    /\ SendNew(m, "Discover", None)
    /\ Becomes(m, At("selecting", None))

\* INIT-REBOOT: a client that is switched on asks for a remembered address.
AskAgain(m, ip) ==
    /\ client[m].phase = "off"
    /\ SendNew(m, "Request", ip)
    /\ Becomes(m, At("requesting", ip))

\* The timer of a retransmission; a prompt one fires only if nothing is under way.
Timeout(m) == Prompt => Quiet(m)

Retransmit(m) ==
    /\ client[m].phase = "requesting"
    /\ Timeout(m)
    /\ Send(m, "Request", client[m].ip)
    /\ Becomes(m, client[m])
    /\ UNCHANGED to_client

GiveUp(m) ==
    /\ client[m].phase \in {"selecting", "requesting"}
    /\ Timeout(m)
    /\ CloseExchange(m)
    /\ Becomes(m, Idle)

\* RENEWING and REBINDING name the address in ciaddr, not in the option.
Renew(m) ==
    /\ Using(m)
    /\ Timeout(m)
    /\ SendNew(m, "Request", None)
    /\ Becomes(m, Holds("renewing", client[m].ip, client[m].left, 0))

Release(m) ==
    /\ Using(m)
    /\ SendNew(m, "Release", None)
    /\ Becomes(m, Off)

\* The client leaves without a word.
Leave(m) ==
    /\ Using(m)
    /\ CloseExchange(m)
    /\ Becomes(m, Off)

Answered(m, type) == to_client[m] # <<>> /\ Head(to_client[m]).type = type

TakeOffer(m) ==
    /\ client[m].phase = "selecting"
    /\ Answered(m, "Offer")
    /\ Send(m, "Request", Head(to_client[m]).ip)
    /\ to_client' = [to_client EXCEPT ![m] = Tail(@)]
    /\ Becomes(m, At("requesting", Head(to_client[m]).ip))

AwaitsAck(m) == client[m].phase \in {"requesting", "renewing"}

\* A lease that was over before its ACK arrived is not used.
TakeAck(m) ==
    /\ AwaitsAck(m)
    /\ Answered(m, "Ack")
    /\ CloseExchange(m)
    /\ Becomes(m, IF client[m].since = LAN_LEASE THEN Idle
                   ELSE Holds("bound", Head(to_client[m]).ip, LAN_LEASE - client[m].since, 0))

\* A probe finds the address in use by a station that did not ask for it.
DeclineAck(m) ==
    /\ client[m].phase = "requesting"
    /\ Answered(m, "Ack")
    /\ Head(to_client[m]).ip \in Squatted
    /\ SendNew(m, "Decline", None)
    /\ Becomes(m, Idle)

TakeNak(m) ==
    /\ AwaitsAck(m)
    /\ Answered(m, "Nak")
    /\ CloseExchange(m)
    /\ Becomes(m, Idle)

ClientStep(m) ==
    \/ Discover(m)
    \/ \E ip \in Wanted : AskAgain(m, ip)
    \/ Retransmit(m)
    \/ GiveUp(m)
    \/ Renew(m)
    \/ Release(m)
    \/ Leave(m)
    \/ TakeOffer(m)
    \/ TakeAck(m)
    \/ DeclineAck(m)
    \/ TakeNak(m)
-----------------------------------------------------------------------------
(***************************************************************************)
(* The server, the wire and time                                           *)
(***************************************************************************)
PacketOf(m, msg) ==
    [type |-> msg.type, chaddr |-> m, source |-> "chaddr", requested |-> msg.requested]

\* The server has no answer to the frame: a DISCOVER when no host is free, a
\* REQUEST that names no address from a client without an entry, and the
\* messages that end a lease.
Unanswerable(m, msg) ==
    \/ msg.type = "Discover" /\ ~HasEntry(leases, m) /\ NextAvailableIp(Evicted) = None
    \/ msg.type = "Request" /\ RequestedIp(leases, m, msg.requested) = None
    \/ msg.type \in {"Decline", "Release"}

\* The server handles the oldest frame of m; its reply goes on the wire.
Serve(m) ==
    /\ to_server[m] # <<>>
    /\ Len(to_client[m]) < MaxReplies
    /\ ReceivePacket(PacketOf(m, Head(to_server[m])))
    /\ Faults \/ reply' # None \/ Unanswerable(m, Head(to_server[m]))
    /\ to_server' = [to_server EXCEPT ![m] = Tail(@)]
    /\ to_client' = IF reply' # None /\ Head(to_server[m]).cur
                    THEN [to_client EXCEPT ![m] =
                             Append(@, [type |-> reply'.type, ip |-> reply'.ip])]
                    ELSE to_client
    /\ UNCHANGED <<client, since_reboot>>

\* The oldest frame in either direction is lost, as every frame is that arrives
\* while the server has no socket.
Lose(m) ==
    /\ Faults
    /\ \/ /\ to_server[m] # <<>>
          /\ to_server' = [to_server EXCEPT ![m] = Tail(@)]
          /\ UNCHANGED to_client
       \/ /\ to_client[m] # <<>>
          /\ to_client' = [to_client EXCEPT ![m] = Tail(@)]
          /\ UNCHANGED to_server
    /\ Becomes(m, client[m])

ServerOpens == OpenSocket /\ UNCHANGED <<client, to_server, to_client, since_reboot>>

ServerLosesSocket ==
    /\ Faults
    /\ ReadError
    /\ UNCHANGED <<client, to_server, to_client, since_reboot>>

RouterReboots ==
    /\ Faults
    /\ Reboot
    /\ since_reboot' = 0
    /\ UNCHANGED <<client, to_server, to_client>>

\* A lease in use runs down and is given up, with its exchange, at its end.
Ends(m) == Using(m) /\ client[m].left = 1
ClientAged(c) ==
    CASE c.phase \in {"bound", "renewing"} /\ c.left = 1 -> Idle
      [] c.phase = "bound" /\ c.left > 1 -> Holds("bound", c.ip, c.left - 1, c.since)
      [] c.phase = "renewing" /\ c.left > 1 -> Holds("renewing", c.ip, c.left - 1, c.since + 1)
      [] c.phase = "requesting" -> Holds("requesting", c.ip, c.left, Min({c.since + 1, LAN_LEASE}))
      [] OTHER -> c

TimePasses ==
    /\ Prompt => \A m \in Macs : Quiet(m)
    /\ Tick
    /\ client' = [m \in Macs |-> ClientAged(client[m])]
    /\ since_reboot' = Min({since_reboot + 1, LAN_LEASE})
    /\ to_server' = [m \in Macs |-> IF Ends(m) THEN Stale(to_server[m]) ELSE to_server[m]]
    /\ to_client' = [m \in Macs |-> IF Ends(m) THEN <<>> ELSE to_client[m]]

LanNext ==
    \/ \E m \in Macs : ClientStep(m) \/ Serve(m) \/ Lose(m)
    \/ ServerOpens
    \/ ServerLosesSocket
    \/ RouterReboots
    \/ TimePasses

LanSpec == LanInit /\ [][LanNext]_lanVars
-----------------------------------------------------------------------------
(***************************************************************************)
(* Safety                                                                  *)
(***************************************************************************)

\* Two clients use one address at the same time only while leases from before
\* a reboot may still run: the table is kept in memory alone.  No loss,
\* retransmission, stale answer, release or remembered address causes it.
NoDoubleUse ==
    \A c, d \in Macs :
        c # d /\ Using(c) /\ Using(d) /\ client[c].ip = client[d].ip
            => since_reboot < LAN_LEASE

\* What a client believes is true: outside that window, the lease it uses is
\* its live lease in the table, and does not outlast it.
LeaseBacked ==
    \A m \in Macs :
        Using(m) /\ since_reboot = LAN_LEASE =>
            /\ IsLive(leases, m)
            /\ Get(leases, m).ip = client[m].ip
            /\ client[m].left <= Get(leases, m).left

\* The clients implement the abstract pool as well, at every moment and not only
\* a lease after the last reboot: a client holds the address that it uses under
\* a lease it has asked for since.  It starts to use it only while no other such
\* client does, whatever is late or lost.
UsesSinceReboot(m) == Using(m) /\ client[m].left > LAN_LEASE - since_reboot
UseHolder == [m \in Macs |-> IF UsesSinceReboot(m) THEN client[m].ip ELSE None]
UsePool == INSTANCE AddressPool
               WITH Clients <- Macs, Addresses <- Net, Nothing <- None, holder <- UseHolder
ClientsImplementPool == UsePool!Spec
-----------------------------------------------------------------------------
(***************************************************************************)
(* Liveness                                                                *)
(***************************************************************************)

\* The server's task is scheduled and the wire delivers; a client retries.
LanFairness ==
    /\ WF_lanVars(ServerOpens)
    /\ \A m \in Macs :
          /\ WF_lanVars(Serve(m))
          /\ WF_lanVars(Discover(m))
          /\ WF_lanVars(TakeOffer(m))
          /\ WF_lanVars(TakeAck(m))
          /\ WF_lanVars(TakeNak(m))
          /\ WF_lanVars(GiveUp(m))

LanFairSpec == LanSpec /\ LanFairness

\* The address of m's expired entry is under another client's live lease.
StaleEntryTaken(m) ==
    /\ HasEntry(leases, m)
    /\ ~IsLive(leases, m)
    /\ IsIpTakenByOther(leases, Get(leases, m).ip, m)

\* With a host for every client, a client that asks for an address gets one,
\* unless it is stuck with an expired entry whose address another client now
\* leases.
AskingGetsAddress ==
    \A m \in Macs :
        client[m].phase \in {"selecting", "requesting"} ~> Using(m) \/ StaleEntryTaken(m)
=============================================================================
