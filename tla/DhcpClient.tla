----------------------------- MODULE DhcpClient -----------------------------
(***************************************************************************)
(* The WAN DHCP client: start_dhcp_client and DhcpClient of                *)
(* src/src/services/dhcp_client.rs, with the lease it shares with the DNS  *)
(* forwarder and the SNTP client, and the addresses and default route it   *)
(* keeps on the WAN interface.                                             *)
(*                                                                         *)
(* Upstream servers are the environment: an OFFER, ACK or NAK under the    *)
(* current transaction id may come at any time, or never.  The kernel's    *)
(* side of netlink is external.  A tick is a fraction of a minute; timers  *)
(* fire on time, and netlink calls are short beside a tick.                *)
(***************************************************************************)
EXTENDS Integers, FiniteSets, FiniteSetsExt

CONSTANTS
    Configs,       \* what a server may assign: [ip, mask_ok, gateway, dns]
    LeaseTimes,    \* the lease times it may grant, in ticks
    MIN_INTERVAL,  \* the 60 seconds between renewals at least, in ticks
    NetlinkFails,  \* whether netlink requests may fail
    ServerFails,   \* whether servers may refuse and the socket may fail
    Horizon,       \* age of the last ACK from which on nothing depends on it
    None           \* no lease, no gateway, no frame sent

ASSUME LeaseTimesAssumption == LeaseTimes \subseteq Nat
ASSUME MinIntervalAssumption == MIN_INTERVAL \in Nat \ {0}
ASSUME HorizonAssumption ==
    Horizon \in Nat /\ \A lease \in LeaseTimes : lease + MIN_INTERVAL <= Horizon
ASSUME FailsAssumption == NetlinkFails \in BOOLEAN /\ ServerFails \in BOOLEAN
ASSUME NoneAssumption == None \notin Configs

VARIABLES
    phase,        \* where the client's task is
    retry_delay,  \* seconds until the next retransmission while negotiating
    ack,          \* the last ACK: [config, lease_secs]
    elapsed,      \* ticks since that ACK (the code's bound_at.elapsed())
    sent,         \* the last renewal frame: [at, dest], or None
    deadline,     \* value of elapsed at which wait_for_ack gives up
    lease_state,  \* the shared WanLease: a config, or None
    removing,     \* the config whose address is being removed, and then where to
    wan,          \* addresses on the WAN interface
    route,        \* gateway of the default route, or None
    dirty         \* a netlink request has failed since interface and lease agreed

vars == <<phase, retry_delay, ack, elapsed, sent, deadline, lease_state, removing,
          wan, route, dirty>>

Phases == {"start", "stopped", "discover", "request", "backoff",
           "configure", "deconfigure", "bound", "renew"}
Ips == {c.ip : c \in Configs}
Gateways == {c.gateway : c \in Configs} \cup {None}
Acks == [config: Configs, lease_secs: LeaseTimes]
Removals == [config: Configs, next: {"backoff", "discover"}]

MAX_RETRY_DELAY_SECS == 64
INITIAL_RETRY_DELAY_SECS == 4

ClientTypeOK ==
    /\ phase \in Phases
    /\ retry_delay \in INITIAL_RETRY_DELAY_SECS .. MAX_RETRY_DELAY_SECS
    /\ ack \in Acks \cup {None}
    /\ elapsed \in Nat
    /\ sent \in [at: Nat, dest: {"server", "broadcast"}] \cup {None}
    /\ deadline \in Nat
    /\ lease_state \in Configs \cup {None}
    /\ removing \in Removals \cup {None}
    /\ wan \subseteq Ips
    /\ route \in Gateways
    /\ dirty \in BOOLEAN

Init ==
    /\ phase = "start"
    /\ retry_delay = INITIAL_RETRY_DELAY_SECS
    /\ ack = None
    /\ elapsed = 0
    /\ sent = None
    /\ deadline = 0
    /\ lease_state = None
    /\ removing = None
    /\ wan = {}
    /\ route = None
    /\ dirty = FALSE
-----------------------------------------------------------------------------
(***************************************************************************)
(* Times                                                                   *)
(***************************************************************************)
\* Mistake: the delay doubles without a bound.
DoubleDelay(delay) == delay * 2

CalculateNextDelay(delay) == Min({delay * 2, MAX_RETRY_DELAY_SECS})

T1(lease) == lease \div 2
T2(lease) == (lease * 7) \div 8

InRebinding(now, lease) == now >= T2(lease)
RetryInterval(now, lease) ==
    LET remaining == (IF InRebinding(now, lease) THEN lease ELSE T2(lease)) - now
    IN Max({remaining \div 2, MIN_INTERVAL})
\* Before T2 the server that granted the lease, which its ACK is taken to name.
Destination(now, lease) == IF InRebinding(now, lease) THEN "broadcast" ELSE "server"
-----------------------------------------------------------------------------
(***************************************************************************)
(* The shared lease and the WAN interface                                  *)
(***************************************************************************)
wanVars == <<wan, route, dirty>>

Negotiate(p) == phase' = p /\ retry_delay' = INITIAL_RETRY_DELAY_SECS

\* Mistake: a change of the address alone counts as a change of the lease.
ApplyNewAddress(config) ==
    LET changed == lease_state = None \/ lease_state.ip # config.ip
    IN /\ lease_state' = IF changed THEN config ELSE lease_state
       /\ phase' = IF changed THEN "configure" ELSE "bound"

\* An ACK is applied: the shared lease is replaced first, and the interface is
\* configured only if that changed it.
ApplyLeaseConfig(config) ==
    /\ lease_state' = config
    /\ phase' = IF lease_state = config THEN "bound" ELSE "configure"

\* deconfigure: the shared lease is taken back first, then the address removed.
Deconfigure(next) ==
    /\ lease_state' = None
    /\ IF lease_state = None
       THEN Negotiate(next) /\ removing' = None
       ELSE /\ phase' = "deconfigure"
            /\ removing' = [config |-> lease_state, next |-> next]
            /\ UNCHANGED retry_delay

\* The kernel drops the interface's routes with its last address.
RouteAfter(addresses) == IF addresses = {} THEN None ELSE route

ConfigureFailed ==
    /\ Negotiate("discover")
    /\ dirty' = TRUE

\* configure_wan failed before touching anything: the mask, netlink or the link.
ConfigureRefused ==
    /\ NetlinkFails \/ ~ack.config.mask_ok
    /\ ConfigureFailed
    /\ UNCHANGED <<wan, route>>

\* A failed flush of an old address is only warned about; setting the link up
\* or adding the address then fails.
ConfigureAborted ==
    /\ NetlinkFails /\ ack.config.mask_ok
    /\ \E kept \in SUBSET wan : wan' = kept /\ route' = RouteAfter(kept)
    /\ ConfigureFailed

\* Mistake: the old addresses are not flushed.
ConfigureBeside ==
    /\ ack.config.mask_ok
    /\ wan' = wan \cup {ack.config.ip}
    /\ route' = IF route = None THEN ack.config.gateway ELSE route
    /\ phase' = "bound"
    /\ UNCHANGED <<retry_delay, dirty>>

\* The address is added.  A default route cannot be added beside one that has
\* survived, and a failure to add it is only warned about.
ConfigureDone ==
    /\ ack.config.mask_ok
    /\ \E kept \in IF NetlinkFails THEN SUBSET wan ELSE {{}},
          added \in IF NetlinkFails THEN BOOLEAN ELSE {TRUE} :
          LET old == RouteAfter(kept)
              new == IF added /\ old = None THEN ack.config.gateway ELSE old
          IN /\ wan' = kept \cup {ack.config.ip}
             /\ route' = new
             /\ dirty' = ~(kept = {} /\ new = ack.config.gateway)
    /\ phase' = "bound"
    /\ UNCHANGED retry_delay

ConfigureWan ==
    /\ phase = "configure"
    /\ ConfigureRefused \/ ConfigureAborted \/ ConfigureDone
    /\ UNCHANGED <<ack, elapsed, sent, deadline, lease_state, removing>>

\* deconfigure_wan parses the mask before anything else; errors are only logged.
DeconfigureWan ==
    /\ phase = "deconfigure"
    /\ Negotiate(removing.next)
    /\ removing' = None
    /\ \/ /\ removing.config.mask_ok
          /\ wan' = wan \ {removing.config.ip}
          /\ route' = RouteAfter(wan')
          /\ dirty' = (dirty /\ wan' # {})
       \/ /\ NetlinkFails \/ ~removing.config.mask_ok
          /\ dirty' = TRUE
          /\ UNCHANGED <<wan, route>>
    /\ UNCHANGED <<ack, elapsed, sent, deadline, lease_state>>
-----------------------------------------------------------------------------
(***************************************************************************)
(* Negotiation                                                             *)
(***************************************************************************)

\* Without a MAC address of the interface the task ends; without a socket it
\* sleeps and tries again.
Start ==
    /\ phase = "start"
    /\ phase' \in {"stopped", "discover"}
    /\ UNCHANGED <<retry_delay, ack, elapsed, sent, deadline, lease_state, removing, wanVars>>

OfferReceived ==
    /\ phase = "discover"
    /\ Negotiate("request")
    /\ UNCHANGED <<ack, elapsed, sent, deadline, lease_state, removing, wanVars>>

\* DISCOVER or REQUEST is sent again, with no limit on the attempts.
NegotiationTimeout ==
    /\ phase \in {"discover", "request"}
    /\ retry_delay' = CalculateNextDelay(retry_delay)
    /\ UNCHANGED <<phase, ack, elapsed, sent, deadline, lease_state, removing, wanVars>>

\* A receive error in either phase, or a NAK of the REQUEST.
NegotiationFailed ==
    /\ ServerFails
    /\ phase \in {"discover", "request"}
    /\ Deconfigure("backoff")
    /\ UNCHANGED <<ack, elapsed, sent, deadline, wanVars>>

BackoffEnds ==
    /\ phase = "backoff"
    /\ Negotiate("discover")
    /\ UNCHANGED <<ack, elapsed, sent, deadline, lease_state, removing, wanVars>>

\* The ACK of the REQUEST, or of a renewal, however late it comes.
AckReceived(config, lease) ==
    /\ phase \in {"request", "renew"}
    /\ ack' = [config |-> config, lease_secs |-> lease]
    /\ elapsed' = 0
    /\ ApplyLeaseConfig(config)
    /\ sent' = None
    /\ deadline' = 0
    /\ retry_delay' = INITIAL_RETRY_DELAY_SECS
    /\ UNCHANGED <<removing, wanVars>>
-----------------------------------------------------------------------------
(***************************************************************************)
(* Renewal                                                                 *)
(***************************************************************************)
\* Mistake: the lease is not withdrawn when it ends.
LeaseLeft ==
    /\ Negotiate("discover")
    /\ sent' = None
    /\ deadline' = 0
    /\ UNCHANGED <<ack, elapsed, lease_state, removing, wanVars>>

LeaseOver ==
    /\ Deconfigure("discover")
    /\ sent' = None
    /\ deadline' = 0
    /\ UNCHANGED <<ack, elapsed, wanVars>>

\* The head of bound_phase's loop, with no sleep left.
BoundExpired ==
    /\ phase = "bound"
    /\ elapsed >= ack.lease_secs
    /\ LeaseOver

\* A turn of renew_lease's loop: the REQUEST is sent unless the last one was
\* sent less than the new retry interval ago; then it listens for that long.
ShouldSend(now, interval) == sent = None \/ now - sent.at >= interval

\* Mistake: the expiry is not looked at between two waits.
RenewTurnUnchecked ==
    LET interval == RetryInterval(elapsed, ack.lease_secs) IN
    /\ phase' = "renew"
    /\ deadline' = elapsed + interval
    /\ sent' = IF ShouldSend(elapsed, interval)
               THEN [at |-> elapsed, dest |-> Destination(elapsed, ack.lease_secs)]
               ELSE sent
    /\ UNCHANGED <<retry_delay, ack, elapsed, lease_state, removing, wanVars>>

RenewTurn ==
    LET interval == RetryInterval(elapsed, ack.lease_secs) IN
    /\ elapsed < ack.lease_secs
    /\ phase' = "renew"
    /\ deadline' = elapsed + interval
    /\ sent' = IF ShouldSend(elapsed, interval)
               THEN [at |-> elapsed, dest |-> Destination(elapsed, ack.lease_secs)]
               ELSE sent
    /\ UNCHANGED <<retry_delay, ack, elapsed, lease_state, removing, wanVars>>

StartRenewal ==
    /\ phase = "bound"
    /\ elapsed >= T1(ack.lease_secs)
    /\ RenewTurn

\* Mistake: a renewal that no server answers is never given up.
RenewForever ==
    /\ phase = "renew"
    /\ elapsed >= deadline
    /\ RenewTurn

RenewTimeout ==
    /\ phase = "renew"
    /\ elapsed >= deadline
    /\ \/ RenewTurn
       \/ elapsed >= ack.lease_secs /\ LeaseOver

\* A NAK of the renewal or a receive error.
RenewFailed ==
    /\ ServerFails
    /\ phase = "renew"
    /\ LeaseOver

Tick ==
    /\ \/ phase \in {"stopped", "discover", "request", "backoff"}
       \/ phase = "bound" /\ elapsed < T1(ack.lease_secs)
       \/ phase = "renew" /\ elapsed < deadline
    /\ elapsed' = IF elapsed < Horizon THEN elapsed + 1 ELSE elapsed
    /\ UNCHANGED <<phase, retry_delay, ack, sent, deadline, lease_state, removing, wanVars>>

Next ==
    \/ Start
    \/ OfferReceived
    \/ NegotiationTimeout
    \/ NegotiationFailed
    \/ BackoffEnds
    \/ \E config \in Configs, lease \in LeaseTimes : AckReceived(config, lease)
    \/ ConfigureWan
    \/ DeconfigureWan
    \/ BoundExpired
    \/ StartRenewal
    \/ RenewTimeout
    \/ RenewFailed
    \/ Tick

Spec == Init /\ [][Next]_vars

\* The client's task is scheduled, its timers fire and time goes on: nothing is
\* assumed of the servers.
Fairness ==
    /\ WF_vars(Tick)
    /\ WF_vars(Start)
    /\ WF_vars(ConfigureWan)
    /\ WF_vars(DeconfigureWan)
    /\ WF_vars(BackoffEnds)
    /\ WF_vars(BoundExpired)
    /\ WF_vars(StartRenewal)
    /\ WF_vars(RenewTimeout)

FairSpec == Spec /\ Fairness
-----------------------------------------------------------------------------
(***************************************************************************)
(* Properties                                                              *)
(***************************************************************************)
Bound == phase \in {"bound", "renew"}

\* While a lease is held, what the DNS forwarder and the SNTP client read is
\* that lease, and not an earlier one.
BoundIsPublished == Bound => lease_state = ack.config

\* An address is used beyond the end of its lease by less than the least
\* renewal interval: renew_lease looks at the expiry only between two waits.
OverrunBounded == Bound => elapsed < ack.lease_secs + MIN_INTERVAL

\* Unless a netlink request has failed, the interface has exactly the address
\* of the published lease, and its default route, whenever no netlink request
\* is under way: no earlier address or route survives a change of lease.
InterfaceMatchesLease ==
    ~dirty /\ phase \notin {"configure", "deconfigure"} =>
        IF lease_state = None
        THEN wan = {} /\ route = None
        ELSE wan = {lease_state.ip} /\ route = lease_state.gateway

\* What the other services read is the lease in force. A lease that is held is
\* published, and unless a netlink request has failed, nothing else ever is: only
\* a lease being configured or held, and not past its end by the least interval.
\* (After configure_wan has failed, its lease stays published while the client
\* negotiates, for as long as that takes.)
PublishedInForce ==
    /\ BoundIsPublished
    /\ ~dirty /\ lease_state # None =>
          /\ phase \in {"configure", "bound", "renew"}
          /\ lease_state = ack.config
          /\ elapsed < ack.lease_secs + MIN_INTERVAL

\* A lease that ends by expiry, a NAK or a socket error is withdrawn from the
\* other services in the step that ends it.
LossWithdraws ==
    [][Bound /\ phase' \notin {"bound", "renew", "configure"} => lease_state' = None]_vars

\* A renewal ends, with or without a server: by a new ACK, or with the lease
\* withdrawn.
RenewalEnds == phase = "renew" ~> elapsed = 0 \/ lease_state = None
-----------------------------------------------------------------------------
(***************************************************************************)
(* What the specification and the comments say and the program does not do *)
(***************************************************************************)

\* "Once negotiated, applies the allocated IP, subnet mask, and default gateway
\* to the WAN interface": a bound client has its address on the interface.
BoundIsConfigured == Bound => ack.config.ip \in wan

\* "T2 Rebinding time is 87.5% of lease": a renewal interval after T2 the
\* REQUEST awaited is one that was broadcast to every server.
RebindingBroadcasts ==
    phase = "renew" /\ elapsed >= T2(ack.lease_secs) + MIN_INTERVAL
        => sent.dest = "broadcast"
=============================================================================
