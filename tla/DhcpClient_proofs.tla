-------------------------- MODULE DhcpClient_proofs -------------------------
(***************************************************************************)
(* Theorems about the WAN DHCP client, for every set of lease times and of *)
(* configurations and every renewal interval.                              *)
(***************************************************************************)
EXTENDS DhcpClient, TLAPS

-----------------------------------------------------------------------------
(***************************************************************************)
(* Times                                                                   *)
(***************************************************************************)
LEMMA MinOfTwo ==
    ASSUME NEW a \in Int, NEW b \in Int
    PROVE  Min({a, b}) \in {a, b} /\ Min({a, b}) <= a /\ Min({a, b}) <= b
<1>1. \E x \in {a, b} : \A y \in {a, b} : x =< y
  OBVIOUS
<1> QED BY <1>1 DEF Min

LEMMA MaxOfTwo ==
    ASSUME NEW a \in Int, NEW b \in Int
    PROVE  Max({a, b}) \in {a, b} /\ Max({a, b}) >= a /\ Max({a, b}) >= b
<1>1. \E x \in {a, b} : \A y \in {a, b} : x >= y
  OBVIOUS
<1> QED BY <1>1 DEF Max

\* The renewal times of a lease come in order: T1, T2, expiry.
LEMMA RenewalTimes ==
    ASSUME NEW lease \in Nat
    PROVE  T1(lease) \in Nat /\ T2(lease) \in Nat /\ T1(lease) <= T2(lease) /\ T2(lease) <= lease
BY DEF T1, T2

\* A wait that begins before the lease ends is over, at the latest, less than
\* the least renewal interval after it.
LEMMA WaitBounded ==
    ASSUME NEW lease \in Nat, NEW now \in Nat, now < lease
    PROVE  /\ RetryInterval(now, lease) \in Nat
           /\ RetryInterval(now, lease) >= MIN_INTERVAL
           /\ now + RetryInterval(now, lease) < lease + MIN_INTERVAL
<1> DEFINE limit == IF InRebinding(now, lease) THEN lease ELSE T2(lease)
           remaining == limit - now
<1>1. limit \in Nat /\ limit <= lease /\ now <= limit
  BY RenewalTimes DEF InRebinding
<1>2. remaining \in Nat /\ now + remaining <= lease
  BY <1>1
<1>3. remaining \div 2 \in Nat /\ remaining \div 2 <= remaining
  BY <1>2
<1>4. RetryInterval(now, lease) = Max({remaining \div 2, MIN_INTERVAL})
  BY DEF RetryInterval
<1> HIDE DEF remaining
<1>5. /\ RetryInterval(now, lease) \in {remaining \div 2, MIN_INTERVAL}
      /\ RetryInterval(now, lease) >= MIN_INTERVAL
  BY <1>3, <1>4, MaxOfTwo, MinIntervalAssumption
<1> QED BY <1>2, <1>3, <1>5, MinIntervalAssumption
-----------------------------------------------------------------------------
(***************************************************************************)
(* The inductive invariant                                                 *)
(***************************************************************************)

\* Where a lease is in force it is the published one; its clock is within it,
\* and the wait under way ends within the bound.
LeaseInv ==
    /\ phase \in {"configure", "bound", "renew"} => ack \in Acks /\ lease_state = ack.config
    /\ phase = "configure" => elapsed = 0
    /\ phase = "bound" => elapsed <= ack.lease_secs
    /\ phase = "renew" => elapsed <= deadline /\ deadline < ack.lease_secs + MIN_INTERVAL
    /\ phase = "deconfigure" => removing \in Removals

IInv == ClientTypeOK /\ LeaseInv

LEMMA InitIInv == Init => IInv
<1> SUFFICES ASSUME Init PROVE IInv
  OBVIOUS
<1>1. route \in Gateways /\ wan \subseteq Ips
  BY DEF Init, Gateways
<1>2. dirty \in BOOLEAN
  BY DEF Init
<1>3. LeaseInv
  BY DEF Init, LeaseInv
<1> QED BY <1>1, <1>2, <1>3 DEF Init, IInv, ClientTypeOK, Phases, INITIAL_RETRY_DELAY_SECS,
                               MAX_RETRY_DELAY_SECS

LEMMA NextDelayInRange ==
    ASSUME NEW delay \in INITIAL_RETRY_DELAY_SECS .. MAX_RETRY_DELAY_SECS
    PROVE  CalculateNextDelay(delay) \in INITIAL_RETRY_DELAY_SECS .. MAX_RETRY_DELAY_SECS
<1> DEFINE doubled == delay * 2
           cap == MAX_RETRY_DELAY_SECS
<1>1. doubled \in Int /\ doubled >= INITIAL_RETRY_DELAY_SECS /\ cap \in Int
  BY DEF INITIAL_RETRY_DELAY_SECS, MAX_RETRY_DELAY_SECS
<1> HIDE DEF doubled, cap
<1>2. Min({doubled, cap}) \in {doubled, cap} /\ Min({doubled, cap}) <= cap
  BY <1>1, MinOfTwo
<1> QED BY <1>1, <1>2 DEF CalculateNextDelay, doubled, cap, INITIAL_RETRY_DELAY_SECS,
                          MAX_RETRY_DELAY_SECS

\* Withdrawing a lease keeps the types, whatever comes next.
LEMMA DeconfigureInv ==
    ASSUME IInv, NEW next \in {"backoff", "discover"}, Deconfigure(next)
    PROVE  /\ phase' \in {"backoff", "discover", "deconfigure"}
           /\ phase' = "deconfigure" => removing' \in Removals
           /\ retry_delay' \in INITIAL_RETRY_DELAY_SECS .. MAX_RETRY_DELAY_SECS
           /\ lease_state' = None
           /\ removing' \in Removals \cup {None}
<1>1. CASE lease_state = None
  BY <1>1 DEF Deconfigure, Negotiate, INITIAL_RETRY_DELAY_SECS, MAX_RETRY_DELAY_SECS
<1>2. CASE lease_state # None
  <2>1. lease_state \in Configs
    BY <1>2 DEF IInv, ClientTypeOK
  <2> QED BY <1>2, <2>1 DEF Deconfigure, Removals, IInv, ClientTypeOK
<1> QED BY <1>1, <1>2

\* The end of a lease keeps the invariant.
LEMMA LeaseOverInv ==
    ASSUME IInv, LeaseOver
    PROVE  IInv'
<1>1. /\ phase' \in {"backoff", "discover", "deconfigure"}
      /\ phase' = "deconfigure" => removing' \in Removals
      /\ retry_delay' \in INITIAL_RETRY_DELAY_SECS .. MAX_RETRY_DELAY_SECS
      /\ lease_state' = None
      /\ removing' \in Removals \cup {None}
  BY DeconfigureInv DEF LeaseOver
<1>2. sent' = None /\ deadline' = 0 /\ UNCHANGED <<ack, elapsed, wanVars>>
  BY DEF LeaseOver
<1> QED BY <1>1, <1>2 DEF IInv, LeaseInv, ClientTypeOK, Phases, wanVars

\* A turn of the renewal loop opens a wait that ends within the bound.
LEMMA RenewTurnInv ==
    ASSUME IInv, phase \in {"bound", "renew"}, RenewTurn
    PROVE  IInv'
<1> DEFINE lease == ack.lease_secs
           interval == RetryInterval(elapsed, lease)
<1>1. ack \in Acks /\ lease \in Nat /\ elapsed \in Nat /\ elapsed < lease
  BY LeaseTimesAssumption DEF IInv, LeaseInv, ClientTypeOK, Acks, RenewTurn
<1>2. /\ interval \in Nat
      /\ elapsed + interval < lease + MIN_INTERVAL
  BY <1>1, WaitBounded
<1>3. phase' = "renew" /\ deadline' = elapsed + interval
      /\ UNCHANGED <<retry_delay, ack, elapsed, lease_state, removing, wanVars>>
  BY DEF RenewTurn
<1>4. sent' \in [at: Nat, dest: {"server", "broadcast"}] \cup {None}
  BY <1>1 DEF RenewTurn, Destination, IInv, ClientTypeOK
<1> HIDE DEF interval, lease
<1>5. deadline' \in Nat /\ elapsed <= deadline' /\ deadline' < lease + MIN_INTERVAL
  BY <1>1, <1>2, <1>3
<1> QED BY <1>1, <1>3, <1>4, <1>5 DEF IInv, LeaseInv, ClientTypeOK, Phases, wanVars, lease

LEMMA ConfigureWanInv ==
    ASSUME IInv, ConfigureWan
    PROVE  IInv'
<1>1. ack \in Acks /\ ack.config \in Configs /\ ack.lease_secs \in Nat
      /\ lease_state = ack.config /\ elapsed = 0
  BY LeaseTimesAssumption DEF IInv, LeaseInv, ConfigureWan, Acks
<1>2. phase' \in {"discover", "bound"}
  BY DEF ConfigureWan, ConfigureRefused, ConfigureAborted, ConfigureDone, ConfigureFailed,
         Negotiate
<1>3. retry_delay' \in INITIAL_RETRY_DELAY_SECS .. MAX_RETRY_DELAY_SECS
  <2>1. retry_delay' = INITIAL_RETRY_DELAY_SECS \/ retry_delay' = retry_delay
    BY DEF ConfigureWan, ConfigureRefused, ConfigureAborted, ConfigureDone, ConfigureFailed,
           Negotiate
  <2>2. retry_delay \in INITIAL_RETRY_DELAY_SECS .. MAX_RETRY_DELAY_SECS
    BY DEF IInv, ClientTypeOK
  <2> QED BY <2>1, <2>2 DEF INITIAL_RETRY_DELAY_SECS, MAX_RETRY_DELAY_SECS
<1>4. wan' \subseteq Ips
  BY <1>1 DEF ConfigureWan, ConfigureRefused, ConfigureAborted, ConfigureDone, IInv,
              ClientTypeOK, Ips
<1>5. route' \in Gateways
  BY <1>1 DEF ConfigureWan, ConfigureRefused, ConfigureAborted, ConfigureDone, IInv,
              ClientTypeOK, Gateways, RouteAfter
<1>6. dirty' \in BOOLEAN
  BY DEF ConfigureWan, ConfigureRefused, ConfigureAborted, ConfigureDone, ConfigureFailed
<1>7. UNCHANGED <<ack, elapsed, sent, deadline, lease_state, removing>>
  BY DEF ConfigureWan
<1> QED BY <1>1, <1>2, <1>3, <1>4, <1>5, <1>6, <1>7 DEF IInv, LeaseInv, ClientTypeOK, Phases

LEMMA DeconfigureWanInv ==
    ASSUME IInv, DeconfigureWan
    PROVE  IInv'
<1>1. removing \in Removals /\ removing.next \in {"backoff", "discover"}
  BY DEF IInv, LeaseInv, DeconfigureWan, Removals
<1>2. /\ phase' = removing.next /\ removing' = None
      /\ retry_delay' \in INITIAL_RETRY_DELAY_SECS .. MAX_RETRY_DELAY_SECS
      /\ UNCHANGED <<ack, elapsed, sent, deadline, lease_state>>
  BY DEF DeconfigureWan, Negotiate, INITIAL_RETRY_DELAY_SECS, MAX_RETRY_DELAY_SECS
<1>3. wan' \subseteq Ips
  BY DEF DeconfigureWan, IInv, ClientTypeOK
<1>4. route' \in Gateways
  BY DEF DeconfigureWan, RouteAfter, IInv, ClientTypeOK, Gateways
<1>5. dirty' \in BOOLEAN
  BY DEF DeconfigureWan
<1> QED BY <1>1, <1>2, <1>3, <1>4, <1>5 DEF IInv, LeaseInv, ClientTypeOK, Phases

LEMMA AckReceivedInv ==
    ASSUME IInv, NEW config \in Configs, NEW lease \in LeaseTimes, AckReceived(config, lease)
    PROVE  IInv'
<1>1. ack' \in Acks /\ ack'.config = config /\ ack'.lease_secs = lease /\ lease \in Nat
  BY LeaseTimesAssumption DEF AckReceived, Acks
<1>2. /\ lease_state' = config /\ elapsed' = 0 /\ sent' = None /\ deadline' = 0
      /\ phase' \in {"bound", "configure"}
      /\ UNCHANGED <<removing, wan, route, dirty>>
  BY DEF AckReceived, ApplyLeaseConfig, wanVars
<1>3. retry_delay' \in INITIAL_RETRY_DELAY_SECS .. MAX_RETRY_DELAY_SECS
  BY DEF AckReceived, INITIAL_RETRY_DELAY_SECS, MAX_RETRY_DELAY_SECS
<1> QED BY <1>1, <1>2, <1>3 DEF IInv, LeaseInv, ClientTypeOK, Phases

LEMMA TickInv ==
    ASSUME IInv, Tick
    PROVE  IInv'
<1>1. elapsed \in Nat /\ elapsed' \in {elapsed, elapsed + 1} /\ elapsed' \in Nat
  BY DEF IInv, ClientTypeOK, Tick
<1>2. UNCHANGED <<phase, retry_delay, ack, sent, deadline, lease_state, removing, wan, route,
                  dirty>>
  BY DEF Tick, wanVars
<1>3. CASE phase = "bound"
  <2>1. ack.lease_secs \in Nat /\ elapsed < T1(ack.lease_secs)
    BY <1>3, LeaseTimesAssumption DEF IInv, LeaseInv, Acks, Tick
  <2>2. elapsed' <= ack.lease_secs
    BY <1>1, <2>1, RenewalTimes DEF T1
  <2> QED BY <1>1, <1>2, <1>3, <2>2 DEF IInv, LeaseInv, ClientTypeOK
<1>4. CASE phase = "renew"
  <2>1. elapsed < deadline /\ deadline \in Nat
    BY <1>4 DEF IInv, ClientTypeOK, Tick
  <2> QED BY <1>1, <1>2, <1>4, <2>1 DEF IInv, LeaseInv, ClientTypeOK
<1>5. CASE phase \in {"stopped", "discover", "request", "backoff"}
  BY <1>1, <1>2, <1>5 DEF IInv, LeaseInv, ClientTypeOK
<1> QED BY <1>3, <1>4, <1>5 DEF Tick

\* The steps of a negotiation that reach no lease.
LEMMA NegotiationInv ==
    ASSUME IInv,
           Start \/ OfferReceived \/ NegotiationTimeout \/ NegotiationFailed \/ BackoffEnds
    PROVE  IInv'
<1>1. CASE NegotiationFailed
  <2>1. /\ phase' \in {"backoff", "discover", "deconfigure"}
        /\ phase' = "deconfigure" => removing' \in Removals
        /\ retry_delay' \in INITIAL_RETRY_DELAY_SECS .. MAX_RETRY_DELAY_SECS
        /\ lease_state' = None
        /\ removing' \in Removals \cup {None}
    BY <1>1, DeconfigureInv DEF NegotiationFailed
  <2>2. UNCHANGED <<ack, elapsed, sent, deadline, wan, route, dirty>>
    BY <1>1 DEF NegotiationFailed, wanVars
  <2> QED BY <2>1, <2>2 DEF IInv, LeaseInv, ClientTypeOK, Phases
<1>2. CASE Start \/ OfferReceived \/ NegotiationTimeout \/ BackoffEnds
  <2>1. retry_delay' \in INITIAL_RETRY_DELAY_SECS .. MAX_RETRY_DELAY_SECS
    BY <1>2, NextDelayInRange
       DEF Start, OfferReceived, NegotiationTimeout, BackoffEnds, Negotiate, IInv, ClientTypeOK,
           INITIAL_RETRY_DELAY_SECS, MAX_RETRY_DELAY_SECS
  <2>2. /\ phase' \in {"stopped", "discover", "request"}
        /\ UNCHANGED <<ack, elapsed, sent, deadline, lease_state, removing, wan, route, dirty>>
    BY <1>2 DEF Start, OfferReceived, NegotiationTimeout, BackoffEnds, Negotiate, wanVars
  <2> QED BY <2>1, <2>2 DEF IInv, LeaseInv, ClientTypeOK, Phases
<1> QED BY <1>1, <1>2

LEMMA NextIInv ==
    ASSUME IInv, [Next]_vars
    PROVE  IInv'
<1>1. CASE BoundExpired \/ RenewFailed \/ (RenewTimeout /\ LeaseOver)
  BY <1>1, LeaseOverInv DEF BoundExpired, RenewFailed
<1>2. CASE StartRenewal \/ (RenewTimeout /\ RenewTurn)
  BY <1>2, RenewTurnInv DEF StartRenewal, RenewTimeout
<1>3. CASE UNCHANGED vars
  BY <1>3 DEF vars, wanVars, IInv, LeaseInv, ClientTypeOK
<1>4. RenewTimeout => RenewTurn \/ LeaseOver
  BY DEF RenewTimeout
<1> QED BY <1>1, <1>2, <1>3, <1>4, NegotiationInv, AckReceivedInv, ConfigureWanInv,
           DeconfigureWanInv, TickInv DEF Next
-----------------------------------------------------------------------------
(***************************************************************************)
(* The theorems                                                            *)
(***************************************************************************)

LEMMA InvariantHolds == Spec => []IInv
BY InitIInv, NextIInv, PTL DEF Spec

\* Every lease the client acts on, publishes or removes, every address and
\* route on the interface and every timer has its type.
THEOREM ClientTypeCorrect == Spec => []ClientTypeOK
<1>1. IInv => ClientTypeOK
  BY DEF IInv
<1> QED BY <1>1, InvariantHolds, PTL

\* While a lease is held the other services read that lease.
THEOREM BoundLeaseIsPublished == Spec => []BoundIsPublished
<1>1. IInv => BoundIsPublished
  BY DEF IInv, LeaseInv, BoundIsPublished, Bound
<1> QED BY <1>1, InvariantHolds, PTL

\* The clock of a lease that is held runs less than the least interval beyond it.
LEMMA HeldInTime ==
    ASSUME IInv, phase \in {"configure", "bound", "renew"}
    PROVE  elapsed < ack.lease_secs + MIN_INTERVAL
<1>1. ack.lease_secs \in Nat /\ elapsed \in Nat /\ deadline \in Nat
  BY LeaseTimesAssumption DEF IInv, LeaseInv, ClientTypeOK, Acks
<1>2. \/ elapsed <= ack.lease_secs
      \/ elapsed <= deadline /\ deadline < ack.lease_secs + MIN_INTERVAL
  BY <1>1 DEF IInv, LeaseInv
<1> QED BY <1>1, <1>2, MinIntervalAssumption

\* However long the lease, its address is used beyond its end by less than the
\* least renewal interval.
THEOREM OverrunIsBounded == Spec => []OverrunBounded
<1>1. IInv => OverrunBounded
  BY HeldInTime DEF OverrunBounded, Bound
<1> QED BY <1>1, InvariantHolds, PTL

\* The renewal loop does not spin: for every lease time, each turn takes the end
\* of the wait on by the least interval, and OverrunIsBounded limits where that
\* can lead, so that a renewal nobody answers has only so many turns.
THEOREM TurnsAreApart ==
    Spec => [][phase = "renew" /\ phase' = "renew"
               => deadline' = deadline \/ deadline' >= deadline + MIN_INTERVAL]_vars
<1> DEFINE Apart == phase = "renew" /\ phase' = "renew"
                       => deadline' = deadline \/ deadline' >= deadline + MIN_INTERVAL
<1>1. ASSUME IInv, RenewTimeout, RenewTurn
      PROVE  deadline' >= deadline + MIN_INTERVAL
  <2> DEFINE interval == RetryInterval(elapsed, ack.lease_secs)
  <2>1. /\ ack.lease_secs \in Nat /\ elapsed \in Nat /\ deadline \in Nat
        /\ elapsed < ack.lease_secs /\ elapsed >= deadline
    BY <1>1, LeaseTimesAssumption DEF IInv, LeaseInv, ClientTypeOK, Acks, RenewTurn, RenewTimeout
  <2>2. interval \in Nat /\ interval >= MIN_INTERVAL
    BY <2>1, WaitBounded
  <2>3. deadline' = elapsed + interval
    BY <1>1 DEF RenewTurn
  <2> HIDE DEF interval
  <2> QED BY <2>1, <2>2, <2>3, MinIntervalAssumption
<1>2. Next => Apart \/ (RenewTimeout /\ RenewTurn)
  BY DEF Next, Start, OfferReceived, NegotiationTimeout, NegotiationFailed, BackoffEnds,
         AckReceived, ApplyLeaseConfig, ConfigureWan, DeconfigureWan, BoundExpired, StartRenewal,
         RenewTimeout, RenewFailed, LeaseOver, Deconfigure, Negotiate, Tick
<1>3. IInv /\ [Next]_vars => [Apart]_vars
  BY <1>1, <1>2
<1> QED BY <1>3, InvariantHolds, PTL DEF Spec

\* A lease that ends is withdrawn from the other services in that step.
THEOREM LossIsWithdrawn == Spec => LossWithdraws
<1>1. Next => (Bound /\ phase' \notin {"bound", "renew", "configure"} => lease_state' = None)
  BY DEF Next, Bound, Start, OfferReceived, NegotiationTimeout, NegotiationFailed, BackoffEnds,
         AckReceived, ApplyLeaseConfig, ConfigureWan, DeconfigureWan, BoundExpired, StartRenewal,
         RenewTimeout, RenewFailed, RenewTurn, LeaseOver, Deconfigure, Tick
<1>2. [Next]_vars =>
        [Bound /\ phase' \notin {"bound", "renew", "configure"} => lease_state' = None]_vars
  BY <1>1
<1> QED BY <1>2, PTL DEF Spec, LossWithdraws
-----------------------------------------------------------------------------
(***************************************************************************)
(* The interface                                                           *)
(***************************************************************************)

\* Between netlink requests the interface has what the lease says; a lease
\* being removed is still on it, alone.
WanInv ==
    /\ InterfaceMatchesLease
    /\ phase = "deconfigure" => lease_state = None
    /\ ~dirty /\ phase = "deconfigure" => wan = {removing.config.ip}

LEMMA WithdrawalKeeps ==
    ASSUME WanInv, NEW next \in {"backoff", "discover"}, Deconfigure(next), UNCHANGED wanVars,
           phase \notin {"configure", "deconfigure"}
    PROVE  WanInv'
<1>1. lease_state' = None /\ UNCHANGED <<wan, route, dirty>>
  BY DEF Deconfigure, wanVars
<1>2. CASE lease_state = None
  BY <1>1, <1>2 DEF WanInv, InterfaceMatchesLease, Deconfigure, Negotiate
<1>3. CASE lease_state # None
  <2>1. phase' = "deconfigure" /\ removing' = [config |-> lease_state, next |-> next]
    BY <1>3 DEF Deconfigure
  <2>2. ~dirty => wan = {lease_state.ip}
    BY <1>3 DEF WanInv, InterfaceMatchesLease
  <2> QED BY <1>1, <2>1, <2>2 DEF WanInv, InterfaceMatchesLease
<1> QED BY <1>2, <1>3

LEMMA ConfigureWanKeeps ==
    ASSUME IInv, ConfigureWan
    PROVE  WanInv'
<1>1. lease_state' = lease_state /\ lease_state = ack.config /\ lease_state # None
      /\ ack' = ack
  BY NoneAssumption DEF IInv, LeaseInv, ConfigureWan, Acks
<1>2. CASE ConfigureRefused \/ ConfigureAborted
  <2>1. dirty' = TRUE /\ phase' = "discover"
    BY <1>2 DEF ConfigureRefused, ConfigureAborted, ConfigureFailed, Negotiate
  <2> QED BY <2>1 DEF WanInv, InterfaceMatchesLease
<1>3. CASE ConfigureDone
  <2>1. phase' = "bound"
    BY <1>3 DEF ConfigureDone
  <2>2. ~dirty' => wan' = {ack.config.ip} /\ route' = ack.config.gateway
    <3> PICK kept, new :
               /\ wan' = kept \cup {ack.config.ip}
               /\ route' = new
               /\ dirty' = ~(kept = {} /\ new = ack.config.gateway)
      BY <1>3 DEF ConfigureDone
    <3>1. ~dirty' => kept = {} /\ new = ack.config.gateway
      BY Zenon
    <3> QED BY <3>1
  <2> QED BY <1>1, <2>1, <2>2 DEF WanInv, InterfaceMatchesLease
<1> QED BY <1>2, <1>3 DEF ConfigureWan

LEMMA RemovalKeeps ==
    ASSUME IInv, WanInv, DeconfigureWan
    PROVE  WanInv'
<1>1. phase' \in {"backoff", "discover"}
  BY DEF DeconfigureWan, Negotiate, IInv, LeaseInv, Removals
<1>2. CASE dirty' = TRUE
  BY <1>1, <1>2 DEF WanInv, InterfaceMatchesLease
<1>3. CASE dirty' = FALSE
  <2>1. /\ wan' = wan \ {removing.config.ip}
        /\ route' = IF wan' = {} THEN None ELSE route
        /\ dirty => wan' = {}
    BY <1>3 DEF DeconfigureWan, RouteAfter
  <2>2. ~dirty => wan = {removing.config.ip}
    BY DEF WanInv, DeconfigureWan
  <2>3. wan' = {} /\ route' = None
    BY <2>1, <2>2 DEF IInv, ClientTypeOK
  <2>4. lease_state' = None
    BY DEF DeconfigureWan, WanInv
  <2> QED BY <1>1, <1>3, <2>3, <2>4 DEF WanInv, InterfaceMatchesLease
<1>4. dirty' \in BOOLEAN
  BY DEF DeconfigureWan, IInv, ClientTypeOK
<1> QED BY <1>2, <1>3, <1>4

\* An ACK that changes nothing finds the interface configured, another one has
\* it configured next.
LEMMA AckReceivedKeeps ==
    ASSUME WanInv, NEW config \in Configs, NEW lease \in LeaseTimes, AckReceived(config, lease)
    PROVE  WanInv'
<1>1. /\ lease_state' = config
      /\ phase' = IF lease_state = config THEN "bound" ELSE "configure"
      /\ UNCHANGED <<wan, route, dirty>>
      /\ phase \in {"request", "renew"}
  BY DEF AckReceived, ApplyLeaseConfig, wanVars
<1>2. CASE lease_state = config
  BY <1>1, <1>2 DEF WanInv, InterfaceMatchesLease
<1>3. CASE lease_state # config
  BY <1>1, <1>3 DEF WanInv, InterfaceMatchesLease
<1> QED BY <1>2, <1>3

\* Steps that touch neither the lease nor the interface.
LEMMA QuietKeeps ==
    ASSUME WanInv, UNCHANGED <<lease_state, removing, wan, route, dirty>>,
           \/ phase' = phase
           \/ /\ phase \notin {"configure", "deconfigure"}
              /\ phase' \notin {"configure", "deconfigure"}
    PROVE  WanInv'
BY DEF WanInv, InterfaceMatchesLease

LEMMA NextWanInv ==
    ASSUME IInv, WanInv, [Next]_vars
    PROVE  WanInv'
<1>1. CASE NegotiationFailed \/ BoundExpired \/ RenewFailed \/ (RenewTimeout /\ LeaseOver)
  <2>1. /\ Deconfigure("backoff") \/ Deconfigure("discover")
        /\ phase \notin {"configure", "deconfigure"}
        /\ UNCHANGED wanVars
    BY <1>1 DEF NegotiationFailed, BoundExpired, RenewFailed, RenewTimeout, LeaseOver, wanVars
  <2> QED BY <2>1, WithdrawalKeeps
<1>2. CASE \/ Start \/ OfferReceived \/ NegotiationTimeout \/ BackoffEnds
           \/ StartRenewal \/ (RenewTimeout /\ RenewTurn) \/ Tick \/ UNCHANGED vars
  <2>1. /\ UNCHANGED <<lease_state, removing, wan, route, dirty>>
        /\ \/ phase' = phase
           \/ /\ phase \notin {"configure", "deconfigure"}
              /\ phase' \notin {"configure", "deconfigure"}
    BY <1>2 DEF Start, OfferReceived, NegotiationTimeout, BackoffEnds, Negotiate, StartRenewal,
                RenewTimeout, RenewTurn, Tick, vars, wanVars
  <2> QED BY <2>1, QuietKeeps
<1>3. RenewTimeout => RenewTurn \/ LeaseOver
  BY DEF RenewTimeout
<1> QED BY <1>1, <1>2, <1>3, AckReceivedKeeps, ConfigureWanKeeps, RemovalKeeps DEF Next

\* The lease is published in no other phase, unless a configuration failed.
PublishedInv ==
    ~dirty /\ lease_state # None => phase \in {"configure", "bound", "renew"}

\* Whatever becomes of the negotiations, the other services read the lease that is
\* held, and as long as no netlink request fails none that is not in force.
THEOREM PublishedIsInForce == Spec => []PublishedInForce
<1>1. Init => PublishedInv
  BY DEF Init, PublishedInv
<1>2. IInv /\ WanInv /\ PublishedInv /\ [Next]_vars => PublishedInv'
  <2> SUFFICES ASSUME IInv, WanInv, PublishedInv, [Next]_vars
               PROVE  PublishedInv'
    OBVIOUS
  <2>1. CASE NegotiationFailed \/ BoundExpired \/ RenewFailed \/ (RenewTimeout /\ LeaseOver)
    <3>1. lease_state' = None
      BY <2>1 DEF NegotiationFailed, BoundExpired, RenewFailed, LeaseOver, Deconfigure
    <3> QED BY <3>1 DEF PublishedInv
  <2>2. CASE \E config \in Configs, lease \in LeaseTimes : AckReceived(config, lease)
    BY <2>2 DEF AckReceived, ApplyLeaseConfig, PublishedInv
  <2>3. CASE ConfigureWan
    BY <2>3 DEF ConfigureWan, ConfigureRefused, ConfigureAborted, ConfigureDone, ConfigureFailed,
                PublishedInv
  <2>4. CASE DeconfigureWan
    BY <2>4 DEF DeconfigureWan, WanInv, PublishedInv
  <2>5. CASE \/ Start \/ OfferReceived \/ NegotiationTimeout \/ BackoffEnds
             \/ StartRenewal \/ (RenewTimeout /\ RenewTurn) \/ Tick \/ UNCHANGED vars
    BY <2>5 DEF Start, OfferReceived, NegotiationTimeout, BackoffEnds, Negotiate, StartRenewal,
                RenewTimeout, RenewTurn, Tick, vars, wanVars, PublishedInv
  <2>6. RenewTimeout => RenewTurn \/ LeaseOver
    BY DEF RenewTimeout
  <2> QED BY <2>1, <2>2, <2>3, <2>4, <2>5, <2>6 DEF Next
<1>3. IInv /\ PublishedInv => PublishedInForce
  BY HeldInTime DEF PublishedInv, PublishedInForce, BoundIsPublished, Bound, IInv, LeaseInv
<1>4. Init => WanInv
  BY DEF Init, WanInv, InterfaceMatchesLease
<1>5. IInv /\ WanInv /\ [Next]_vars => WanInv'
  BY NextWanInv
<1> QED BY <1>1, <1>2, <1>3, <1>4, <1>5, InvariantHolds, PTL DEF Spec

\* Whatever leases come and go, and in whatever order they end, no address and
\* no default route of an earlier one stays on the interface, as long as no
\* netlink request fails.
THEOREM InterfaceFollowsLease == Spec => []InterfaceMatchesLease
<1>1. Init => WanInv
  BY DEF Init, WanInv, InterfaceMatchesLease
<1>2. IInv /\ WanInv /\ [Next]_vars => WanInv'
  BY NextWanInv
<1>3. WanInv => InterfaceMatchesLease
  BY DEF WanInv
<1> QED BY <1>1, <1>2, <1>3, InvariantHolds, PTL DEF Spec
-----------------------------------------------------------------------------
(***************************************************************************)
(* How far the program departs from what is said of it                     *)
(***************************************************************************)

\* A bound client is without its address, as BoundIsConfigured says it never is,
\* only after a netlink request has failed.
THEOREM OnlyFailuresUnconfigure == Spec => [](dirty \/ BoundIsConfigured)
<1>1. IInv /\ InterfaceMatchesLease => dirty \/ BoundIsConfigured
  <2> SUFFICES ASSUME IInv, InterfaceMatchesLease, ~dirty, Bound
               PROVE  ack.config.ip \in wan
    BY DEF BoundIsConfigured
  <2>1. lease_state = ack.config /\ lease_state # None
    BY NoneAssumption DEF IInv, LeaseInv, Bound, Acks
  <2> QED BY <2>1 DEF InterfaceMatchesLease, Bound
<1> QED BY <1>1, InvariantHolds, InterfaceFollowsLease, PTL

\* The interval after T2 only shrinks.
LEMMA IntervalShrinks ==
    ASSUME NEW lease \in Nat, NEW early \in Nat, NEW late \in Nat,
           T2(lease) <= early, early <= late, late < lease
    PROVE  RetryInterval(late, lease) <= RetryInterval(early, lease)
<1> DEFINE a == (lease - early) \div 2
           b == (lease - late) \div 2
<1>1. T2(lease) \in Nat
  BY RenewalTimes
<1>2. RetryInterval(early, lease) = Max({a, MIN_INTERVAL})
      /\ RetryInterval(late, lease) = Max({b, MIN_INTERVAL})
  BY <1>1 DEF RetryInterval, InRebinding
<1>3. a \in Nat /\ b \in Nat /\ b <= a
  OBVIOUS
<1> HIDE DEF a, b
<1>4. a \in Int /\ b \in Int /\ MIN_INTERVAL \in Int
  BY <1>3, MinIntervalAssumption
<1>5. /\ Max({a, MIN_INTERVAL}) \in {a, MIN_INTERVAL} /\ Max({a, MIN_INTERVAL}) >= a
      /\ Max({a, MIN_INTERVAL}) >= MIN_INTERVAL
      /\ Max({b, MIN_INTERVAL}) \in {b, MIN_INTERVAL}
  BY <1>4, MaxOfTwo, Zenon
<1> QED BY <1>2, <1>3, <1>5, MinIntervalAssumption

\* A wait that begins before T2 ends less than the least interval after it.
LEMMA WaitBeforeT2 ==
    ASSUME NEW lease \in Nat, NEW now \in Nat, now < T2(lease)
    PROVE  now + RetryInterval(now, lease) < T2(lease) + MIN_INTERVAL
<1> DEFINE half == (T2(lease) - now) \div 2
<1>1. T2(lease) \in Nat
  BY RenewalTimes
<1>2. RetryInterval(now, lease) = Max({half, MIN_INTERVAL})
  BY <1>1 DEF RetryInterval, InRebinding
<1>3. half \in Nat /\ now + half <= T2(lease)
  BY <1>1
<1> HIDE DEF half
<1>4. half \in Int /\ MIN_INTERVAL \in Int
  BY <1>3, MinIntervalAssumption
<1>5. Max({half, MIN_INTERVAL}) \in {half, MIN_INTERVAL}
  BY <1>4, MaxOfTwo, Zenon
<1> QED BY <1>1, <1>2, <1>3, <1>5, MinIntervalAssumption

\* One turn after T2, at d, may find the REQUEST to the server too recent to be
\* sent again; the wait that it opens is long enough for the next one.
OneTurnLate(d) ==
    /\ T2(ack.lease_secs) <= d /\ d < T2(ack.lease_secs) + MIN_INTERVAL /\ d < ack.lease_secs
    /\ deadline = d + RetryInterval(d, ack.lease_secs)
    /\ sent.at <= d

\* While a REQUEST to the server is awaited, no turn has come since T2, or one.
RebindInv ==
    /\ phase # "renew" => sent = None
    /\ phase = "renew" =>
          /\ sent.at \in Nat /\ sent.at <= elapsed
          /\ sent.dest = "server" =>
                \/ deadline < T2(ack.lease_secs) + MIN_INTERVAL
                \/ \E d \in Nat : OneTurnLate(d)

LEMMA RenewTurnRebinds ==
    ASSUME IInv, RebindInv, RenewTurn, StartRenewal \/ RenewTimeout
    PROVE  RebindInv'
<1> DEFINE lease == ack.lease_secs
           t2 == T2(lease)
           interval == RetryInterval(elapsed, lease)
<1>1. /\ lease \in Nat /\ t2 \in Nat /\ elapsed \in Nat /\ elapsed < lease /\ deadline \in Nat
      /\ phase \in {"bound", "renew"}
  BY LeaseTimesAssumption, RenewalTimes
     DEF IInv, LeaseInv, ClientTypeOK, Acks, RenewTurn, StartRenewal, RenewTimeout
<1>2. /\ interval \in Nat /\ interval >= MIN_INTERVAL
      /\ elapsed < t2 => elapsed + interval < t2 + MIN_INTERVAL
  BY <1>1, WaitBounded, WaitBeforeT2
<1>3. /\ phase' = "renew" /\ deadline' = elapsed + interval /\ UNCHANGED <<ack, elapsed>>
      /\ sent' = IF ShouldSend(elapsed, interval)
                 THEN [at |-> elapsed, dest |-> Destination(elapsed, lease)]
                 ELSE sent
  BY DEF RenewTurn
<1>4. CASE ShouldSend(elapsed, interval)
  <2>1. sent' = [at |-> elapsed, dest |-> IF elapsed >= t2 THEN "broadcast" ELSE "server"]
    BY <1>3, <1>4 DEF Destination, InRebinding
  <2> QED BY <1>1, <1>2, <1>3, <2>1 DEF RebindInv
<1>5. CASE ~ShouldSend(elapsed, interval)
  <2>1. /\ sent' = sent /\ sent # None /\ phase = "renew" /\ elapsed >= deadline
        /\ elapsed - sent.at < interval
    <3>1. sent # None /\ ~(elapsed - sent.at >= interval) /\ sent' = sent
      BY <1>3, <1>5 DEF ShouldSend
    <3>2. sent.at \in Nat
      BY <3>1 DEF IInv, ClientTypeOK
    <3>3. phase = "renew"
      BY <1>1, <3>1 DEF RebindInv
    <3>4. elapsed >= deadline
      BY <3>3 DEF StartRenewal, RenewTimeout
    <3> QED BY <1>1, <1>2, <3>1, <3>2, <3>3, <3>4
  <2>2. sent.at \in Nat /\ sent.at <= elapsed /\ elapsed <= deadline
    BY <2>1 DEF RebindInv, IInv, LeaseInv, ClientTypeOK
  <2>3. SUFFICES ASSUME sent.dest = "server"
                 PROVE  deadline' < t2 + MIN_INTERVAL \/ (\E d \in Nat : OneTurnLate(d))'
    BY <1>3, <2>1, <2>2 DEF RebindInv
  <2>4. CASE elapsed < t2
    BY <1>2, <1>3, <2>4
  <2>5. CASE elapsed >= t2 /\ deadline < t2 + MIN_INTERVAL
    <3>1. elapsed < t2 + MIN_INTERVAL
      BY <1>1, <2>2, <2>5, MinIntervalAssumption
    <3>2. OneTurnLate(elapsed)'
      BY <1>1, <1>3, <2>1, <2>2, <2>5, <3>1 DEF OneTurnLate
    <3>3. elapsed' = elapsed /\ elapsed' \in Nat
      BY <1>1, <1>3
    <3> QED BY <3>2, <3>3
  <2>6. ASSUME NEW d \in Nat, OneTurnLate(d) PROVE FALSE
    <3>1. /\ t2 <= d /\ d < lease /\ deadline = d + RetryInterval(d, lease) /\ sent.at <= d
      BY <2>6 DEF OneTurnLate
    <3>2. RetryInterval(d, lease) \in Nat
      BY <1>1, <3>1, WaitBounded
    <3>3. d <= elapsed
      BY <1>1, <2>1, <3>1, <3>2
    <3>4. interval <= RetryInterval(d, lease)
      BY <1>1, <3>1, <3>3, IntervalShrinks
    <3> HIDE DEF interval, lease, t2
    <3> QED BY <1>1, <1>2, <2>1, <2>2, <3>1, <3>2, <3>4
  <2>7. deadline < t2 + MIN_INTERVAL \/ \E d \in Nat : OneTurnLate(d)
    BY <2>1, <2>3 DEF RebindInv
  <2> QED BY <1>1, <2>4, <2>5, <2>6, <2>7
<1> QED BY <1>4, <1>5

LEMMA NextRebindInv ==
    ASSUME IInv, RebindInv, [Next]_vars
    PROVE  RebindInv'
<1>1. CASE NegotiationFailed \/ BoundExpired \/ RenewFailed \/ (RenewTimeout /\ LeaseOver)
  <2>1. phase' \in {"backoff", "discover", "deconfigure"}
    BY <1>1, DeconfigureInv
       DEF NegotiationFailed, BoundExpired, RenewFailed, LeaseOver
  <2>2. sent' = None
    BY <1>1 DEF NegotiationFailed, BoundExpired, RenewFailed, LeaseOver, RebindInv
  <2> QED BY <2>1, <2>2 DEF RebindInv
<1>2. CASE \E config \in Configs, lease \in LeaseTimes : AckReceived(config, lease)
  BY <1>2 DEF AckReceived, ApplyLeaseConfig, RebindInv
<1>3. CASE \/ Start \/ OfferReceived \/ NegotiationTimeout \/ BackoffEnds
           \/ ConfigureWan \/ DeconfigureWan
  <2>1. phase # "renew" /\ phase' # "renew" /\ sent' = sent
    BY <1>3 DEF Start, OfferReceived, NegotiationTimeout, BackoffEnds, Negotiate, ConfigureWan,
                ConfigureRefused, ConfigureAborted, ConfigureDone, ConfigureFailed,
                DeconfigureWan, IInv, LeaseInv, Removals
  <2> QED BY <2>1 DEF RebindInv
<1>4. CASE StartRenewal \/ (RenewTimeout /\ RenewTurn)
  BY <1>4, RenewTurnRebinds DEF StartRenewal
<1>5. CASE Tick
  <2>1. UNCHANGED <<phase, ack, sent, deadline>>
    BY <1>5 DEF Tick
  <2>2. phase = "renew" => sent.at <= elapsed'
    <3> SUFFICES ASSUME phase = "renew" PROVE sent.at <= elapsed'
      OBVIOUS
    <3>1. sent.at \in Nat /\ sent.at <= elapsed /\ elapsed \in Nat
      BY DEF RebindInv, IInv, ClientTypeOK
    <3>2. elapsed' \in {elapsed, elapsed + 1}
      BY <1>5 DEF Tick
    <3> QED BY <3>1, <3>2
  <2>3. \A d \in Nat : OneTurnLate(d)' <=> OneTurnLate(d)
    BY <2>1 DEF OneTurnLate
  <2> QED BY <2>1, <2>2, <2>3 DEF RebindInv
<1>6. CASE UNCHANGED vars
  BY <1>6 DEF vars, RebindInv, OneTurnLate
<1>7. RenewTimeout => RenewTurn \/ LeaseOver
  BY DEF RenewTimeout
<1> QED BY <1>1, <1>2, <1>3, <1>4, <1>5, <1>6, <1>7 DEF Next

\* A REQUEST to the server alone is awaited after T2 by less than the least interval
\* and one retry interval, which is half of what is left of the lease at T2.
RebindingInTime ==
    phase = "renew" /\ sent.dest = "server" =>
        elapsed < T2(ack.lease_secs) + MIN_INTERVAL
                    + Max({(ack.lease_secs - T2(ack.lease_secs)) \div 2, MIN_INTERVAL})

\* How far the program is from RebindingBroadcasts, for every lease time: one turn
\* of the renewal loop after T2 may send nothing, because the retry interval has
\* grown since the last REQUEST; the next one broadcasts.
THEOREM RebindingIsLateByOneTurn == Spec => []RebindingInTime
<1>1. Init => RebindInv
  BY DEF Init, RebindInv
<1>2. IInv /\ RebindInv /\ [Next]_vars => RebindInv'
  BY NextRebindInv
<1>3. IInv /\ RebindInv => RebindingInTime
  <2> SUFFICES ASSUME IInv, RebindInv, phase = "renew", sent.dest = "server"
               PROVE  RebindingInTime
    BY DEF RebindingInTime
  <2> DEFINE lease == ack.lease_secs
             t2 == T2(lease)
             atT2 == Max({(lease - t2) \div 2, MIN_INTERVAL})
  <2>1. /\ lease \in Nat /\ t2 \in Nat /\ t2 <= lease /\ elapsed \in Nat /\ deadline \in Nat
        /\ elapsed <= deadline
    BY LeaseTimesAssumption, RenewalTimes DEF IInv, LeaseInv, ClientTypeOK, Acks
  <2>2. (lease - t2) \div 2 \in Int /\ MIN_INTERVAL \in Nat /\ MIN_INTERVAL \in Int
        /\ (lease - t2) \div 2 \in Nat
    BY <2>1, MinIntervalAssumption
  <2>3. atT2 \in Nat
    <3>1. atT2 \in {(lease - t2) \div 2, MIN_INTERVAL}
      BY <2>2, MaxOfTwo, Zenon
    <3> HIDE DEF atT2
    <3> QED BY <2>2, <3>1
  <2>4. CASE deadline < t2 + MIN_INTERVAL
    <3> HIDE DEF atT2, lease, t2
    <3>1. elapsed < t2 + MIN_INTERVAL + atT2
      BY <2>1, <2>3, <2>4, MinIntervalAssumption
    <3> QED BY <3>1 DEF RebindingInTime, atT2, lease, t2
  <2>5. ASSUME NEW d \in Nat, OneTurnLate(d) PROVE RebindingInTime
    <3>1. t2 <= d /\ d < t2 + MIN_INTERVAL /\ d < lease
          /\ deadline = d + RetryInterval(d, lease)
      BY <2>5 DEF OneTurnLate
    <3>2. RetryInterval(d, lease) \in Nat
      BY <2>1, <3>1, WaitBounded
    <3>3. RetryInterval(t2, lease) = atT2
      <4>1. InRebinding(t2, lease)
        BY <2>1 DEF InRebinding
      <4> QED BY <4>1, Zenon DEF RetryInterval
    <3>4. RetryInterval(d, lease) <= RetryInterval(t2, lease)
      BY <2>1, <3>1, IntervalShrinks
    <3> HIDE DEF atT2, lease, t2
    <3>5. elapsed < t2 + MIN_INTERVAL + atT2
      BY <2>1, <2>3, <3>1, <3>2, <3>3, <3>4, MinIntervalAssumption
    <3> QED BY <3>5 DEF RebindingInTime, atT2, lease, t2
  <2> QED BY <2>4, <2>5 DEF RebindInv
<1> QED BY <1>1, <1>2, <1>3, InvariantHolds, PTL DEF Spec
=============================================================================
