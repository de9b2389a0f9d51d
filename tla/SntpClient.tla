----------------------------- MODULE SntpClient -----------------------------
(***************************************************************************)
(* The SNTP client: src/src/services/sntp_client.rs, with the look-up of   *)
(* the server through the router's own forwarder (resolve_dns_a_record in  *)
(* utils.rs), the shared lease that the WAN client writes, and the         *)
(* firewall between it and the server.                                     *)
(*                                                                         *)
(* Time is in ticks.  A timer fires on time: no tick passes a timer that   *)
(* has run out, nor an answer that is due.                                 *)
(***************************************************************************)
EXTENDS Firewall, FiniteSets

CONSTANTS
    POLL, RETRY_INTERVAL, MAX_RETRY_INTERVAL, SYNC_INTERVAL, DNS_TIMEOUT, NTP_TIMEOUT,
    Addresses,   \* of the WAN
    None

ASSUME IntervalsAssumption ==
    /\ {POLL, RETRY_INTERVAL, MAX_RETRY_INTERVAL, SYNC_INTERVAL, DNS_TIMEOUT, NTP_TIMEOUT}
          \subseteq Nat \ {0}
    /\ RETRY_INTERVAL <= MAX_RETRY_INTERVAL /\ RETRY_INTERVAL <= SYNC_INTERVAL
    /\ POLL <= MAX_RETRY_INTERVAL
ASSUME AddressesAssumption == None \notin Addresses

VARIABLES
    lease,    \* lease.ip of the shared lease
    net,      \* whether the forwarder and the servers answer
    phase,    \* where the loop is
    left,     \* until its timer fires
    delay,    \* current_retry_delay
    flow,     \* the WAN address that the server has been asked from
    age,      \* history: time since the clock was set, up to AgeCap
    good_for, \* history: time since lease or net last changed, up to GoodCap
    quiet     \* history: time since the last attempt, up to RETRY_INTERVAL

env == <<lease, net>>
client == <<phase, left, delay, flow>>
clocks == <<age, good_for, quiet>>
vars == <<env, client, clocks>>

\* An attempt takes at most ATTEMPT.
ATTEMPT == DNS_TIMEOUT + NTP_TIMEOUT
AgeCap == SYNC_INTERVAL + ATTEMPT + 1
GoodCap == MAX_RETRY_INTERVAL + 2 * ATTEMPT + 1

Least(a, b) == IF a <= b THEN a ELSE b

TypeOK ==
    /\ lease \in Addresses \cup {None} /\ net \in BOOLEAN
    /\ phase \in {"check", "no_wan", "resolving", "asking", "synced", "backoff"}
    /\ left \in Nat
    /\ phase = "check" => left = 0
    /\ phase = "no_wan" => left <= POLL
    /\ phase = "resolving" => left <= DNS_TIMEOUT
    /\ phase = "asking" => left <= NTP_TIMEOUT
    /\ phase = "synced" => left <= SYNC_INTERVAL
    /\ phase = "backoff" => left <= delay
    /\ delay \in RETRY_INTERVAL .. MAX_RETRY_INTERVAL
    /\ flow \in Addresses \cup {None}
    /\ age \in 0 .. AgeCap /\ good_for \in 0 .. GoodCap /\ quiet \in 0 .. RETRY_INTERVAL

Init ==
    /\ lease = None /\ net \in BOOLEAN
    /\ phase = "check" /\ left = 0 /\ delay = RETRY_INTERVAL /\ flow = None
    /\ age = AgeCap /\ good_for = 0 /\ quiet = RETRY_INTERVAL

Good == net /\ lease # None

\* The question to the forwarder and its answer, over lo.
LoopbackPasses ==
    Accepts([iif |-> "lo", proto |-> "udp", dport |-> OTHER_PORT, state |-> "new"])

\* The server's answer, to the address that it was asked from.
AnswerPasses ==
    /\ lease # None /\ flow = lease
    /\ Accepts([iif |-> "wan", proto |-> "udp", dport |-> OTHER_PORT, state |-> "established"])

\* An answer is due in time if all has been good since before the question.
AnswerDue ==
    /\ Good
    /\ \/ phase = "resolving" /\ good_for > DNS_TIMEOUT - left /\ LoopbackPasses
       \/ phase = "asking" /\ good_for > NTP_TIMEOUT - left /\ AnswerPasses

Sleeps(next, time) == phase' = next /\ left' = time
-----------------------------------------------------------------------------
\* The head of the loop: a look at the shared lease.
CheckLease ==
    /\ phase = "check"
    /\ \/ lease = None /\ Sleeps("no_wan", POLL) /\ UNCHANGED quiet
       \/ lease # None /\ Sleeps("resolving", DNS_TIMEOUT) /\ quiet' = 0
    /\ UNCHANGED <<env, delay, flow, age, good_for>>

NoWanEnds ==
    /\ phase = "no_wan" /\ left = 0
    /\ Sleeps("check", 0)
    /\ delay' = RETRY_INTERVAL
    /\ UNCHANGED <<env, flow, clocks>>

\* resolve_dns_a_record: the forwarder may answer from its cache.
Resolved ==
    /\ phase = "resolving" /\ LoopbackPasses
    /\ Sleeps("asking", NTP_TIMEOUT)
    /\ flow' = lease
    /\ UNCHANGED <<env, delay, clocks>>

\* Mistake: a server that cannot be asked is asked again at once.
AttemptFailsFast ==
    /\ phase \in {"resolving", "asking"} /\ (left = 0 \/ ~AnswerDue)
    /\ IF phase = "resolving" THEN Sleeps("check", 0) ELSE Sleeps("backoff", delay)
    /\ flow' = None
    /\ UNCHANGED <<env, delay, clocks>>

\* Mistake: no timeout, only errors.
AttemptFailsOnErrors ==
    /\ phase \in {"resolving", "asking"} /\ ~Good
    /\ Sleeps("backoff", delay)
    /\ flow' = None
    /\ UNCHANGED <<env, delay, clocks>>

\* No answer in time, or an error.
AttemptFails ==
    /\ phase \in {"resolving", "asking"} /\ (left = 0 \/ ~AnswerDue)
    /\ Sleeps("backoff", delay)
    /\ flow' = None
    /\ UNCHANGED <<env, delay, clocks>>

\* The answer sets the clock.
Synchronized ==
    /\ phase = "asking" /\ net /\ AnswerPasses
    /\ Sleeps("synced", SYNC_INTERVAL)
    /\ delay' = RETRY_INTERVAL
    /\ age' = 0 /\ flow' = None
    /\ UNCHANGED <<env, good_for, quiet>>

\* A time before 1970 is a panic, and the router starts again.
AnswerPanics ==
    /\ phase = "asking" /\ net /\ AnswerPasses /\ ~AnswerDue
    /\ Sleeps("check", 0)
    /\ delay' = RETRY_INTERVAL /\ flow' = None
    /\ lease' = None /\ good_for' = 0
    /\ age' = AgeCap /\ quiet' = RETRY_INTERVAL
    /\ UNCHANGED net

SyncEnds ==
    /\ phase = "synced" /\ left = 0
    /\ Sleeps("check", 0)
    /\ UNCHANGED <<env, delay, flow, clocks>>

\* Mistake: the delay has no maximum.
BackoffEndsUncapped ==
    /\ phase = "backoff" /\ left = 0
    /\ Sleeps("check", 0)
    /\ delay' = 2 * delay
    /\ UNCHANGED <<env, flow, clocks>>

BackoffEnds ==
    /\ phase = "backoff" /\ left = 0
    /\ Sleeps("check", 0)
    /\ delay' = Least(2 * delay, MAX_RETRY_INTERVAL)
    /\ UNCHANGED <<env, flow, clocks>>

ClientStep ==
    \/ CheckLease \/ NoWanEnds \/ Resolved \/ AttemptFails \/ Synchronized
    \/ AnswerPanics \/ SyncEnds \/ BackoffEnds
-----------------------------------------------------------------------------
\* The WAN client publishes a lease, another one, or none.
LeaseChanges ==
    /\ lease' \in (Addresses \cup {None}) \ {lease}
    /\ good_for' = 0
    /\ UNCHANGED <<net, client, age, quiet>>

NetChanges ==
    /\ net' = ~net
    /\ good_for' = 0
    /\ UNCHANGED <<lease, client, age, quiet>>

Tick ==
    /\ left > 0 /\ ~(AnswerDue /\ left = 1)
    /\ left' = left - 1
    /\ age' = Least(age + 1, AgeCap)
    /\ good_for' = IF Good THEN Least(good_for + 1, GoodCap) ELSE 0
    /\ quiet' = Least(quiet + 1, RETRY_INTERVAL)
    /\ UNCHANGED <<env, phase, delay, flow>>

Next == ClientStep \/ LeaseChanges \/ NetChanges \/ Tick

Spec == Init /\ [][Next]_vars

\* Time passes, and the client's task runs.
FairSpec == Spec /\ WF_vars(ClientStep) /\ WF_vars(Tick)
-----------------------------------------------------------------------------
(***************************************************************************)
(* Properties                                                              *)
(***************************************************************************)

\* The clock recovers: once lease and servers have been good for the longest
\* back-off and two attempts, the clock is never older than an interval and an
\* attempt, whatever failed before and however the lease came and went.
ClockRecovers ==
    good_for > MAX_RETRY_INTERVAL + 2 * ATTEMPT => age <= SYNC_INTERVAL + ATTEMPT

\* While a lease and the servers stay good the clock is set again and again: the loop
\* never stops, whatever it was waiting for.
KeepsTime ==
    \A a \in Addresses : <>[](net /\ lease = a) => []<>(phase = "synced")

\* The servers are not pressed: attempts are RETRY_INTERVAL apart, whichever
\* way the one before ended.
NotPressed == [][phase = "check" /\ phase' = "resolving" => quiet = RETRY_INTERVAL]_vars
=============================================================================
