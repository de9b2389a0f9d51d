------------------------- MODULE SntpClient_proofs --------------------------
(***************************************************************************)
(* Theorems about the SNTP client, for all intervals and WAN addresses.    *)
(***************************************************************************)
EXTENDS SntpClient, TLAPS

\* Either the clock was set not long ago, or things have not been good for
\* long: how long, by where the loop is and how far its timer has come.
Timing ==
    /\ ~Good => good_for = 0
    /\ phase = "check" =>
          good_for <= MAX_RETRY_INTERVAL + ATTEMPT \/ age <= SYNC_INTERVAL
    /\ phase = "no_wan" => good_for <= POLL - left
    /\ phase = "resolving" =>
          /\ \/ good_for <= MAX_RETRY_INTERVAL + ATTEMPT + DNS_TIMEOUT - left
             \/ age <= SYNC_INTERVAL + DNS_TIMEOUT - left
          /\ left = 0 => good_for <= DNS_TIMEOUT
    /\ phase = "asking" =>
          /\ \/ good_for <= MAX_RETRY_INTERVAL + 2 * ATTEMPT - left
             \/ age <= SYNC_INTERVAL + ATTEMPT - left
          /\ flow = lease \/ good_for <= NTP_TIMEOUT - left
          /\ left = 0 => good_for <= NTP_TIMEOUT
    /\ phase = "synced" => age <= SYNC_INTERVAL - left
    /\ phase = "backoff" => good_for <= MAX_RETRY_INTERVAL + ATTEMPT - left

\* By the next attempt the one before is RETRY_INTERVAL ago.
Spacing ==
    /\ phase \in {"check", "no_wan"} => quiet = RETRY_INTERVAL
    /\ phase \in {"synced", "backoff"} => quiet >= RETRY_INTERVAL - left

Inv == TypeOK /\ Timing /\ Spacing

LEMMA Intervals ==
    /\ POLL \in Nat \ {0} /\ RETRY_INTERVAL \in Nat \ {0} /\ MAX_RETRY_INTERVAL \in Nat \ {0}
    /\ SYNC_INTERVAL \in Nat \ {0} /\ DNS_TIMEOUT \in Nat \ {0} /\ NTP_TIMEOUT \in Nat \ {0}
    /\ RETRY_INTERVAL <= MAX_RETRY_INTERVAL /\ RETRY_INTERVAL <= SYNC_INTERVAL
    /\ POLL <= MAX_RETRY_INTERVAL
BY IntervalsAssumption

\* What is not due has not been good for long: the firewall lets the answers
\* pass that the client waits for.
LEMMA NotDue ==
    ASSUME Inv, ~AnswerDue
    PROVE  /\ phase = "resolving" => good_for <= DNS_TIMEOUT - left
           /\ phase = "asking" => good_for <= NTP_TIMEOUT - left
<1> USE Intervals
<1>1. CASE ~Good
  BY <1>1 DEF Inv, TypeOK, Timing
<1>2. CASE Good /\ phase = "resolving"
  <2>1. LoopbackPasses
    BY DEF LoopbackPasses, Accepts
  <2> QED BY <1>2, <2>1 DEF Inv, TypeOK, AnswerDue
<1>3. CASE Good /\ phase = "asking"
  <2>1. CASE flow = lease
    <3>1. AnswerPasses
      BY <1>3, <2>1 DEF AnswerPasses, Accepts, Good
    <3> QED BY <1>3, <3>1 DEF Inv, TypeOK, AnswerDue
  <2>2. CASE flow # lease
    BY <1>3, <2>2 DEF Inv, Timing
  <2> QED BY <2>1, <2>2
<1> QED BY <1>1, <1>2, <1>3

LEMMA InitInv == Init => Inv
BY Intervals DEF Init, Inv, TypeOK, Timing, Spacing, Good, AgeCap, GoodCap, ATTEMPT

LEMMA StepInv == Inv /\ [Next]_vars => Inv'
<1> SUFFICES ASSUME Inv, [Next]_vars PROVE Inv'
  OBVIOUS
<1> USE Intervals DEF Sleeps, ATTEMPT, AgeCap, GoodCap
<1>1. CASE CheckLease
  BY <1>1 DEF CheckLease, Inv, TypeOK, Timing, Spacing, Good, env
<1>2. CASE NoWanEnds
  BY <1>2 DEF NoWanEnds, Inv, TypeOK, Timing, Spacing, Good, env, clocks
<1>3. CASE Resolved
  BY <1>3 DEF Resolved, Inv, TypeOK, Timing, Spacing, Good, env, clocks
<1>4. CASE AttemptFails
  <2>1. good_for <= ATTEMPT
    <3>1. CASE left = 0
      BY <1>4, <3>1 DEF AttemptFails, Inv, TypeOK, Timing
    <3>2. CASE ~AnswerDue
      BY <1>4, <3>2, NotDue DEF AttemptFails, Inv, TypeOK
    <3> QED BY <1>4, <3>1, <3>2 DEF AttemptFails
  <2> QED BY <1>4, <2>1 DEF AttemptFails, Inv, TypeOK, Timing, Spacing, Good, env, clocks
<1>5. CASE Synchronized
  BY <1>5 DEF Synchronized, Inv, TypeOK, Timing, Spacing, Good, env
<1>6. CASE AnswerPanics
  BY <1>6 DEF AnswerPanics, Inv, TypeOK, Timing, Spacing, Good
<1>7. CASE SyncEnds
  BY <1>7 DEF SyncEnds, Inv, TypeOK, Timing, Spacing, Good, env, clocks
<1>8. CASE BackoffEnds
  BY <1>8 DEF BackoffEnds, Least, Inv, TypeOK, Timing, Spacing, Good, env, clocks
<1>9. CASE LeaseChanges
  BY <1>9 DEF LeaseChanges, Inv, TypeOK, Timing, Spacing, Good, client
<1>10. CASE NetChanges
  BY <1>10 DEF NetChanges, Inv, TypeOK, Timing, Spacing, Good, client
<1>11. CASE Tick
  <2>1. /\ good_for' \in Nat /\ age' \in Nat /\ quiet' \in Nat /\ left' \in Nat
        /\ good_for' <= good_for + 1 /\ good_for' <= GoodCap
        /\ age' <= age + 1 /\ age' <= AgeCap
        /\ quiet' \in {quiet + 1, RETRY_INTERVAL} /\ quiet' <= RETRY_INTERVAL
        /\ left' = left - 1
    BY <1>11 DEF Tick, Least, Inv, TypeOK
  <2>2. (~Good => good_for' = 0) /\ (Good' <=> Good)
    BY <1>11 DEF Tick, Good, env
  <2>3. left = 1 => /\ phase = "resolving" => good_for' <= DNS_TIMEOUT
                    /\ phase = "asking" => good_for' <= NTP_TIMEOUT
    BY <1>11, <2>1, NotDue DEF Tick, Inv, TypeOK
  <2>4. UNCHANGED <<lease, net, phase, delay, flow>>
    BY <1>11 DEF Tick, env
  <2>5. TypeOK'
    BY <2>1, <2>4 DEF Inv, TypeOK
  <2>6. Timing'
    <3>1. ~Good' => good_for' = 0
      BY <2>2
    <3>2. good_for \in Nat /\ age \in Nat /\ left \in Nat /\ left > 0
      BY <1>11 DEF Tick, Inv, TypeOK
    <3> QED BY <2>1, <2>3, <2>4, <3>1, <3>2 DEF Inv, TypeOK, Timing
  <2>7. Spacing'
    BY <2>1, <2>4 DEF Inv, TypeOK, Spacing
  <2> QED BY <2>5, <2>6, <2>7 DEF Inv
<1>12. CASE UNCHANGED vars
  BY <1>12 DEF vars, env, client, clocks, Inv, TypeOK, Timing, Spacing, Good
<1> QED
  BY <1>1, <1>2, <1>3, <1>4, <1>5, <1>6, <1>7, <1>8, <1>9, <1>10, <1>11, <1>12
  DEF Next, ClientStep

LEMMA SpecInv == Spec => []Inv
BY InitInv, StepInv, PTL DEF Spec

\* The delay of a retry keeps between its two bounds, and no timer is longer
\* than what it times.
THEOREM TypeCorrect == Spec => []TypeOK
<1>1. Inv => TypeOK
  BY DEF Inv
<1> QED BY SpecInv, <1>1, PTL

\* The clock recovers, for all intervals: once things have been good for the
\* longest back-off and two attempts, it is at most an interval and an attempt
\* old.
THEOREM Recovery == Spec => []ClockRecovers
<1>1. Inv => ClockRecovers
  BY Intervals DEF Inv, TypeOK, Timing, ClockRecovers, ATTEMPT, AgeCap, GoodCap
<1> QED BY SpecInv, <1>1, PTL

\* Attempts are RETRY_INTERVAL apart, for all intervals.
THEOREM AttemptsApart == Spec => NotPressed
<1>1. Inv /\ [Next]_vars => [phase = "check" /\ phase' = "resolving" => quiet = RETRY_INTERVAL]_vars
  BY DEF Inv, Spacing
<1> QED BY SpecInv, <1>1, PTL DEF Spec, NotPressed
=============================================================================
