--------------------------- MODULE LanDhcp_proofs ---------------------------
(***************************************************************************)
(* Theorems about the LAN DHCP server together with its clients, for every *)
(* number of clients, every length of the queues, every lease length, and  *)
(* any losses, restarts and remembered addresses.                          *)
(***************************************************************************)
EXTENDS LanDhcp, DhcpServer_proofs, SequenceTheorems

-----------------------------------------------------------------------------
(***************************************************************************)
(* The inductive invariant, client by client                               *)
(***************************************************************************)
InUse(c) == c.phase \in {"bound", "renewing"}

\* A client counts its lease from the sending of the REQUEST.
ClientOK(c) ==
    /\ c \in Client
    /\ InUse(c) => c.left >= 1
    /\ c.phase = "renewing" => c.left + c.since <= LAN_LEASE
    /\ c.phase = "requesting" => c.ip \in Ip

\* The frames of an exchange ask for nothing else than the client wants, and
\* while it uses an address no frame under way gives it up or asks for another.
FrameOK(c, msg) ==
    /\ msg \in Message
    /\ msg.type # "Request" => msg.requested = None
    /\ msg.cur /\ c.phase = "selecting" => msg.type = "Discover"
    /\ msg.cur /\ c.phase = "requesting" =>
          \/ msg.type = "Discover"
          \/ msg.type = "Request" /\ msg.requested = c.ip
    /\ msg.cur /\ c.phase = "renewing" => msg.type = "Request" /\ msg.requested = None
    /\ InUse(c) => msg.type \in {"Discover", "Request"} /\ msg.requested \in {None, c.ip}

\* What follows a frame of the current exchange is of that exchange.
QueueOK(c, frames) ==
    /\ frames \in Seq(Message) /\ Len(frames) <= MaxInFlight
    /\ \A i \in 1 .. Len(frames) : FrameOK(c, frames[i])
    /\ \A i, j \in 1 .. Len(frames) : i <= j /\ frames[i].cur => frames[j].cur

AnswerOK(c, a) ==
    /\ a \in Answer
    /\ a.type # "Nak" => a.ip \in Net
    /\ a.type = "Ack" => c.phase # "selecting"
    /\ a.type = "Ack" /\ c.phase = "requesting" => a.ip = c.ip

\* Once an answer is under way, the frames before its question are gone.
AnswersOK(c, frames, answers) ==
    /\ answers \in Seq(Answer) /\ Len(answers) <= MaxReplies
    /\ \A i \in 1 .. Len(answers) : AnswerOK(c, answers[i])
    /\ answers # <<>> => \A i \in 1 .. Len(frames) : frames[i].cur

\* Entry e is a lease of ip that lasts for another left ticks.
Grants(e, ip, left) == e # None /\ e.left > 0 /\ e.ip = ip /\ left <= e.left

\* A lease that began after the last reboot is in the table, and so is one that
\* an ACK under way grants.
Backed(c, answers, e, age) ==
    /\ InUse(c) /\ c.left > LAN_LEASE - age => Grants(e, c.ip, c.left)
    /\ c.phase \in {"requesting", "renewing"} /\ c.since < age =>
          \A i \in 1 .. Len(answers) :
             answers[i].type = "Ack" => Grants(e, answers[i].ip, LAN_LEASE - c.since)

StationOK(c, frames, answers, e, age) ==
    /\ ClientOK(c)
    /\ QueueOK(c, frames)
    /\ AnswersOK(c, frames, answers)
    /\ Backed(c, answers, e, age)

LanInv ==
    /\ TypeOK
    /\ UniqueLiveLease
    /\ client \in [Macs -> Client]
    /\ to_server \in [Macs -> Seq(Message)]
    /\ to_client \in [Macs -> Seq(Answer)]
    /\ since_reboot \in 0 .. LAN_LEASE
    /\ \A m \in Macs :
          StationOK(client[m], to_server[m], to_client[m], Get(leases, m), since_reboot)

\* What the invariant says of the properties.
LEMMA InvImplies == LanInv => LanTypeOK /\ NoDoubleUse /\ LeaseBacked
<1> SUFFICES ASSUME LanInv PROVE LanTypeOK /\ NoDoubleUse /\ LeaseBacked
  OBVIOUS
<1>1. LanTypeOK
  BY DEF LanInv, LanTypeOK, StationOK, QueueOK, AnswersOK
<1>2. ASSUME NEW m \in Macs, Using(m), since_reboot = LAN_LEASE
      PROVE  Grants(Get(leases, m), client[m].ip, client[m].left)
  <2>1. client[m].left \in Nat /\ client[m].left >= 1 /\ InUse(client[m])
    BY <1>2 DEF LanInv, StationOK, ClientOK, Client, Using, InUse
  <2> QED BY <1>2, <2>1, LeaseAssumption DEF LanInv, StationOK, Backed
<1>3. LeaseBacked
  BY <1>2 DEF LeaseBacked, Grants, IsLive, HasEntry
<1>4. NoDoubleUse
  BY <1>3, LeaseAssumption DEF NoDoubleUse, LeaseBacked, LanInv, UniqueLiveLease
<1> QED BY <1>1, <1>3, <1>4
-----------------------------------------------------------------------------
(***************************************************************************)
(* Queues                                                                  *)
(***************************************************************************)
LEMMA OldFrame ==
    ASSUME NEW msg \in Message
    PROVE  /\ Old(msg) \in Message
           /\ Old(msg).type = msg.type /\ Old(msg).requested = msg.requested
           /\ Old(msg).cur = FALSE
BY DEF Old, Message

LEMMA StaleQueue ==
    ASSUME NEW frames \in Seq(Message)
    PROVE  /\ Stale(frames) \in Seq(Message)
           /\ Len(Stale(frames)) = Len(frames)
           /\ \A i \in 1 .. Len(frames) : Stale(frames)[i] = Old(frames[i])
<1>1. /\ Len(frames) \in Nat /\ DOMAIN frames = 1 .. Len(frames)
      /\ \A i \in 1 .. Len(frames) : frames[i] \in Message
  BY LenProperties
<1>2. Stale(frames) \in [1 .. Len(frames) -> Message]
  BY <1>1, OldFrame DEF Stale
<1> QED BY <1>1, <1>2 DEF Stale

LEMMA FrameType ==
    ASSUME NEW type \in {"Discover", "Request", "Decline", "Release"},
           NEW requested \in Ip \cup {None}
    PROVE  /\ Frame(type, requested) \in Message
           /\ Frame(type, requested).type = type
           /\ Frame(type, requested).requested = requested
           /\ Frame(type, requested).cur = TRUE
BY DEF Frame, Message

\* The frames of an exchange that is over ask no more of the client's phase.
LEMMA StaleQueueOK ==
    ASSUME NEW c, NEW d, NEW frames, QueueOK(c, frames),
           \/ ~InUse(d)
           \/ InUse(c) /\ d.ip = c.ip
           \/ /\ c.phase \in {"requesting", "renewing"}
              /\ \A i \in 1 .. Len(frames) : frames[i].cur
              /\ c.phase = "requesting" => d.ip = c.ip
    PROVE  QueueOK(d, Stale(frames))
<1>1. /\ frames \in Seq(Message)
      /\ Stale(frames) \in Seq(Message)
      /\ Len(Stale(frames)) = Len(frames) /\ Len(frames) \in Nat
      /\ \A i \in 1 .. Len(frames) : Stale(frames)[i] = Old(frames[i])
  BY StaleQueue DEF QueueOK
<1>2. ASSUME NEW i \in 1 .. Len(frames)
      PROVE  FrameOK(d, Stale(frames)[i]) /\ ~Stale(frames)[i].cur
  <2>1. FrameOK(c, frames[i])
    BY DEF QueueOK
  <2>2. frames[i] \in Message
    BY <2>1 DEF FrameOK
  <2>3. /\ Stale(frames)[i] \in Message
        /\ Stale(frames)[i].type = frames[i].type
        /\ Stale(frames)[i].requested = frames[i].requested
        /\ Stale(frames)[i].cur = FALSE
    <3>1. Stale(frames)[i] = Old(frames[i])
      BY <1>1
    <3> HIDE DEF Stale
    <3> QED BY <2>2, <3>1, OldFrame, Zenon
  <2>4. InUse(d) => frames[i].type \in {"Discover", "Request"}
                     /\ frames[i].requested \in {None, d.ip}
    BY <2>1 DEF FrameOK, InUse
  <2> QED BY <2>1, <2>3, <2>4 DEF FrameOK
<1> QED BY <1>1, <1>2 DEF QueueOK

LEMMA AppendQueueOK ==
    ASSUME NEW c, NEW frames, QueueOK(c, frames), Len(frames) < MaxInFlight,
           NEW msg \in Message, FrameOK(c, msg), msg.cur
    PROVE  QueueOK(c, Append(frames, msg))
<1> DEFINE new == Append(frames, msg)
<1>1. /\ new \in Seq(Message) /\ Len(new) = Len(frames) + 1 /\ Len(frames) \in Nat
      /\ new[Len(new)] = msg
      /\ \A i \in 1 .. Len(frames) : new[i] = frames[i]
  BY AppendProperties DEF QueueOK
<1>2. Len(new) <= MaxInFlight
  BY <1>1, MaxInFlightAssumption
<1>3. \A i \in 1 .. Len(new) : i \in 1 .. Len(frames) \/ i = Len(new)
  BY <1>1
<1>4. \A i \in 1 .. Len(new) : FrameOK(c, new[i])
  BY <1>1, <1>3 DEF QueueOK
<1>5. ASSUME NEW i \in 1 .. Len(new), NEW j \in 1 .. Len(new), i <= j, new[i].cur
      PROVE  new[j].cur
  BY <1>1, <1>3, <1>5 DEF QueueOK
<1> QED BY <1>1, <1>2, <1>4, <1>5 DEF QueueOK

LEMMA TailQueueOK ==
    ASSUME NEW c, NEW frames, QueueOK(c, frames), frames # <<>>
    PROVE  /\ QueueOK(c, Tail(frames))
           /\ FrameOK(c, Head(frames))
           /\ Head(frames).cur => \A i \in 1 .. Len(Tail(frames)) : Tail(frames)[i].cur
           /\ (\A i \in 1 .. Len(frames) : frames[i].cur) =>
                 /\ Head(frames).cur
                 /\ \A i \in 1 .. Len(Tail(frames)) : Tail(frames)[i].cur
<1>1. /\ frames \in Seq(Message) /\ Len(frames) \in Nat /\ Len(frames) >= 1
      /\ Tail(frames) \in Seq(Message) /\ Len(Tail(frames)) = Len(frames) - 1
      /\ \A i \in 1 .. Len(Tail(frames)) : Tail(frames)[i] = frames[i + 1]
      /\ Head(frames) = frames[1]
  BY HeadTailProperties, EmptySeq, LenProperties DEF QueueOK
<1>2. \A i \in 1 .. Len(Tail(frames)) : i + 1 \in 1 .. Len(frames)
  BY <1>1
<1>3. Len(Tail(frames)) <= MaxInFlight
  BY <1>1, MaxInFlightAssumption DEF QueueOK
<1> QED BY <1>1, <1>2, <1>3 DEF QueueOK

LEMMA TailAnswersOK ==
    ASSUME NEW c, NEW frames, NEW answers, AnswersOK(c, frames, answers), answers # <<>>
    PROVE  /\ AnswersOK(c, frames, Tail(answers))
           /\ AnswerOK(c, Head(answers))
           /\ \A i \in 1 .. Len(frames) : frames[i].cur
           /\ \A i \in 1 .. Len(Tail(answers)) :
                 \E j \in 1 .. Len(answers) : Tail(answers)[i] = answers[j]
           /\ \E j \in 1 .. Len(answers) : Head(answers) = answers[j]
<1>1. /\ answers \in Seq(Answer) /\ Len(answers) \in Nat /\ Len(answers) >= 1
      /\ Tail(answers) \in Seq(Answer) /\ Len(Tail(answers)) = Len(answers) - 1
      /\ \A i \in 1 .. Len(Tail(answers)) : Tail(answers)[i] = answers[i + 1]
      /\ Head(answers) = answers[1]
  BY HeadTailProperties, EmptySeq, LenProperties DEF AnswersOK
<1>2. \A i \in 1 .. Len(Tail(answers)) : i + 1 \in 1 .. Len(answers)
  BY <1>1
<1>3. Len(Tail(answers)) <= MaxReplies
  BY <1>1, MaxInFlightAssumption DEF AnswersOK
<1>4. \A i \in 1 .. Len(frames) : frames[i].cur
  BY DEF AnswersOK
<1>5. \A i \in 1 .. Len(Tail(answers)) : AnswerOK(c, Tail(answers)[i])
  BY <1>1, <1>2 DEF AnswersOK
<1> QED BY <1>1, <1>2, <1>3, <1>4, <1>5 DEF AnswersOK

LEMMA NoAnswersOK ==
    ASSUME NEW c, NEW frames
    PROVE  AnswersOK(c, frames, <<>>)
BY EmptySeq, MaxInFlightAssumption DEF AnswersOK

LEMMA AppendAnswersOK ==
    ASSUME NEW c, NEW frames, NEW answers, AnswersOK(c, frames, answers),
           Len(answers) < MaxReplies, NEW a, AnswerOK(c, a),
           \A i \in 1 .. Len(frames) : frames[i].cur
    PROVE  /\ AnswersOK(c, frames, Append(answers, a))
           /\ \A i \in 1 .. Len(Append(answers, a)) :
                 \/ Append(answers, a)[i] = a
                 \/ \E j \in 1 .. Len(answers) : Append(answers, a)[i] = answers[j]
<1> DEFINE new == Append(answers, a)
<1>1. /\ new \in Seq(Answer) /\ Len(new) = Len(answers) + 1 /\ Len(answers) \in Nat
      /\ new[Len(new)] = a
      /\ \A i \in 1 .. Len(answers) : new[i] = answers[i]
  BY AppendProperties DEF AnswersOK, AnswerOK
<1>2. Len(new) <= MaxReplies
  BY <1>1, MaxInFlightAssumption
<1>3. \A i \in 1 .. Len(new) : i \in 1 .. Len(answers) \/ i = Len(new)
  BY <1>1
<1>4. \A i \in 1 .. Len(new) : AnswerOK(c, new[i])
  BY <1>1, <1>3 DEF AnswersOK
<1> QED BY <1>1, <1>2, <1>3, <1>4 DEF AnswersOK
-----------------------------------------------------------------------------
(***************************************************************************)
(* The steps of a client                                                   *)
(***************************************************************************)

\* A step of m leaves the others, the table and the reboots alone.
LEMMA OneStation ==
    ASSUME LanInv, NEW m \in Macs, NEW c, NEW frames, NEW answers,
           StationOK(c, frames, answers, Get(leases, m), since_reboot),
           client' = [client EXCEPT ![m] = c],
           to_server' = [to_server EXCEPT ![m] = frames],
           to_client' = [to_client EXCEPT ![m] = answers],
           reply' = None,
           UNCHANGED <<leases, socket, since_reboot>>
    PROVE  LanInv'
<1>1. c \in Client /\ frames \in Seq(Message) /\ answers \in Seq(Answer)
  BY DEF StationOK, ClientOK, QueueOK, AnswersOK
<1>2. /\ client' \in [Macs -> Client]
      /\ to_server' \in [Macs -> Seq(Message)]
      /\ to_client' \in [Macs -> Seq(Answer)]
  BY <1>1 DEF LanInv
<1>3. TypeOK' /\ UniqueLiveLease'
  BY DEF LanInv, TypeOK, UniqueLiveLease
<1>4. ASSUME NEW n \in Macs
      PROVE  StationOK(client'[n], to_server'[n], to_client'[n], Get(leases', n), since_reboot')
  <2>1. CASE n = m
    <3>1. client'[n] = c /\ to_server'[n] = frames /\ to_client'[n] = answers
      BY <2>1 DEF LanInv
    <3> QED BY <2>1, <3>1
  <2>2. CASE n # m
    <3>1. client'[n] = client[n] /\ to_server'[n] = to_server[n] /\ to_client'[n] = to_client[n]
      BY <2>2 DEF LanInv
    <3> QED BY <3>1 DEF LanInv
  <2> QED BY <2>1, <2>2
<1> QED BY <1>2, <1>3, <1>4 DEF LanInv

LEMMA UnboundRecord ==
    ASSUME NEW phase \in {"off", "init", "selecting"}, NEW d, d = At(phase, None)
    PROVE  ClientOK(d) /\ ~InUse(d) /\ d.phase = phase
BY LeaseAssumption DEF At, ClientOK, Client, InUse, Phases

LEMMA RequestingRecord ==
    ASSUME NEW ip \in Ip, NEW d, d = At("requesting", ip)
    PROVE  ClientOK(d) /\ ~InUse(d) /\ d.phase = "requesting" /\ d.ip = ip
BY LeaseAssumption DEF At, ClientOK, Client, InUse, Phases

LEMMA RenewingRecord ==
    ASSUME NEW c, ClientOK(c), InUse(c), NEW d, d = Holds("renewing", c.ip, c.left, 0)
    PROVE  /\ ClientOK(d) /\ InUse(d) /\ d.phase = "renewing"
           /\ d.ip = c.ip /\ d.left = c.left
BY LeaseAssumption DEF Holds, ClientOK, Client, InUse, Phases

LEMMA BoundRecord ==
    ASSUME NEW c, ClientOK(c), c.phase \in {"requesting", "renewing"}, c.since # LAN_LEASE,
           NEW ip \in Ip, NEW d, d = Holds("bound", ip, LAN_LEASE - c.since, 0)
    PROVE  /\ ClientOK(d) /\ InUse(d) /\ d.phase = "bound"
           /\ d.ip = ip /\ d.left = LAN_LEASE - c.since
BY LeaseAssumption DEF Holds, ClientOK, Client, InUse, Phases

\* A new exchange, and the end of one.
LEMMA Opening ==
    ASSUME NEW c, NEW d, NEW frames, QueueOK(c, frames), Len(frames) < MaxInFlight,
           ~InUse(d) \/ (InUse(c) /\ d.ip = c.ip),
           NEW msg \in Message, FrameOK(d, msg), msg.cur
    PROVE  QueueOK(d, Append(Stale(frames), msg))
<1>1. QueueOK(d, Stale(frames))
  BY StaleQueueOK
<1>2. Len(Stale(frames)) = Len(frames)
  BY StaleQueue DEF QueueOK
<1> QED BY <1>1, <1>2, AppendQueueOK

LEMMA NotInUse ==
    ASSUME NEW d, ClientOK(d), ~InUse(d), NEW frames, QueueOK(d, frames), NEW e, NEW age
    PROVE  StationOK(d, frames, <<>>, e, age)
<1>1. AnswersOK(d, frames, <<>>)
  BY NoAnswersOK
<1>2. Backed(d, <<>>, e, age)
  BY EmptySeq DEF Backed
<1> QED BY <1>1, <1>2 DEF StationOK

\* The parts of a client's step.
LEMMA SendNewEffect ==
    ASSUME LanInv, NEW m \in Macs, NEW type, NEW requested, SendNew(m, type, requested),
           NEW d, ClientOK(d), Becomes(m, d),
           ~InUse(d) \/ (InUse(client[m]) /\ d.ip = client[m].ip /\ d.left = client[m].left),
           FrameOK(d, Frame(type, requested))
    PROVE  LanInv'
<1> DEFINE c == client[m]
           frames == Append(Stale(to_server[m]), Frame(type, requested))
<1>1. StationOK(c, to_server[m], to_client[m], Get(leases, m), since_reboot)
  BY DEF LanInv
<1>2. QueueOK(c, to_server[m])
  BY <1>1 DEF StationOK
<1>3. QueueOK(d, frames)
  <2>1. Frame(type, requested) \in Message /\ Frame(type, requested).cur
    BY DEF FrameOK, Frame
  <2>2. Len(to_server[m]) < MaxInFlight
    BY DEF SendNew
  <2> HIDE DEF c
  <2>3. ~InUse(d) \/ (InUse(c) /\ d.ip = c.ip)
    BY DEF c
  <2> QED BY <1>2, <2>1, <2>2, <2>3, Opening
<1>4. StationOK(d, frames, <<>>, Get(leases, m), since_reboot)
  <2>1. Backed(d, <<>>, Get(leases, m), since_reboot)
    BY <1>1, EmptySeq DEF StationOK, Backed
  <2> QED BY <1>3, <2>1, NoAnswersOK DEF StationOK
<1>5. /\ client' = [client EXCEPT ![m] = d]
      /\ to_server' = [to_server EXCEPT ![m] = frames]
      /\ to_client' = [to_client EXCEPT ![m] = <<>>]
      /\ reply' = None /\ UNCHANGED <<leases, socket, since_reboot>>
  BY DEF SendNew, Becomes
<1> HIDE DEF frames
<1> QED BY <1>4, <1>5, OneStation

LEMMA CloseEffect ==
    ASSUME LanInv, NEW m \in Macs, CloseExchange(m), NEW d, ClientOK(d), Becomes(m, d), ~InUse(d)
    PROVE  LanInv'
<1> DEFINE frames == Stale(to_server[m])
<1>1. QueueOK(client[m], to_server[m])
  BY DEF LanInv, StationOK
<1>2. QueueOK(d, frames)
  BY <1>1, StaleQueueOK
<1>3. StationOK(d, frames, <<>>, Get(leases, m), since_reboot)
  BY <1>2, NotInUse
<1>4. /\ client' = [client EXCEPT ![m] = d]
      /\ to_server' = [to_server EXCEPT ![m] = frames]
      /\ to_client' = [to_client EXCEPT ![m] = <<>>]
      /\ reply' = None /\ UNCHANGED <<leases, socket, since_reboot>>
  BY DEF CloseExchange, Becomes
<1> HIDE DEF frames
<1> QED BY <1>3, <1>4, OneStation

LEMMA Opens ==
    ASSUME LanInv, NEW m \in Macs,
           \/ Discover(m) \/ \E ip \in Wanted : AskAgain(m, ip)
           \/ Renew(m) \/ Release(m) \/ DeclineAck(m)
    PROVE  LanInv'
<1>1. CASE Discover(m)
  <2> DEFINE d == At("selecting", None)
  <2>1. ClientOK(d) /\ ~InUse(d) /\ d.phase = "selecting"
    BY UnboundRecord
  <2>2. SendNew(m, "Discover", None) /\ Becomes(m, d)
    BY <1>1 DEF Discover
  <2> HIDE DEF d
  <2>3. FrameOK(d, Frame("Discover", None))
    BY <2>1, FrameType DEF FrameOK
  <2> QED BY <2>1, <2>2, <2>3, SendNewEffect
<1>2. ASSUME NEW ip \in Wanted, AskAgain(m, ip) PROVE LanInv'
  <2> DEFINE d == At("requesting", ip)
  <2>1. ip \in Ip
    BY WantedAssumption
  <2>2. ClientOK(d) /\ ~InUse(d) /\ d.phase = "requesting" /\ d.ip = ip
    BY <2>1, RequestingRecord
  <2>3. SendNew(m, "Request", ip) /\ Becomes(m, d)
    BY <1>2 DEF AskAgain
  <2> HIDE DEF d
  <2>4. FrameOK(d, Frame("Request", ip))
    BY <2>1, <2>2, FrameType DEF FrameOK
  <2> QED BY <2>1, <2>2, <2>3, <2>4, SendNewEffect
<1>3. CASE Renew(m)
  <2> DEFINE c == client[m]
             d == Holds("renewing", c.ip, c.left, 0)
  <2>1. ClientOK(c) /\ InUse(c)
    BY <1>3 DEF LanInv, StationOK, Renew, Using, InUse
  <2>2. /\ ClientOK(d) /\ InUse(d) /\ d.phase = "renewing"
        /\ d.ip = c.ip /\ d.left = c.left
    BY <2>1, RenewingRecord
  <2>3. FrameOK(d, Frame("Request", None))
    BY <2>2, FrameType DEF FrameOK
  <2>4. SendNew(m, "Request", None) /\ Becomes(m, d)
    BY <1>3 DEF Renew
  <2> HIDE DEF d
  <2> QED BY <2>1, <2>2, <2>3, <2>4, SendNewEffect
<1>4. CASE Release(m)
  <2>1. ClientOK(Off) /\ ~InUse(Off) /\ Off.phase = "off"
    BY UnboundRecord DEF Off
  <2>2. SendNew(m, "Release", None) /\ Becomes(m, Off)
    BY <1>4 DEF Release
  <2>3. FrameOK(Off, Frame("Release", None))
    BY <2>1, FrameType DEF FrameOK
  <2> QED BY <2>1, <2>2, <2>3, SendNewEffect
<1>5. CASE DeclineAck(m)
  <2>1. ClientOK(Idle) /\ ~InUse(Idle) /\ Idle.phase = "init"
    BY UnboundRecord DEF Idle
  <2>2. SendNew(m, "Decline", None) /\ Becomes(m, Idle)
    BY <1>5 DEF DeclineAck
  <2>3. FrameOK(Idle, Frame("Decline", None))
    BY <2>1, FrameType DEF FrameOK
  <2> QED BY <2>1, <2>2, <2>3, SendNewEffect
<1> QED BY <1>1, <1>2, <1>3, <1>4, <1>5

LEMMA Closes ==
    ASSUME LanInv, NEW m \in Macs, GiveUp(m) \/ Leave(m) \/ TakeNak(m)
    PROVE  LanInv'
<1>1. ClientOK(Idle) /\ ~InUse(Idle) /\ ClientOK(Off) /\ ~InUse(Off)
  BY UnboundRecord DEF Idle, Off
<1> QED BY <1>1, CloseEffect DEF GiveUp, Leave, TakeNak

LEMMA Retransmits ==
    ASSUME LanInv, NEW m \in Macs, Retransmit(m)
    PROVE  LanInv'
<1> DEFINE c == client[m]
           msg == Frame("Request", c.ip)
           frames == Append(to_server[m], msg)
<1>1. StationOK(c, to_server[m], to_client[m], Get(leases, m), since_reboot)
  BY DEF LanInv
<1>2. ClientOK(c) /\ c.phase = "requesting" /\ c.ip \in Ip
  BY <1>1 DEF StationOK, ClientOK, Retransmit
<1>3. msg \in Message /\ msg.cur /\ FrameOK(c, msg)
  BY <1>2, FrameType DEF FrameOK, InUse
<1>4. Len(to_server[m]) < MaxInFlight
  BY DEF Retransmit, Send
<1>5. QueueOK(c, to_server[m]) /\ AnswersOK(c, to_server[m], to_client[m])
  BY <1>1 DEF StationOK
<1> HIDE DEF msg
<1>6. QueueOK(c, frames)
  BY <1>3, <1>4, <1>5, AppendQueueOK
<1>7. AnswersOK(c, frames, to_client[m])
  <2>1. /\ Len(to_server[m]) \in Nat /\ Len(frames) = Len(to_server[m]) + 1
        /\ frames[Len(to_server[m]) + 1] = msg
        /\ \A i \in 1 .. Len(to_server[m]) : frames[i] = to_server[m][i]
    BY <1>3, <1>5, AppendProperties DEF QueueOK
  <2>2. ASSUME \A i \in 1 .. Len(to_server[m]) : to_server[m][i].cur,
               NEW i \in 1 .. Len(frames)
        PROVE  frames[i].cur
    BY <1>3, <2>1, <2>2
  <2> QED BY <1>5, <2>2 DEF AnswersOK
<1>8. StationOK(c, frames, to_client[m], Get(leases, m), since_reboot)
  BY <1>1, <1>6, <1>7 DEF StationOK
<1>9. /\ client' = [client EXCEPT ![m] = c]
      /\ to_server' = [to_server EXCEPT ![m] = frames]
      /\ to_client' = [to_client EXCEPT ![m] = to_client[m]]
      /\ reply' = None /\ UNCHANGED <<leases, socket, since_reboot>>
  BY DEF Retransmit, Send, Becomes, LanInv, msg
<1> HIDE DEF frames, c
<1> QED BY <1>8, <1>9, OneStation

LEMMA TakesOffer ==
    ASSUME LanInv, NEW m \in Macs, TakeOffer(m)
    PROVE  LanInv'
<1> DEFINE c == client[m]
           ip == Head(to_client[m]).ip
           d == At("requesting", ip)
           msg == Frame("Request", ip)
           frames == Append(to_server[m], msg)
           answers == Tail(to_client[m])
<1>1. /\ QueueOK(c, to_server[m]) /\ AnswersOK(c, to_server[m], to_client[m])
      /\ c.phase = "selecting"
      /\ to_client[m] # <<>> /\ Head(to_client[m]).type = "Offer"
  BY DEF LanInv, StationOK, TakeOffer, Answered
<1>2. /\ AnswerOK(c, Head(to_client[m]))
      /\ AnswersOK(c, to_server[m], answers)
      /\ \A i \in 1 .. Len(to_server[m]) : to_server[m][i].cur
  BY <1>1, TailAnswersOK
<1>3. ip \in Ip
  BY <1>1, <1>2, NetAssumption DEF AnswerOK, Net, Ip
<1>4. ClientOK(d) /\ ~InUse(d) /\ d.phase = "requesting" /\ d.ip = ip
  BY <1>3, RequestingRecord
<1> HIDE DEF d
<1>5. msg \in Message /\ msg.cur /\ FrameOK(d, msg)
  <2> HIDE DEF ip
  <2> QED BY <1>3, <1>4, FrameType DEF FrameOK
<1>6. \A i \in 1 .. Len(to_server[m]) : FrameOK(d, to_server[m][i])
  BY <1>1, <1>2, <1>4 DEF QueueOK, FrameOK
<1>7. QueueOK(d, to_server[m])
  BY <1>1, <1>6 DEF QueueOK
<1>8. Len(to_server[m]) < MaxInFlight
  BY DEF TakeOffer, Send
<1> HIDE DEF msg
<1>9. QueueOK(d, frames)
  BY <1>5, <1>7, <1>8, AppendQueueOK
<1>10. \A i \in 1 .. Len(answers) : AnswerOK(d, answers[i]) /\ answers[i].type # "Ack"
  BY <1>1, <1>2 DEF AnswersOK, AnswerOK
<1>11. \A i \in 1 .. Len(frames) : frames[i].cur
  <2>1. /\ Len(to_server[m]) \in Nat /\ Len(frames) = Len(to_server[m]) + 1
        /\ frames[Len(to_server[m]) + 1] = msg
        /\ \A i \in 1 .. Len(to_server[m]) : frames[i] = to_server[m][i]
    BY <1>1, <1>5, AppendProperties DEF QueueOK
  <2> QED BY <1>2, <1>5, <2>1
<1>12. AnswersOK(d, frames, answers)
  BY <1>2, <1>10, <1>11 DEF AnswersOK
<1>13. Backed(d, answers, Get(leases, m), since_reboot)
  BY <1>4, <1>10 DEF Backed, InUse
<1>14. StationOK(d, frames, answers, Get(leases, m), since_reboot)
  BY <1>4, <1>9, <1>12, <1>13 DEF StationOK
<1>15. /\ client' = [client EXCEPT ![m] = d]
       /\ to_server' = [to_server EXCEPT ![m] = frames]
       /\ to_client' = [to_client EXCEPT ![m] = answers]
       /\ reply' = None /\ UNCHANGED <<leases, socket, since_reboot>>
  BY DEF TakeOffer, Send, Becomes, msg, d
<1> HIDE DEF frames, answers
<1> QED BY <1>14, <1>15, OneStation

LEMMA TakesAck ==
    ASSUME LanInv, NEW m \in Macs, TakeAck(m)
    PROVE  LanInv'
<1> DEFINE c == client[m]
           a == Head(to_client[m])
           d == Holds("bound", a.ip, LAN_LEASE - c.since, 0)
           frames == Stale(to_server[m])
<1>1. CASE c.since = LAN_LEASE
  <2>1. ClientOK(Idle) /\ ~InUse(Idle)
    BY UnboundRecord DEF Idle
  <2> QED BY <1>1, <2>1, CloseEffect DEF TakeAck
<1>2. CASE c.since # LAN_LEASE
  <2>1. /\ ClientOK(c) /\ QueueOK(c, to_server[m]) /\ AnswersOK(c, to_server[m], to_client[m])
        /\ Backed(c, to_client[m], Get(leases, m), since_reboot)
        /\ c.phase \in {"requesting", "renewing"}
        /\ to_client[m] # <<>> /\ a.type = "Ack"
    BY DEF LanInv, StationOK, TakeAck, AwaitsAck, Answered
  <2>2. /\ AnswerOK(c, a)
        /\ \A i \in 1 .. Len(to_server[m]) : to_server[m][i].cur
        /\ \E j \in 1 .. Len(to_client[m]) : a = to_client[m][j]
    <3> HIDE DEF d, frames, c
    <3> QED BY <2>1, TailAnswersOK
  <2>3. a.ip \in Ip /\ (c.phase = "requesting" => a.ip = c.ip)
    BY <2>1, <2>2, NetAssumption DEF AnswerOK, Net, Ip
  <2>4. /\ ClientOK(d) /\ InUse(d) /\ d.phase = "bound"
        /\ d.ip = a.ip /\ d.left = LAN_LEASE - c.since
    BY <1>2, <2>1, <2>3, BoundRecord
  <2> HIDE DEF d
  <2>5. QueueOK(d, frames)
    BY <2>1, <2>2, <2>3, <2>4, StaleQueueOK
  <2>6. Backed(d, <<>>, Get(leases, m), since_reboot)
    <3>1. d.left > LAN_LEASE - since_reboot => c.since < since_reboot
      BY <2>1, <2>4, LeaseAssumption DEF ClientOK, Client, LanInv
    <3>2. c.since < since_reboot => Grants(Get(leases, m), a.ip, LAN_LEASE - c.since)
      BY <2>1, <2>2 DEF Backed
    <3> QED BY <2>4, <3>1, <3>2, EmptySeq DEF Backed
  <2>7. StationOK(d, frames, <<>>, Get(leases, m), since_reboot)
    BY <2>4, <2>5, <2>6, NoAnswersOK DEF StationOK
  <2>8. /\ client' = [client EXCEPT ![m] = d]
        /\ to_server' = [to_server EXCEPT ![m] = frames]
        /\ to_client' = [to_client EXCEPT ![m] = <<>>]
        /\ reply' = None /\ UNCHANGED <<leases, socket, since_reboot>>
    BY <1>2 DEF TakeAck, CloseExchange, Becomes, d
  <2> HIDE DEF frames
  <2> QED BY <2>7, <2>8, OneStation
<1> QED BY <1>1, <1>2

LEMMA ClientStepInv ==
    ASSUME LanInv, NEW m \in Macs, ClientStep(m)
    PROVE  LanInv'
BY Opens, Closes, Retransmits, TakesOffer, TakesAck DEF ClientStep
-----------------------------------------------------------------------------
(***************************************************************************)
(* The steps of the server                                                 *)
(***************************************************************************)
LEMMA PacketType ==
    ASSUME NEW m \in Macs, NEW msg \in Message, msg.type # "Request" => msg.requested = None
    PROVE  /\ PacketOf(m, msg) \in Packet
           /\ PacketOf(m, msg).chaddr = m /\ PacketOf(m, msg).type = msg.type
           /\ PacketOf(m, msg).requested = msg.requested
           /\ ~Spoofed(PacketOf(m, msg))
BY DEF PacketOf, Packet, RequestTypes, Message, Spoofed

\* A packet of another client leaves a live lease alone.
LEMMA ServeOthers ==
    ASSUME TypeOK, NEW pkt \in Packet, ProcessIncomingPacket(pkt),
           NEW n \in Macs, n # pkt.chaddr, IsLive(leases, n)
    PROVE  Get(leases', n) = Get(leases, n)
<1> DEFINE m == pkt.chaddr
<1>1. m \in Macs /\ leases \in Table
  BY DEF Packet, TypeOK
<1>2. Evicted \in Table /\ Get(Evicted, n) = Get(leases, n)
  BY <1>1, EvictExpiredType, EvictExpiredEntries DEF Evicted
<1>3. \/ UNCHANGED leases
      \/ leases' = Evicted
      \/ leases' = Remove(leases, m)
      \/ \E ip \in Net : Reserves(m, ip) \/ Leases(m, ip)
  BY DispatchTableStep
<1>4. CASE leases' = Remove(leases, m)
  BY <1>1, <1>4, RemoveEntries
<1>5. ASSUME NEW ip \in Net, Reserves(m, ip) \/ Leases(m, ip)
      PROVE  Get(leases', n) = Get(leases, n)
  BY <1>1, <1>2, <1>5, InsertEntries DEF Reserves, Leases
<1> QED BY <1>2, <1>3, <1>4, <1>5

LEMMA FreshGrants ==
    ASSUME NEW ip \in Net, NEW left \in Int, left <= LAN_LEASE
    PROVE  Grants(FreshLease(ip), ip, left)
<1>1. FreshLease(ip) \in ClientLease
  BY LeaseAssumption DEF FreshLease, ClientLease
<1> QED BY <1>1, NoneAssumption, LeaseAssumption DEF Grants, FreshLease

\* Neither a DISCOVER nor a REQUEST for nothing else takes a live lease away,
\* or shortens it.
LEMMA ServeOwn ==
    ASSUME TypeOK, NEW m \in Macs, NEW msg \in Message,
           msg.type # "Request" => msg.requested = None,
           ProcessIncomingPacket(PacketOf(m, msg)),
           msg.type \in {"Discover", "Request"}, IsLive(leases, m),
           msg.requested \in {None, Get(leases, m).ip},
           NEW ip, NEW left \in Int, Grants(Get(leases, m), ip, left)
    PROVE  Grants(Get(leases', m), ip, left)
<1> DEFINE pkt == PacketOf(m, msg)
<1>1. /\ pkt.chaddr = m /\ pkt.type = msg.type /\ pkt.requested = msg.requested /\ ~Spoofed(pkt)
  BY PacketType
<1>2. HasEntry(leases, m) /\ leases \in Table /\ Get(leases, m).ip = ip
  BY DEF IsLive, TypeOK, Grants
<1>3. Get(leases, m) \in ClientLease /\ ip \in Net
  BY <1>2, EntryType
<1> HIDE DEF pkt
<1>4. CASE msg.type = "Discover"
  <2>1. HandleDiscover(m)
    BY <1>1, <1>4 DEF ProcessIncomingPacket, Dispatch, pkt
  <2>2. UNCHANGED leases
    BY <1>2, <2>1 DEF HandleDiscover, Reoffer, OfferNew, PoolExhausted
  <2> QED BY <2>2
<1>5. CASE msg.type = "Request"
  <2>1. HandleRequest(m, msg.requested)
    BY <1>1, <1>5 DEF ProcessIncomingPacket, Dispatch, pkt
  <2>2. RequestedIp(leases, m, msg.requested) = ip
    BY <1>2 DEF RequestedIp
  <2>3. UNCHANGED leases \/ leases' = Insert(leases, m, ip)
    BY <2>1, <2>2 DEF HandleRequest, SendNak, AckRequest
  <2>4. Get(Insert(leases, m, ip), m) = FreshLease(ip)
    BY <1>2 DEF Get, Insert, Table
  <2>5. Get(leases, m).left \in 0 .. LAN_LEASE /\ left <= Get(leases, m).left
    BY <1>3 DEF Grants, ClientLease
  <2>6. left <= LAN_LEASE
    BY <2>5, LeaseAssumption
  <2>7. Grants(FreshLease(ip), ip, left)
    BY <1>3, <2>6, FreshGrants
  <2> QED BY <2>3, <2>4, <2>7
<1> QED BY <1>4, <1>5

\* What the server answers.
LEMMA ServeAnswers ==
    ASSUME TypeOK, NEW m \in Macs, NEW msg \in Message,
           msg.type # "Request" => msg.requested = None,
           ReceivePacket(PacketOf(m, msg)), reply' # None
    PROVE  /\ [type |-> reply'.type, ip |-> reply'.ip] \in Answer
           /\ reply'.type # "Nak" => reply'.ip \in Net
           /\ reply'.type = "Ack" =>
                 /\ msg.type = "Request"
                 /\ reply'.ip = RequestedIp(leases, m, msg.requested)
                 /\ Get(leases', m) = FreshLease(reply'.ip)
<1> DEFINE pkt == PacketOf(m, msg)
<1>1. /\ pkt \in Packet /\ pkt.chaddr = m /\ pkt.type = msg.type
      /\ pkt.requested = msg.requested /\ ~Spoofed(pkt)
  BY PacketType
<1>2. ReceivePacket(pkt)
  OBVIOUS
<1> HIDE DEF pkt
<1>3. reply' \in Reply
  <2>1. Next
    BY <1>1, <1>2 DEF Next
  <2> QED BY <2>1, NextReplyType
<1>4. \/ msg.type = "Discover" /\ HandleDiscover(m)
      \/ msg.type = "Request" /\ HandleRequest(m, msg.requested)
  BY <1>1, <1>2 DEF ReceivePacket, ProcessIncomingPacket, Dispatch, HandleDecline, HandleRelease,
                    RemoveLease
<1>5. CASE msg.type = "Discover" /\ HandleDiscover(m)
  <2>1. reply'.type = "Offer" /\ reply'.ip \in Net
    <3>1. HasEntry(leases, m) => Get(leases, m).ip \in Net
      BY EntryType DEF TypeOK
    <3>2. NextAvailableIp(Evicted) # None => NextAvailableIp(Evicted) \in Net
      BY NextAvailableIpIsFree
    <3> QED BY <1>5, <3>1, <3>2 DEF HandleDiscover, Reoffer, OfferNew, PoolExhausted, SendReply
  <2> QED BY <1>3, <2>1 DEF Reply, Answer
<1>6. CASE msg.type = "Request" /\ HandleRequest(m, msg.requested)
  <2> DEFINE ip == RequestedIp(leases, m, msg.requested)
  <2>1. \/ reply'.type = "Nak"
        \/ /\ reply'.type = "Ack" /\ reply'.ip = ip /\ ip \in Net
           /\ leases' = Insert(leases, m, ip)
    BY <1>6 DEF HandleRequest, SendNak, AckRequest, SendReply, ValidateRequestedIp
  <2>2. leases' = Insert(leases, m, ip) => Get(leases', m) = FreshLease(ip)
    BY DEF Get, Insert, Table, TypeOK
  <2> QED BY <1>3, <1>6, <2>1, <2>2 DEF Reply, Answer
<1> QED BY <1>4, <1>5, <1>6

\* What a frame of m does to the lease that m uses or is granted.
LEMMA ServeBacks ==
    ASSUME TypeOK, NEW m \in Macs, NEW c, ClientOK(c), NEW msg, FrameOK(c, msg),
           ProcessIncomingPacket(PacketOf(m, msg)),
           NEW answers, answers # <<>> => msg.cur,
           \A i \in 1 .. Len(answers) : AnswerOK(c, answers[i]),
           answers = <<>> => Len(answers) = 0,
           NEW age, Backed(c, answers, Get(leases, m), age)
    PROVE  Backed(c, answers, Get(leases', m), age)
<1> DEFINE e == Get(leases, m)
<1>1. msg \in Message /\ (msg.type # "Request" => msg.requested = None)
  BY DEF FrameOK
<1>2. c.left \in Int /\ LAN_LEASE - c.since \in Int
  BY LeaseAssumption DEF ClientOK, Client
<1>3. ASSUME NEW ip, NEW left \in Int, Grants(e, ip, left),
             msg.type \in {"Discover", "Request"}, msg.requested \in {None, ip}
      PROVE  Grants(Get(leases', m), ip, left)
  <2>1. IsLive(leases, m) /\ e.ip = ip
    BY <1>3 DEF Grants, IsLive, HasEntry
  <2> QED BY <1>1, <1>3, <2>1, ServeOwn
<1>4. ASSUME InUse(c), c.left > LAN_LEASE - age
      PROVE  Grants(Get(leases', m), c.ip, c.left)
  <2>1. Grants(e, c.ip, c.left)
    BY <1>4 DEF Backed
  <2>2. msg.type \in {"Discover", "Request"} /\ msg.requested \in {None, c.ip}
    BY <1>4 DEF FrameOK
  <2> QED BY <1>2, <1>3, <2>1, <2>2
<1>5. ASSUME c.phase \in {"requesting", "renewing"}, c.since < age,
             NEW i \in 1 .. Len(answers), answers[i].type = "Ack"
      PROVE  Grants(Get(leases', m), answers[i].ip, LAN_LEASE - c.since)
  <2>1. Grants(e, answers[i].ip, LAN_LEASE - c.since)
    BY <1>5 DEF Backed
  <2>2. msg.cur
    BY <1>5
  <2>3. c.phase = "requesting" => answers[i].ip = c.ip
    BY <1>5 DEF AnswerOK
  <2>4. msg.type \in {"Discover", "Request"} /\ msg.requested \in {None, answers[i].ip}
    BY <1>1, <1>5, <2>2, <2>3 DEF FrameOK
  <2> QED BY <1>2, <1>3, <2>1, <2>4
<1> QED BY <1>4, <1>5 DEF Backed

\* An answer to a frame of the current exchange, added to those under way.
LEMMA ServeReplies ==
    ASSUME TypeOK, NEW m \in Macs, NEW c, ClientOK(c), NEW msg, FrameOK(c, msg), msg.cur,
           ReceivePacket(PacketOf(m, msg)), reply' # None,
           NEW a, a = [type |-> reply'.type, ip |-> reply'.ip]
    PROVE  /\ AnswerOK(c, a)
           /\ a.type = "Ack" => Grants(Get(leases', m), a.ip, LAN_LEASE - c.since)
<1>1. msg \in Message /\ (msg.type # "Request" => msg.requested = None)
  BY DEF FrameOK
<1>2. /\ a \in Answer
      /\ a.type # "Nak" => a.ip \in Net
      /\ a.type = "Ack" =>
            /\ msg.type = "Request"
            /\ a.ip = RequestedIp(leases, m, msg.requested)
            /\ Get(leases', m) = FreshLease(a.ip)
  BY <1>1, ServeAnswers
<1>3. a.type = "Ack" => c.phase # "selecting"
  BY <1>2 DEF FrameOK
<1>4. ASSUME a.type = "Ack", c.phase = "requesting" PROVE a.ip = c.ip
  <2>1. msg.requested = c.ip
    BY <1>2, <1>4 DEF FrameOK
  <2>2. c.ip # None
    BY <1>4, NoneAssumption, NetAssumption DEF ClientOK, Ip
  <2> QED BY <1>2, <1>4, <2>1, <2>2 DEF RequestedIp
<1>5. LAN_LEASE - c.since \in Int /\ LAN_LEASE - c.since <= LAN_LEASE
  BY LeaseAssumption DEF ClientOK, Client
<1>6. a.type = "Ack" => Grants(Get(leases', m), a.ip, LAN_LEASE - c.since)
  BY <1>2, <1>5, FreshGrants
<1> QED BY <1>2, <1>3, <1>4, <1>6 DEF AnswerOK

\* What becomes of the queues of the client that is served.
LEMMA ServeStation ==
    ASSUME TypeOK, NEW m \in Macs, NEW c, NEW frames, NEW answers, NEW age,
           StationOK(c, frames, answers, Get(leases, m), age), frames # <<>>,
           Len(answers) < MaxReplies, ReceivePacket(PacketOf(m, Head(frames))),
           NEW new,
           new = IF reply' # None /\ Head(frames).cur
                 THEN Append(answers, [type |-> reply'.type, ip |-> reply'.ip])
                 ELSE answers
    PROVE  StationOK(c, Tail(frames), new, Get(leases', m), age)
<1> DEFINE msg == Head(frames)
           a == [type |-> reply'.type, ip |-> reply'.ip]
           e == Get(leases', m)
<1>1. /\ ClientOK(c) /\ QueueOK(c, frames) /\ AnswersOK(c, frames, answers)
      /\ Backed(c, answers, Get(leases, m), age)
  BY DEF StationOK
<1>2. /\ QueueOK(c, Tail(frames)) /\ FrameOK(c, msg)
      /\ msg.cur => \A i \in 1 .. Len(Tail(frames)) : Tail(frames)[i].cur
      /\ answers # <<>> => /\ msg.cur
                           /\ \A i \in 1 .. Len(Tail(frames)) : Tail(frames)[i].cur
  <2>1. answers # <<>> => \A i \in 1 .. Len(frames) : frames[i].cur
    BY <1>1 DEF AnswersOK
  <2> QED BY <1>1, <2>1, TailQueueOK
<1>3. AnswersOK(c, Tail(frames), answers)
  BY <1>1, <1>2 DEF AnswersOK
<1>4. Backed(c, answers, e, age)
  <2>1. ProcessIncomingPacket(PacketOf(m, msg))
    BY DEF ReceivePacket
  <2>2. /\ \A i \in 1 .. Len(answers) : AnswerOK(c, answers[i])
        /\ answers = <<>> => Len(answers) = 0
    BY <1>1, EmptySeq DEF AnswersOK
  <2> HIDE DEF msg
  <2> QED BY <1>1, <1>2, <2>1, <2>2, ServeBacks
<1>5. CASE reply' # None /\ msg.cur
  <2>1. AnswerOK(c, a) /\ (a.type = "Ack" => Grants(e, a.ip, LAN_LEASE - c.since))
    <3> HIDE DEF e
    <3> QED BY <1>1, <1>2, <1>5, ServeReplies DEF e
  <2> HIDE DEF a, e
  <2>2. new = Append(answers, a)
    BY <1>5 DEF a
  <2>3. /\ AnswersOK(c, Tail(frames), new)
        /\ \A i \in 1 .. Len(new) :
              new[i] = a \/ \E j \in 1 .. Len(answers) : new[i] = answers[j]
    <3>1. \A i \in 1 .. Len(Tail(frames)) : Tail(frames)[i].cur
      BY <1>2, <1>5
    <3> DEFINE rest == Tail(frames)
    <3> HIDE DEF msg, rest
    <3>2. AnswersOK(c, rest, answers) /\ \A i \in 1 .. Len(rest) : rest[i].cur
      BY <1>3, <3>1 DEF rest
    <3>3. /\ AnswersOK(c, rest, Append(answers, a))
          /\ \A i \in 1 .. Len(Append(answers, a)) :
                \/ Append(answers, a)[i] = a
                \/ \E j \in 1 .. Len(answers) : Append(answers, a)[i] = answers[j]
      BY <2>1, <3>2, AppendAnswersOK
    <3> QED BY <2>2, <3>3 DEF rest
  <2>4. Backed(c, new, e, age)
    BY <1>4, <2>1, <2>3 DEF Backed
  <2> QED BY <1>1, <1>2, <2>3, <2>4 DEF StationOK, e
<1>6. CASE ~(reply' # None /\ msg.cur)
  <2>1. new = answers
    BY <1>6
  <2> QED BY <1>1, <1>2, <1>3, <1>4, <2>1 DEF StationOK
<1> QED BY <1>5, <1>6

LEMMA ServesInv ==
    ASSUME LanInv, NEW m \in Macs, Serve(m)
    PROVE  LanInv'
<1> DEFINE msg == Head(to_server[m])
           pkt == PacketOf(m, msg)
           new == IF reply' # None /\ msg.cur
                  THEN Append(to_client[m], [type |-> reply'.type, ip |-> reply'.ip])
                  ELSE to_client[m]
<1>1. /\ TypeOK /\ UniqueLiveLease
      /\ to_server[m] # <<>> /\ Len(to_client[m]) < MaxReplies /\ ReceivePacket(pkt)
      /\ StationOK(client[m], to_server[m], to_client[m], Get(leases, m), since_reboot)
  BY DEF LanInv, Serve
<1>2. /\ client' = client /\ since_reboot' = since_reboot
      /\ to_server' = [to_server EXCEPT ![m] = Tail(to_server[m])]
      /\ to_client' = [to_client EXCEPT ![m] = new]
  BY DEF Serve, LanInv
<1>3. FrameOK(client[m], msg)
  BY <1>1, TailQueueOK DEF StationOK
<1>4. pkt \in Packet /\ pkt.chaddr = m
  BY <1>3, PacketType DEF FrameOK
<1> HIDE DEF msg, pkt
<1>5. TypeOK' /\ UniqueLiveLease'
  <2>1. Next
    BY <1>1, <1>4 DEF Next
  <2>2. TableStep
    BY <1>1, <2>1, NextTableStep
  <2>3. leases' \in Table
    BY <1>1, <2>2, TableStepType DEF TypeOK
  <2>4. reply' \in Reply \cup {None} /\ socket' \in {"open", "closed"}
    BY <1>1, <2>1, NextReplyType
  <2> QED BY <1>1, <2>2, <2>3, <2>4, TableStepUnique DEF TypeOK
<1>6. StationOK(client[m], Tail(to_server[m]), new, Get(leases', m), since_reboot)
  BY <1>1, ServeStation DEF msg, pkt
<1> HIDE DEF new
<1>7. ASSUME NEW n \in Macs \ {m}
      PROVE  StationOK(client[n], to_server[n], to_client[n], Get(leases', n), since_reboot)
  <2>1. StationOK(client[n], to_server[n], to_client[n], Get(leases, n), since_reboot)
    BY DEF LanInv
  <2>2. IsLive(leases, n) => Get(leases', n) = Get(leases, n)
    BY <1>1, <1>4, ServeOthers DEF ReceivePacket
  <2>3. \A ip, left : Grants(Get(leases, n), ip, left) => Grants(Get(leases', n), ip, left)
    BY <2>2 DEF Grants, IsLive, HasEntry
  <2> QED BY <2>1, <2>3 DEF StationOK, Backed
<1>8. ASSUME NEW n \in Macs
      PROVE  StationOK(client'[n], to_server'[n], to_client'[n], Get(leases', n), since_reboot')
  <2>1. CASE n = m
    <3>1. to_server'[n] = Tail(to_server[m]) /\ to_client'[n] = new
      BY <1>2, <2>1 DEF LanInv
    <3> QED BY <1>2, <1>6, <2>1, <3>1
  <2>2. CASE n # m
    <3>1. to_server'[n] = to_server[n] /\ to_client'[n] = to_client[n]
      BY <1>2, <2>2 DEF LanInv
    <3> QED BY <1>2, <1>7, <2>2, <3>1
  <2> QED BY <2>1, <2>2
<1>9. /\ client' \in [Macs -> Client] /\ since_reboot' \in 0 .. LAN_LEASE
      /\ to_server' \in [Macs -> Seq(Message)] /\ to_client' \in [Macs -> Seq(Answer)]
  <2>1. Tail(to_server[m]) \in Seq(Message) /\ new \in Seq(Answer)
    BY <1>6 DEF StationOK, QueueOK, AnswersOK
  <2> QED BY <1>2, <2>1 DEF LanInv
<1> QED BY <1>5, <1>8, <1>9 DEF LanInv
-----------------------------------------------------------------------------
(***************************************************************************)
(* The wire, the router and time                                           *)
(***************************************************************************)
LEMMA Loses ==
    ASSUME LanInv, NEW m \in Macs, Lose(m)
    PROVE  LanInv'
<1> DEFINE c == client[m]
           e == Get(leases, m)
<1>1. /\ ClientOK(c) /\ QueueOK(c, to_server[m]) /\ AnswersOK(c, to_server[m], to_client[m])
      /\ Backed(c, to_client[m], e, since_reboot)
  BY DEF LanInv, StationOK
<1>2. client' = [client EXCEPT ![m] = c] /\ reply' = None /\ UNCHANGED <<leases, socket, since_reboot>>
  BY DEF Lose, Becomes
<1>3. CASE to_server[m] # <<>> /\ to_server' = [to_server EXCEPT ![m] = Tail(@)]
           /\ UNCHANGED to_client
  <2>1. /\ QueueOK(c, Tail(to_server[m]))
        /\ (\A i \in 1 .. Len(to_server[m]) : to_server[m][i].cur) =>
              \A i \in 1 .. Len(Tail(to_server[m])) : Tail(to_server[m])[i].cur
    <3> HIDE DEF c
    <3> QED BY <1>1, <1>3, TailQueueOK
  <2>2. AnswersOK(c, Tail(to_server[m]), to_client[m])
    BY <1>1, <2>1 DEF AnswersOK
  <2>3. StationOK(c, Tail(to_server[m]), to_client[m], e, since_reboot)
    BY <1>1, <2>1, <2>2 DEF StationOK
  <2>4. to_client' = [to_client EXCEPT ![m] = to_client[m]]
    BY <1>3 DEF LanInv
  <2>5. to_server' = [to_server EXCEPT ![m] = Tail(to_server[m])]
    BY <1>3
  <2> HIDE DEF c
  <2> QED BY <1>2, <2>3, <2>4, <2>5, OneStation
<1>4. CASE to_client[m] # <<>> /\ to_client' = [to_client EXCEPT ![m] = Tail(@)]
           /\ UNCHANGED to_server
  <2>1. /\ AnswersOK(c, to_server[m], Tail(to_client[m]))
        /\ \A i \in 1 .. Len(Tail(to_client[m])) :
              \E j \in 1 .. Len(to_client[m]) : Tail(to_client[m])[i] = to_client[m][j]
    <3> HIDE DEF c
    <3> QED BY <1>1, <1>4, TailAnswersOK
  <2>2. Backed(c, Tail(to_client[m]), e, since_reboot)
    BY <1>1, <2>1 DEF Backed
  <2>3. StationOK(c, to_server[m], Tail(to_client[m]), e, since_reboot)
    BY <1>1, <2>1, <2>2 DEF StationOK
  <2>4. to_server' = [to_server EXCEPT ![m] = to_server[m]]
    BY <1>4 DEF LanInv
  <2>5. to_client' = [to_client EXCEPT ![m] = Tail(to_client[m])]
    BY <1>4
  <2> HIDE DEF c
  <2> QED BY <1>2, <2>3, <2>4, <2>5, OneStation
<1> QED BY <1>3, <1>4 DEF Lose

\* The socket comes and goes, and the router restarts with an empty table.
LEMMA RouterSteps ==
    ASSUME LanInv, ServerOpens \/ ServerLosesSocket \/ RouterReboots
    PROVE  LanInv'
<1>1. /\ UNCHANGED <<client, to_server, to_client>>
      /\ \/ UNCHANGED <<leases, since_reboot>>
         \/ leases' = EmptyTable /\ since_reboot' = 0
  BY DEF ServerOpens, ServerLosesSocket, RouterReboots, OpenSocket, ReadError, Reboot
<1>2. TypeOK' /\ UniqueLiveLease'
  <2>1. Next
    BY DEF ServerOpens, ServerLosesSocket, RouterReboots, Next
  <2>2. TableStep
    BY <2>1, NextTableStep DEF LanInv
  <2>3. leases' \in Table
    BY <2>2, TableStepType DEF LanInv, TypeOK
  <2>4. reply' \in Reply \cup {None} /\ socket' \in {"open", "closed"}
    BY <2>1, NextReplyType DEF LanInv
  <2> QED BY <2>2, <2>3, <2>4, TableStepUnique DEF LanInv, TypeOK
<1>3. ASSUME NEW m \in Macs
      PROVE  StationOK(client[m], to_server[m], to_client[m], Get(leases', m), since_reboot')
  <2>1. StationOK(client[m], to_server[m], to_client[m], Get(leases, m), since_reboot)
    BY DEF LanInv
  <2>2. CASE UNCHANGED <<leases, since_reboot>>
    BY <2>1, <2>2
  <2>3. CASE since_reboot' = 0
    <3>1. Backed(client[m], to_client[m], Get(leases', m), 0)
      BY <2>1, LeaseAssumption DEF StationOK, Backed, ClientOK, Client
    <3> QED BY <2>1, <2>3, <3>1 DEF StationOK
  <2> QED BY <1>1, <2>2, <2>3
<1> QED BY <1>1, <1>2, <1>3, LeaseAssumption DEF LanInv

LEMMA MinOfTwo ==
    ASSUME NEW a \in Nat, NEW b \in Nat
    PROVE  Min({a, b}) = IF a <= b THEN a ELSE b
BY DEF Min

LEMMA AgedEntry ==
    ASSUME NEW t \in Table, NEW m \in Macs, NEW ip, NEW left \in Nat \ {0},
           Grants(Get(t, m), ip, left + 1)
    PROVE  Grants(Get(Aged(t), m), ip, left)
<1>1. HasEntry(t, m) /\ Get(t, m) \in ClientLease
  BY EntryType DEF Grants, HasEntry
<1>2. Get(Aged(t), m) = Age(Get(t, m))
  BY <1>1 DEF Get, Aged, Table
<1>3. Get(Aged(t), m) # None /\ Get(Aged(t), m).ip = ip
  BY <1>1, AgedEntries DEF Grants, HasEntry
<1>4. Get(t, m).left \in Nat /\ Age(Get(t, m)).left = Get(t, m).left - 1
  BY <1>1, LeaseAssumption DEF Grants, Age, ClientLease
<1> QED BY <1>2, <1>3, <1>4 DEF Grants

\* The frames and the answers look at the phase and the address alone.
LEMMA SameQueues ==
    ASSUME NEW c, NEW d, d.phase = c.phase, d.ip = c.ip, NEW frames, NEW answers,
           QueueOK(c, frames), AnswersOK(c, frames, answers)
    PROVE  QueueOK(d, frames) /\ AnswersOK(d, frames, answers)
<1>1. \A msg : FrameOK(c, msg) => FrameOK(d, msg)
  BY DEF FrameOK, InUse
<1>2. \A a : AnswerOK(c, a) => AnswerOK(d, a)
  BY DEF AnswerOK
<1> QED BY <1>1, <1>2 DEF QueueOK, AnswersOK

\* A tick for a client whose lease, if any, is not at its end.
LEMMA AgedClient ==
    ASSUME NEW c, ClientOK(c), ~(InUse(c) /\ c.left = 1), NEW d, d = ClientAged(c)
    PROVE  /\ ClientOK(d) /\ d.phase = c.phase /\ d.ip = c.ip
           /\ InUse(c) => c.left > 1 /\ d.left = c.left - 1
           /\ c.phase = "renewing" => d.since = c.since + 1
           /\ c.phase = "requesting" =>
                 d.since = IF c.since + 1 <= LAN_LEASE THEN c.since + 1 ELSE LAN_LEASE
<1>1. c \in Client /\ c.left \in Nat /\ c.since \in Nat /\ LAN_LEASE \in Nat
  BY LeaseAssumption DEF ClientOK, Client
<1>2. Min({c.since + 1, LAN_LEASE}) = IF c.since + 1 <= LAN_LEASE THEN c.since + 1 ELSE LAN_LEASE
  BY <1>1, MinOfTwo
<1>3. CASE c.phase = "bound"
  <2>1. c.left > 1 /\ d = Holds("bound", c.ip, c.left - 1, c.since)
    BY <1>1, <1>3 DEF ClientAged, ClientOK, InUse
  <2> QED BY <1>1, <1>3, <2>1 DEF Holds, ClientOK, Client, InUse
<1>4. CASE c.phase = "renewing"
  <2>1. c.left > 1 /\ d = Holds("renewing", c.ip, c.left - 1, c.since + 1)
    BY <1>1, <1>4 DEF ClientAged, ClientOK, InUse
  <2> QED BY <1>1, <1>4, <2>1 DEF Holds, ClientOK, Client, InUse
<1>5. CASE c.phase = "requesting"
  <2>1. d = Holds("requesting", c.ip, c.left,
                  IF c.since + 1 <= LAN_LEASE THEN c.since + 1 ELSE LAN_LEASE)
    BY <1>2, <1>5 DEF ClientAged
  <2> QED BY <1>1, <1>5, <2>1 DEF Holds, ClientOK, Client, InUse
<1>6. CASE c.phase \notin {"bound", "renewing", "requesting"}
  <2>1. d = c
    BY <1>6 DEF ClientAged
  <2> QED BY <1>6, <2>1 DEF ClientOK, InUse
<1> QED BY <1>3, <1>4, <1>5, <1>6

LEMMA AgedStation ==
    ASSUME leases \in Table, NEW m \in Macs, NEW c, NEW frames, NEW answers,
           NEW age \in 0 .. LAN_LEASE,
           StationOK(c, frames, answers, Get(leases, m), age), ~(InUse(c) /\ c.left = 1)
    PROVE  StationOK(ClientAged(c), frames, answers, Get(Aged(leases), m),
                     Min({age + 1, LAN_LEASE}))
<1> DEFINE d == ClientAged(c)
           e == Get(Aged(leases), m)
           later == Min({age + 1, LAN_LEASE})
<1>1. /\ ClientOK(c) /\ QueueOK(c, frames) /\ AnswersOK(c, frames, answers)
      /\ Backed(c, answers, Get(leases, m), age)
      /\ c.left \in Nat /\ c.since \in Nat /\ age \in Nat /\ LAN_LEASE \in Nat
  BY LeaseAssumption DEF StationOK, ClientOK, Client
<1>2. later = IF age + 1 <= LAN_LEASE THEN age + 1 ELSE LAN_LEASE
  BY <1>1, MinOfTwo
<1>3. /\ ClientOK(d) /\ d.phase = c.phase /\ d.ip = c.ip
      /\ InUse(c) => c.left > 1 /\ d.left = c.left - 1
      /\ c.phase = "renewing" => d.since = c.since + 1
      /\ c.phase = "requesting" =>
            d.since = IF c.since + 1 <= LAN_LEASE THEN c.since + 1 ELSE LAN_LEASE
  BY <1>1, AgedClient
<1> HIDE DEF d, e, later
<1>4. QueueOK(d, frames) /\ AnswersOK(d, frames, answers)
  BY <1>1, <1>3, SameQueues
<1>5. ASSUME InUse(d), d.left > LAN_LEASE - later
      PROVE  Grants(e, d.ip, d.left)
  <2>1. InUse(c) /\ d.left \in Nat \ {0} /\ c.left = d.left + 1 /\ c.left > LAN_LEASE - age
    BY <1>1, <1>2, <1>3, <1>5 DEF InUse
  <2>2. Grants(Get(leases, m), d.ip, d.left + 1)
    BY <1>1, <1>3, <2>1 DEF Backed
  <2> QED BY <2>1, <2>2, AgedEntry DEF e
<1>6. ASSUME d.phase \in {"requesting", "renewing"}, d.since < later,
             NEW i \in 1 .. Len(answers), answers[i].type = "Ack"
      PROVE  Grants(e, answers[i].ip, LAN_LEASE - d.since)
  <2>1. /\ d.since = c.since + 1 /\ c.since < age
        /\ LAN_LEASE - d.since \in Nat \ {0}
        /\ (LAN_LEASE - d.since) + 1 = LAN_LEASE - c.since
    <3>1. later <= LAN_LEASE /\ later <= age + 1 /\ later \in Nat
      BY <1>1, <1>2
    <3>2. d.since = c.since + 1
      <4>1. CASE c.phase = "renewing"
        BY <1>3, <4>1
      <4>2. CASE c.phase = "requesting"
        <5>1. d.since = IF c.since + 1 <= LAN_LEASE THEN c.since + 1 ELSE LAN_LEASE
          BY <1>3, <4>2
        <5>2. d.since \in Nat
          BY <1>1, <5>1
        <5>3. d.since < later /\ later <= LAN_LEASE
          BY <1>6, <3>1
        <5>4. d.since # LAN_LEASE
          BY <1>1, <3>1, <5>2, <5>3
        <5> QED BY <5>1, <5>4
      <4> QED BY <1>3, <1>6, <4>1, <4>2
    <3>3. c.since \in Nat /\ c.since + 1 < later
      BY <1>1, <1>6, <3>2
    <3>4. /\ c.since < age /\ LAN_LEASE - (c.since + 1) \in Nat \ {0}
          /\ (LAN_LEASE - (c.since + 1)) + 1 = LAN_LEASE - c.since
      BY <1>1, <3>1, <3>3
    <3> QED BY <3>2, <3>4
  <2>2. Grants(Get(leases, m), answers[i].ip, (LAN_LEASE - d.since) + 1)
    BY <1>1, <1>3, <1>6, <2>1 DEF Backed
  <2> QED BY <2>1, <2>2, AgedEntry DEF e
<1>7. StationOK(d, frames, answers, e, later)
  BY <1>3, <1>4, <1>5, <1>6 DEF StationOK, Backed
<1> QED BY <1>7 DEF d, e, later

LEMMA TimeInv ==
    ASSUME LanInv, TimePasses
    PROVE  LanInv'
<1>1. /\ leases' = Aged(leases) /\ reply' = None /\ socket' = socket
      /\ since_reboot' = Min({since_reboot + 1, LAN_LEASE})
      /\ leases \in Table /\ since_reboot \in 0 .. LAN_LEASE
  BY DEF TimePasses, Tick, LanInv, TypeOK
<1>2. TypeOK' /\ UniqueLiveLease'
  <2>1. TableStep
    BY <1>1 DEF TableStep
  <2>2. leases' \in Table
    BY <1>1, AgedType
  <2> QED BY <1>1, <2>1, <2>2, TableStepUnique DEF LanInv, TypeOK
<1>3. since_reboot' \in 0 .. LAN_LEASE
  <2>1. since_reboot' = IF since_reboot + 1 <= LAN_LEASE THEN since_reboot + 1 ELSE LAN_LEASE
    BY <1>1, MinOfTwo, LeaseAssumption
  <2> QED BY <1>1, <2>1, LeaseAssumption
<1>4. ASSUME NEW m \in Macs
      PROVE  StationOK(client'[m], to_server'[m], to_client'[m], Get(leases', m), since_reboot')
  <2>1. /\ StationOK(client[m], to_server[m], to_client[m], Get(leases, m), since_reboot)
        /\ client'[m] = ClientAged(client[m])
        /\ to_server'[m] = IF Ends(m) THEN Stale(to_server[m]) ELSE to_server[m]
        /\ to_client'[m] = IF Ends(m) THEN <<>> ELSE to_client[m]
        /\ Ends(m) <=> InUse(client[m]) /\ client[m].left = 1
    BY DEF LanInv, TimePasses, Ends, Using, InUse
  <2>2. CASE Ends(m)
    <3>1. client'[m] = Idle
      BY <2>1, <2>2 DEF ClientAged, InUse
    <3>2. ClientOK(Idle) /\ ~InUse(Idle)
      BY UnboundRecord DEF Idle
    <3>3. QueueOK(Idle, Stale(to_server[m]))
      BY <2>1, <3>2, StaleQueueOK DEF StationOK
    <3> QED BY <2>1, <2>2, <3>1, <3>2, <3>3, NotInUse
  <2>3. CASE ~Ends(m)
    BY <1>1, <2>1, <2>3, AgedStation
  <2> QED BY <2>2, <2>3
<1>5. /\ client' \in [Macs -> Client]
      /\ to_server' \in [Macs -> Seq(Message)] /\ to_client' \in [Macs -> Seq(Answer)]
  <2>1. \A m \in Macs : /\ client'[m] \in Client /\ to_server'[m] \in Seq(Message)
                        /\ to_client'[m] \in Seq(Answer)
    BY <1>4 DEF StationOK, ClientOK, QueueOK, AnswersOK
  <2>2. /\ client' = [m \in Macs |-> client'[m]]
        /\ to_server' = [m \in Macs |-> to_server'[m]]
        /\ to_client' = [m \in Macs |-> to_client'[m]]
    BY DEF TimePasses
  <2> QED BY <2>1, <2>2
<1> QED BY <1>2, <1>3, <1>4, <1>5 DEF LanInv
-----------------------------------------------------------------------------
(***************************************************************************)
(* The theorems                                                            *)
(***************************************************************************)
LEMMA LanInvHolds == LanSpec => []LanInv
<1>1. LanInit => LanInv
  <2> SUFFICES ASSUME LanInit PROVE LanInv
    OBVIOUS
  <2>1. TypeOK
    BY InitTypeOK DEF LanInit
  <2>2. UniqueLiveLease
    BY DEF LanInit, Init, UniqueLiveLease, EmptyTable, IsLive, HasEntry, Get
  <2>3. ClientOK(Off) /\ ~InUse(Off)
    BY UnboundRecord DEF Off
  <2>4. QueueOK(Off, <<>>)
    BY EmptySeq, MaxInFlightAssumption DEF QueueOK
  <2>5. \A m \in Macs : StationOK(Off, <<>>, <<>>, Get(leases, m), since_reboot)
    BY <2>3, <2>4, NotInUse
  <2>6. Off \in Client /\ <<>> \in Seq(Message) /\ <<>> \in Seq(Answer)
    BY <2>3, EmptySeq DEF ClientOK
  <2> QED BY <2>1, <2>2, <2>5, <2>6, LeaseAssumption DEF LanInit, LanInv
<1>2. LanInv /\ [LanNext]_lanVars => LanInv'
  <2> SUFFICES ASSUME LanInv, [LanNext]_lanVars PROVE LanInv'
    OBVIOUS
  <2>1. CASE LanNext
    BY <2>1, ClientStepInv, ServesInv, Loses, RouterSteps, TimeInv DEF LanNext
  <2>2. CASE UNCHANGED lanVars
    BY <2>2 DEF lanVars, LanInv, TypeOK, UniqueLiveLease
  <2> QED BY <2>1, <2>2
<1> QED BY <1>1, <1>2, PTL DEF LanSpec

\* The table, the clients and what is under way between them have their types,
\* whatever is lost, repeated or answered late, and the queues their bounds.
THEOREM LanTypeCorrect == LanSpec => []LanTypeOK
BY LanInvHolds, InvImplies, PTL

\* No two clients use one address at once, except leases from before a reboot:
\* handle_discover, handle_request and the removal of leases leave no order of
\* frames in which they would.
THEOREM NoAddressUsedTwice == LanSpec => []NoDoubleUse
BY LanInvHolds, InvImplies, PTL

\* A client that uses an address has a live lease of it in the table, which
\* lasts at least as long as the client believes, once a lease has passed since
\* the last reboot.
THEOREM UsedLeaseIsBacked == LanSpec => []LeaseBacked
BY LanInvHolds, InvImplies, PTL
-----------------------------------------------------------------------------
(***************************************************************************)
(* The clients implement the abstract pool                                 *)
(***************************************************************************)

\* Clients that only stop using an address free it.
LEMMA EndingUseFrees ==
    ASSUME \A m \in Macs :
              UsesSinceReboot(m)' => UsesSinceReboot(m) /\ client'[m].ip = client[m].ip
    PROVE  UsePool!Next
<1> DEFINE C == {m \in Macs : ~UsesSinceReboot(m)'}
<1>1. UseHolder' = [m \in Macs |-> IF m \in C THEN None ELSE UseHolder[m]]
  <2>1. UseHolder' = [m \in Macs |-> IF UsesSinceReboot(m)' THEN client'[m].ip ELSE None]
    BY DEF UseHolder
  <2>2. \A m \in Macs : UseHolder[m] = IF UsesSinceReboot(m) THEN client[m].ip ELSE None
    BY DEF UseHolder
  <2> HIDE DEF UseHolder
  <2> QED BY <2>1, <2>2
<1>2. UsePool!Free(C)
  BY <1>1, Zenon DEF UsePool!Free
<1> QED BY <1>2 DEF UsePool!Next

\* A step of one client that leaves it without an address, or with the one that
\* it has.
LEMMA OneStopsUsing ==
    ASSUME NEW m \in Macs, client \in [Macs -> Client], NEW c,
           client' = [client EXCEPT ![m] = c], UNCHANGED since_reboot,
           InUse(c) => InUse(client[m]) /\ c.ip = client[m].ip /\ c.left = client[m].left
    PROVE  UsePool!Next
<1>1. ASSUME NEW n \in Macs, UsesSinceReboot(n)'
      PROVE  UsesSinceReboot(n) /\ client'[n].ip = client[n].ip
  <2>1. CASE n = m
    <3>1. client'[n] = c
      BY <2>1
    <3> QED BY <1>1, <2>1, <3>1 DEF UsesSinceReboot, Using, InUse
  <2>2. CASE n # m
    <3>1. client'[n] = client[n]
      BY <2>2
    <3> QED BY <1>1, <3>1 DEF UsesSinceReboot, Using
  <2> QED BY <2>1, <2>2
<1> QED BY <1>1, EndingUseFrees

\* The table keeps apart the clients that use addresses under leases they have
\* asked for since the reboot.
LEMMA OthersUse ==
    ASSUME LanInv, NEW m \in Macs, NEW ip, NEW left, Grants(Get(leases, m), ip, left),
           NEW n \in Macs \ {m}, UsesSinceReboot(n)
    PROVE  client[n].ip # ip
<1>1. Grants(Get(leases, n), client[n].ip, client[n].left)
  BY DEF LanInv, StationOK, Backed, UsesSinceReboot, Using, InUse
<1>2. IsLive(leases, m) /\ IsLive(leases, n)
  BY <1>1 DEF Grants, IsLive, HasEntry
<1> QED BY <1>1, <1>2 DEF Grants, LanInv, UniqueLiveLease

\* The use of an acknowledged address is a grant of it.
LEMMA TakeAckRefines ==
    ASSUME LanInv, NEW m \in Macs, TakeAck(m)
    PROVE  UsePool!Next
<1> DEFINE c == client[m]
           ip == Head(to_client[m]).ip
<1>1. /\ ClientOK(c) /\ AnswersOK(c, to_server[m], to_client[m])
      /\ Backed(c, to_client[m], Get(leases, m), since_reboot)
      /\ client \in [Macs -> Client]
  BY DEF LanInv, StationOK
<1>2. /\ c.phase \in {"requesting", "renewing"} /\ UNCHANGED since_reboot
      /\ client' = [client EXCEPT ![m] = IF c.since = LAN_LEASE THEN Idle
                                         ELSE Holds("bound", ip, LAN_LEASE - c.since, 0)]
  BY DEF TakeAck, AwaitsAck, Becomes
<1>3. /\ to_client[m] \in Seq(Answer) /\ to_client[m] # <<>>
      /\ Head(to_client[m]).type = "Ack" /\ Head(to_client[m]) = to_client[m][1]
      /\ 1 \in 1 .. Len(to_client[m])
  BY <1>1 DEF TakeAck, Answered, AnswersOK
<1>4. ip \in Net
  BY <1>1, <1>3 DEF AnswersOK, AnswerOK
<1>5. /\ c.since \in Nat /\ since_reboot \in Nat /\ LAN_LEASE \in Nat
      /\ c.since <= LAN_LEASE /\ since_reboot <= LAN_LEASE
  BY <1>1, LeaseAssumption DEF ClientOK, Client, LanInv
<1>6. CASE c.since = LAN_LEASE
  <2>1. client' = [client EXCEPT ![m] = Idle] /\ ~InUse(Idle)
    BY <1>2, <1>6, UnboundRecord DEF Idle
  <2> QED BY <1>1, <1>2, <2>1, OneStopsUsing
<1>7. CASE c.since # LAN_LEASE /\ ~(c.since < since_reboot)
  <2>1. client' = [client EXCEPT ![m] = Holds("bound", ip, LAN_LEASE - c.since, 0)]
    BY <1>2, <1>7
  <2>2. ASSUME NEW n \in Macs, UsesSinceReboot(n)'
        PROVE  UsesSinceReboot(n) /\ client'[n].ip = client[n].ip
    <3>1. CASE n = m
      <4>1. client'[n].left = LAN_LEASE - c.since
        BY <1>1, <2>1, <3>1 DEF Holds
      <4>2. LAN_LEASE - c.since > LAN_LEASE - since_reboot
        BY <1>2, <2>2, <4>1 DEF UsesSinceReboot
      <4> QED BY <1>5, <1>7, <4>2
    <3>2. CASE n # m
      <4>1. client'[n] = client[n]
        BY <1>1, <2>1, <3>2
      <4> QED BY <1>2, <2>2, <4>1 DEF UsesSinceReboot, Using
    <3> QED BY <3>1, <3>2
  <2> QED BY <2>2, EndingUseFrees
<1>8. CASE c.since < since_reboot
  <2>1. Grants(Get(leases, m), ip, LAN_LEASE - c.since)
    BY <1>1, <1>2, <1>3, <1>8 DEF Backed
  <2>2. /\ client' = [client EXCEPT ![m] = Holds("bound", ip, LAN_LEASE - c.since, 0)]
        /\ LAN_LEASE - c.since > LAN_LEASE - since_reboot
    <3>1. c.since # LAN_LEASE /\ LAN_LEASE - c.since > LAN_LEASE - since_reboot
      BY <1>5, <1>8
    <3> QED BY <1>2, <3>1, Zenon
  <2>3. client'[m] = Holds("bound", ip, LAN_LEASE - c.since, 0)
    BY <1>1, <2>2
  <2>4. UsesSinceReboot(m)' /\ client'[m].ip = ip
    BY <1>2, <2>2, <2>3 DEF UsesSinceReboot, Using, Holds
  <2>5. \A n \in Macs \ {m} : /\ (UsesSinceReboot(n)' <=> UsesSinceReboot(n))
                              /\ client'[n] = client[n]
    BY <1>1, <1>2, <2>2 DEF UsesSinceReboot, Using
  <2>6. \A n \in Macs \ {m} : UseHolder[n] # ip
    <3>1. ip # None
      BY <1>4, NoneAssumption, NetAssumption DEF Net
    <3> QED BY <2>1, <3>1, OthersUse DEF UseHolder
  <2>7. UseHolder' = [UseHolder EXCEPT ![m] = ip]
    <3>1. UseHolder' = [n \in Macs |-> IF UsesSinceReboot(n)' THEN client'[n].ip ELSE None]
      BY DEF UseHolder
    <3>2. UseHolder = [n \in Macs |-> IF UsesSinceReboot(n) THEN client[n].ip ELSE None]
      BY DEF UseHolder
    <3> QED BY <2>4, <2>5, <3>1, <3>2
  <2>8. UsePool!Grant(m, ip)
    BY <2>6, <2>7 DEF UsePool!Grant
  <2> QED BY <1>4, <2>8 DEF UsePool!Next
<1> QED BY <1>5, <1>6, <1>7, <1>8

\* A step of a client ends the use of an address, leaves it or grants it.
LEMMA ClientStepRefines ==
    ASSUME LanInv, NEW m \in Macs, ClientStep(m)
    PROVE  [UsePool!Next]_UseHolder
<1>1. client \in [Macs -> Client]
  BY DEF LanInv
<1>2. CASE \E ip \in Wanted : AskAgain(m, ip)
  <2>1. PICK ip \in Wanted : AskAgain(m, ip)
    BY <1>2
  <2>2. client' = [client EXCEPT ![m] = At("requesting", ip)] /\ UNCHANGED since_reboot
    BY <2>1 DEF AskAgain, Becomes
  <2>3. ~InUse(At("requesting", ip))
    BY DEF InUse, At
  <2> QED BY <1>1, <2>2, <2>3, OneStopsUsing
<1>3. CASE \/ Discover(m) \/ GiveUp(m) \/ Release(m) \/ Leave(m)
           \/ TakeOffer(m) \/ DeclineAck(m) \/ TakeNak(m)
  <2>1. PICK c \in {At("selecting", None), Idle, Off, At("requesting", Head(to_client[m]).ip)} :
           client' = [client EXCEPT ![m] = c] /\ UNCHANGED since_reboot
    BY <1>3 DEF Discover, GiveUp, Release, Leave, TakeOffer, DeclineAck, TakeNak, Becomes
  <2>2. ~InUse(c)
    BY DEF InUse, At, Idle, Off
  <2> QED BY <1>1, <2>1, <2>2, OneStopsUsing
<1>4. CASE Retransmit(m)
  <2>1. client' = [client EXCEPT ![m] = client[m]] /\ UNCHANGED since_reboot
    BY <1>4 DEF Retransmit, Becomes
  <2> QED BY <1>1, <2>1, OneStopsUsing
<1>5. CASE Renew(m)
  <2>1. /\ client' = [client EXCEPT ![m] = Holds("renewing", client[m].ip, client[m].left, 0)]
        /\ UNCHANGED since_reboot /\ InUse(client[m])
    BY <1>5 DEF Renew, Becomes, Using, InUse
  <2>2. /\ Holds("renewing", client[m].ip, client[m].left, 0).ip = client[m].ip
        /\ Holds("renewing", client[m].ip, client[m].left, 0).left = client[m].left
    BY DEF Holds
  <2> QED BY <1>1, <2>1, <2>2, OneStopsUsing
<1>6. CASE TakeAck(m)
  BY <1>6, TakeAckRefines
<1> QED BY <1>2, <1>3, <1>4, <1>5, <1>6 DEF ClientStep

\* Time only ends the use of addresses: a lease and the time since the reboot
\* run at the same pace.
LEMMA TimeRefines ==
    ASSUME LanInv, TimePasses
    PROVE  UsePool!Next
<1> SUFFICES ASSUME NEW m \in Macs, UsesSinceReboot(m)'
             PROVE  UsesSinceReboot(m) /\ client'[m].ip = client[m].ip
  BY EndingUseFrees
<1> DEFINE c == client[m]
           d == ClientAged(client[m])
<1>1. /\ ClientOK(c) /\ client'[m] = d /\ since_reboot' = Min({since_reboot + 1, LAN_LEASE})
      /\ since_reboot \in Nat /\ since_reboot <= LAN_LEASE /\ LAN_LEASE \in Nat \ {0}
  BY LeaseAssumption DEF LanInv, StationOK, TimePasses
<1>2. since_reboot' = IF since_reboot + 1 <= LAN_LEASE THEN since_reboot + 1 ELSE LAN_LEASE
  BY <1>1, MinOfTwo
<1>3. InUse(d) /\ d.left > LAN_LEASE - since_reboot'
  BY <1>1 DEF UsesSinceReboot, Using, InUse
<1>4. ~(InUse(c) /\ c.left = 1)
  <2>1. ASSUME InUse(c) /\ c.left = 1 PROVE FALSE
    <3>1. d = Idle
      BY <2>1 DEF ClientAged, InUse
    <3> QED BY <1>3, <3>1, UnboundRecord DEF Idle
  <2> QED BY <2>1
<1> HIDE DEF c, d
<1>5. /\ d.phase = c.phase /\ d.ip = c.ip
      /\ InUse(c) => c.left > 1 /\ d.left = c.left - 1
  <2>1. d = ClientAged(c)
    BY DEF c, d
  <2> QED BY <1>1, <1>4, <2>1, AgedClient
<1>6. InUse(c) /\ c.left > 1 /\ d.left = c.left - 1
  BY <1>3, <1>5 DEF InUse
<1>7. c.left > LAN_LEASE - since_reboot
  <2>1. c.left \in Nat
    BY <1>1 DEF ClientOK, Client
  <2> QED BY <1>1, <1>2, <1>3, <1>6, <2>1
<1> QED BY <1>1, <1>5, <1>6, <1>7 DEF c, UsesSinceReboot, Using, InUse

\* The clients implement the abstract pool from one reboot of the router to the
\* next: whatever is lost, late or repeated, a client that takes an ACK uses the
\* address apart from all others that have asked for theirs since the reboot.
THEOREM ClientsShareNothing == LanSpec => ClientsImplementPool
<1>1. LanInit => UsePool!Init
  BY DEF LanInit, UsePool!Init, UseHolder, UsesSinceReboot, Using, Off, At
<1>2. LanInv /\ [LanNext]_lanVars => [UsePool!Next]_UseHolder
  <2> SUFFICES ASSUME LanInv, [LanNext]_lanVars PROVE [UsePool!Next]_UseHolder
    OBVIOUS
  <2>1. ASSUME NEW m \in Macs, ClientStep(m) PROVE [UsePool!Next]_UseHolder
    BY <2>1, ClientStepRefines
  <2>2. CASE UNCHANGED <<client, since_reboot>>
    BY <2>2 DEF UseHolder, UsesSinceReboot, Using
  <2>3. ASSUME NEW m \in Macs, Serve(m) \/ Lose(m) PROVE [UsePool!Next]_UseHolder
    <3>1. client' = client /\ UNCHANGED since_reboot
      BY <2>3 DEF Serve, Lose, Becomes, LanInv
    <3> QED BY <2>2, <3>1
  <2>4. CASE ServerOpens \/ ServerLosesSocket
    BY <2>2, <2>4 DEF ServerOpens, ServerLosesSocket
  <2>5. CASE RouterReboots
    <3>1. since_reboot' = 0 /\ client' = client
      BY <2>5 DEF RouterReboots
    <3>2. ASSUME NEW m \in Macs PROVE ~UsesSinceReboot(m)'
      <4>1. client[m].left \in 0 .. LAN_LEASE
        BY DEF LanInv, StationOK, ClientOK, Client
      <4>2. ~(client[m].left > LAN_LEASE - 0)
        BY <4>1, LeaseAssumption
      <4> QED BY <3>1, <4>2 DEF UsesSinceReboot
    <3> QED BY <3>2, EndingUseFrees
  <2>6. CASE TimePasses
    BY <2>6, TimeRefines
  <2>7. CASE UNCHANGED lanVars
    BY <2>2, <2>7 DEF lanVars
  <2> QED BY <2>1, <2>3, <2>4, <2>5, <2>6, <2>7 DEF LanNext
<1> QED BY <1>1, <1>2, LanInvHolds, PTL DEF LanSpec, ClientsImplementPool, UsePool!Spec
-----------------------------------------------------------------------------
(***************************************************************************)
(* The server among its clients is the server alone                        *)
(***************************************************************************)
ClosedIsSilent == socket = "closed" => reply = None

LEMMA InformPacket ==
    ASSUME NEW m \in Macs
    PROVE  \E pkt \in Packet : pkt.type = "Inform"
<1> DEFINE pkt == [type |-> "Inform", chaddr |-> m, source |-> "chaddr", requested |-> None]
<1>1. pkt \in Packet /\ pkt.type = "Inform"
  BY DEF Packet, RequestTypes
<1> QED BY <1>1

\* A step of a client is to the server as if nothing, or an INFORM, came in.
LEMMA ClientStepIsNoStep ==
    ASSUME TypeOK, ClosedIsSilent, NEW m \in Macs, UNCHANGED <<leases, socket>>, reply' = None
    PROVE  [Next]_vars
<1>1. CASE socket = "closed"
  BY <1>1 DEF ClosedIsSilent, vars
<1>2. CASE socket = "open"
  <2>1. PICK pkt \in Packet : pkt.type = "Inform"
    BY InformPacket
  <2>2. ReceivePacket(pkt)
    BY <1>2, <2>1 DEF ReceivePacket, ProcessIncomingPacket, Dispatch
  <2> QED BY <2>2 DEF Next
<1> QED BY <1>1, <1>2 DEF TypeOK

\* The clients, the wire and the losses make the server do nothing that it does
\* not do alone, so that whatever holds of the server holds of it among them.
THEOREM ServerAmongClients == LanSpec => Spec
<1>1. LanInit => Init /\ ClosedIsSilent
  BY DEF LanInit, Init, ClosedIsSilent
<1>2. LanInv /\ ClosedIsSilent /\ [LanNext]_lanVars => [Next]_vars /\ ClosedIsSilent'
  <2> SUFFICES ASSUME LanInv, ClosedIsSilent, [LanNext]_lanVars
               PROVE  [Next]_vars /\ ClosedIsSilent'
    OBVIOUS
  <2>1. TypeOK
    BY DEF LanInv
  <2>2. ASSUME NEW m \in Macs, ClientStep(m) \/ Lose(m) PROVE [Next]_vars /\ ClosedIsSilent'
    <3>1. UNCHANGED <<leases, socket>> /\ reply' = None
      <4>1. CASE Lose(m)
        BY <4>1 DEF Lose, Becomes
      <4>2. CASE ClientStep(m)
        <5>1. PICK record : Becomes(m, record)
          BY <4>2 DEF ClientStep, Discover, AskAgain, Retransmit, GiveUp, Renew, Release,
                      Leave, TakeOffer, TakeAck, DeclineAck, TakeNak
        <5> QED BY <5>1 DEF Becomes
      <4> QED BY <2>2, <4>1, <4>2
    <3> QED BY <2>1, <3>1, ClientStepIsNoStep DEF ClosedIsSilent
  <2>3. ASSUME NEW m \in Macs, Serve(m) PROVE [Next]_vars /\ ClosedIsSilent'
    <3> DEFINE pkt == PacketOf(m, Head(to_server[m]))
    <3>1. pkt \in Packet
      <4>1. /\ to_server[m] # <<>> /\ to_server[m] \in Seq(Message)
            /\ FrameOK(client[m], to_server[m][1])
        BY <2>3 DEF Serve, LanInv, StationOK, QueueOK
      <4>2. Head(to_server[m]) = to_server[m][1]
        BY <4>1
      <4> QED BY <4>1, <4>2, PacketType DEF FrameOK
    <3>2. ReceivePacket(pkt)
      BY <2>3 DEF Serve
    <3>3. socket = "open" /\ socket' = socket
      BY <3>2 DEF ReceivePacket
    <3> HIDE DEF pkt
    <3> QED BY <3>1, <3>2, <3>3 DEF Next, ClosedIsSilent
  <2>4. CASE ServerOpens \/ ServerLosesSocket \/ RouterReboots \/ TimePasses
    <3>1. OpenSocket \/ ReadError \/ Reboot \/ Tick
      BY <2>4 DEF ServerOpens, ServerLosesSocket, RouterReboots, TimePasses
    <3> QED BY <3>1 DEF Next, OpenSocket, ReadError, Reboot, Tick, ClosedIsSilent
  <2>5. CASE UNCHANGED lanVars
    BY <2>5 DEF lanVars, vars, ClosedIsSilent
  <2> QED BY <2>2, <2>3, <2>4, <2>5 DEF LanNext
<1> QED BY <1>1, <1>2, LanInvHolds, PTL DEF LanSpec, Spec

\* Among its clients, too, the server implements the pool of addresses, leaves a
\* DISCOVER unanswered only when the pool is empty, and ends a live lease only
\* for a packet of the client that holds it.
THEOREM PromisesAmongClients ==
    LanSpec => ImplementsPool /\ NoFalseExhaustion /\ LiveLeaseUndisturbed
BY ServerAmongClients, ServerImplementsPool, ExhaustionIsReal, OnlyTheClientEndsItsLease, PTL
=============================================================================
