------------------------------ MODULE Firewall ------------------------------
(***************************************************************************)
(* The rules for packets to the router itself: src/src/netfilter.rs.  The  *)
(* kernel takes them as one batch; see Lifecycle for when.                 *)
(***************************************************************************)
EXTENDS Integers

\* What the rules tell packets apart by: iif, proto, dport and state.
CLIENT_PORT == 68
OTHER_PORT == 1024

\* Mistake: no rule for the states of the connection tracking.
AcceptsNoState(p) ==
    \/ p.iif \in {"lo", "lan"}
    \/ p.iif = "wan" /\ p.proto = "udp" /\ p.dport = CLIENT_PORT
    \/ p.proto = "icmp"

\* Every rule accepts, and the policy is to drop.
Accepts(p) ==
    \/ p.iif \in {"lo", "lan"}
    \/ p.iif = "wan" /\ p.proto = "udp" /\ p.dport = CLIENT_PORT
    \/ p.proto = "icmp"
    \/ p.state \in {"established", "related"}
=============================================================================
