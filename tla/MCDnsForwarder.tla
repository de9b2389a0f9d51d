--------------------------- MODULE MCDnsForwarder ---------------------------
(***************************************************************************)
(* The DNS forwarder with a few concurrent queries.                        *)
(***************************************************************************)
EXTENDS DnsForwarder, TLC

\* Tasks are interchangeable, and so are transaction ids.
DnsSymmetry == Permutations(Tasks) \cup Permutations(Xids)
=============================================================================
