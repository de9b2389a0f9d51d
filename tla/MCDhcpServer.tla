---------------------------- MODULE MCDhcpServer ----------------------------
(***************************************************************************)
(* The LAN DHCP server on small networks.                                  *)
(***************************************************************************)
EXTENDS DhcpServer, TLC

\* The clients are interchangeable in the safety properties.
MacSymmetry == Permutations(Macs)
=============================================================================
