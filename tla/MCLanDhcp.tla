------------------------------ MODULE MCLanDhcp -----------------------------
(***************************************************************************)
(* The LAN with a few clients.                                             *)
(***************************************************************************)
EXTENDS LanDhcp, TLC

LanSymmetry == Permutations(Macs)
=============================================================================
