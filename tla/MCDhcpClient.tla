---------------------------- MODULE MCDhcpClient ----------------------------
(***************************************************************************)
(* The WAN DHCP client with a few leases to be assigned.                   *)
(***************************************************************************)
EXTENDS DhcpClient

\* Two leases that differ in everything, one that only renames the resolver,
\* and one whose subnet mask is not contiguous.
FourConfigs ==
    {[ip |-> "ip1", mask_ok |-> TRUE, gateway |-> "gw1", dns |-> "dns1"],
     [ip |-> "ip1", mask_ok |-> TRUE, gateway |-> "gw1", dns |-> "dns2"],
     [ip |-> "ip2", mask_ok |-> TRUE, gateway |-> None, dns |-> "dns1"],
     [ip |-> "ip2", mask_ok |-> FALSE, gateway |-> None, dns |-> "dns1"]}

OneConfig == {[ip |-> "ip1", mask_ok |-> TRUE, gateway |-> "gw1", dns |-> "dns1"]}
=============================================================================
