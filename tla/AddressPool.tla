----------------------------- MODULE AddressPool ----------------------------
(***************************************************************************)
(* What the LAN DHCP server promises of its addresses, with no lease       *)
(* table, index or packet: an address is granted to a client only while no *)
(* other client holds it, a grant disturbs no other client, and a client   *)
(* that holds an address keeps it until it is freed or granted another.    *)
(***************************************************************************)
CONSTANTS
    Clients,     \* who may hold an address
    Addresses,   \* what may be held
    Nothing      \* what a client without an address holds

VARIABLE holder  \* holder[c]: the address client c holds, or Nothing

Init == holder = [c \in Clients |-> Nothing]

Grant(c, a) ==
    /\ \A d \in Clients \ {c} : holder[d] # a
    /\ holder' = [holder EXCEPT ![c] = a]

Free(C) == holder' = [c \in Clients |-> IF c \in C THEN Nothing ELSE holder[c]]

Next ==
    \/ \E C \in SUBSET Clients : Free(C)
    \/ \E c \in Clients, a \in Addresses : Grant(c, a)

Spec == Init /\ [][Next]_holder
=============================================================================
