----------------------------- MODULE MCIpCache -----------------------------
(* Two connections to one address, of which every packet may take another   *)
(* of two interfaces; one of the names is an address.                       *)
EXTENDS IpCache, TLC
CONSTANTS c1, c2, wan, lte, a
MCSymmetry == Permutations(Conn) \cup Permutations(Iface)
MCAddr == [c \in Conn |-> a]
MCIsIp == [n \in Name |-> n = "1.1.1.1"]
=============================================================================
