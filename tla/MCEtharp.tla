----------------------------- MODULE MCEtharp -----------------------------
(***************************************************************************)
(* A table of two entries for three hosts: a, b, and the gateway gw of the *)
(* destination far.  Packets to b are volatile and need a copy.            *)
(***************************************************************************)
EXTENDS Etharp

CONSTANTS a, b, gw, far, all, m1, m2, p1, p2

MCIPs == {a, b, gw}
MCMACs == {m1, m2}
MCDests == {a, b, far, all}
MCNextHop == [d \in MCDests |-> CASE d = far -> gw [] d = all -> Broadcast [] OTHER -> d]
MCAnnounced == {<<a, m1>>, <<a, m2>>, <<b, m1>>, <<gw, m2>>}
MCStatic == {<<a, m1>>}
MCPbufs == {p1, p2}
MCVolatile == {b}
MCKept == {a}
=============================================================================
