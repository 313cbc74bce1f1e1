------------------------------ MODULE MCRouter ------------------------------
(* Three miners in a triangle with a boot node linked to each, one         *)
(* message, and two transactions from two peers.                           *)
EXTENDS Router, TLC

CONSTANTS n1, n2, n3, b, m1, t1, t2, p1, p2

MCNodes == {n1, n2, n3, b}
MCPeers == (n1 :> {n2, n3, b}) @@ (n2 :> {n1, n3, b})
               @@ (n3 :> {n1, n2, b}) @@ (b :> {n1, n2, n3})
MCOrigin == m1 :> n1
=============================================================================
