---------------------------- MODULE MCConnector ----------------------------
(* Connector for TLC: two connectors, in two processes or in one.          *)
EXTENDS Connector, TLC

CONSTANTS c1, c2, p1, p2

ApartOrTogether == {(c1 :> p1) @@ (c2 :> p2), (c1 :> p1) @@ (c2 :> p1)}
=============================================================================
