--------------------------- MODULE MCTokenSource ----------------------------
(* Values of the constants of TokenSource for TLC: two calls for one       *)
(* installation and one for another.                                       *)
EXTENDS TokenSource, TLC

CONSTANTS c1, c2, c3, i1, i2

MCCalls == {c1, c2, c3}
MCInstallationOf == [c \in MCCalls |-> IF c = c3 THEN i2 ELSE i1]
=============================================================================
