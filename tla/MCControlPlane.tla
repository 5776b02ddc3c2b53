--------------------------- MODULE MCControlPlane ---------------------------
\* Small instances of ControlPlane.
EXTENDS ControlPlane, TLC

CONSTANTS v1, v2, a1, c1, c2

AnyConn == Permutations(Conns)
=============================================================================
