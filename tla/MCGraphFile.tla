----------------------------- MODULE MCGraphFile -----------------------------
(* An instance of GraphFile for TLC: three processes, two graphs beside    *)
(* the empty one.                                                          *)
EXTENDS GraphFile

CONSTANTS p1, p2, p3, g1, g2
=============================================================================
