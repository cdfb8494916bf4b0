--------------------------- MODULE MCMessagePool ---------------------------
(* Small instances of MessagePool for TLC. *)
EXTENDS MessagePool, TLC

CONSTANTS m1, m2, m3, m4, p1, p2, p3, p4, r1, r2, s1, s2

Symmetry == Permutations(Msgs) \cup Permutations(Payloads)
=============================================================================
