---------------------------- MODULE MCPortKnock ----------------------------
(* Small instances of PortKnock for TLC. *)
EXTENDS PortKnock, TLC

CONSTANTS n1, n2, a1, a2

Symmetry == Permutations(Names) \cup Permutations(Addrs)
=============================================================================
