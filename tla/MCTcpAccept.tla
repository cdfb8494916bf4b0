---------------------------- MODULE MCTcpAccept ----------------------------
(* Small instances of TcpAccept for TLC. *)
EXTENDS TcpAccept, TLC

CONSTANTS i1, i2, c1, c2, c3

ConnSymmetry == Permutations(Conns)
=============================================================================
