---------------------------- MODULE MCFlowTable ----------------------------
(* Small instances of FlowTable for TLC. *)
EXTENDS FlowTable, TLC

CONSTANTS i1, i2, r1, r2, f1, f2, f3

SingleTimeouts == [id \in Ids |-> 1]
BidirectionalTimeouts == [id \in Ids |-> 2]
=============================================================================
