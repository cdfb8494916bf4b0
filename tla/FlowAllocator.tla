--------------------------- MODULE FlowAllocator ---------------------------
(***************************************************************************)
(* What the flow table of Outside promises to the rest of the system,      *)
(* without pools, maps, timers or locks: each flow number is free or       *)
(* belongs to one remote of one Id, no remote of an Id holds two flow      *)
(* numbers, and never more than MaxCurrentFlows are held.  FlowTable is    *)
(* shown to implement it.                                                  *)
(***************************************************************************)
EXTENDS Naturals, FiniteSets

CONSTANTS
  Ids,              \* the configured flow Ids, one listening port each
  Remotes,          \* source addresses of remote systems
  Flows,            \* the flow numbers, 0..255 in the code
  MaxCurrentFlows,  \* funnel:maxCurrentFlows of the configuration
  Free              \* the owner of a flow number nobody uses

VARIABLE owner

Users == Ids \X Remotes

Held == {f \in Flows : owner[f] # Free}

TypeOK == owner \in [Flows -> Users \cup {Free}]

Init == owner = [f \in Flows |-> Free]

(* A remote without a flow gets any free one while the limit allows it. *)
Allocate(f, u) ==
  /\ owner[f] = Free
  /\ \A g \in Flows : owner[g] # u
  /\ Cardinality(Held) < MaxCurrentFlows
  /\ owner' = [owner EXCEPT ![f] = u]

(* A flow goes back before it can have another owner. *)
Reclaim(f) ==
  /\ owner[f] # Free
  /\ owner' = [owner EXCEPT ![f] = Free]

Next == \E f \in Flows : Reclaim(f) \/ \E u \in Users : Allocate(f, u)

Spec == Init /\ [][Next]_owner
=============================================================================
