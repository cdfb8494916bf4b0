----------------------------- MODULE FlowTable -----------------------------
(***************************************************************************)
(* Outside's table of flows: app/udpbohrer/udpconnout2remote with the      *)
(* connection limiter.  A remote system is told from the others by a flow  *)
(* number.  All Ids draw the numbers from one FlowManagement and one       *)
(* ConnLimiter (cmd/udpbohrer, runOutside); every Id has its own map       *)
(* remote -> entry (mToI), its own map flow -> remote (mToR), and two      *)
(* goroutines: one receives from the remotes, the other sends to them and, *)
(* when it had nothing to send for a second, removes expired entries.      *)
(*                                                                         *)
(* The grain of atomicity is that of the locks.  A lookup or a new flow is *)
(* one critical section of the map's mutex.  CleanMapAddrPort holds that   *)
(* mutex too, but takes the locks shared between the Ids twice for every   *)
(* entry it removes, first to return the flow, then to release the         *)
(* connection, so other Ids run in between.                                *)
(*                                                                         *)
(* Timestamps are kept as ages in seconds, counted up by Tick and capped   *)
(* one above the larger timeout, where no comparison of the code can tell  *)
(* them apart; the zero timestamp that means "not yet" is Never.  The      *)
(* second timer of the send goroutine is "message" or "restarted" while it *)
(* runs, since a message or since the start or a cleanup, and then "due".  *)
(***************************************************************************)
EXTENDS Integers, FiniteSets, ConnLimiter

CONSTANTS
  Ids,                     \* the configured Ids
  Remotes,                 \* source addresses of remote systems
  Flows,                   \* the flow numbers, 0..255 in the code
  MaxCurrentFlows,         \* funnel:maxCurrentFlows, 2..254
  TimeOutSingleDirection,  \* per Id, seconds: initTimeoutSeconds
  TimeOutBidirectional,    \* per Id, seconds: timeoutSeconds
  NoEntry,                 \* a key that is not in mToI
  NoRemote,                \* a key that is not in mToR
  Never                    \* the zero timestamp

ASSUME FlowAssumption ==
  /\ IsFiniteSet(Ids)
  /\ IsFiniteSet(Flows)
  /\ MaxCurrentFlows \in 1..Cardinality(Flows)

ASSUME TimeoutAssumption ==
  /\ TimeOutSingleDirection \in [Ids -> Nat]
  /\ TimeOutBidirectional \in [Ids -> Nat]

(* Older ages compare with the timeouts as this one does. *)
AgeCap(id) ==
  IF TimeOutSingleDirection[id] > TimeOutBidirectional[id]
  THEN TimeOutSingleDirection[id] + 1
  ELSE TimeOutBidirectional[id] + 1

Entry == [flow         : Flows,
          timeToRemote : Nat \cup {Never},
          timeToInside : Nat]

(* No value of a map's type stands for a missing key. *)
ASSUME AbsentAssumption ==
  /\ NoRemote \notin Remotes \cup (Ids \X Remotes)
  /\ Never \notin Nat
  /\ NoEntry \notin Entry

VARIABLES
  flowsAvailable,  \* flow numbers not handed out since the last refill
  flowsReturned,   \* flow numbers given back since the last refill
  nFlowsActive,    \* FlowManagement.nFlowsActive
  connCount,       \* ConnLimiter.connCount
  mToI,            \* per Id: remote -> entry
  mToR,            \* per Id: flow -> remote of the entry
  expired,         \* per Id: entries a running CleanMapAddrPort still removes
  owed,            \* per Id: it returned a flow and not yet the connection
  timer            \* per Id: the one second timer of the send goroutine's select

poolVars  == <<flowsAvailable, flowsReturned, nFlowsActive, connCount>>
mapVars   == <<mToI, mToR>>
cleanVars == <<expired, owed>>
vars      == <<poolVars, mapVars, cleanVars, timer>>

-----------------------------------------------------------------------------

InMap(id, ap) == mToI[id][ap] # NoEntry

(* CleanMapAddrPort holds the mutex of the Id's maps until it returns. *)
NeverCleaning(id) == FALSE
Cleaning(id) == expired[id] # {} \/ owed[id]

MappedFlows == {f \in Flows : \E id \in Ids : mToR[id][f] # NoRemote}

(* The comparisons of CleanMapAddrPort, on ages. *)
Older(age, limit) == age = Never \/ age > limit

TwoWayExpired(id, e) ==
  /\ e.timeToInside # Never
  /\ e.timeToRemote # Never
  /\ e.timeToInside > TimeOutBidirectional[id]
  /\ e.timeToRemote > TimeOutBidirectional[id]

EntryExpired(id, e) ==
  \/ e.timeToRemote = Never /\ Older(e.timeToInside, TimeOutSingleDirection[id])
  \/ e.timeToInside = Never /\ Older(e.timeToRemote, TimeOutSingleDirection[id])
  \/ TwoWayExpired(id, e)

ExpiredEntries(id) == {ap \in Remotes : InMap(id, ap) /\ EntryExpired(id, mToI[id][ap])}

-----------------------------------------------------------------------------
(* FlowManagement.  The shuffled slice of available numbers is the set of  *)
(* those behind iFlowAvailable: the shuffle makes every order possible.    *)

PoolNoRefill == flowsAvailable
Pool == IF flowsAvailable = {} THEN flowsReturned ELSE flowsAvailable
PoolRestKept == flowsReturned
PoolRest == IF flowsAvailable = {} THEN {} ELSE flowsReturned

GetNewFlow(f) ==
  /\ f \in Pool
  /\ RequestGranted(connCount, MaxCurrentFlows)
  /\ flowsAvailable' = Pool \ {f}
  /\ flowsReturned' = PoolRest
  /\ nFlowsActive' = nFlowsActive + 1
  /\ connCount' = AfterRequest(connCount, MaxCurrentFlows)

(* A failed request may have refilled the slice before it failed. *)
GetNewFlowFails ==
  /\ Pool = {} \/ ~RequestGranted(connCount, MaxCurrentFlows)
  /\ flowsAvailable' = Pool
  /\ flowsReturned' = PoolRest
  /\ UNCHANGED <<nFlowsActive, connCount>>

ReturnFlow(f) ==
  /\ flowsReturned' = flowsReturned \cup {f}
  /\ nFlowsActive' = IF f \in flowsReturned THEN nFlowsActive ELSE nFlowsActive - 1
  /\ UNCHANGED flowsAvailable

-----------------------------------------------------------------------------

Init ==
  /\ flowsAvailable = Flows
  /\ flowsReturned = {}
  /\ nFlowsActive = 0
  /\ connCount = 0
  /\ mToI = [id \in Ids |-> [ap \in Remotes |-> NoEntry]]
  /\ mToR = [id \in Ids |-> [f \in Flows |-> NoRemote]]
  /\ expired = [id \in Ids |-> {}]
  /\ owed = [id \in Ids |-> FALSE]
  /\ timer = [id \in Ids |-> "restarted"]

(* GetFlowFromAddressPort for a packet of a remote that has an entry. *)
KnownRemote(id, ap) ==
  /\ ~Cleaning(id)
  /\ InMap(id, ap)
  /\ mToI' = [mToI EXCEPT ![id][ap].timeToInside = 0]
  /\ UNCHANGED <<poolVars, mToR, cleanVars, timer>>

(* GetFlowFromAddressPort for a new remote that gets flow f. *)
NewRemote(id, ap, f) ==
  /\ ~Cleaning(id)
  /\ ~InMap(id, ap)
  /\ GetNewFlow(f)
  /\ mToI' = [mToI EXCEPT ![id][ap] =
                [flow |-> f, timeToRemote |-> Never, timeToInside |-> 0]]
  /\ mToR' = [mToR EXCEPT ![id][f] = ap]
  /\ UNCHANGED <<cleanVars, timer>>

(* GetFlowFromAddressPort for a new remote that gets none: packet dropped. *)
RefusedRemote(id, ap) ==
  /\ ~Cleaning(id)
  /\ ~InMap(id, ap)
  /\ GetNewFlowFails
  /\ UNCHANGED <<mapVars, cleanVars, timer>>

(* Go_send_to_remote takes a message of Inside from its channel: a mapped  *)
(* flow is stamped and the packet sent, any other is dropped; the one      *)
(* second timer of the select starts again.                                *)
GetAddressPortFromFlow(id, f) ==
  /\ ~Cleaning(id)
  /\ mToI' = IF mToR[id][f] = NoRemote THEN mToI
             ELSE [mToI EXCEPT ![id][mToR[id][f]].timeToRemote = 0]
  /\ timer' = [timer EXCEPT ![id] = "message"]
  /\ UNCHANGED <<poolVars, mToR, cleanVars>>

(* The timer fires first: CleanMapAddrPort locks the maps and reads the clock. *)
StartClean(id) ==
  /\ ~Cleaning(id)
  /\ timer[id] = "due"
  /\ expired' = [expired EXCEPT ![id] = ExpiredEntries(id)]
  /\ timer' = [timer EXCEPT ![id] = "restarted"]
  /\ UNCHANGED <<poolVars, mapVars, owed>>

DeleteFromToI(id, ap) ==
  mToI' = [mToI EXCEPT ![id][ap] = NoEntry] /\ UNCHANGED mToR

DeleteFromMaps(id, ap) ==
  /\ mToR' = [mToR EXCEPT ![id][mToI[id][ap].flow] = NoRemote]
  /\ mToI' = [mToI EXCEPT ![id][ap] = NoEntry]

(* One expired entry: the flow goes back and the entry leaves both maps. *)
CleanReturnFlow(id, ap) ==
  /\ ap \in expired[id]
  /\ ~owed[id]
  /\ ReturnFlow(mToI[id][ap].flow)
  /\ DeleteFromMaps(id, ap)
  /\ expired' = [expired EXCEPT ![id] = @ \ {ap}]
  /\ owed' = [owed EXCEPT ![id] = TRUE]
  /\ UNCHANGED <<connCount, timer>>

(* The same entry, after the shared locks were free for other Ids. *)
CleanReleaseConn(id) ==
  /\ owed[id]
  /\ connCount' = AfterRelease(connCount)
  /\ owed' = [owed EXCEPT ![id] = FALSE]
  /\ UNCHANGED <<flowsAvailable, flowsReturned, nFlowsActive, mapVars, expired, timer>>

(* A second passes; a send goroutine that waits in its select waited it. *)
Ticked(id, age) == IF age = Never \/ age = AgeCap(id) THEN age ELSE age + 1

Aged(id, e) ==
  IF e = NoEntry THEN NoEntry
  ELSE [e EXCEPT !.timeToRemote = Ticked(id, @), !.timeToInside = Ticked(id, @)]

Tick ==
  /\ mToI' = [id \in Ids |-> [ap \in Remotes |-> Aged(id, mToI[id][ap])]]
  /\ timer' = [id \in Ids |-> IF Cleaning(id) THEN timer[id] ELSE "due"]
  /\ UNCHANGED <<poolVars, mToR, cleanVars>>

FromInside(id) == \E f \in Flows : GetAddressPortFromFlow(id, f)

Receive(id) ==
  \E ap \in Remotes :
    \/ KnownRemote(id, ap)
    \/ \E f \in Flows : NewRemote(id, ap, f)
    \/ RefusedRemote(id, ap)

Clean(id) ==
  \/ StartClean(id)
  \/ \E ap \in Remotes : CleanReturnFlow(id, ap)
  \/ CleanReleaseConn(id)

Next ==
  \/ \E id \in Ids : Receive(id) \/ FromInside(id) \/ Clean(id)
  \/ Tick

Spec == Init /\ [][Next]_vars

(* The clock runs and a goroutine that can go on does; no packet is owed.  *)
Fairness ==
  /\ WF_vars(Tick)
  /\ \A id \in Ids : WF_vars(Clean(id))

FairSpec == Spec /\ Fairness

-----------------------------------------------------------------------------
(* Properties *)

(* Every variable has the type the code gives it; the active counter never *)
(* goes below zero and the connection counter never above the limit.       *)
TypeOK ==
  /\ flowsAvailable \in SUBSET Flows
  /\ flowsReturned \in SUBSET Flows
  /\ nFlowsActive \in Nat
  /\ connCount \in 0..MaxCurrentFlows
  /\ mToI \in [Ids -> [Remotes -> Entry \cup {NoEntry}]]
  /\ mToR \in [Ids -> [Flows -> Remotes \cup {NoRemote}]]
  /\ expired \in [Ids -> SUBSET Remotes]
  /\ owed \in [Ids -> BOOLEAN]
  /\ timer \in [Ids -> {"message", "restarted", "due"}]

(* Every flow number is in exactly one place: still available, returned,   *)
(* or in the map of exactly one Id.  None is lost by a refill or a cleanup *)
(* and none is handed out twice.                                           *)
FlowsPartitioned ==
  /\ flowsAvailable \cup flowsReturned \cup MappedFlows = Flows
  /\ flowsAvailable \cap flowsReturned = {}
  /\ (flowsAvailable \cup flowsReturned) \cap MappedFlows = {}
  /\ \A f \in Flows, i, j \in Ids :
       mToR[i][f] # NoRemote /\ mToR[j][f] # NoRemote => i = j

(* The two maps of an Id are inverse: a packet of a remote carries the     *)
(* flow under which the answers find the way back to that remote.          *)
MapsAgree ==
  \A id \in Ids :
    /\ \A ap \in Remotes : InMap(id, ap) => mToR[id][mToI[id][ap].flow] = ap
    /\ \A f \in Flows : mToR[id][f] # NoRemote =>
         InMap(id, mToR[id][f]) /\ mToI[id][mToR[id][f]].flow = f

(* Both counters tell the number of flows in use; the limiter still counts *)
(* a flow that a cleanup has returned and not yet released.                *)
CountsAgree ==
  /\ nFlowsActive = Cardinality(MappedFlows)
  /\ connCount = nFlowsActive + Cardinality({id \in Ids : owed[id]})

(* GetNewFlow never runs out of flow numbers while the limiter would still *)
(* grant a connection: the flow goes back before the connection does.      *)
NoFalseExhaustion == RequestGranted(connCount, MaxCurrentFlows) => Pool # {}

(* CleanMapAddrPort removes only entries that are expired at that moment,  *)
(* although it releases the shared locks between the entries: no packet    *)
(* refreshes an entry between the decision and the removal.                *)
OnlyExpiredReclaimed ==
  [][\A id \in Ids, ap \in Remotes :
       InMap(id, ap) /\ ~InMap(id, ap)' => EntryExpired(id, mToI[id][ap])]_vars

(* Outside's table implements the allocator of flow numbers. *)
Owner == [f \in Flows |->
            IF f \in MappedFlows
            THEN LET id == CHOOSE i \in Ids : mToR[i][f] # NoRemote
                 IN  <<id, mToR[id][f]>>
            ELSE NoRemote]

Allocator == INSTANCE FlowAllocator WITH owner <- Owner, Free <- NoRemote

ImplementsAllocator == Allocator!Spec

(* No packet of this remote passed in either direction for longer than     *)
(* both timeouts.                                                          *)
Dead(id, ap) ==
  /\ InMap(id, ap)
  /\ mToI[id][ap].timeToInside = AgeCap(id)
  /\ mToI[id][ap].timeToRemote \in {Never, AgeCap(id)}

(* Once Inside is silent for an Id, a dead entry of the Id does not stay:  *)
(* it is removed, or a packet of the remote revives it.  The timer is in   *)
(* state "message" after every message of Inside, and after nothing else.  *)
ReclaimedWhenInsideSilent ==
  \A id \in Ids, ap \in Remotes :
    <>[](timer[id] # "message") => (Dead(id, ap) ~> ~Dead(id, ap))
=============================================================================
