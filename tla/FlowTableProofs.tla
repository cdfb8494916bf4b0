-------------------------- MODULE FlowTableProofs --------------------------
(***************************************************************************)
(* Proofs about FlowTable, for any Ids, remotes, flow numbers and          *)
(* timeouts.  The inductive invariant joins the partition of the flow      *)
(* numbers, the agreement of the two maps, the counters, and the fact that *)
(* a running cleanup only holds entries that are still expired.            *)
(***************************************************************************)
EXTENDS FlowTable, FiniteSetTheorems, TLAPS

(* What a running CleanMapAddrPort still removes is expired. *)
ExpiredSound == \A id \in Ids : expired[id] \subseteq ExpiredEntries(id)

IInv ==
  /\ TypeOK
  /\ FlowsPartitioned
  /\ MapsAgree
  /\ CountsAgree
  /\ ExpiredSound

OwedIds == {id \in Ids : owed[id]}

-----------------------------------------------------------------------------

LEMMA MappedFinite ==
  /\ IsFiniteSet(MappedFlows)
  /\ Cardinality(MappedFlows) \in Nat
  /\ Cardinality(MappedFlows) <= Cardinality(Flows)
  /\ Cardinality(Flows) \in Nat
  BY FlowAssumption, FS_Subset, FS_CardinalityType DEF MappedFlows

LEMMA OwedFinite == IsFiniteSet(OwedIds) /\ Cardinality(OwedIds) \in Nat
  BY FlowAssumption, FS_Subset, FS_CardinalityType DEF OwedIds

(* Init establishes the invariant. *)
LEMMA InitInv == Init => IInv
<1> SUFFICES ASSUME Init PROVE IInv
  OBVIOUS
<1>1. TypeOK
  BY FlowAssumption, FS_CardinalityType DEF Init, TypeOK
<1>2. MappedFlows = {} /\ OwedIds = {}
  BY DEF Init, MappedFlows, OwedIds
<1>3. FlowsPartitioned
  BY <1>2 DEF Init, FlowsPartitioned
<1>4. MapsAgree
  BY DEF Init, MapsAgree, InMap
<1>5. CountsAgree
  BY <1>2, FS_EmptySet DEF Init, CountsAgree, OwedIds
<1>6. ExpiredSound
  BY DEF Init, ExpiredSound
<1> QED
  BY <1>1, <1>3, <1>4, <1>5, <1>6 DEF IInv

-----------------------------------------------------------------------------
(* The actions that leave the pool, mToR and owed alone. *)

LEMMA PoolKept ==
  ASSUME IInv, UNCHANGED <<poolVars, mToR, owed>>
  PROVE  FlowsPartitioned' /\ CountsAgree'
<1>1. MappedFlows' = MappedFlows
  BY DEF poolVars, MappedFlows
<1> QED
  BY <1>1 DEF IInv, FlowsPartitioned, CountsAgree, poolVars

(* Restamping one entry of an Id that no cleanup has locked. *)
LEMMA RestampInv ==
  ASSUME IInv, NEW id \in Ids, NEW ap \in Remotes, NEW new \in Entry,
         ~Cleaning(id), InMap(id, ap), new.flow = mToI[id][ap].flow,
         mToI' = [mToI EXCEPT ![id] = [mToI[id] EXCEPT ![ap] = new]],
         UNCHANGED <<poolVars, mToR, cleanVars>>,
         timer' \in [Ids -> {"message", "restarted", "due"}]
  PROVE  IInv'
<1> USE DEF cleanVars, poolVars
<1>1. [mToI[id] EXCEPT ![ap] = new] \in [Remotes -> Entry \cup {NoEntry}]
  BY DEF IInv, TypeOK
<1>2. mToI' \in [Ids -> [Remotes -> Entry \cup {NoEntry}]]
  BY <1>1 DEF IInv, TypeOK
<1>3. TypeOK'
  BY <1>2 DEF IInv, TypeOK
<1>4. ASSUME NEW i \in Ids, NEW r \in Remotes
      PROVE  /\ InMap(i, r)' <=> InMap(i, r)
             /\ InMap(i, r) => mToI'[i][r].flow = mToI[i][r].flow
  <2>1. CASE i = id /\ r = ap
    <3>1. mToI'[i][r] = new
      BY <2>1 DEF IInv, TypeOK
    <3> QED
      BY <2>1, <3>1, AbsentAssumption DEF InMap
  <2>2. CASE ~(i = id /\ r = ap)
    <3>1. mToI'[i][r] = mToI[i][r]
      BY <2>2 DEF IInv, TypeOK
    <3> QED
      BY <3>1 DEF InMap
  <2> QED
    BY <2>1, <2>2
<1>5. MapsAgree'
  BY <1>4 DEF IInv, TypeOK, MapsAgree
<1>6. ExpiredSound'
  <2> SUFFICES ASSUME NEW i \in Ids PROVE expired'[i] \subseteq ExpiredEntries(i)'
    BY DEF ExpiredSound
  <2>1. CASE i = id
    BY <2>1 DEF Cleaning
  <2>2. CASE i # id
    <3>1. mToI'[i] = mToI[i]
      BY <2>2 DEF IInv, TypeOK
    <3> QED
      BY <3>1 DEF IInv, ExpiredSound, ExpiredEntries, InMap
  <2> QED
    BY <2>1, <2>2
<1> QED
  BY <1>3, <1>5, <1>6, PoolKept DEF IInv

LEMMA KnownRemoteInv ==
  ASSUME IInv, NEW id \in Ids, NEW ap \in Remotes, KnownRemote(id, ap)
  PROVE  IInv'
<1> DEFINE new == [mToI[id][ap] EXCEPT !.timeToInside = 0]
<1>1. mToI[id][ap] \in Entry
  BY DEF KnownRemote, IInv, TypeOK, InMap
<1>2. new \in Entry /\ new.flow = mToI[id][ap].flow
  BY <1>1 DEF Entry
<1>3. mToI' = [mToI EXCEPT ![id] = [mToI[id] EXCEPT ![ap] = new]]
  BY DEF KnownRemote, IInv, TypeOK
<1>4. /\ ~Cleaning(id)
      /\ InMap(id, ap)
      /\ UNCHANGED <<poolVars, mToR, cleanVars>>
      /\ timer' \in [Ids -> {"message", "restarted", "due"}]
  BY DEF KnownRemote, IInv, TypeOK
<1> HIDE DEF new
<1> QED
  BY <1>2, <1>3, <1>4, RestampInv

LEMMA FromInsideInv ==
  ASSUME IInv, NEW id \in Ids, NEW f \in Flows, GetAddressPortFromFlow(id, f)
  PROVE  IInv'
<1>1. CASE mToR[id][f] = NoRemote
  <2>1. UNCHANGED <<poolVars, mapVars, cleanVars>> /\ timer' \in [Ids -> {"message", "restarted", "due"}]
    BY <1>1 DEF GetAddressPortFromFlow, IInv, TypeOK, mapVars
  <2> QED
    BY <2>1, PoolKept
    DEF IInv, TypeOK, MapsAgree, InMap, ExpiredSound, ExpiredEntries, poolVars, mapVars, cleanVars
<1>2. CASE mToR[id][f] # NoRemote
  <2> DEFINE ap == mToR[id][f]
             new == [mToI[id][ap] EXCEPT !.timeToRemote = 0]
  <2>1. ap \in Remotes /\ InMap(id, ap) /\ mToI[id][ap] \in Entry
    BY <1>2 DEF IInv, TypeOK, MapsAgree, InMap
  <2>2. new \in Entry /\ new.flow = mToI[id][ap].flow
    BY <2>1 DEF Entry
  <2>3. mToI' = [mToI EXCEPT ![id] = [mToI[id] EXCEPT ![ap] = new]]
    BY <1>2 DEF GetAddressPortFromFlow, IInv, TypeOK
  <2>4. /\ ~Cleaning(id)
        /\ UNCHANGED <<poolVars, mToR, cleanVars>>
        /\ timer' \in [Ids -> {"message", "restarted", "due"}]
    BY DEF GetAddressPortFromFlow, IInv, TypeOK
  <2> HIDE DEF new, ap
  <2> QED
    BY <2>1, <2>2, <2>3, <2>4, RestampInv
<1> QED
  BY <1>1, <1>2

LEMMA StartCleanInv ==
  ASSUME IInv, NEW id \in Ids, StartClean(id)
  PROVE  IInv'
<1> USE DEF StartClean, mapVars, poolVars
<1>1. TypeOK'
  BY DEF IInv, TypeOK, ExpiredEntries
<1>2. MapsAgree'
  BY DEF IInv, MapsAgree, InMap
<1>3. ExpiredSound'
  BY DEF IInv, TypeOK, ExpiredSound, ExpiredEntries, InMap
<1> QED
  BY <1>1, <1>2, <1>3, PoolKept DEF IInv

(* A second more keeps an entry an entry, with the same flow. *)
LEMMA TickedAge ==
  ASSUME NEW id \in Ids
  PROVE  /\ Ticked(id, Never) = Never
         /\ \A age \in Nat : Ticked(id, age) \in Nat /\ Ticked(id, age) >= age
  BY TimeoutAssumption DEF Ticked, AgeCap

LEMMA AgedEntry ==
  ASSUME NEW id \in Ids, NEW e \in Entry
  PROVE  /\ Aged(id, e) \in Entry
         /\ Aged(id, e).flow = e.flow
         /\ Aged(id, e).timeToRemote = Ticked(id, e.timeToRemote)
         /\ Aged(id, e).timeToInside = Ticked(id, e.timeToInside)
<1>1. Aged(id, e) = [e EXCEPT !.timeToRemote = Ticked(id, @), !.timeToInside = Ticked(id, @)]
  BY AbsentAssumption DEF Aged
<1>2. /\ Ticked(id, e.timeToRemote) \in Nat \cup {Never}
      /\ Ticked(id, e.timeToInside) \in Nat
  BY TickedAge DEF Entry
<1> QED
  BY <1>1, <1>2 DEF Entry

(* Ages only grow, so what is expired stays expired while time passes. *)
LEMMA TickInv ==
  ASSUME IInv, Tick
  PROVE  IInv'
<1> USE DEF Tick, cleanVars, poolVars
<1>4. ASSUME NEW id \in Ids, NEW e \in Entry, EntryExpired(id, e)
      PROVE  EntryExpired(id, Aged(id, e))
  <2>1. e.timeToInside \in Nat /\ e.timeToRemote \in Nat \cup {Never}
    BY DEF Entry
  <2>2. TimeOutSingleDirection[id] \in Nat /\ TimeOutBidirectional[id] \in Nat
    BY TimeoutAssumption
  <2>3. Aged(id, e).timeToInside >= e.timeToInside /\ Aged(id, e).timeToInside \in Nat
    BY TickedAge, AgedEntry, <2>1
  <2>4. CASE e.timeToRemote = Never
    <3>1. Aged(id, e).timeToRemote = Never
      BY TickedAge, AgedEntry, <2>4
    <3> QED
      BY <1>4, <2>1, <2>2, <2>3, <2>4, <3>1, AbsentAssumption
      DEF EntryExpired, TwoWayExpired, Older
  <2>5. CASE e.timeToRemote # Never
    <3>1. Aged(id, e).timeToRemote >= e.timeToRemote /\ Aged(id, e).timeToRemote \in Nat
      BY TickedAge, AgedEntry, <2>1, <2>5
    <3> QED
      BY <1>4, <2>1, <2>2, <2>3, <2>5, <3>1, AbsentAssumption
      DEF EntryExpired, TwoWayExpired, Older
  <2> QED
    BY <2>4, <2>5
<1>5. ASSUME NEW id \in Ids, NEW ap \in Remotes
      PROVE  /\ mToI'[id][ap] = Aged(id, mToI[id][ap])
             /\ mToI'[id][ap] \in Entry \cup {NoEntry}
             /\ InMap(id, ap)' <=> InMap(id, ap)
             /\ InMap(id, ap) => /\ mToI[id][ap] \in Entry
                                /\ mToI'[id][ap].flow = mToI[id][ap].flow
  <2>1. mToI'[id][ap] = Aged(id, mToI[id][ap])
    OBVIOUS
  <2>2. mToI[id][ap] \in Entry \cup {NoEntry}
    BY DEF IInv, TypeOK
  <2>3. CASE mToI[id][ap] = NoEntry
    <3>1. mToI'[id][ap] = NoEntry
      BY <2>1, <2>3 DEF Aged
    <3> QED
      BY <2>1, <2>3, <3>1 DEF InMap
  <2>4. CASE mToI[id][ap] \in Entry
    <3>1. /\ mToI'[id][ap] \in Entry
          /\ mToI'[id][ap].flow = mToI[id][ap].flow
      BY AgedEntry, <2>1, <2>4
    <3> QED
      BY <2>1, <2>4, <3>1, AbsentAssumption DEF InMap
  <2> QED
    BY <2>2, <2>3, <2>4
<1>6. TypeOK'
  <2>1. mToI' \in [Ids -> [Remotes -> Entry \cup {NoEntry}]]
    <3>1. ASSUME NEW id \in Ids
          PROVE  [ap \in Remotes |-> Aged(id, mToI[id][ap])] \in [Remotes -> Entry \cup {NoEntry}]
      BY <1>5
    <3> QED
      BY <3>1
  <2>2. timer' \in [Ids -> {"message", "restarted", "due"}]
    BY DEF IInv, TypeOK
  <2> QED
    BY <2>1, <2>2 DEF IInv, TypeOK
<1>. HIDE DEF Tick
<1>7. MapsAgree'
  <2>1. mToR' = mToR
    BY DEF Tick
  <2>2. ASSUME NEW id \in Ids, NEW ap \in Remotes
        PROVE  /\ InMap(id, ap)' <=> InMap(id, ap)
               /\ InMap(id, ap) => mToI'[id][ap].flow = mToI[id][ap].flow
    BY <1>5
  <2>3. ASSUME NEW id \in Ids, NEW f \in Flows, mToR[id][f] # NoRemote
        PROVE  InMap(id, mToR[id][f])' /\ mToI'[id][mToR[id][f]].flow = f
    <3>1. mToR[id][f] \in Remotes
      BY <2>3 DEF IInv, TypeOK
    <3> QED
      BY <2>1, <2>2, <2>3, <3>1 DEF IInv, MapsAgree, InMap
  <2>4. ASSUME NEW id \in Ids, NEW ap \in Remotes, InMap(id, ap)'
        PROVE  mToR[id][mToI'[id][ap].flow] = ap
    BY <2>2, <2>4 DEF IInv, MapsAgree
  <2> QED
    BY <2>1, <2>3, <2>4 DEF MapsAgree, InMap
<1>8. ExpiredSound'
  <2>1. expired' = expired
    BY DEF Tick
  <2> QED
    BY <1>4, <1>5, <2>1 DEF IInv, TypeOK, ExpiredSound, ExpiredEntries
<1> QED
  BY <1>6, <1>7, <1>8, PoolKept DEF Tick, IInv

-----------------------------------------------------------------------------
(* The actions on the pool. *)

LEMMA RefusedRemoteInv ==
  ASSUME IInv, NEW id \in Ids, NEW ap \in Remotes, RefusedRemote(id, ap)
  PROVE  IInv'
<1> USE DEF RefusedRemote, GetNewFlowFails, mapVars, cleanVars
<1>1. MappedFlows' = MappedFlows
  BY DEF MappedFlows
<1>2. TypeOK'
  BY DEF IInv, TypeOK, Pool, PoolRest
<1>3. FlowsPartitioned'
  BY <1>1 DEF IInv, FlowsPartitioned, Pool, PoolRest
<1>4. MapsAgree' /\ ExpiredSound'
  BY DEF IInv, MapsAgree, InMap, ExpiredSound, ExpiredEntries
<1>5. CountsAgree'
  BY <1>1 DEF IInv, CountsAgree
<1> QED
  BY <1>2, <1>3, <1>4, <1>5 DEF IInv

(* The new flow leaves the pool and enters both maps of one Id. *)
LEMMA NewRemoteInv ==
  ASSUME IInv, NEW id \in Ids, NEW ap \in Remotes, NEW f \in Flows, NewRemote(id, ap, f)
  PROVE  IInv'
<1> DEFINE new == [flow |-> f, timeToRemote |-> Never, timeToInside |-> 0]
<1>1. f \in Pool /\ f \notin MappedFlows
  BY DEF NewRemote, GetNewFlow, Pool, IInv, FlowsPartitioned
<1>2. new \in Entry /\ new.flow = f /\ new # NoEntry
  BY AbsentAssumption DEF Entry
<1>3. /\ mToI' = [mToI EXCEPT ![id] = [mToI[id] EXCEPT ![ap] = new]]
      /\ mToR' = [mToR EXCEPT ![id] = [mToR[id] EXCEPT ![f] = ap]]
  BY DEF NewRemote, IInv, TypeOK
<1> HIDE DEF new
<1>4. MappedFlows' = MappedFlows \cup {f}
  BY <1>3, AbsentAssumption DEF MappedFlows, IInv, TypeOK
<1>5. /\ nFlowsActive' = nFlowsActive + 1
      /\ connCount' = connCount + 1
      /\ connCount + 1 <= MaxCurrentFlows
      /\ owed' = owed /\ expired' = expired /\ timer' = timer
      /\ flowsAvailable' = Pool \ {f}
      /\ flowsReturned' = PoolRest
      /\ ~Cleaning(id) /\ ~InMap(id, ap)
  BY FlowAssumption, FS_CardinalityType
  DEF NewRemote, GetNewFlow, RequestGranted, AfterRequest, cleanVars, IInv, TypeOK
<1>6. TypeOK'
  <2>1. [mToI[id] EXCEPT ![ap] = new] \in [Remotes -> Entry \cup {NoEntry}]
    BY <1>2 DEF IInv, TypeOK
  <2>2. mToI' \in [Ids -> [Remotes -> Entry \cup {NoEntry}]]
    BY <1>3, <2>1 DEF IInv, TypeOK
  <2>3. mToR' \in [Ids -> [Flows -> Remotes \cup {NoRemote}]]
    BY <1>3 DEF IInv, TypeOK
  <2>4. connCount' \in 0..MaxCurrentFlows /\ nFlowsActive' \in Nat
    BY <1>5, FlowAssumption, FS_CardinalityType DEF IInv, TypeOK
  <2> QED
    BY <1>5, <2>2, <2>3, <2>4 DEF IInv, TypeOK, Pool, PoolRest
<1>7. FlowsPartitioned'
  <2>1. ASSUME NEW g \in Flows, NEW i \in Ids, NEW j \in Ids,
               mToR'[i][g] # NoRemote, mToR'[j][g] # NoRemote
        PROVE  i = j
    <3>1. CASE g = f
      BY <1>1, <1>3, <2>1, <3>1 DEF MappedFlows, IInv, TypeOK
    <3>2. CASE g # f
      <4>1. mToR'[i][g] = mToR[i][g] /\ mToR'[j][g] = mToR[j][g]
        BY <1>3, <3>2 DEF IInv, TypeOK
      <4> QED
        BY <2>1, <4>1 DEF IInv, FlowsPartitioned
    <3> QED
      BY <3>1, <3>2
  <2> QED
    BY <1>1, <1>4, <1>5, <2>1 DEF IInv, FlowsPartitioned, Pool, PoolRest
<1>8. MapsAgree'
  <2>1. ASSUME NEW i \in Ids, NEW r \in Remotes, InMap(i, r)'
        PROVE  mToR'[i][mToI'[i][r].flow] = r
    <3>1. CASE i = id /\ r = ap
      BY <1>2, <1>3, <3>1 DEF IInv, TypeOK
    <3>2. CASE ~(i = id /\ r = ap)
      <4>1. mToI'[i][r] = mToI[i][r] /\ InMap(i, r)
        BY <1>3, <2>1, <3>2 DEF IInv, TypeOK, InMap
      <4>2. mToI[i][r].flow \in Flows /\ mToR[i][mToI[i][r].flow] = r
        BY <4>1 DEF IInv, TypeOK, MapsAgree, InMap, Entry
      <4>3. mToI[i][r].flow # f
        BY <1>1, <4>2, AbsentAssumption DEF MappedFlows
      <4> QED
        BY <1>3, <4>1, <4>2, <4>3 DEF IInv, TypeOK
    <3> QED
      BY <3>1, <3>2
  <2>2. ASSUME NEW i \in Ids, NEW g \in Flows, mToR'[i][g] # NoRemote
        PROVE  InMap(i, mToR[i][g])' /\ mToI'[i][mToR'[i][g]].flow = g
    <3>1. CASE i = id /\ g = f
      <4>1. mToR'[i][g] = ap /\ mToI'[i][ap] = new
        BY <1>3, <3>1 DEF IInv, TypeOK
      <4> QED
        BY <1>2, <3>1, <4>1 DEF InMap
    <3>2. CASE ~(i = id /\ g = f)
      <4>1. mToR'[i][g] = mToR[i][g]
        BY <1>3, <3>2 DEF IInv, TypeOK
      <4>2. /\ mToR[i][g] \in Remotes
            /\ InMap(i, mToR[i][g])
            /\ mToI[i][mToR[i][g]].flow = g
        BY <2>2, <4>1 DEF IInv, TypeOK, MapsAgree
      <4>3. mToI'[i][mToR[i][g]] = mToI[i][mToR[i][g]]
        BY <1>3, <1>5, <4>2 DEF IInv, TypeOK
      <4> QED
        BY <4>1, <4>2, <4>3 DEF InMap
    <3> QED
      BY <3>1, <3>2
  <2> QED
    BY <2>1, <2>2 DEF MapsAgree, InMap
<1>9. CountsAgree'
  <2>1. Cardinality(MappedFlows') = Cardinality(MappedFlows) + 1
    BY <1>1, <1>4, MappedFinite, FS_AddElement
  <2> QED
    BY <1>5, <2>1, MappedFinite, OwedFinite DEF IInv, TypeOK, CountsAgree, OwedIds
<1>10. ExpiredSound'
  <2> SUFFICES ASSUME NEW i \in Ids PROVE expired'[i] \subseteq ExpiredEntries(i)'
    BY DEF ExpiredSound
  <2>1. CASE i = id
    BY <1>5, <2>1 DEF Cleaning
  <2>2. CASE i # id
    <3>1. mToI'[i] = mToI[i]
      BY <1>3, <2>2 DEF IInv, TypeOK
    <3> QED
      BY <1>5, <3>1 DEF IInv, ExpiredSound, ExpiredEntries, InMap
  <2> QED
    BY <2>1, <2>2
<1> QED
  BY <1>6, <1>7, <1>8, <1>9, <1>10 DEF IInv

(* A cleanup moves one flow from the maps to the pool; the connection it   *)
(* still owes keeps the counters in step.                                  *)
LEMMA CleanReturnFlowInv ==
  ASSUME IInv, NEW id \in Ids, NEW ap \in Remotes, CleanReturnFlow(id, ap)
  PROVE  IInv'
<1> DEFINE f == mToI[id][ap].flow
<1>1. /\ InMap(id, ap) /\ mToI[id][ap] \in Entry /\ f \in Flows
      /\ mToR[id][f] = ap /\ f \in MappedFlows
  <2>1. InMap(id, ap)
    BY DEF CleanReturnFlow, IInv, ExpiredSound, ExpiredEntries
  <2>2. mToI[id][ap] \in Entry /\ f \in Flows
    BY <2>1 DEF IInv, TypeOK, InMap, Entry
  <2> QED
    BY <2>1, <2>2, AbsentAssumption DEF IInv, MapsAgree, MappedFlows
<1>2. f \notin flowsReturned /\ f \notin flowsAvailable
  BY <1>1 DEF IInv, FlowsPartitioned
<1> HIDE DEF f
<1>3. /\ mToI' = [mToI EXCEPT ![id] = [mToI[id] EXCEPT ![ap] = NoEntry]]
      /\ mToR' = [mToR EXCEPT ![id] = [mToR[id] EXCEPT ![f] = NoRemote]]
      /\ expired' = [expired EXCEPT ![id] = expired[id] \ {ap}]
      /\ owed' = [owed EXCEPT ![id] = TRUE]
      /\ ~owed[id]
      /\ connCount' = connCount /\ timer' = timer
      /\ flowsAvailable' = flowsAvailable
      /\ flowsReturned' = flowsReturned \cup {f}
      /\ nFlowsActive' = nFlowsActive - 1
  BY <1>2 DEF CleanReturnFlow, DeleteFromMaps, ReturnFlow, IInv, TypeOK, f
<1>4. ASSUME NEW i \in Ids, NEW g \in Flows
      PROVE  mToR'[i][g] = IF i = id /\ g = f THEN NoRemote ELSE mToR[i][g]
  BY <1>3 DEF IInv, TypeOK
<1>5. MappedFlows' = MappedFlows \ {f}
  <2>1. ASSUME NEW i \in Ids, mToR[i][f] # NoRemote PROVE i = id
    BY <1>1, <2>1, AbsentAssumption DEF IInv, FlowsPartitioned
  <2> QED
    BY <1>4, <2>1 DEF MappedFlows
<1>6. Cardinality(MappedFlows') = Cardinality(MappedFlows) - 1
  BY <1>1, <1>5, MappedFinite, FS_RemoveElement
<1>7. Cardinality(MappedFlows) > 0
  BY <1>1, MappedFinite, FS_EmptySet
<1>8. TypeOK'
  <2>1. [mToI[id] EXCEPT ![ap] = NoEntry] \in [Remotes -> Entry \cup {NoEntry}]
    BY DEF IInv, TypeOK
  <2>2. mToI' \in [Ids -> [Remotes -> Entry \cup {NoEntry}]]
    BY <1>3, <2>1 DEF IInv, TypeOK
  <2>3. mToR' \in [Ids -> [Flows -> Remotes \cup {NoRemote}]]
    BY <1>3 DEF IInv, TypeOK
  <2>4. nFlowsActive' \in Nat
    BY <1>3, <1>7, MappedFinite DEF IInv, TypeOK, CountsAgree
  <2>5. expired' \in [Ids -> SUBSET Remotes] /\ owed' \in [Ids -> BOOLEAN]
    BY <1>3 DEF IInv, TypeOK
  <2> QED
    BY <1>1, <1>3, <2>2, <2>3, <2>4, <2>5 DEF IInv, TypeOK
<1>9. FlowsPartitioned'
  <2>1. ASSUME NEW g \in Flows, NEW i \in Ids, NEW j \in Ids,
               mToR'[i][g] # NoRemote, mToR'[j][g] # NoRemote
        PROVE  i = j
    BY <1>4, <2>1 DEF IInv, FlowsPartitioned
  <2> QED
    BY <1>1, <1>2, <1>3, <1>5, <2>1 DEF IInv, FlowsPartitioned
<1>10. ASSUME NEW i \in Ids, NEW r \in Remotes
       PROVE  mToI'[i][r] = IF i = id /\ r = ap THEN NoEntry ELSE mToI[i][r]
  BY <1>3 DEF IInv, TypeOK
<1>11. MapsAgree'
  <2>1. ASSUME NEW i \in Ids, NEW r \in Remotes, InMap(i, r)'
        PROVE  mToR'[i][mToI'[i][r].flow] = r
    <3>1. ~(i = id /\ r = ap) /\ mToI'[i][r] = mToI[i][r] /\ InMap(i, r)
      BY <1>10, <2>1 DEF InMap
    <3>2. mToI[i][r].flow \in Flows /\ mToR[i][mToI[i][r].flow] = r
      BY <3>1 DEF IInv, TypeOK, MapsAgree, InMap, Entry
    <3>3. ~(i = id /\ mToI[i][r].flow = f)
      BY <1>1, <3>1, <3>2
    <3> QED
      BY <1>4, <3>1, <3>2, <3>3
  <2>2. ASSUME NEW i \in Ids, NEW g \in Flows, mToR'[i][g] # NoRemote
        PROVE  InMap(i, mToR[i][g])' /\ mToI'[i][mToR'[i][g]].flow = g
    <3>1. ~(i = id /\ g = f) /\ mToR'[i][g] = mToR[i][g]
      BY <1>4, <2>2
    <3>2. /\ mToR[i][g] \in Remotes
          /\ InMap(i, mToR[i][g])
          /\ mToI[i][mToR[i][g]].flow = g
      BY <2>2, <3>1 DEF IInv, TypeOK, MapsAgree
    <3>3. ~(i = id /\ mToR[i][g] = ap)
      BY <3>1, <3>2 DEF f
    <3>4. mToI'[i][mToR[i][g]] = mToI[i][mToR[i][g]]
      BY <1>10, <3>2, <3>3
    <3> QED
      BY <3>1, <3>2, <3>4 DEF InMap
  <2> QED
    BY <2>1, <2>2 DEF MapsAgree, InMap
<1>12. CountsAgree'
  <2>1. OwedIds' = OwedIds \cup {id} /\ id \notin OwedIds
    BY <1>3 DEF OwedIds, IInv, TypeOK
  <2>2. Cardinality(OwedIds') = Cardinality(OwedIds) + 1
    BY <2>1, OwedFinite, FS_AddElement
  <2> QED
    BY <1>3, <1>6, <2>2, MappedFinite, OwedFinite DEF IInv, TypeOK, CountsAgree, OwedIds
<1>13. ExpiredSound'
  <2> SUFFICES ASSUME NEW i \in Ids, NEW r \in expired'[i]
               PROVE  r \in ExpiredEntries(i)'
    BY DEF ExpiredSound
  <2>1. r \in expired[i] /\ ~(i = id /\ r = ap)
    BY <1>3 DEF IInv, TypeOK
  <2>2. r \in ExpiredEntries(i)
    BY <2>1 DEF IInv, ExpiredSound
  <2>3. mToI'[i][r] = mToI[i][r]
    BY <1>10, <2>1, <2>2 DEF ExpiredEntries
  <2> QED
    BY <2>2, <2>3 DEF ExpiredEntries, InMap
<1> QED
  BY <1>8, <1>9, <1>11, <1>12, <1>13 DEF IInv

LEMMA CleanReleaseConnInv ==
  ASSUME IInv, NEW id \in Ids, CleanReleaseConn(id)
  PROVE  IInv'
<1>1. /\ UNCHANGED <<flowsAvailable, flowsReturned, nFlowsActive, mToI, mToR, expired, timer>>
      /\ owed' = [owed EXCEPT ![id] = FALSE]
      /\ owed[id]
      /\ connCount' = AfterRelease(connCount)
  BY DEF CleanReleaseConn, mapVars
<1>2. OwedIds' = OwedIds \ {id} /\ id \in OwedIds
  BY <1>1 DEF OwedIds, IInv, TypeOK
<1>3. Cardinality(OwedIds') = Cardinality(OwedIds) - 1 /\ Cardinality(OwedIds) > 0
  BY <1>2, OwedFinite, FS_RemoveElement, FS_EmptySet
<1>4. MappedFlows' = MappedFlows
  BY <1>1 DEF MappedFlows
<1>5. connCount' = connCount - 1 /\ connCount' \in 0..MaxCurrentFlows
  BY <1>1, <1>3, MappedFinite, OwedFinite, FlowAssumption
  DEF IInv, TypeOK, CountsAgree, AfterRelease, OwedIds
<1>6. CountsAgree'
  BY <1>1, <1>3, <1>4, <1>5, MappedFinite, OwedFinite DEF IInv, TypeOK, CountsAgree, OwedIds
<1>7. TypeOK'
  BY <1>1, <1>5 DEF IInv, TypeOK
<1>8. FlowsPartitioned'
  BY <1>1, <1>4 DEF IInv, FlowsPartitioned
<1>9. MapsAgree' /\ ExpiredSound'
  BY <1>1 DEF IInv, MapsAgree, InMap, ExpiredSound, ExpiredEntries
<1> QED
  BY <1>6, <1>7, <1>8, <1>9 DEF IInv

-----------------------------------------------------------------------------
(* Every step preserves the invariant. *)
LEMMA NextInv == IInv /\ [Next]_vars => IInv'
<1> SUFFICES ASSUME IInv, [Next]_vars PROVE IInv'
  OBVIOUS
<1>1. CASE UNCHANGED vars
  <2>1. UNCHANGED <<poolVars, mapVars, cleanVars, timer>>
    BY <1>1 DEF vars
  <2> QED
    BY <2>1, PoolKept
    DEF IInv, TypeOK, MapsAgree, InMap, ExpiredSound, ExpiredEntries, poolVars, mapVars, cleanVars
<1>2. ASSUME NEW id \in Ids, Receive(id) PROVE IInv'
  BY <1>2, KnownRemoteInv, NewRemoteInv, RefusedRemoteInv DEF Receive
<1>3. ASSUME NEW id \in Ids, FromInside(id) PROVE IInv'
  BY <1>3, FromInsideInv DEF FromInside
<1>4. ASSUME NEW id \in Ids, Clean(id) PROVE IInv'
  BY <1>4, StartCleanInv, CleanReturnFlowInv, CleanReleaseConnInv DEF Clean
<1>5. CASE Tick
  BY <1>5, TickInv
<1> QED
  BY <1>1, <1>2, <1>3, <1>4, <1>5 DEF Next

(* The invariant holds in every state. *)
THEOREM Invariance == Spec => []IInv
  BY InitInv, NextInv, PTL DEF Spec

(* The table is type correct; in particular the limiter's counter stays    *)
(* within the configured limit.                                            *)
THEOREM TypeCorrect == Spec => []TypeOK
<1>1. IInv => TypeOK
  BY DEF IInv
<1> QED
  BY <1>1, Invariance, PTL

(* No flow number is lost and none is held by two Ids, whatever the        *)
(* interleaving of the cleanups with the receivers of other Ids.           *)
THEOREM FlowConservation == Spec => []FlowsPartitioned
<1>1. IInv => FlowsPartitioned
  BY DEF IInv
<1> QED
  BY <1>1, Invariance, PTL

(* Answers find the remote whose packet carried the flow. *)
THEOREM MapsInverse == Spec => []MapsAgree
<1>1. IInv => MapsAgree
  BY DEF IInv
<1> QED
  BY <1>1, Invariance, PTL

(* The counters never drift from the maps. *)
THEOREM CountersExact == Spec => []CountsAgree
<1>1. IInv => CountsAgree
  BY DEF IInv
<1> QED
  BY <1>1, Invariance, PTL

(* While the limiter grants connections there is a flow number to give. *)
THEOREM PoolSuffices == Spec => []NoFalseExhaustion
<1>1. IInv => NoFalseExhaustion
  <2> SUFFICES ASSUME IInv, RequestGranted(connCount, MaxCurrentFlows), Pool = {}
               PROVE  FALSE
    BY DEF NoFalseExhaustion
  <2>1. MappedFlows = Flows
    BY DEF Pool, IInv, FlowsPartitioned
  <2>2. connCount >= Cardinality(Flows)
    BY <2>1, MappedFinite, OwedFinite DEF IInv, TypeOK, CountsAgree, OwedIds
  <2>3. connCount + 1 <= MaxCurrentFlows
    BY FlowAssumption, MappedFinite DEF RequestGranted
  <2> QED
    BY <2>2, <2>3, FlowAssumption, MappedFinite DEF IInv, TypeOK
<1> QED
  BY <1>1, Invariance, PTL

(* A cleanup removes no entry that a packet has refreshed. *)
THEOREM NoLiveFlowRemoved == Spec => OnlyExpiredReclaimed
<1> DEFINE Good == \A id \in Ids, ap \in Remotes :
                     InMap(id, ap) /\ ~InMap(id, ap)' => EntryExpired(id, mToI[id][ap])
<1>1. IInv /\ [Next]_vars => [Good]_vars
  <2> SUFFICES ASSUME IInv, Next, NEW id \in Ids, NEW ap \in Remotes,
                      InMap(id, ap), ~InMap(id, ap)'
               PROVE  EntryExpired(id, mToI[id][ap])
    OBVIOUS
  <2>1. ASSUME NEW i \in Ids, NEW r \in Remotes, CleanReturnFlow(i, r)
        PROVE  EntryExpired(id, mToI[id][ap])
    <3>1. i = id /\ r = ap
      BY <2>1 DEF CleanReturnFlow, DeleteFromMaps, InMap, IInv, TypeOK
    <3> QED
      BY <2>1, <3>1 DEF CleanReturnFlow, IInv, ExpiredSound, ExpiredEntries
  <2>2. ASSUME NEW i \in Ids, StartClean(i) \/ CleanReleaseConn(i) PROVE FALSE
    BY <2>2 DEF StartClean, CleanReleaseConn, mapVars, InMap
  <2>3. ASSUME NEW i \in Ids, NEW r \in Remotes, RefusedRemote(i, r) PROVE FALSE
    BY <2>3 DEF RefusedRemote, mapVars, InMap
  <2>4. ASSUME NEW i \in Ids, NEW r \in Remotes, NEW f \in Flows, NewRemote(i, r, f)
        PROVE  FALSE
    <3>1. [flow |-> f, timeToRemote |-> Never, timeToInside |-> 0] \in Entry
      BY DEF Entry
    <3> QED
      BY <2>4, <3>1, AbsentAssumption DEF NewRemote, InMap, IInv, TypeOK
  <2>5. ASSUME NEW i \in Ids, NEW r \in Remotes, KnownRemote(i, r) PROVE FALSE
    <3>1. mToI[i][r] \in Entry
      BY <2>5 DEF KnownRemote, InMap, IInv, TypeOK
    <3>2. [mToI[i][r] EXCEPT !.timeToInside = 0] \in Entry
      BY <3>1 DEF Entry
    <3> QED
      BY <2>5, <3>2, AbsentAssumption DEF KnownRemote, InMap, IInv, TypeOK
  <2>6. ASSUME NEW i \in Ids, NEW f \in Flows, GetAddressPortFromFlow(i, f) PROVE FALSE
    <3>1. CASE mToR[i][f] = NoRemote
      BY <2>6, <3>1 DEF GetAddressPortFromFlow, InMap
    <3>2. CASE mToR[i][f] # NoRemote
      <4>1. mToR[i][f] \in Remotes /\ mToI[i][mToR[i][f]] \in Entry
        BY <3>2 DEF IInv, TypeOK, MapsAgree, InMap
      <4>2. [mToI[i][mToR[i][f]] EXCEPT !.timeToRemote = 0] \in Entry
        BY <4>1 DEF Entry
      <4> QED
        BY <2>6, <3>2, <4>1, <4>2, AbsentAssumption DEF GetAddressPortFromFlow, InMap, IInv, TypeOK
    <3> QED
      BY <3>1, <3>2
  <2>7. CASE Tick
    <3>1. mToI'[id][ap] = Aged(id, mToI[id][ap]) /\ mToI[id][ap] \in Entry
      BY <2>7 DEF Tick, InMap, IInv, TypeOK
    <3>2. mToI'[id][ap] = NoEntry
      BY DEF InMap
    <3> QED
      BY <3>1, <3>2, AgedEntry, AbsentAssumption
  <2> QED
    BY <2>1, <2>2, <2>3, <2>4, <2>5, <2>6, <2>7 DEF Next, Receive, FromInside, Clean
<1> QED
  BY <1>1, Invariance, PTL DEF Spec, OnlyExpiredReclaimed, Good

-----------------------------------------------------------------------------
(* The table implements the allocator of flow numbers. *)

(* Cardinality means the same inside the instance. *)
LEMMA SameCardinality == \A S : Allocator!Cardinality(S) = Cardinality(S)
  BY DEF Cardinality, Allocator!Cardinality

LEMMA OwnerInit == Init => Allocator!Init
<1> SUFFICES ASSUME Init PROVE Allocator!Init
  OBVIOUS
<1>1. MappedFlows = {}
  BY DEF Init, MappedFlows
<1> QED
  BY <1>1 DEF Allocator!Init, Owner

LEMMA OwnerStep ==
  ASSUME IInv, IInv', [Next]_vars
  PROVE  [Allocator!Next]_Owner
<1>1. ASSUME NEW i \in Ids, NEW g \in Flows, mToR[i][g] # NoRemote
      PROVE  Owner[g] = <<i, mToR[i][g]>> /\ Owner[g] \in Ids \X Remotes
  BY <1>1 DEF Owner, MappedFlows, IInv, TypeOK, FlowsPartitioned
<1>2. ASSUME NEW g \in Flows, g \notin MappedFlows PROVE Owner[g] = NoRemote
  BY <1>2 DEF Owner
<1>3. ASSUME NEW i \in Ids, NEW g \in Flows, mToR'[i][g] # NoRemote
      PROVE  Owner'[g] = <<i, mToR'[i][g]>>
  BY <1>3 DEF Owner, MappedFlows, IInv, TypeOK, FlowsPartitioned
<1>4. ASSUME NEW g \in Flows, g \notin MappedFlows' PROVE Owner'[g] = NoRemote
  BY <1>4 DEF Owner
<1>5. ASSUME mToR' = mToR PROVE Owner' = Owner
  BY <1>5 DEF Owner, MappedFlows
<1>6. Owner = [g \in Flows |-> Owner[g]] /\ Owner' = [g \in Flows |-> Owner'[g]]
  BY DEF Owner
<1>7. ASSUME NEW id \in Ids, NEW ap \in Remotes, NEW f \in Flows, NewRemote(id, ap, f)
      PROVE  Allocator!Allocate(f, <<id, ap>>)
  <2>1. /\ f \notin MappedFlows
        /\ ~InMap(id, ap)
        /\ connCount + 1 <= MaxCurrentFlows
    BY <1>7, FlowAssumption, FS_CardinalityType
    DEF NewRemote, GetNewFlow, Pool, RequestGranted, IInv, FlowsPartitioned
  <2>2. \A g \in Flows : mToR'[id][g] = IF g = f THEN ap ELSE mToR[id][g]
    BY <1>7 DEF NewRemote, IInv, TypeOK
  <2>3. \A i \in Ids \ {id} : mToR'[i] = mToR[i]
    BY <1>7 DEF NewRemote, IInv, TypeOK
  <2>4. Owner[f] = NoRemote
    BY <1>2, <2>1
  <2>5. ASSUME NEW g \in Flows PROVE Owner[g] # <<id, ap>>
    <3>1. CASE g \in MappedFlows
      <4>1. PICK i \in Ids : mToR[i][g] # NoRemote
        BY <3>1 DEF MappedFlows
      <4>2. mToR[i][g] \in Remotes /\ InMap(i, mToR[i][g])
        BY <4>1 DEF IInv, TypeOK, MapsAgree
      <4> QED
        BY <1>1, <2>1, <4>1, <4>2
    <3>2. CASE g \notin MappedFlows
      BY <1>2, <3>2, AbsentAssumption
    <3> QED
      BY <3>1, <3>2
  <2>6. Allocator!Held = MappedFlows
    <3>1. \A g \in MappedFlows : Owner[g] # NoRemote
      BY <1>1, AbsentAssumption DEF MappedFlows
    <3> QED
      BY <1>2, <3>1 DEF Allocator!Held, MappedFlows
  <2>7. Cardinality(MappedFlows) < MaxCurrentFlows
    BY <2>1, MappedFinite, OwedFinite, FlowAssumption DEF IInv, TypeOK, CountsAgree, OwedIds
  <2>8. ASSUME NEW g \in Flows
        PROVE  Owner'[g] = IF g = f THEN <<id, ap>> ELSE Owner[g]
    <3>1. CASE g = f
      BY <1>3, <2>2, <3>1, AbsentAssumption
    <3>2. CASE g # f /\ g \in MappedFlows
      <4>1. PICK i \in Ids : mToR[i][g] # NoRemote
        BY <3>2 DEF MappedFlows
      <4>2. mToR'[i][g] = mToR[i][g]
        BY <2>2, <2>3, <3>2
      <4> QED
        BY <1>1, <1>3, <3>2, <4>1, <4>2
    <3>3. CASE g # f /\ g \notin MappedFlows
      <4>1. g \notin MappedFlows'
        BY <2>2, <2>3, <3>3 DEF MappedFlows
      <4> QED
        BY <1>2, <1>4, <3>3, <4>1
    <3> QED
      BY <3>1, <3>2, <3>3
  <2>9. Owner' = [Owner EXCEPT ![f] = <<id, ap>>]
    BY <1>6, <2>8
  <2> QED
    BY <2>4, <2>5, <2>6, <2>7, <2>9, SameCardinality DEF Allocator!Allocate
<1>8. ASSUME NEW id \in Ids, NEW ap \in Remotes, CleanReturnFlow(id, ap)
      PROVE  \E f \in Flows : Allocator!Reclaim(f)
  <2> DEFINE f == mToI[id][ap].flow
  <2>1. InMap(id, ap)
    BY <1>8 DEF CleanReturnFlow, IInv, ExpiredSound, ExpiredEntries
  <2>2. f \in Flows /\ mToR[id][f] = ap
    BY <2>1 DEF IInv, TypeOK, MapsAgree, InMap, Entry
  <2>3. ASSUME NEW i \in Ids, NEW g \in Flows
        PROVE  mToR'[i][g] = IF i = id /\ g = f THEN NoRemote ELSE mToR[i][g]
    BY <1>8, <2>2 DEF CleanReturnFlow, DeleteFromMaps, IInv, TypeOK
  <2> HIDE DEF f
  <2>4. Owner[f] # NoRemote
    BY <1>1, <2>2, AbsentAssumption
  <2>5. ASSUME NEW g \in Flows
        PROVE  Owner'[g] = IF g = f THEN NoRemote ELSE Owner[g]
    <3>1. CASE g = f
      <4>1. ASSUME NEW i \in Ids, mToR'[i][f] # NoRemote PROVE FALSE
        <5>1. i # id /\ mToR[i][f] # NoRemote
          BY <2>2, <2>3, <4>1
        <5> QED
          BY <2>2, <5>1, AbsentAssumption DEF IInv, FlowsPartitioned
      <4>2. f \notin MappedFlows'
        BY <4>1 DEF MappedFlows
      <4> QED
        BY <1>4, <3>1, <4>2
    <3>2. CASE g # f /\ g \in MappedFlows
      <4>1. PICK i \in Ids : mToR[i][g] # NoRemote
        BY <3>2 DEF MappedFlows
      <4>2. mToR'[i][g] = mToR[i][g]
        BY <2>3, <3>2
      <4> QED
        BY <1>1, <1>3, <3>2, <4>1, <4>2
    <3>3. CASE g # f /\ g \notin MappedFlows
      <4>1. g \notin MappedFlows'
        BY <2>3, <3>3 DEF MappedFlows
      <4> QED
        BY <1>2, <1>4, <3>3, <4>1
    <3> QED
      BY <3>1, <3>2, <3>3
  <2>6. Owner' = [Owner EXCEPT ![f] = NoRemote]
    BY <1>6, <2>5
  <2> QED
    BY <2>2, <2>4, <2>6 DEF Allocator!Reclaim
<1>9. ASSUME mToR' # mToR
      PROVE  \/ \E id \in Ids, ap \in Remotes, f \in Flows : NewRemote(id, ap, f)
             \/ \E id \in Ids, ap \in Remotes : CleanReturnFlow(id, ap)
  BY <1>9 DEF Next, Receive, FromInside, Clean, KnownRemote, RefusedRemote,
              GetAddressPortFromFlow, StartClean, CleanReleaseConn, Tick, vars, mapVars
<1> QED
  <2>1. CASE mToR' = mToR
    BY <1>5, <2>1
  <2>2. ASSUME NEW id \in Ids, NEW ap \in Remotes, NEW f \in Flows, NewRemote(id, ap, f)
        PROVE  Allocator!Next
    <3>1. <<id, ap>> \in Allocator!Users
      BY DEF Allocator!Users
    <3> QED
      BY <1>7, <2>2, <3>1 DEF Allocator!Next
  <2>3. ASSUME NEW id \in Ids, NEW ap \in Remotes, CleanReturnFlow(id, ap)
        PROVE  Allocator!Next
    BY <1>8, <2>3 DEF Allocator!Next
  <2> QED
    BY <1>9, <2>1, <2>2, <2>3

(* Whoever uses the table may think of it as the allocator. *)
THEOREM Refinement == Spec => ImplementsAllocator
<1>1. IInv /\ IInv' /\ [Next]_vars => [Allocator!Next]_Owner
  BY OwnerStep
<1> QED
  BY <1>1, OwnerInit, Invariance, PTL DEF Spec, ImplementsAllocator, Allocator!Spec
=============================================================================
