--------------------------- MODULE UdpTunnelProofs ---------------------------
(***************************************************************************)
(* Proofs about UdpTunnel, for any remotes, flow numbers, timeouts and     *)
(* delays: a number that rested for KeepTime is clean.  The inductive      *)
(* invariant bounds, for every number, the time since it was last used by  *)
(* what is left of it: a datagram in the funnel by its age, a channel by   *)
(* its timestamps and the time since the last Cleanup, and a socket that   *)
(* outlives the request to terminate by KeepTime itself.                   *)
(* When Inside ends a channel adds StampsAgree, which compares what the two *)
(* sides know of the last packet of a number, and AnswersAgree, which      *)
(* compares what they know of the last answer.                             *)
(***************************************************************************)
EXTENDS UdpTunnel, FiniteSetTheorems, TLAPS

(* TypeOK in parts, one for each group of variables that actions change    *)
(* together, with the caps of the timestamps of a channel.                 *)
OutsideTyped ==
  /\ owner \in [Flows -> Remotes \cup {Free}]
  /\ timeToInside \in [Flows -> 0..AgeCap]
  /\ timeToRemote \in [Flows -> 0..AgeCap \cup {Never}]
  /\ rested \in [Flows -> BOOLEAN]

InsideTyped ==
  /\ table \in [Flows -> UDPConnToLocal \cup {NoEntry}]
  /\ heard \in [Flows -> SUBSET Remotes]
  /\ unnoticed \in SUBSET Flows /\ sinceCleanUp \in 0..CleanUpCap

AgesCapped ==
  \A f \in Flows : InMap(f) =>
    /\ table[f].TimePacketToLocal \in 0..AgeCap
    /\ table[f].TimePacketToOutside \in 0..AgeCap \cup {Never}

SidesTyped == up \in SUBSET Sides /\ met \in SUBSET up
OutsideDown == "Outside" \notin up => \A f \in Flows : owner[f] = Free
InsideDown == "Inside" \notin up => \A f \in Flows : ~InMap(f) /\ heard[f] = {}

FunnelTyped ==
  IsFiniteSet(net) /\ net \in SUBSET Datagram /\ Cardinality(net) <= MaxInFlight

HistoryTyped == unused \in [Flows -> 0..(KeepTime + 1)] /\ lost \in BOOLEAN

OwnedIsUsed == \A f \in Flows : owner[f] # Free => unused[f] = 0

FunnelFresh == \A d \in net : unused[d.flow] <= d.age

ChannelFresh ==
  \A f \in Flows : HasChannel(f) =>
    /\ table[f].TimePacketToLocal < AgeCap =>
         unused[f] <= MaxDelay + table[f].TimePacketToLocal
    /\ table[f].TimePacketToOutside # Never /\ table[f].TimePacketToOutside < AgeCap =>
         unused[f] <= table[f].TimePacketToOutside
    /\ TimedOut(f) => unused[f] <= MaxDelay + Longest + sinceCleanUp

SocketFresh ==
  \A f \in Flows : heard[f] # {} =>
    /\ InMap(f)
    /\ table[f].RequestTermination =>
         /\ unused[f] <= KeepTime
         /\ f \in unnoticed => unused[f] < KeepTime

RestedIsOwned == \A f \in Flows : rested[f] => owner[f] # Free

IInv ==
  /\ OutsideTyped /\ InsideTyped /\ AgesCapped
  /\ SidesTyped /\ OutsideDown /\ InsideDown
  /\ FunnelTyped /\ HistoryTyped
  /\ OwnedIsUsed /\ RestedIsOwned
  /\ FunnelFresh /\ ChannelFresh /\ SocketFresh
  /\ RestedNumberIsClean

-----------------------------------------------------------------------------
(* The bounds. *)

LEMMA Numbers ==
  /\ Longest \in Nat /\ Single <= Longest /\ Bidirectional <= Longest
  /\ AgeCap \in Nat /\ AgeCap = Longest + 1
  /\ CleanUpCap \in Nat /\ CleanUpCap >= 2
  /\ KeepTime \in Nat /\ KeepTime = MaxDelay + Longest + 1 + CleanUpCap
  /\ MaxDelay \in Nat /\ MaxInFlight \in Nat
  /\ CleanUpInterval \in Nat /\ CleanUpCap = 2 * CleanUpInterval + 2
  BY TunnelAssumption DEF Longest, AgeCap, CleanUpCap, KeepTime

LEMMA EntryIsNoHole == \A e \in UDPConnToLocal : e # NoEntry
  BY TunnelAssumption

(* Whatever channel there is, its number was used not long before the      *)
(* timeout.                                                                *)
LEMMA ChannelBound ==
  ASSUME IInv, NEW f \in Flows, HasChannel(f)
  PROVE  /\ unused[f] <= MaxDelay + Longest + sinceCleanUp
         /\ ~TimedOut(f) => unused[f] <= MaxDelay + Longest
<1>1. table[f] \in UDPConnToLocal /\ unused[f] \in Nat /\ sinceCleanUp \in Nat
  BY Numbers DEF IInv, InsideTyped, HistoryTyped, HasChannel, InMap
<1>2. /\ table[f].TimePacketToLocal \in 0..AgeCap
      /\ table[f].TimePacketToOutside \in 0..AgeCap \cup {Never}
  BY DEF IInv, AgesCapped, HasChannel
<1>3. ASSUME ~TimedOut(f) PROVE unused[f] <= MaxDelay + Longest
  <2>1. CASE table[f].TimePacketToLocal < AgeCap
    BY <1>1, <1>2, <2>1, Numbers DEF IInv, ChannelFresh
  <2>2. CASE table[f].TimePacketToLocal = AgeCap
    <3>1. table[f].TimePacketToOutside # Never /\ table[f].TimePacketToOutside < AgeCap
      BY <1>2, <1>3, <2>2, Numbers, TunnelAssumption DEF TimedOut
    <3> QED
      BY <1>1, <1>2, <3>1, Numbers DEF IInv, ChannelFresh
  <2> QED
    BY <1>2, <2>1, <2>2, Numbers
<1>4. TimedOut(f) => unused[f] <= MaxDelay + Longest + sinceCleanUp
  BY DEF IInv, ChannelFresh
<1> QED
  BY <1>1, <1>3, <1>4, Numbers

(* What is left of a number that nobody uses is gone after KeepTime. *)
LEMMA NothingLeft ==
  ASSUME IInv, NEW f \in Flows, unused[f] > KeepTime
  PROVE  heard[f] = {} /\ \A d \in net : d.flow # f
<1>1. unused[f] \in Nat /\ sinceCleanUp \in 0..CleanUpCap
  BY Numbers DEF IInv, InsideTyped, HistoryTyped
<1>2. ASSUME heard[f] # {} PROVE FALSE
  <2>1. InMap(f) /\ (table[f].RequestTermination => unused[f] <= KeepTime)
    BY <1>2 DEF IInv, SocketFresh
  <2>2. HasChannel(f)
    BY <1>1, <2>1, Numbers DEF HasChannel
  <2> QED
    BY <1>1, <2>2, ChannelBound, Numbers
<1>3. ASSUME NEW d \in net, d.flow = f PROVE FALSE
  <2>1. d.age \in 0..MaxDelay
    BY DEF IInv, FunnelTyped, Datagram
  <2>2. unused[f] <= d.age
    BY <1>3 DEF IInv, FunnelFresh
  <2> QED
    BY <1>1, <2>1, <2>2, Numbers
<1> QED
  BY <1>2, <1>3

LEMMA InitInv == Init => IInv
<1> SUFFICES ASSUME Init PROVE IInv
  OBVIOUS
<1> USE DEF Init
<1>1. FunnelTyped
  <2>1. IsFiniteSet(net) /\ Cardinality(net) = 0
    BY FS_EmptySet
  <2> QED
    BY <2>1, Numbers DEF FunnelTyped
<1>2. OutsideTyped /\ InsideTyped /\ SidesTyped /\ HistoryTyped
  <2>1. OutsideTyped
    BY Numbers DEF OutsideTyped
  <2>2. InsideTyped
    BY Numbers DEF InsideTyped
  <2>3. HistoryTyped
    <3>1. unused \in [Flows -> 0..(KeepTime + 1)]
      BY Numbers
    <3> QED
      BY <3>1 DEF HistoryTyped
  <2> QED
    BY <2>1, <2>2, <2>3 DEF SidesTyped
<1>3. \A f \in Flows : ~InMap(f) /\ heard[f] = {} /\ owner[f] = Free /\ ~rested[f]
  BY DEF InMap
<1> QED
  BY <1>1, <1>2, <1>3
  DEF IInv, AgesCapped, OutsideDown, InsideDown, OwnedIsUsed, RestedIsOwned, FunnelFresh,
      ChannelFresh, SocketFresh, RestedNumberIsClean, HasChannel

-----------------------------------------------------------------------------
(* Parts that several actions keep. *)

NotOlder == \A f \in Flows : unused'[f] \in Nat /\ unused'[f] <= unused[f]

LEMMA UnusedKept ==
  ASSUME IInv, unused' = unused
  PROVE  NotOlder
  BY Numbers DEF IInv, HistoryTyped, NotOlder

LEMMA UnusedReset ==
  ASSUME IInv, NEW f \in Flows, unused' = [unused EXCEPT ![f] = 0]
  PROVE  /\ NotOlder
         /\ unused' \in [Flows -> 0..(KeepTime + 1)]
         /\ \A g \in Flows : unused'[g] = IF g = f THEN 0 ELSE unused[g]
<1>1. /\ unused \in [Flows -> 0..(KeepTime + 1)]
      /\ \A g \in Flows : unused[g] \in Nat
  BY Numbers DEF IInv, HistoryTyped
<1>2. \A g \in Flows : unused'[g] = IF g = f THEN 0 ELSE unused[g]
  BY <1>1
<1>3. unused' \in [Flows -> 0..(KeepTime + 1)]
  BY <1>1, Numbers
<1> QED
  BY <1>1, <1>2, <1>3 DEF NotOlder

(* Outside stays as it is. *)
LEMMA OutsideKept ==
  ASSUME IInv, UNCHANGED <<outsideVars, rested>>
  PROVE  OutsideTyped' /\ RestedIsOwned'
  BY DEF IInv, OutsideTyped, RestedIsOwned, outsideVars

(* Inside stays as it is, and no number is older than before. *)
LEMMA InsideKept ==
  ASSUME IInv, UNCHANGED insideVars, NotOlder
  PROVE  InsideTyped' /\ AgesCapped' /\ ChannelFresh' /\ SocketFresh'
<1> USE DEF insideVars
<1>1. \A f \in Flows : unused[f] \in Nat /\ unused'[f] \in Nat /\ unused'[f] <= unused[f]
  BY Numbers DEF IInv, HistoryTyped, NotOlder
<1>2. InsideTyped' /\ AgesCapped' /\ sinceCleanUp \in Nat
  BY Numbers DEF IInv, InsideTyped, AgesCapped, InMap
<1>3. ChannelFresh'
  <2> SUFFICES ASSUME NEW f \in Flows, HasChannel(f)
      PROVE  /\ table[f].TimePacketToLocal < AgeCap =>
                  unused'[f] <= MaxDelay + table[f].TimePacketToLocal
             /\ table[f].TimePacketToOutside # Never /\ table[f].TimePacketToOutside < AgeCap =>
                  unused'[f] <= table[f].TimePacketToOutside
             /\ TimedOut(f) => unused'[f] <= MaxDelay + Longest + sinceCleanUp
    BY DEF ChannelFresh, HasChannel, InMap, TimedOut
  <2>1. /\ table[f].TimePacketToLocal \in Nat
        /\ table[f].TimePacketToOutside \in Nat \cup {Never}
    BY Numbers DEF IInv, AgesCapped, HasChannel
  <2> QED
    BY <1>1, <1>2, <2>1, Numbers DEF IInv, ChannelFresh
<1>4. SocketFresh'
  BY <1>1, Numbers DEF IInv, SocketFresh, InMap
<1> QED
  BY <1>2, <1>3, <1>4

LEMMA FunnelKept ==
  ASSUME IInv, net' \in SUBSET net, NotOlder
  PROVE  FunnelTyped' /\ FunnelFresh'
<1>1. \A d \in net : d.flow \in Flows /\ d.age \in Nat /\ unused[d.flow] \in Nat
  BY Numbers DEF IInv, FunnelTyped, HistoryTyped, Datagram
<1>2. FunnelFresh'
  BY <1>1 DEF IInv, FunnelFresh, NotOlder
<1>3. IsFiniteSet(net') /\ Cardinality(net') <= Cardinality(net)
  BY FS_Subset DEF IInv, FunnelTyped
<1>4. Cardinality(net') \in Nat /\ Cardinality(net) \in Nat
  BY <1>3, FS_CardinalityType DEF IInv, FunnelTyped
<1> QED
  BY <1>2, <1>3, <1>4, Numbers DEF IInv, FunnelTyped

LEMMA SendKeepsFunnel ==
  ASSUME IInv, NEW to \in Sides, NEW f \in Flows, NEW r \in Remotes, Send(to, f, r),
         unused' = [unused EXCEPT ![f] = 0]
  PROVE  /\ FunnelTyped' /\ FunnelFresh'
         /\ \A d \in net' : d \in net \/ (d.flow = f /\ d.remote = r)
<1> DEFINE new == [to |-> to, flow |-> f, remote |-> r, age |-> 0]
<1>1. new \in Datagram /\ new.age = 0 /\ new.flow = f /\ new.remote = r
  BY Numbers DEF Datagram
<1>2. net' = net \cup {new} /\ Cardinality(net) < MaxInFlight
  BY DEF Send
<1> HIDE DEF new
<1>3. /\ IsFiniteSet(net')
      /\ Cardinality(net') = Cardinality(net) \/ Cardinality(net') = Cardinality(net) + 1
  BY <1>2, FS_AddElement DEF IInv, FunnelTyped
<1>4. Cardinality(net') \in Nat /\ Cardinality(net) \in Nat
  BY <1>3, FS_CardinalityType DEF IInv, FunnelTyped
<1>5. Cardinality(net') <= MaxInFlight
  BY <1>2, <1>3, <1>4, Numbers
<1>6. net' \in SUBSET Datagram
  BY <1>1, <1>2 DEF IInv, FunnelTyped
<1>7. \A d \in net : d.flow \in Flows /\ d.age \in Nat /\ unused[d.flow] \in Nat
  BY Numbers DEF IInv, FunnelTyped, HistoryTyped, Datagram
<1>8. FunnelFresh'
  <2>1. \A g \in Flows : unused'[g] = IF g = f THEN 0 ELSE unused[g]
    BY UnusedReset
  <2> SUFFICES ASSUME NEW d \in net' PROVE unused'[d.flow] <= d.age
    BY DEF FunnelFresh
  <2>2. CASE d = new
    BY <1>1, <2>1, <2>2
  <2>3. CASE d \in net
    BY <1>7, <2>1, <2>3 DEF IInv, FunnelFresh
  <2> QED
    BY <1>2, <2>2, <2>3
<1> QED
  BY <1>1, <1>2, <1>3, <1>5, <1>6, <1>8 DEF FunnelTyped

-----------------------------------------------------------------------------
(* Outside. *)

LEMMA ForwardKeepsFunnel ==
  ASSUME IInv, NEW f \in Flows, NEW r \in Remotes, Forward(f, r),
         unused' = [unused EXCEPT ![f] = 0]
  PROVE  /\ FunnelTyped' /\ FunnelFresh'
         /\ \A d \in net' : d \in net \/ (d.flow = f /\ d.remote = r)
         /\ timeToInside' \in [Flows -> 0..AgeCap] /\ lost' \in BOOLEAN
<1>1. timeToInside' \in [Flows -> 0..AgeCap]
  BY Numbers DEF Forward, IInv, OutsideTyped
<1>2. CASE "Outside" \in met
  BY <1>1, <1>2, SendKeepsFunnel DEF Forward, Sides, IInv, HistoryTyped
<1>3. CASE "Outside" \notin met
  BY <1>1, <1>3, UnusedReset, FunnelKept DEF Forward
<1> QED
  BY <1>2, <1>3

LEMMA PacketOfOwnerInv ==
  ASSUME IInv, NEW r \in Remotes, PacketOfOwner(r)
  PROVE  IInv'
<1>1. PICK f \in Flows : owner[f] = r /\ Forward(f, r)
  BY DEF PacketOfOwner, Owns
<1>2. UNCHANGED <<owner, timeToRemote, insideVars, sideVars, unused, rested>>
  BY DEF PacketOfOwner
<1>3. unused' = [unused EXCEPT ![f] = 0]
  BY <1>1, <1>2, TunnelAssumption DEF IInv, OwnedIsUsed, HistoryTyped
<1>4. /\ FunnelTyped' /\ FunnelFresh'
      /\ \A d \in net' : d \in net \/ (d.flow = f /\ d.remote = r)
      /\ timeToInside' \in [Flows -> 0..AgeCap] /\ lost' \in BOOLEAN
  BY <1>1, <1>3, ForwardKeepsFunnel
<1>5. OutsideTyped' /\ HistoryTyped' /\ RestedIsOwned' /\ OwnedIsUsed'
  BY <1>2, <1>4 DEF IInv, OutsideTyped, HistoryTyped, RestedIsOwned, OwnedIsUsed
<1>6. SidesTyped' /\ OutsideDown' /\ InsideDown'
  BY <1>2 DEF IInv, SidesTyped, OutsideDown, InsideDown, sideVars, insideVars, InMap
<1>7. RestedNumberIsClean'
  BY <1>1, <1>2, <1>4 DEF IInv, RestedNumberIsClean, insideVars
<1>8. InsideTyped' /\ AgesCapped' /\ ChannelFresh' /\ SocketFresh'
  BY <1>2, InsideKept, UnusedKept
<1> QED
  BY <1>4, <1>5, <1>6, <1>7, <1>8 DEF IInv

LEMMA PacketOfNewcomerInv ==
  ASSUME IInv, NEW r \in Remotes, PacketOfNewcomer(r)
  PROVE  IInv'
<1>1. PICK f \in Flows :
        /\ owner[f] = Free
        /\ owner' = [owner EXCEPT ![f] = r]
        /\ timeToRemote' = [timeToRemote EXCEPT ![f] = Never]
        /\ Forward(f, r)
        /\ rested' = [rested EXCEPT ![f] = unused[f] > KeepTime]
        /\ unused' = [unused EXCEPT ![f] = 0]
  BY DEF PacketOfNewcomer
<1>2. UNCHANGED <<insideVars, sideVars>> /\ "Outside" \in up
  BY DEF PacketOfNewcomer
<1>3. /\ NotOlder
      /\ unused' \in [Flows -> 0..(KeepTime + 1)]
      /\ \A g \in Flows : unused'[g] = IF g = f THEN 0 ELSE unused[g]
  BY <1>1, UnusedReset
<1>4. /\ FunnelTyped' /\ FunnelFresh'
      /\ \A d \in net' : d \in net \/ (d.flow = f /\ d.remote = r)
      /\ timeToInside' \in [Flows -> 0..AgeCap] /\ lost' \in BOOLEAN
  BY <1>1, ForwardKeepsFunnel
<1>5. \A g \in Flows : /\ owner'[g] = IF g = f THEN r ELSE owner[g]
                       /\ rested'[g] = IF g = f THEN unused[f] > KeepTime ELSE rested[g]
  BY <1>1 DEF IInv, OutsideTyped
<1>6. OutsideTyped'
  <2>1. owner' \in [Flows -> Remotes \cup {Free}]
    BY <1>1 DEF IInv, OutsideTyped
  <2>2. timeToRemote' \in [Flows -> 0..AgeCap \cup {Never}]
    BY <1>1 DEF IInv, OutsideTyped
  <2>3. rested' \in [Flows -> BOOLEAN]
    BY <1>1 DEF IInv, OutsideTyped
  <2> QED
    BY <1>4, <2>1, <2>2, <2>3 DEF OutsideTyped
<1>7. HistoryTyped' /\ RestedIsOwned' /\ OwnedIsUsed'
  BY <1>3, <1>4, <1>5, TunnelAssumption DEF IInv, HistoryTyped, RestedIsOwned, OwnedIsUsed
<1>8. SidesTyped' /\ OutsideDown' /\ InsideDown'
  BY <1>2 DEF IInv, SidesTyped, OutsideDown, InsideDown, sideVars, insideVars, InMap
<1>9. RestedNumberIsClean'
  <2> SUFFICES ASSUME NEW g \in Flows, rested'[g]
               PROVE  /\ heard[g] \subseteq {owner'[g]}
                      /\ \A d \in net' : d.flow = g => d.remote = owner'[g]
    BY <1>2 DEF RestedNumberIsClean, insideVars
  <2>1. CASE g = f
    BY <1>4, <1>5, <2>1, NothingLeft
  <2>2. CASE g # f
    BY <1>4, <1>5, <2>2 DEF IInv, RestedNumberIsClean
  <2> QED
    BY <2>1, <2>2
<1>10. InsideTyped' /\ AgesCapped' /\ ChannelFresh' /\ SocketFresh'
  BY <1>2, <1>3, InsideKept
<1> QED
  BY <1>4, <1>6, <1>7, <1>8, <1>9, <1>10 DEF IInv

LEMMA AnswerToRemoteInv ==
  ASSUME IInv, NEW d \in net, AnswerToRemote(d)
  PROVE  IInv'
<1>1. /\ UNCHANGED <<owner, timeToInside, insideVars, sideVars, unused, rested, lost>>
      /\ net' \in SUBSET net
      /\ timeToRemote' = [timeToRemote EXCEPT ![d.flow] = 0]
  BY DEF AnswerToRemote, Taken
<1>2. OutsideTyped'
  <2>1. 0 \in 0..AgeCap
    BY Numbers
  <2>2. timeToRemote' \in [Flows -> 0..AgeCap \cup {Never}]
    BY <1>1, <2>1 DEF IInv, OutsideTyped
  <2> QED
    BY <1>1, <2>2 DEF IInv, OutsideTyped
<1>3. HistoryTyped' /\ RestedIsOwned' /\ OwnedIsUsed'
  BY <1>1 DEF IInv, HistoryTyped, RestedIsOwned, OwnedIsUsed
<1>4. SidesTyped' /\ OutsideDown' /\ InsideDown'
  BY <1>1 DEF IInv, SidesTyped, OutsideDown, InsideDown, sideVars, insideVars, InMap
<1>5. RestedNumberIsClean'
  BY <1>1 DEF IInv, RestedNumberIsClean, insideVars
<1>6. NotOlder
  BY <1>1, UnusedKept
<1>7. InsideTyped' /\ AgesCapped' /\ ChannelFresh' /\ SocketFresh'
  BY <1>1, <1>6, InsideKept
<1>8. FunnelTyped' /\ FunnelFresh'
  BY <1>1, <1>6, FunnelKept
<1> QED
  BY <1>2, <1>3, <1>4, <1>5, <1>7, <1>8 DEF IInv

LEMMA CleanMapAddrPortInv ==
  ASSUME IInv, CleanMapAddrPort
  PROVE  IInv'
<1>1. UNCHANGED <<insideVars, sideVars, net, unused, lost>> /\ "Outside" \in up
  BY DEF CleanMapAddrPort
<1>2. \A f \in Flows : /\ owner'[f] \in {owner[f], Free}
                       /\ rested'[f] => rested[f] /\ owner'[f] = owner[f]
  BY DEF CleanMapAddrPort
<1>3. OutsideTyped'
  <2>1. /\ owner' \in [Flows -> Remotes \cup {Free}]
        /\ rested' \in [Flows -> BOOLEAN]
    BY DEF CleanMapAddrPort, IInv, OutsideTyped
  <2>2. timeToRemote' \in [Flows -> 0..AgeCap \cup {Never}]
    BY DEF CleanMapAddrPort, IInv, OutsideTyped
  <2>3. timeToInside' \in [Flows -> 0..AgeCap]
    BY Numbers DEF CleanMapAddrPort, IInv, OutsideTyped
  <2> QED
    BY <2>1, <2>2, <2>3 DEF OutsideTyped
<1>4. HistoryTyped' /\ RestedIsOwned' /\ OwnedIsUsed'
  BY <1>1, <1>2 DEF IInv, HistoryTyped, RestedIsOwned, OwnedIsUsed
<1>5. SidesTyped' /\ OutsideDown' /\ InsideDown'
  BY <1>1 DEF IInv, SidesTyped, OutsideDown, InsideDown, sideVars, insideVars, InMap
<1>6. RestedNumberIsClean'
  BY <1>1, <1>2 DEF IInv, RestedNumberIsClean, insideVars
<1>7. NotOlder
  BY <1>1, UnusedKept
<1>8. InsideTyped' /\ AgesCapped' /\ ChannelFresh' /\ SocketFresh'
  BY <1>1, <1>7, InsideKept
<1>9. FunnelTyped' /\ FunnelFresh'
  BY <1>1, <1>7, FunnelKept
<1> QED
  BY <1>3, <1>4, <1>5, <1>6, <1>8, <1>9 DEF IInv

LEMMA OutsideExitInv ==
  ASSUME IInv, OutsideExit
  PROVE  IInv'
<1>1. /\ UNCHANGED <<insideVars, net, unused>> /\ ForgetFlows
      /\ up' = up \ {"Outside"} /\ met' = met \ {"Outside"} /\ lost' = TRUE
  BY DEF OutsideExit
<1>2. \A f \in Flows : owner'[f] = Free /\ ~rested'[f]
  BY <1>1 DEF ForgetFlows
<1>3. OutsideTyped'
  BY <1>1, Numbers DEF ForgetFlows, OutsideTyped
<1>4. HistoryTyped' /\ RestedIsOwned' /\ OwnedIsUsed' /\ RestedNumberIsClean'
  BY <1>1, <1>2 DEF IInv, HistoryTyped, RestedIsOwned, OwnedIsUsed, RestedNumberIsClean
<1>5. SidesTyped' /\ OutsideDown' /\ InsideDown'
  BY <1>1, <1>2 DEF IInv, SidesTyped, OutsideDown, InsideDown, insideVars, InMap
<1>6. NotOlder
  BY <1>1, UnusedKept
<1>7. InsideTyped' /\ AgesCapped' /\ ChannelFresh' /\ SocketFresh'
  BY <1>1, <1>6, InsideKept
<1>8. FunnelTyped' /\ FunnelFresh'
  BY <1>1, <1>6, FunnelKept
<1> QED
  BY <1>3, <1>4, <1>5, <1>7, <1>8 DEF IInv

-----------------------------------------------------------------------------
(* Inside. *)

LEMMA PacketToLocalInv ==
  ASSUME IInv, NEW d \in net, PacketToLocal(d)
  PROVE  IInv'
<1> DEFINE f == d.flow
<1> DEFINE e == IF HasChannel(f) THEN [table[f] EXCEPT !.TimePacketToLocal = 0]
                ELSE [RequestTermination |-> FALSE, TimePacketToLocal |-> 0,
                      TimePacketToOutside |-> Never]
<1>1. /\ UNCHANGED <<sinceCleanUp, outsideVars, sideVars, unused, rested, lost>>
      /\ net' \in SUBSET net
      /\ "Inside" \in up
      /\ table' = [table EXCEPT ![f] = e]
      /\ heard' = [heard EXCEPT ![f] = @ \cup {d.remote}]
      /\ unnoticed' = unnoticed \ {f}
  BY DEF PacketToLocal, Taken
<1>2. f \in Flows /\ d.remote \in Remotes /\ d.age \in 0..MaxDelay /\ unused[f] <= d.age
  BY DEF IInv, FunnelTyped, FunnelFresh, Datagram
<1>3. /\ e \in UDPConnToLocal /\ ~e.RequestTermination /\ e.TimePacketToLocal = 0
      /\ HasChannel(f) => e.TimePacketToOutside = table[f].TimePacketToOutside
      /\ ~HasChannel(f) => e.TimePacketToOutside = Never
  <2>1. CASE HasChannel(f)
    <3>1. table[f] \in UDPConnToLocal /\ ~table[f].RequestTermination
      BY <1>2, <2>1 DEF HasChannel, InMap, IInv, InsideTyped
    <3> QED
      BY <2>1, <3>1 DEF UDPConnToLocal
  <2>2. CASE ~HasChannel(f)
    BY <2>2 DEF UDPConnToLocal, Age
  <2> QED
    BY <2>1, <2>2
<1> HIDE DEF e
<1>4. e # NoEntry
  BY <1>3, EntryIsNoHole
<1>5. \A g \in Flows : /\ table'[g] = IF g = f THEN e ELSE table[g]
                       /\ heard'[g] = IF g = f THEN heard[f] \cup {d.remote} ELSE heard[g]
  BY <1>1, <1>2 DEF IInv, InsideTyped
<1>6. InsideTyped'
  BY <1>1, <1>2, <1>3 DEF IInv, InsideTyped
<1>7. \A g \in Flows : /\ InMap(g)' <=> (g = f \/ InMap(g))
                       /\ HasChannel(g)' <=> (g = f \/ HasChannel(g))
  BY <1>3, <1>4, <1>5 DEF InMap, HasChannel
<1>8. AgesCapped'
  <2> SUFFICES ASSUME NEW g \in Flows, InMap(g)'
      PROVE  /\ table'[g].TimePacketToLocal \in 0..AgeCap
             /\ table'[g].TimePacketToOutside \in 0..AgeCap \cup {Never}
    BY DEF AgesCapped
  <2>1. CASE g = f
    BY <1>3, <1>5, <2>1, Numbers DEF IInv, AgesCapped, HasChannel
  <2>2. CASE g # f
    BY <1>5, <1>7, <2>2 DEF IInv, AgesCapped
  <2> QED
    BY <2>1, <2>2
<1>9. ChannelFresh'
  <2> SUFFICES ASSUME NEW g \in Flows, HasChannel(g)'
      PROVE  /\ table'[g].TimePacketToLocal < AgeCap =>
                  unused[g] <= MaxDelay + table'[g].TimePacketToLocal
             /\ table'[g].TimePacketToOutside # Never /\ table'[g].TimePacketToOutside < AgeCap =>
                  unused[g] <= table'[g].TimePacketToOutside
             /\ TimedOut(g)' => unused[g] <= MaxDelay + Longest + sinceCleanUp
    BY <1>1 DEF ChannelFresh
  <2>1. CASE g = f
    <3>1. unused[f] \in Nat /\ unused[f] <= MaxDelay
      BY <1>2, Numbers DEF IInv, HistoryTyped
    <3>2. ~TimedOut(g)'
      BY <1>3, <1>5, <2>1, TunnelAssumption DEF TimedOut
    <3>3. table'[g].TimePacketToOutside # Never /\ table'[g].TimePacketToOutside < AgeCap =>
                  unused[g] <= table'[g].TimePacketToOutside
      BY <1>3, <1>5, <2>1 DEF IInv, ChannelFresh
    <3> QED
      BY <1>3, <1>5, <2>1, <3>1, <3>2, <3>3, Numbers
  <2>2. CASE g # f
    <3>1. table'[g] = table[g] /\ HasChannel(g) /\ (TimedOut(g)' <=> TimedOut(g))
      BY <1>5, <1>7, <2>2 DEF TimedOut
    <3> QED
      BY <3>1 DEF IInv, ChannelFresh
  <2> QED
    BY <2>1, <2>2
<1>10. SocketFresh'
  BY <1>1, <1>3, <1>5, <1>7 DEF IInv, SocketFresh
<1>11. RestedNumberIsClean'
  BY <1>1, <1>5 DEF IInv, RestedNumberIsClean, outsideVars
<1>12. OutsideTyped' /\ RestedIsOwned' /\ OwnedIsUsed' /\ HistoryTyped'
  BY <1>1, OutsideKept DEF IInv, OwnedIsUsed, HistoryTyped, outsideVars
<1>13. SidesTyped' /\ OutsideDown' /\ InsideDown'
  BY <1>1 DEF IInv, SidesTyped, OutsideDown, InsideDown, sideVars, outsideVars
<1>14. FunnelTyped' /\ FunnelFresh'
  BY <1>1, UnusedKept, FunnelKept
<1> QED
  BY <1>6, <1>8, <1>9, <1>10, <1>11, <1>12, <1>13, <1>14 DEF IInv

LEMMA AnswerOfLocalInv ==
  ASSUME IInv, NEW f \in Flows, NEW r \in Remotes, AnswerOfLocal(f, r)
  PROVE  IInv'
<1>1. /\ UNCHANGED <<heard, unnoticed, sinceCleanUp, outsideVars, sideVars, rested, lost>>
      /\ r \in heard[f] /\ Send("Outside", f, r)
      /\ unused' = [unused EXCEPT ![f] = 0]
  BY DEF AnswerOfLocal
<1>2. InMap(f) /\ table[f] \in UDPConnToLocal
  BY <1>1 DEF IInv, SocketFresh, InsideTyped, InMap
<1> DEFINE e == [table[f] EXCEPT !.TimePacketToOutside = 0]
<1>3. table' = [table EXCEPT ![f] = e]
  BY <1>2 DEF AnswerOfLocal
<1>4. /\ e \in UDPConnToLocal /\ e.TimePacketToOutside = 0
      /\ e.RequestTermination = table[f].RequestTermination
      /\ e.TimePacketToLocal = table[f].TimePacketToLocal
  BY <1>2 DEF UDPConnToLocal, Age
<1> HIDE DEF e
<1>5. e # NoEntry
  BY <1>4, EntryIsNoHole
<1>6. /\ unused' \in [Flows -> 0..(KeepTime + 1)]
      /\ \A g \in Flows : unused'[g] = IF g = f THEN 0 ELSE unused[g]
  BY <1>1, UnusedReset
<1>7. \A g \in Flows : table'[g] = IF g = f THEN e ELSE table[g]
  BY <1>3 DEF IInv, InsideTyped
<1>8. InsideTyped'
  BY <1>1, <1>3, <1>4 DEF IInv, InsideTyped
<1>9. \A g \in Flows : (InMap(g)' <=> InMap(g)) /\ (HasChannel(g)' <=> HasChannel(g))
  BY <1>2, <1>4, <1>5, <1>7 DEF InMap, HasChannel
<1>10. AgesCapped'
  BY <1>2, <1>4, <1>7, <1>9, Numbers DEF IInv, AgesCapped
<1>11. ChannelFresh'
  <2> SUFFICES ASSUME NEW g \in Flows, HasChannel(g)'
      PROVE  /\ table'[g].TimePacketToLocal < AgeCap =>
                  unused'[g] <= MaxDelay + table'[g].TimePacketToLocal
             /\ table'[g].TimePacketToOutside # Never /\ table'[g].TimePacketToOutside < AgeCap =>
                  unused'[g] <= table'[g].TimePacketToOutside
             /\ TimedOut(g)' => unused'[g] <= MaxDelay + Longest + sinceCleanUp
    BY <1>1 DEF ChannelFresh
  <2>1. CASE g = f
    <3>1. table'[g].TimePacketToLocal \in Nat /\ sinceCleanUp \in Nat
      BY <1>2, <1>4, <1>7, <2>1, Numbers DEF IInv, AgesCapped, InsideTyped
    <3> QED
      BY <1>4, <1>6, <1>7, <2>1, <3>1, Numbers
  <2>2. CASE g # f
    <3>1. /\ table'[g] = table[g] /\ unused'[g] = unused[g]
          /\ HasChannel(g) /\ (TimedOut(g)' <=> TimedOut(g))
      BY <1>6, <1>7, <1>9, <2>2 DEF TimedOut
    <3> QED
      BY <3>1 DEF IInv, ChannelFresh
  <2> QED
    BY <2>1, <2>2
<1>12. SocketFresh'
  <2> SUFFICES ASSUME NEW g \in Flows, heard[g] # {}
      PROVE  /\ InMap(g)'
             /\ table'[g].RequestTermination =>
                  /\ unused'[g] <= KeepTime
                  /\ g \in unnoticed => unused'[g] < KeepTime
    BY <1>1 DEF SocketFresh
  <2>1. CASE g = f
    BY <1>2, <1>6, <1>9, <2>1, Numbers
  <2>2. CASE g # f
    BY <1>6, <1>7, <1>9, <2>2 DEF IInv, SocketFresh
  <2> QED
    BY <2>1, <2>2
<1>13. FunnelTyped' /\ FunnelFresh' /\ \A d \in net' : d \in net \/ (d.flow = f /\ d.remote = r)
  BY <1>1, SendKeepsFunnel DEF Sides
<1>14. RestedNumberIsClean'
  BY <1>1, <1>13 DEF IInv, RestedNumberIsClean, outsideVars
<1>15. OutsideTyped' /\ RestedIsOwned'
  BY <1>1, OutsideKept
<1>16. OwnedIsUsed' /\ HistoryTyped'
  BY <1>1, <1>6 DEF IInv, OwnedIsUsed, HistoryTyped, outsideVars
<1>17. SidesTyped' /\ OutsideDown' /\ InsideDown'
  BY <1>1, <1>9 DEF IInv, SidesTyped, OutsideDown, InsideDown, sideVars, outsideVars
<1> QED
  BY <1>8, <1>10, <1>11, <1>12, <1>13, <1>14, <1>15, <1>16, <1>17 DEF IInv

LEMMA CleanupInv ==
  ASSUME IInv, Cleanup
  PROVE  IInv'
<1>1. /\ UNCHANGED <<heard, outsideVars, sideVars, net, unused, rested, lost>>
      /\ sinceCleanUp' = 0 /\ "Inside" \in up
  BY DEF Cleanup
<1> DEFINE asked == {f \in Flows : InMap(f) /\ ~table[f].RequestTermination /\ TimedOut(f)}
<1>2. PICK removed \in SUBSET {f \in Flows : heard[f] = {}} :
        /\ table' = [f \in Flows |->
              IF f \in removed THEN NoEntry
              ELSE IF f \in asked THEN [table[f] EXCEPT !.RequestTermination = TRUE]
              ELSE table[f]]
        /\ unnoticed' = unnoticed \cup asked
  BY DEF Cleanup
<1>3. \A f \in asked : /\ InMap(f) /\ HasChannel(f) /\ TimedOut(f)
                       /\ table[f] \in UDPConnToLocal
  BY DEF HasChannel, InMap, IInv, InsideTyped
<1>4. \A f \in Flows : f \in asked <=> HasChannel(f) /\ TimedOut(f)
  BY DEF HasChannel
<1>5. asked \subseteq Flows
  OBVIOUS
<1> HIDE DEF asked
<1>6. \A f \in asked :
        LET e == [table[f] EXCEPT !.RequestTermination = TRUE] IN
        /\ e \in UDPConnToLocal /\ e # NoEntry /\ e.RequestTermination
        /\ e.TimePacketToLocal = table[f].TimePacketToLocal
        /\ e.TimePacketToOutside = table[f].TimePacketToOutside
  BY <1>3, EntryIsNoHole DEF UDPConnToLocal
<1>7. InsideTyped'
  <2>1. table' \in [Flows -> UDPConnToLocal \cup {NoEntry}]
    BY <1>2, <1>6 DEF IInv, InsideTyped
  <2> QED
    BY <1>1, <1>2, <1>5, <2>1, Numbers DEF IInv, InsideTyped
<1>8. \A f \in Flows :
        /\ f \in removed => table'[f] = NoEntry
        /\ f \notin removed /\ f \in asked =>
             table'[f] = [table[f] EXCEPT !.RequestTermination = TRUE]
        /\ f \notin removed /\ f \notin asked => table'[f] = table[f]
  BY <1>2
<1>9. AgesCapped'
  <2> SUFFICES ASSUME NEW f \in Flows, InMap(f)'
      PROVE  /\ table'[f].TimePacketToLocal \in 0..AgeCap
             /\ table'[f].TimePacketToOutside \in 0..AgeCap \cup {Never}
    BY DEF AgesCapped
  <2>1. f \notin removed
    BY <1>8 DEF InMap
  <2>2. CASE f \in asked
    BY <1>3, <1>6, <1>8, <2>1, <2>2 DEF IInv, AgesCapped
  <2>3. CASE f \notin asked
    BY <1>8, <2>1, <2>3 DEF IInv, AgesCapped, InMap
  <2> QED
    BY <2>2, <2>3
<1>10. ChannelFresh'
  <2> SUFFICES ASSUME NEW f \in Flows, HasChannel(f)'
      PROVE  /\ table'[f].TimePacketToLocal < AgeCap =>
                  unused[f] <= MaxDelay + table'[f].TimePacketToLocal
             /\ table'[f].TimePacketToOutside # Never /\ table'[f].TimePacketToOutside < AgeCap =>
                  unused[f] <= table'[f].TimePacketToOutside
             /\ ~TimedOut(f)'
    BY <1>1 DEF ChannelFresh
  <2>1. f \notin removed /\ f \notin asked
    BY <1>6, <1>8 DEF HasChannel, InMap
  <2>2. table'[f] = table[f] /\ HasChannel(f)
    BY <1>8, <2>1 DEF HasChannel, InMap
  <2>3. ~TimedOut(f) /\ ~TimedOut(f)'
    BY <1>4, <2>1, <2>2 DEF TimedOut
  <2> QED
    BY <2>2, <2>3 DEF IInv, ChannelFresh
<1>11. SocketFresh'
  <2> SUFFICES ASSUME NEW f \in Flows, heard[f] # {}
      PROVE  /\ InMap(f)'
             /\ table'[f].RequestTermination =>
                  /\ unused[f] <= KeepTime
                  /\ f \in unnoticed' => unused[f] < KeepTime
    BY <1>1 DEF SocketFresh
  <2>1. f \notin removed
    BY <1>2
  <2>2. CASE f \in asked
    <3>1. InMap(f)'
      BY <1>6, <1>8, <2>1, <2>2 DEF InMap
    <3>2. unused[f] <= MaxDelay + Longest + sinceCleanUp
      BY <1>3, <2>2, ChannelBound
    <3>3. unused[f] \in Nat /\ sinceCleanUp \in 0..CleanUpCap
      BY Numbers DEF IInv, InsideTyped, HistoryTyped
    <3> QED
      BY <3>1, <3>2, <3>3, Numbers
  <2>3. CASE f \notin asked
    BY <1>2, <1>8, <2>1, <2>3 DEF IInv, SocketFresh, InMap
  <2> QED
    BY <2>2, <2>3
<1>12. OutsideTyped' /\ RestedIsOwned'
  BY <1>1, OutsideKept
<1>13. OwnedIsUsed' /\ HistoryTyped' /\ RestedNumberIsClean'
  BY <1>1 DEF IInv, OwnedIsUsed, HistoryTyped, RestedNumberIsClean, outsideVars
<1>14. SidesTyped' /\ OutsideDown' /\ InsideDown'
  BY <1>1 DEF IInv, SidesTyped, OutsideDown, InsideDown, sideVars, outsideVars
<1>15. FunnelTyped' /\ FunnelFresh'
  BY <1>1, UnusedKept, FunnelKept
<1> QED
  BY <1>7, <1>9, <1>10, <1>11, <1>12, <1>13, <1>14, <1>15 DEF IInv

LEMMA PollInv ==
  ASSUME IInv, NEW f \in Flows, NEW r \in Remotes, Poll(f, r)
  PROVE  IInv'
<1>1. /\ UNCHANGED <<table, unnoticed, sinceCleanUp, outsideVars, sideVars, net, unused,
                     rested, lost>>
      /\ heard' = [heard EXCEPT ![f] = @ \ {r}]
  BY DEF Poll
<1>2. \A g \in Flows : heard'[g] \subseteq heard[g]
  BY <1>1 DEF IInv, InsideTyped
<1>3. InsideTyped'
  BY <1>1 DEF IInv, InsideTyped
<1>4. AgesCapped' /\ ChannelFresh'
  BY <1>1 DEF IInv, AgesCapped, ChannelFresh, HasChannel, InMap, TimedOut
<1>5. SocketFresh'
  BY <1>1, <1>2 DEF IInv, SocketFresh, InMap
<1>6. OutsideTyped' /\ RestedIsOwned'
  BY <1>1, OutsideKept
<1>7. OwnedIsUsed' /\ HistoryTyped' /\ RestedNumberIsClean'
  BY <1>1, <1>2 DEF IInv, OwnedIsUsed, HistoryTyped, RestedNumberIsClean, outsideVars
<1>8. SidesTyped' /\ OutsideDown' /\ InsideDown'
  BY <1>1, <1>2 DEF IInv, SidesTyped, OutsideDown, InsideDown, InMap, sideVars, outsideVars
<1>9. FunnelTyped' /\ FunnelFresh'
  BY <1>1, UnusedKept, FunnelKept
<1> QED
  BY <1>3, <1>4, <1>5, <1>6, <1>7, <1>8, <1>9 DEF IInv

LEMMA InsideExitInv ==
  ASSUME IInv, InsideExit
  PROVE  IInv'
<1>1. /\ UNCHANGED <<outsideVars, net, unused, rested>> /\ lost' = TRUE
      /\ table' = [f \in Flows |-> NoEntry] /\ heard' = [f \in Flows |-> {}]
      /\ unnoticed' = {} /\ sinceCleanUp' = CleanUpCap
      /\ up' = up \ {"Inside"} /\ met' = met \ {"Inside"}
  BY DEF InsideExit
<1>2. \A f \in Flows : ~InMap(f)' /\ ~HasChannel(f)' /\ heard'[f] = {}
  BY <1>1 DEF InMap, HasChannel
<1>3. InsideTyped'
  BY <1>1, Numbers DEF InsideTyped
<1>4. AgesCapped' /\ ChannelFresh' /\ SocketFresh' /\ InsideDown'
  BY <1>2 DEF AgesCapped, ChannelFresh, SocketFresh, InsideDown
<1>5. OutsideTyped' /\ RestedIsOwned'
  BY <1>1, OutsideKept
<1>6. OwnedIsUsed' /\ HistoryTyped' /\ RestedNumberIsClean'
  BY <1>1, <1>2 DEF IInv, OwnedIsUsed, HistoryTyped, RestedNumberIsClean, outsideVars
<1>7. SidesTyped' /\ OutsideDown'
  BY <1>1 DEF IInv, SidesTyped, OutsideDown, outsideVars
<1>8. FunnelTyped' /\ FunnelFresh'
  BY <1>1, UnusedKept, FunnelKept
<1> QED
  BY <1>3, <1>4, <1>5, <1>6, <1>7, <1>8 DEF IInv

-----------------------------------------------------------------------------
(* HELOs, restarts, the network and the clock. *)

(* Steps that touch neither table: a HELO, a start, a lost datagram. *)
LEMMA TablesKeptInv ==
  ASSUME IInv, UNCHANGED <<outsideVars, insideVars, unused, rested>>,
         net' \in SUBSET net, lost' \in BOOLEAN,
         up \subseteq up', up' \subseteq Sides, met' \subseteq up'
  PROVE  IInv'
<1>1. OutsideTyped' /\ RestedIsOwned'
  BY OutsideKept
<1>2. OwnedIsUsed' /\ HistoryTyped' /\ RestedNumberIsClean'
  BY DEF IInv, OwnedIsUsed, HistoryTyped, RestedNumberIsClean, outsideVars, insideVars
<1>3. SidesTyped' /\ OutsideDown' /\ InsideDown'
  BY DEF IInv, SidesTyped, OutsideDown, InsideDown, InMap, outsideVars, insideVars
<1>4. NotOlder
  BY UnusedKept
<1>5. InsideTyped' /\ AgesCapped' /\ ChannelFresh' /\ SocketFresh'
  BY <1>4, InsideKept
<1>6. FunnelTyped' /\ FunnelFresh'
  BY <1>4, FunnelKept
<1> QED
  BY <1>1, <1>2, <1>3, <1>5, <1>6 DEF IInv

(* What a tick does to one timestamp. *)
LEMMA OlderBound ==
  ASSUME NEW age \in 0..AgeCap
  PROVE  /\ Older(age) \in 0..AgeCap
         /\ Older(age) < AgeCap => Older(age) = age + 1 /\ age < AgeCap
  BY Numbers, TunnelAssumption DEF Older

LEMMA UpToBound ==
  ASSUME NEW cap \in Nat, NEW n \in 0..cap
  PROVE  /\ UpTo(n, cap) \in 0..cap /\ UpTo(n, cap) <= n + 1
         /\ n < cap => UpTo(n, cap) = n + 1
  BY DEF UpTo

LEMMA NeverStays == Older(Never) = Never
  BY DEF Older

(* A datagram grows older, and no two become three. *)
LEMMA TickFunnel ==
  ASSUME IInv, Tick
  PROVE  FunnelTyped'
<1> DEFINE aged(d) == [d EXCEPT !.age = @ + 1]
<1> DEFINE g == [d \in net |-> aged(d)]
<1>1. net' = {aged(d) : d \in net} /\ \A d \in net : d.age < MaxDelay
  BY DEF Tick
<1>2. g \in Surjection(net, net')
  BY <1>1 DEF Surjection
<1>3. IsFiniteSet(net') /\ Cardinality(net') <= Cardinality(net)
  BY <1>2, FS_Surjection DEF IInv, FunnelTyped
<1>4. Cardinality(net') \in Nat /\ Cardinality(net) \in Nat
  BY <1>3, FS_CardinalityType DEF IInv, FunnelTyped
<1>5. \A d \in net : aged(d) \in Datagram
  <2> SUFFICES ASSUME NEW d \in net PROVE aged(d) \in Datagram
    OBVIOUS
  <2>1. d \in Datagram /\ d.age < MaxDelay
    BY <1>1 DEF IInv, FunnelTyped
  <2>2. d.age + 1 \in 0..MaxDelay
    BY <2>1, Numbers DEF Datagram
  <2> QED
    BY <2>1, <2>2 DEF Datagram
<1>6. net' \in SUBSET Datagram
  BY <1>1, <1>5
<1> QED
  BY <1>3, <1>4, <1>6, Numbers DEF IInv, FunnelTyped

LEMMA TickInv ==
  ASSUME IInv, Tick
  PROVE  IInv'
<1>1. /\ UNCHANGED <<owner, heard, sideVars, rested, lost>>
      /\ "Inside" \in up => sinceCleanUp < CleanUpCap
      /\ \A f \in Flows : Terminates(f) /\ f \notin unnoticed => heard[f] = {}
      /\ timeToInside' = [f \in Flows |-> IF owner[f] = Free THEN 0 ELSE Older(timeToInside[f])]
      /\ timeToRemote' = [f \in Flows |-> Older(timeToRemote[f])]
      /\ table' = [f \in Flows |->
                     IF ~InMap(f) THEN NoEntry
                     ELSE [table[f] EXCEPT !.TimePacketToLocal = Older(@),
                                           !.TimePacketToOutside = Older(@)]]
      /\ unnoticed' = {}
      /\ sinceCleanUp' = UpTo(sinceCleanUp, CleanUpCap)
      /\ net' = {[d EXCEPT !.age = @ + 1] : d \in net}
      /\ unused' = [f \in Flows |->
                      IF owner[f] = Free THEN UpTo(unused[f], KeepTime + 1) ELSE 0]
  BY DEF Tick
<1>2. /\ sinceCleanUp \in Nat /\ sinceCleanUp' \in 0..CleanUpCap
      /\ "Inside" \in up => sinceCleanUp' = sinceCleanUp + 1
  <2>1. sinceCleanUp \in 0..CleanUpCap /\ CleanUpCap \in Nat
    BY Numbers DEF IInv, InsideTyped
  <2>2. /\ UpTo(sinceCleanUp, CleanUpCap) \in 0..CleanUpCap
        /\ sinceCleanUp < CleanUpCap =>
             UpTo(sinceCleanUp, CleanUpCap) = sinceCleanUp + 1
    BY <2>1, UpToBound
  <2>3. /\ sinceCleanUp' = UpTo(sinceCleanUp, CleanUpCap)
        /\ "Inside" \in up => sinceCleanUp < CleanUpCap
    BY <1>1
  <2> QED
    BY <2>1, <2>2, <2>3
<1>3. \A f \in Flows : /\ unused[f] \in Nat
                       /\ unused'[f] \in 0..(KeepTime + 1) /\ unused'[f] <= unused[f] + 1
                       /\ owner[f] # Free => unused'[f] = 0
  <2> SUFFICES ASSUME NEW f \in Flows
      PROVE  /\ unused[f] \in Nat
             /\ unused'[f] \in 0..(KeepTime + 1) /\ unused'[f] <= unused[f] + 1
             /\ owner[f] # Free => unused'[f] = 0
    OBVIOUS
  <2>1. unused[f] \in 0..(KeepTime + 1) /\ KeepTime + 1 \in Nat
    BY Numbers DEF IInv, HistoryTyped
  <2>2. unused'[f] = IF owner[f] = Free THEN UpTo(unused[f], KeepTime + 1) ELSE 0
    BY <1>1
  <2>3. /\ UpTo(unused[f], KeepTime + 1) \in 0..(KeepTime + 1)
        /\ UpTo(unused[f], KeepTime + 1) <= unused[f] + 1
    BY <2>1, UpToBound
  <2> QED
    BY <2>1, <2>2, <2>3
<1>4. unused' \in [Flows -> 0..(KeepTime + 1)]
  BY <1>1, <1>3
<1>5. OutsideTyped'
  <2>1. timeToInside' \in [Flows -> 0..AgeCap]
    <3>1. \A f \in Flows : (IF owner[f] = Free THEN 0 ELSE Older(timeToInside[f])) \in 0..AgeCap
      BY OlderBound, Numbers DEF IInv, OutsideTyped
    <3> QED
      BY <1>1, <3>1
  <2>2. timeToRemote' \in [Flows -> 0..AgeCap \cup {Never}]
    <3>1. \A f \in Flows : Older(timeToRemote[f]) \in 0..AgeCap \cup {Never}
      BY OlderBound, NeverStays DEF IInv, OutsideTyped
    <3> QED
      BY <1>1, <3>1
  <2> QED
    BY <1>1, <2>1, <2>2 DEF IInv, OutsideTyped
<1>6. \A f \in Flows : InMap(f) =>
        /\ table'[f] = [table[f] EXCEPT !.TimePacketToLocal = Older(@),
                                        !.TimePacketToOutside = Older(@)]
        /\ table[f] \in UDPConnToLocal
  BY <1>1 DEF InMap, IInv, InsideTyped
<1>7. \A f \in Flows : InMap(f) =>
        /\ table'[f] \in UDPConnToLocal
        /\ table'[f].RequestTermination = table[f].RequestTermination
        /\ table'[f].TimePacketToLocal = Older(table[f].TimePacketToLocal)
        /\ table'[f].TimePacketToOutside = Older(table[f].TimePacketToOutside)
        /\ table'[f].TimePacketToLocal \in 0..AgeCap
        /\ table'[f].TimePacketToOutside \in 0..AgeCap \cup {Never}
  <2> SUFFICES ASSUME NEW f \in Flows, InMap(f)
      PROVE  /\ table'[f] \in UDPConnToLocal
             /\ table'[f].RequestTermination = table[f].RequestTermination
             /\ table'[f].TimePacketToLocal = Older(table[f].TimePacketToLocal)
             /\ table'[f].TimePacketToOutside = Older(table[f].TimePacketToOutside)
             /\ table'[f].TimePacketToLocal \in 0..AgeCap
             /\ table'[f].TimePacketToOutside \in 0..AgeCap \cup {Never}
    OBVIOUS
  <2>1. /\ Older(table[f].TimePacketToLocal) \in 0..AgeCap
        /\ Older(table[f].TimePacketToOutside) \in 0..AgeCap \cup {Never}
    BY OlderBound, NeverStays DEF IInv, AgesCapped
  <2>2. 0..AgeCap \subseteq Nat
    BY Numbers
  <2> QED
    BY <1>6, <2>1, <2>2 DEF UDPConnToLocal, Age
<1>8. \A f \in Flows : /\ InMap(f)' <=> InMap(f)
                       /\ HasChannel(f)' <=> HasChannel(f)
                       /\ ~InMap(f) => table'[f] = NoEntry
  BY <1>1, <1>7, EntryIsNoHole DEF InMap, HasChannel
<1>9. InsideTyped'
  <2>1. table' \in [Flows -> UDPConnToLocal \cup {NoEntry}]
    BY <1>1, <1>7, <1>8
  <2> QED
    BY <1>1, <1>2, <2>1 DEF IInv, InsideTyped
<1>10. AgesCapped'
  BY <1>7, <1>8 DEF AgesCapped
<1>11. ChannelFresh'
  <2> SUFFICES ASSUME NEW f \in Flows, HasChannel(f)
      PROVE  /\ table'[f].TimePacketToLocal < AgeCap =>
                  unused'[f] <= MaxDelay + table'[f].TimePacketToLocal
             /\ table'[f].TimePacketToOutside # Never /\ table'[f].TimePacketToOutside < AgeCap =>
                  unused'[f] <= table'[f].TimePacketToOutside
             /\ unused'[f] <= MaxDelay + Longest + sinceCleanUp'
    BY <1>8 DEF ChannelFresh
  <2>1. InMap(f) /\ "Inside" \in up
    BY DEF HasChannel, IInv, InsideDown
  <2>2. unused[f] <= MaxDelay + Longest + sinceCleanUp
    BY ChannelBound
  <2>3. unused'[f] <= MaxDelay + Longest + sinceCleanUp'
    BY <1>2, <1>3, <2>1, <2>2, Numbers
  <2>4. ASSUME table'[f].TimePacketToLocal < AgeCap
        PROVE  unused'[f] <= MaxDelay + table'[f].TimePacketToLocal
    <3>1. table[f].TimePacketToLocal \in 0..AgeCap
      BY <2>1 DEF IInv, AgesCapped
    <3>2. /\ table'[f].TimePacketToLocal = table[f].TimePacketToLocal + 1
          /\ table[f].TimePacketToLocal < AgeCap
      BY <1>7, <2>1, <2>4, <3>1, OlderBound
    <3>3. unused[f] <= MaxDelay + table[f].TimePacketToLocal
      BY <3>2 DEF IInv, ChannelFresh
    <3> QED
      BY <1>3, <3>1, <3>2, <3>3, Numbers
  <2>5. ASSUME table'[f].TimePacketToOutside # Never, table'[f].TimePacketToOutside < AgeCap
        PROVE  unused'[f] <= table'[f].TimePacketToOutside
    <3>1. table[f].TimePacketToOutside # Never
      BY <1>7, <2>1, <2>5, NeverStays
    <3>2. table[f].TimePacketToOutside \in 0..AgeCap
      BY <2>1, <3>1 DEF IInv, AgesCapped
    <3>3. /\ table'[f].TimePacketToOutside = table[f].TimePacketToOutside + 1
          /\ table[f].TimePacketToOutside < AgeCap
      BY <1>7, <2>1, <2>5, <3>2, OlderBound
    <3>4. unused[f] <= table[f].TimePacketToOutside
      BY <3>1, <3>3 DEF IInv, ChannelFresh
    <3> QED
      BY <1>3, <3>2, <3>3, <3>4, Numbers
  <2> QED
    BY <2>3, <2>4, <2>5
<1>12. SocketFresh'
  <2> SUFFICES ASSUME NEW f \in Flows, heard[f] # {}
      PROVE  InMap(f)' /\ (table'[f].RequestTermination => unused'[f] <= KeepTime)
    BY <1>1 DEF SocketFresh
  <2>1. InMap(f) /\ InMap(f)'
    BY <1>8 DEF IInv, SocketFresh
  <2>2. ASSUME table'[f].RequestTermination PROVE unused'[f] <= KeepTime
    <3>1. table[f].RequestTermination
      BY <1>7, <2>1, <2>2
    <3>2. f \in unnoticed
      BY <1>1, <3>1 DEF Terminates
    <3>3. unused[f] < KeepTime
      BY <3>1, <3>2 DEF IInv, SocketFresh
    <3> QED
      BY <1>3, <3>3, Numbers
  <2> QED
    BY <2>1, <2>2
<1>13. FunnelFresh'
  <2> SUFFICES ASSUME NEW d \in net
      PROVE  LET e == [d EXCEPT !.age = @ + 1] IN unused'[e.flow] <= e.age
    BY <1>1 DEF FunnelFresh
  <2>1. d \in Datagram /\ unused[d.flow] <= d.age
    BY DEF IInv, FunnelTyped, FunnelFresh
  <2>2. d.flow \in Flows /\ d.age \in Nat
    BY <2>1, Numbers DEF Datagram
  <2>3. LET e == [d EXCEPT !.age = @ + 1] IN e.flow = d.flow /\ e.age = d.age + 1
    BY <2>1 DEF Datagram
  <2> QED
    BY <1>3, <2>1, <2>2, <2>3
<1>14. RestedNumberIsClean'
  <2>1. \A e \in net' : \E d \in net : e.flow = d.flow /\ e.remote = d.remote
    <3> SUFFICES ASSUME NEW d \in net
        PROVE  LET e == [d EXCEPT !.age = @ + 1] IN e.flow = d.flow /\ e.remote = d.remote
      BY <1>1
    <3>1. d \in Datagram
      BY DEF IInv, FunnelTyped
    <3> QED
      BY <3>1 DEF Datagram
  <2> SUFFICES ASSUME NEW f \in Flows, rested[f]
      PROVE  /\ heard[f] \subseteq {owner[f]}
             /\ \A e \in net' : e.flow = f => e.remote = owner[f]
    BY <1>1 DEF RestedNumberIsClean
  <2>2. /\ heard[f] \subseteq {owner[f]}
        /\ \A d \in net : d.flow = f => d.remote = owner[f]
    BY DEF IInv, RestedNumberIsClean
  <2> QED
    BY <2>1, <2>2
<1>15. OwnedIsUsed' /\ RestedIsOwned' /\ HistoryTyped'
  BY <1>1, <1>3, <1>4 DEF IInv, OwnedIsUsed, RestedIsOwned, HistoryTyped
<1>16. SidesTyped' /\ OutsideDown' /\ InsideDown'
  BY <1>1, <1>8 DEF IInv, SidesTyped, OutsideDown, InsideDown, sideVars
<1> QED
  BY <1>5, <1>9, <1>10, <1>11, <1>12, <1>13, <1>14, <1>15, <1>16, TickFunnel DEF IInv

-----------------------------------------------------------------------------
(* The invariant holds, and what it implies. *)

LEMMA NextInv ==
  ASSUME IInv, [Next]_vars
  PROVE  IInv'
<1>1. ASSUME NEW r \in Remotes, PacketOfOwner(r) \/ PacketOfNewcomer(r) PROVE IInv'
  BY <1>1, PacketOfOwnerInv, PacketOfNewcomerInv
<1>2. ASSUME NEW d \in net, AnswerToRemote(d) PROVE IInv'
  BY <1>2, AnswerToRemoteInv
<1>3. ASSUME NEW d \in net, PacketToLocal(d) PROVE IInv'
  BY <1>3, PacketToLocalInv
<1>4. ASSUME NEW d \in net, Lose(d) PROVE IInv'
  BY <1>4, TablesKeptInv DEF Lose, IInv, SidesTyped, sideVars
<1>5. ASSUME NEW f \in Flows, NEW r \in Remotes, AnswerOfLocal(f, r) \/ Poll(f, r) PROVE IInv'
  BY <1>5, AnswerOfLocalInv, PollInv
<1>6. CASE HeloToOutside
  BY <1>6, TablesKeptInv DEF HeloToOutside, IInv, SidesTyped, HistoryTyped, Sides
<1>7. CASE HeloToInside
  BY <1>7, TablesKeptInv DEF HeloToInside, IInv, SidesTyped, HistoryTyped
<1>8. ASSUME NEW s \in Sides, Restart(s) PROVE IInv'
  BY <1>8, TablesKeptInv DEF Restart, IInv, SidesTyped, HistoryTyped
<1>9. CASE UNCHANGED vars
  BY <1>9, TablesKeptInv DEF vars, sideVars, IInv, SidesTyped, HistoryTyped
<1>10. CASE CleanMapAddrPort \/ Cleanup \/ OutsideExit \/ InsideExit \/ Tick
  BY <1>10, CleanMapAddrPortInv, CleanupInv, OutsideExitInv, InsideExitInv, TickInv
<1> QED
  BY <1>1, <1>2, <1>3, <1>4, <1>5, <1>6, <1>7, <1>8, <1>9, <1>10 DEF Next

(* The bounds of what is left of a number, in every state of the tunnel.  *)
THEOREM Invariance == Spec => []IInv
<1>1. Init => IInv
  BY InitInv
<1>2. IInv /\ [Next]_vars => IInv'
  BY NextInv
<1> QED
  BY <1>1, <1>2, PTL DEF Spec

(* Every table, timer and datagram keeps its type, no timer passes its     *)
(* cap, the funnel its bound, and a side that is down holds nothing.       *)
THEOREM TypeCorrect == Spec => []TypeOK
<1>1. IInv => TypeOK
  BY DEF IInv, TypeOK, OutsideTyped, InsideTyped, SidesTyped, OutsideDown, InsideDown,
         FunnelTyped, HistoryTyped
<1> QED
  BY <1>1, Invariance, PTL

(* Whatever the two sides, the network and the timeouts do, restarts       *)
(* included, a number handed out after KeepTime seconds without use names  *)
(* nothing of the remote that had it before: GetFlowFromAddressPort gives  *)
(* out a number that neither a socket of Inside nor a datagram of the      *)
(* funnel still holds for somebody else.                                   *)
THEOREM RestedClean == Spec => []RestedNumberIsClean
<1>1. IInv => RestedNumberIsClean
  BY DEF IInv
<1> QED
  BY <1>1, Invariance, PTL

-----------------------------------------------------------------------------
(* Sessions. *)

(* While nothing is lost, a packet that renewed the flow of Outside has    *)
(* renewed the channel of Inside as well, or it is still under way.        *)
StampsAgree ==
  ~lost => \A f \in Flows : HasChannel(f) /\ owner[f] # Free =>
    UnderWay(f) \/ table[f].TimePacketToLocal <= timeToInside[f]

LEMMA OlderKeepsOrder ==
  \A a, b \in 0..AgeCap : a <= b => Older(a) <= Older(b)
BY Numbers, TunnelAssumption DEF Older

LEMMA Stamps ==
  ASSUME IInv, NEW f \in Flows
  PROVE  /\ timeToInside[f] \in 0..AgeCap
         /\ InMap(f) => table[f] \in UDPConnToLocal /\ table[f].TimePacketToLocal \in 0..AgeCap
BY DEF IInv, OutsideTyped, InsideTyped, AgesCapped, InMap

(* A packet of f is sent, and nothing of the other numbers changes. *)
LEMMA ForwardStamps ==
  ASSUME IInv, StampsAgree, NEW f \in Flows, NEW r \in Remotes, Forward(f, r), ~lost',
         UNCHANGED insideVars, NEW g \in Flows, HasChannel(g), g # f => owner[g] # Free
  PROVE  UnderWay(g)' \/ table'[g].TimePacketToLocal <= timeToInside'[g]
<1>1. ~lost /\ net' = net \cup {[to |-> "Inside", flow |-> f, remote |-> r, age |-> 0]}
      /\ timeToInside' = [timeToInside EXCEPT ![f] = 0] /\ table' = table
  BY DEF Forward, Send, insideVars
<1>2. CASE g = f
  <2> DEFINE new == [to |-> "Inside", flow |-> f, remote |-> r, age |-> 0]
  <2>1. new \in net' /\ new.to = "Inside" /\ new.flow = f
    BY <1>1
  <2> QED
    BY <1>2, <2>1 DEF UnderWay
<1>3. CASE g # f
  <2>1. timeToInside'[g] = timeToInside[g]
    BY <1>1, <1>3
  <2> QED
    BY <1>1, <1>3, <2>1 DEF StampsAgree, UnderWay
<1> QED
  BY <1>2, <1>3

LEMMA PacketStamps ==
  ASSUME IInv, StampsAgree, NEW r \in Remotes, PacketOfOwner(r) \/ PacketOfNewcomer(r)
  PROVE  StampsAgree'
<1>1. PICK f \in Flows : /\ Forward(f, r)
                         /\ \A g \in Flows : g # f => owner'[g] = owner[g]
  BY DEF PacketOfOwner, PacketOfNewcomer, Owns, IInv, OutsideTyped
<1>2. UNCHANGED insideVars
  BY DEF PacketOfOwner, PacketOfNewcomer
<1>3. \A g \in Flows : HasChannel(g)' <=> HasChannel(g)
  BY <1>2 DEF HasChannel, InMap, insideVars
<1>4. \A g \in Flows : ~lost' /\ HasChannel(g) /\ (g # f => owner[g] # Free) =>
        UnderWay(g)' \/ table'[g].TimePacketToLocal <= timeToInside'[g]
  BY <1>1, <1>2, ForwardStamps
<1> QED
  BY <1>1, <1>3, <1>4 DEF StampsAgree

LEMMA PacketToLocalStamps ==
  ASSUME IInv, StampsAgree, NEW d \in net, PacketToLocal(d)
  PROVE  StampsAgree'
<1>1. d.flow \in Flows
  BY DEF IInv, FunnelTyped, Datagram
<1>2. /\ UNCHANGED <<owner, timeToInside, lost>> /\ net' \in {net, net \ {d}}
      /\ table' = [table EXCEPT ![d.flow] =
           IF HasChannel(d.flow) THEN [@ EXCEPT !.TimePacketToLocal = 0]
           ELSE [RequestTermination |-> FALSE, TimePacketToLocal |-> 0,
                 TimePacketToOutside |-> Never]]
  BY DEF PacketToLocal, Taken, outsideVars
<1>3. ASSUME NEW f \in Flows, ~lost', HasChannel(f)', owner'[f] # Free
      PROVE  UnderWay(f)' \/ table'[f].TimePacketToLocal <= timeToInside'[f]
  <2>1. timeToInside[f] \in 0..AgeCap /\ AgeCap \in Nat
    BY Stamps, Numbers
  <2>2. CASE f = d.flow
    <3>1. table'[f] = IF HasChannel(f) THEN [table[f] EXCEPT !.TimePacketToLocal = 0]
                      ELSE [RequestTermination |-> FALSE, TimePacketToLocal |-> 0,
                            TimePacketToOutside |-> Never]
      BY <1>1, <1>2, <2>2 DEF IInv, InsideTyped
    <3>2. HasChannel(f) => table[f] \in UDPConnToLocal
      BY Stamps DEF HasChannel
    <3>3. table'[f].TimePacketToLocal = 0
      BY <3>1, <3>2 DEF UDPConnToLocal
    <3> QED
      BY <1>2, <2>1, <3>3
  <2>3. CASE f # d.flow
    <3>1. table'[f] = table[f]
      BY <1>2, <2>3 DEF IInv, InsideTyped
    <3>2. HasChannel(f) /\ owner[f] # Free /\ ~lost
      BY <1>2, <1>3, <3>1 DEF HasChannel, InMap
    <3>3. UnderWay(f) => UnderWay(f)'
      BY <1>2, <2>3 DEF UnderWay
    <3> QED
      BY <1>2, <3>1, <3>2, <3>3 DEF StampsAgree
  <2> QED
    BY <2>2, <2>3
<1> QED
  BY <1>3 DEF StampsAgree

(* Steps that keep the time of each packet of a flow and of its channel.   *)
LEMMA KeptStamps ==
  ASSUME IInv, StampsAgree, ~lost' => ~lost,
         \A f \in Flows : ~lost' /\ HasChannel(f)' /\ owner'[f] # Free =>
           /\ HasChannel(f) /\ owner[f] # Free
           /\ UnderWay(f) => UnderWay(f)'
           /\ table'[f].TimePacketToLocal = table[f].TimePacketToLocal
           /\ timeToInside'[f] = timeToInside[f]
  PROVE  StampsAgree'
BY DEF StampsAgree

LEMMA TickStamps ==
  ASSUME IInv, StampsAgree, Tick
  PROVE  StampsAgree'
<1>1. /\ owner' = owner /\ lost' = lost
      /\ timeToInside' = [f \in Flows |-> IF owner[f] = Free THEN 0 ELSE Older(timeToInside[f])]
      /\ table' = [f \in Flows |->
                     IF ~InMap(f) THEN NoEntry
                     ELSE [table[f] EXCEPT !.TimePacketToLocal = Older(@),
                                           !.TimePacketToOutside = Older(@)]]
      /\ net' = {[d EXCEPT !.age = @ + 1] : d \in net}
  BY DEF Tick
<1>2. ASSUME NEW f \in Flows, ~lost', HasChannel(f)', owner'[f] # Free
      PROVE  UnderWay(f)' \/ table'[f].TimePacketToLocal <= timeToInside'[f]
  <2>1. InMap(f)
    BY <1>1, <1>2 DEF HasChannel, InMap
  <2>2. /\ table[f] \in UDPConnToLocal /\ table[f].TimePacketToLocal \in 0..AgeCap
        /\ timeToInside[f] \in 0..AgeCap
    BY <2>1, Stamps
  <2>3. /\ table'[f].RequestTermination = table[f].RequestTermination
        /\ table'[f].TimePacketToLocal = Older(table[f].TimePacketToLocal)
    BY <1>1, <2>1, <2>2 DEF UDPConnToLocal
  <2>4. timeToInside'[f] = Older(timeToInside[f])
    BY <1>1, <1>2
  <2>5. HasChannel(f) /\ owner[f] # Free /\ ~lost
    BY <1>1, <1>2, <2>1, <2>3 DEF HasChannel
  <2>6. CASE UnderWay(f)
    <3>1. PICK d \in net : d.to = "Inside" /\ d.flow = f
      BY <2>6 DEF UnderWay
    <3>2. d \in Datagram
      BY DEF IInv, FunnelTyped
    <3>3. [d EXCEPT !.age = @ + 1].to = "Inside" /\ [d EXCEPT !.age = @ + 1].flow = f
      BY <3>1, <3>2 DEF Datagram
    <3> QED
      BY <1>1, <3>3 DEF UnderWay
  <2>7. CASE table[f].TimePacketToLocal <= timeToInside[f]
    BY <2>2, <2>3, <2>4, <2>7, OlderKeepsOrder
  <2> QED
    BY <2>5, <2>6, <2>7 DEF StampsAgree
<1> QED
  BY <1>2 DEF StampsAgree

LEMMA CleanupStamps ==
  ASSUME IInv, StampsAgree, Cleanup
  PROVE  StampsAgree'
<1>1. /\ UNCHANGED <<owner, timeToInside, net, lost>>
      /\ \A f \in Flows : HasChannel(f)' => table'[f] = table[f]
  BY DEF Cleanup, outsideVars, HasChannel, InMap, IInv, InsideTyped, UDPConnToLocal
<1>2. \A f \in Flows : HasChannel(f)' => HasChannel(f)
  BY <1>1 DEF HasChannel, InMap
<1> QED
  BY <1>1, <1>2, KeptStamps DEF UnderWay

LEMMA CleanMapStamps ==
  ASSUME IInv, StampsAgree, CleanMapAddrPort
  PROVE  StampsAgree'
<1>1. /\ UNCHANGED <<insideVars, net, lost>>
      /\ \A f \in Flows : owner'[f] # Free =>
           owner'[f] = owner[f] /\ timeToInside'[f] = timeToInside[f]
  BY DEF CleanMapAddrPort
<1> QED
  BY <1>1, KeptStamps DEF insideVars, HasChannel, InMap, UnderWay

LEMMA NextStamps ==
  ASSUME IInv, StampsAgree, [Next]_vars
  PROVE  StampsAgree'
<1>1. ASSUME NEW r \in Remotes, PacketOfOwner(r) \/ PacketOfNewcomer(r) PROVE StampsAgree'
  BY <1>1, PacketStamps
<1>2. ASSUME NEW d \in net, AnswerToRemote(d) PROVE StampsAgree'
  <2>1. /\ UNCHANGED <<owner, timeToInside, table, lost>>
        /\ net' \in {net, net \ {d}} /\ d.to = "Outside"
    BY <1>2 DEF AnswerToRemote, Taken, insideVars
  <2> QED
    BY <2>1, KeptStamps DEF HasChannel, InMap, UnderWay
<1>3. ASSUME NEW d \in net, PacketToLocal(d) PROVE StampsAgree'
  BY <1>3, PacketToLocalStamps
<1>4. ASSUME NEW d \in net, Lose(d) PROVE StampsAgree'
  BY <1>4 DEF Lose, StampsAgree
<1>5. ASSUME NEW f \in Flows, NEW r \in Remotes, AnswerOfLocal(f, r) PROVE StampsAgree'
  <2>1. /\ UNCHANGED <<owner, timeToInside, lost>> /\ net \subseteq net'
        /\ table' = IF InMap(f) THEN [table EXCEPT ![f].TimePacketToOutside = 0] ELSE table
    BY <1>5 DEF AnswerOfLocal, outsideVars, Send
  <2>2. \A g \in Flows : InMap(g)' => /\ InMap(g)
                                      /\ table'[g].RequestTermination = table[g].RequestTermination
                                      /\ table'[g].TimePacketToLocal = table[g].TimePacketToLocal
    BY <2>1 DEF IInv, InsideTyped, InMap, UDPConnToLocal
  <2> QED
    BY <2>1, <2>2, KeptStamps DEF HasChannel, UnderWay
<1>6. ASSUME NEW f \in Flows, NEW r \in Remotes, Poll(f, r) PROVE StampsAgree'
  BY <1>6 DEF Poll, StampsAgree, outsideVars, HasChannel, InMap, UnderWay
<1>7. CASE HeloToOutside \/ HeloToInside \/ \E s \in Sides : Restart(s)
  BY <1>7 DEF HeloToOutside, HeloToInside, Restart, StampsAgree, outsideVars, insideVars,
    HasChannel, InMap, UnderWay
<1>8. CASE OutsideExit \/ InsideExit
  BY <1>8 DEF OutsideExit, InsideExit, StampsAgree
<1>9. CASE CleanMapAddrPort \/ Cleanup \/ Tick
  BY <1>9, CleanMapStamps, CleanupStamps, TickStamps
<1>10. CASE UNCHANGED vars
  BY <1>10 DEF vars, StampsAgree, outsideVars, insideVars, HasChannel, InMap, UnderWay
<1> QED
  BY <1>1, <1>2, <1>3, <1>4, <1>5, <1>6, <1>7, <1>8, <1>9, <1>10 DEF Next

(* Only Cleanup asks a channel to terminate that was not asked before. *)
LEMMA OnlyCleanupAsks ==
  ASSUME IInv, Next, NEW f \in Flows, HasChannel(f), InMap(f)', table'[f].RequestTermination
  PROVE  Cleanup
<1>1. InMap(f) /\ ~table[f].RequestTermination /\ table[f] \in UDPConnToLocal
  BY DEF HasChannel, InMap, IInv, InsideTyped
<1>2. table' # table
  BY <1>1
<1>3. ASSUME NEW d \in net, PacketToLocal(d) PROVE FALSE
  <2>1. d.flow \in Flows
    BY DEF IInv, FunnelTyped, Datagram
  <2>2. ~table'[f].RequestTermination
    BY <1>1, <1>3, <2>1 DEF PacketToLocal, IInv, InsideTyped, UDPConnToLocal
  <2> QED
    BY <2>2
<1>4. ASSUME NEW g \in Flows, NEW r \in Remotes, AnswerOfLocal(g, r) PROVE FALSE
  BY <1>1, <1>4 DEF AnswerOfLocal, IInv, InsideTyped, UDPConnToLocal
<1>5. CASE Tick
  BY <1>1, <1>5 DEF Tick, IInv, InsideTyped, UDPConnToLocal
<1>6. CASE InsideExit
  BY <1>6 DEF InsideExit, InMap
<1>7. \/ \E r \in Remotes : PacketOfOwner(r) \/ PacketOfNewcomer(r)
      \/ \E d \in net : AnswerToRemote(d) \/ Lose(d)
      \/ \E g \in Flows, r \in Remotes : Poll(g, r)
      \/ CleanMapAddrPort \/ HeloToOutside \/ HeloToInside
      \/ OutsideExit \/ \E s \in Sides : Restart(s)
      => table' = table
  BY DEF PacketOfOwner, PacketOfNewcomer, AnswerToRemote, Lose, Poll, CleanMapAddrPort, HeloToOutside,
    HeloToInside, OutsideExit, Restart, insideVars
<1> QED
  BY <1>2, <1>3, <1>4, <1>5, <1>6, <1>7 DEF Next

(* What Inside knows to be the last sign of life of a channel: the last    *)
(* answer if there was one, else the last packet.                          *)
LastSeen(f) ==
  IF table[f].TimePacketToOutside = Never THEN table[f].TimePacketToLocal
  ELSE table[f].TimePacketToOutside

(* No answer is younger: not one in the funnel, and not one that Outside   *)
(* had, but for the time it was under way.                                 *)
AnswersOld(f) ==
  /\ \A d \in net : d.to = "Outside" /\ d.flow = f => LastSeen(f) <= d.age
  /\ timeToRemote[f] # Never => LastSeen(f) <= timeToRemote[f] + MaxDelay

AnswersAgree == \A f \in Flows : HasChannel(f) => AnswersOld(f)

LEMMA Seen ==
  ASSUME IInv, NEW f \in Flows, InMap(f)
  PROVE  LastSeen(f) \in 0..AgeCap
BY Stamps, Numbers, TunnelAssumption DEF LastSeen, IInv, AgesCapped

LEMMA AgesOfFunnel ==
  ASSUME IInv, NEW d \in net
  PROVE  d \in Datagram /\ d.age \in Nat /\ d.age <= MaxDelay /\ d.flow \in Flows
BY Numbers DEF IInv, FunnelTyped, Datagram

LEMMA TimeToRemoteTyped ==
  ASSUME IInv, NEW f \in Flows
  PROVE  timeToRemote[f] \in 0..AgeCap \cup {Never}
BY DEF IInv, OutsideTyped

(* Steps that send no answer and give none to Outside. *)
LEMMA KeptAnswers ==
  ASSUME AnswersAgree,
         \A d \in net' : d.to = "Outside" => d \in net,
         \A f \in Flows : timeToRemote'[f] \in {timeToRemote[f], Never},
         \A f \in Flows : HasChannel(f)' => HasChannel(f) /\ table'[f] = table[f]
  PROVE  AnswersAgree'
<1> SUFFICES ASSUME NEW f \in Flows, HasChannel(f)' PROVE AnswersOld(f)'
  BY DEF AnswersAgree
<1>1. AnswersOld(f) /\ LastSeen(f)' = LastSeen(f)
  BY DEF AnswersAgree, LastSeen
<1> QED
  BY <1>1 DEF AnswersOld

LEMMA PacketAnswers ==
  ASSUME IInv, AnswersAgree, NEW r \in Remotes, PacketOfOwner(r) \/ PacketOfNewcomer(r)
  PROVE  AnswersAgree'
<1>1. PICK f \in Flows : Forward(f, r)
  BY DEF PacketOfOwner, PacketOfNewcomer, Owns
<1>2. \A d \in net' : d.to = "Outside" => d \in net
  BY <1>1 DEF Forward, Send
<1>3. table' = table /\ \A g \in Flows : timeToRemote'[g] \in {timeToRemote[g], Never}
  BY DEF PacketOfOwner, PacketOfNewcomer, insideVars, IInv, OutsideTyped
<1> QED
  BY <1>2, <1>3, KeptAnswers DEF HasChannel, InMap

LEMMA AnswerToRemoteAnswers ==
  ASSUME IInv, AnswersAgree, NEW d \in net, AnswerToRemote(d)
  PROVE  AnswersAgree'
<1>1. /\ timeToRemote' = [timeToRemote EXCEPT ![d.flow] = 0] /\ table' = table
      /\ net' \subseteq net /\ d.to = "Outside"
  BY DEF AnswerToRemote, Taken, insideVars
<1>2. ASSUME NEW f \in Flows, HasChannel(f)' PROVE AnswersOld(f)'
  <2>1. HasChannel(f) /\ AnswersOld(f) /\ LastSeen(f)' = LastSeen(f)
    BY <1>1, <1>2 DEF HasChannel, InMap, AnswersAgree, LastSeen
  <2>2. timeToRemote'[f] = IF f = d.flow THEN 0 ELSE timeToRemote[f]
    BY <1>1 DEF IInv, OutsideTyped
  <2>3. f = d.flow => LastSeen(f) <= 0 + MaxDelay
    <3>1. f = d.flow => LastSeen(f) <= d.age
      BY <1>1, <2>1 DEF AnswersOld
    <3>2. LastSeen(f) \in Nat
      BY <2>1, Seen, Numbers DEF HasChannel
    <3> QED
      BY <3>1, <3>2, AgesOfFunnel, Numbers
  <2> QED
    BY <1>1, <2>1, <2>2, <2>3 DEF AnswersOld
<1> QED
  BY <1>2 DEF AnswersAgree

LEMMA PacketToLocalAnswers ==
  ASSUME IInv, AnswersAgree, NEW d \in net, PacketToLocal(d)
  PROVE  AnswersAgree'
<1>1. /\ timeToRemote' = timeToRemote /\ net' \subseteq net
      /\ table' = [table EXCEPT ![d.flow] =
           IF HasChannel(d.flow) THEN [@ EXCEPT !.TimePacketToLocal = 0]
           ELSE [RequestTermination |-> FALSE, TimePacketToLocal |-> 0,
                 TimePacketToOutside |-> Never]]
  BY DEF PacketToLocal, Taken, outsideVars
<1>2. ASSUME NEW f \in Flows, HasChannel(f)' PROVE AnswersOld(f)'
  <2>1. CASE f = d.flow /\ LastSeen(f)' = 0
    <3>1. \A e \in net : 0 <= e.age
      BY AgesOfFunnel
    <3>2. timeToRemote[f] # Never => 0 <= timeToRemote[f] + MaxDelay
      BY TimeToRemoteTyped, Numbers
    <3> QED
      BY <1>1, <2>1, <3>1, <3>2 DEF AnswersOld
  <2>2. CASE HasChannel(f) /\ LastSeen(f)' = LastSeen(f)
    BY <1>1, <2>2 DEF AnswersOld, AnswersAgree
  <2>3. CASE f # d.flow
    <3>1. table'[f] = table[f]
      BY <1>1, <2>3 DEF IInv, InsideTyped
    <3> QED
      BY <1>2, <2>2, <3>1 DEF HasChannel, InMap, LastSeen
  <2>4. CASE f = d.flow
    <3>1. table'[f] = IF HasChannel(f) THEN [table[f] EXCEPT !.TimePacketToLocal = 0]
                      ELSE [RequestTermination |-> FALSE, TimePacketToLocal |-> 0,
                            TimePacketToOutside |-> Never]
      BY <1>1, <2>4 DEF IInv, InsideTyped
    <3>2. CASE ~HasChannel(f)
      BY <2>1, <2>4, <3>1, <3>2 DEF LastSeen
    <3>3. CASE HasChannel(f)
      <4>1. table[f] \in UDPConnToLocal
        BY <3>3, Stamps DEF HasChannel
      <4>2. /\ table'[f].TimePacketToLocal = 0
            /\ table'[f].TimePacketToOutside = table[f].TimePacketToOutside
        BY <3>1, <3>3, <4>1 DEF UDPConnToLocal
      <4> QED
        BY <2>1, <2>2, <2>4, <3>3, <4>2 DEF LastSeen
    <3> QED
      BY <3>2, <3>3
  <2> QED
    BY <2>3, <2>4
<1> QED
  BY <1>2 DEF AnswersAgree

LEMMA AnswerOfLocalAnswers ==
  ASSUME IInv, AnswersAgree, NEW f \in Flows, NEW r \in Remotes, AnswerOfLocal(f, r)
  PROVE  AnswersAgree'
<1>1. /\ timeToRemote' = timeToRemote
      /\ net' = net \cup {[to |-> "Outside", flow |-> f, remote |-> r, age |-> 0]}
      /\ table' = IF InMap(f) THEN [table EXCEPT ![f].TimePacketToOutside = 0] ELSE table
  BY DEF AnswerOfLocal, Send, outsideVars
<1>2. ASSUME NEW g \in Flows, HasChannel(g)' PROVE AnswersOld(g)'
  <2>1. CASE g = f
    <3>1. table[g] \in UDPConnToLocal /\ table'[g].TimePacketToOutside = 0
      BY <1>1, <1>2, <2>1 DEF HasChannel, InMap, IInv, InsideTyped, UDPConnToLocal
    <3>2. LastSeen(g)' = 0
      BY <3>1, TunnelAssumption DEF LastSeen
    <3>3. \A e \in net' : 0 <= e.age
      BY <1>1, AgesOfFunnel
    <3>4. timeToRemote[g] # Never => 0 <= timeToRemote[g] + MaxDelay
      BY TimeToRemoteTyped, Numbers
    <3> QED
      BY <1>1, <3>2, <3>3, <3>4 DEF AnswersOld
  <2>2. CASE g # f
    <3>1. table'[g] = table[g]
      BY <1>1, <2>2 DEF IInv, InsideTyped
    <3>2. AnswersOld(g) /\ LastSeen(g)' = LastSeen(g)
      BY <1>2, <3>1 DEF HasChannel, InMap, AnswersAgree, LastSeen
    <3> QED
      BY <1>1, <2>2, <3>2 DEF AnswersOld
  <2> QED
    BY <2>1, <2>2
<1> QED
  BY <1>2 DEF AnswersAgree

LEMMA TickAnswers ==
  ASSUME IInv, AnswersAgree, Tick
  PROVE  AnswersAgree'
<1>1. /\ timeToRemote' = [f \in Flows |-> Older(timeToRemote[f])]
      /\ table' = [f \in Flows |->
                     IF ~InMap(f) THEN NoEntry
                     ELSE [table[f] EXCEPT !.TimePacketToLocal = Older(@),
                                           !.TimePacketToOutside = Older(@)]]
      /\ net' = {[d EXCEPT !.age = @ + 1] : d \in net}
  BY DEF Tick
<1>2. ASSUME NEW f \in Flows, HasChannel(f)' PROVE AnswersOld(f)'
  <2>1. InMap(f)
    BY <1>1, <1>2 DEF HasChannel, InMap
  <2>2. table[f] \in UDPConnToLocal /\ LastSeen(f) \in 0..AgeCap
    BY <2>1, Stamps, Seen
  <2>3. /\ table'[f].RequestTermination = table[f].RequestTermination
        /\ table'[f].TimePacketToLocal = Older(table[f].TimePacketToLocal)
        /\ table'[f].TimePacketToOutside = Older(table[f].TimePacketToOutside)
    BY <1>1, <2>1, <2>2 DEF UDPConnToLocal
  <2>4. AnswersOld(f)
    BY <1>2, <2>1, <2>3 DEF HasChannel, AnswersAgree
  <2>5. LastSeen(f)' = Older(LastSeen(f))
    <3>1. Older(table[f].TimePacketToOutside) = Never <=> table[f].TimePacketToOutside = Never
      BY <2>1, Numbers, TunnelAssumption DEF Older, IInv, AgesCapped
    <3> QED
      BY <2>3, <3>1 DEF LastSeen
  <2>6. Older(LastSeen(f)) <= LastSeen(f) + 1 /\ Older(LastSeen(f)) <= AgeCap
    BY <2>2, Numbers, TunnelAssumption DEF Older
  <2>7. Older(LastSeen(f)) \in Nat
    BY <2>2, Numbers, TunnelAssumption DEF Older
  <2>8. ASSUME NEW e \in net', e.to = "Outside", e.flow = f PROVE LastSeen(f)' <= e.age
    <3>1. PICK d \in net : e = [d EXCEPT !.age = @ + 1]
      BY <1>1
    <3>2. d \in Datagram /\ d.age \in Nat
      BY AgesOfFunnel
    <3>3. e.to = d.to /\ e.flow = d.flow /\ e.age = d.age + 1
      BY <3>1, <3>2 DEF Datagram
    <3>4. LastSeen(f) <= d.age
      BY <2>4, <2>8, <3>3 DEF AnswersOld
    <3> QED
      BY <2>2, <2>5, <2>6, <2>7, <3>2, <3>3, <3>4
  <2>9. ASSUME timeToRemote'[f] # Never PROVE LastSeen(f)' <= timeToRemote'[f] + MaxDelay
    <3>1. timeToRemote'[f] = Older(timeToRemote[f])
      BY <1>1
    <3>2. timeToRemote[f] \in 0..AgeCap
      BY <2>9, <3>1, TimeToRemoteTyped, NeverStays
    <3>3. LastSeen(f) <= timeToRemote[f] + MaxDelay
      BY <2>4, <3>2, Numbers, TunnelAssumption DEF AnswersOld
    <3>4. Older(timeToRemote[f]) = IF timeToRemote[f] = AgeCap THEN AgeCap ELSE timeToRemote[f] + 1
      BY <3>2, TunnelAssumption DEF Older
    <3> QED
      BY <2>2, <2>5, <2>6, <2>7, <3>1, <3>2, <3>3, <3>4, Numbers
  <2> QED
    BY <2>8, <2>9 DEF AnswersOld
<1> QED
  BY <1>2 DEF AnswersAgree

LEMMA NextAnswers ==
  ASSUME IInv, AnswersAgree, [Next]_vars
  PROVE  AnswersAgree'
<1>1. ASSUME NEW r \in Remotes, PacketOfOwner(r) \/ PacketOfNewcomer(r) PROVE AnswersAgree'
  BY <1>1, PacketAnswers
<1>2. ASSUME NEW d \in net, AnswerToRemote(d) \/ PacketToLocal(d) PROVE AnswersAgree'
  BY <1>2, AnswerToRemoteAnswers, PacketToLocalAnswers
<1>3. ASSUME NEW d \in net, Lose(d) PROVE AnswersAgree'
  BY <1>3, KeptAnswers DEF Lose, outsideVars, insideVars, HasChannel, InMap
<1>4. ASSUME NEW f \in Flows, NEW r \in Remotes, AnswerOfLocal(f, r) PROVE AnswersAgree'
  BY <1>4, AnswerOfLocalAnswers
<1>5. ASSUME NEW f \in Flows, NEW r \in Remotes, Poll(f, r) PROVE AnswersAgree'
  BY <1>5, KeptAnswers DEF Poll, outsideVars, HasChannel, InMap
<1>6. CASE HeloToOutside \/ HeloToInside \/ \E s \in Sides : Restart(s)
  BY <1>6, KeptAnswers DEF HeloToOutside, HeloToInside, Restart, outsideVars, insideVars, HasChannel, InMap
<1>7. CASE CleanMapAddrPort
  BY <1>7, KeptAnswers DEF CleanMapAddrPort, insideVars, HasChannel, InMap
<1>8. CASE OutsideExit
  BY <1>8, KeptAnswers DEF OutsideExit, ForgetFlows, insideVars, HasChannel, InMap
<1>9. CASE InsideExit
  BY <1>9 DEF InsideExit, AnswersAgree, HasChannel, InMap
<1>10. CASE Cleanup
  <2>1. UNCHANGED <<timeToRemote, net>> /\ \A f \in Flows : HasChannel(f)' => table'[f] = table[f]
    BY <1>10 DEF Cleanup, outsideVars, HasChannel, InMap, IInv, InsideTyped, UDPConnToLocal
  <2>2. \A f \in Flows : HasChannel(f)' => HasChannel(f)
    BY <2>1 DEF HasChannel, InMap
  <2> QED
    BY <2>1, <2>2, KeptAnswers
<1>11. CASE Tick
  BY <1>11, TickAnswers
<1>12. CASE UNCHANGED vars
  BY <1>12, KeptAnswers DEF vars, outsideVars, insideVars, HasChannel, InMap
<1> QED
  BY <1>1, <1>2, <1>3, <1>4, <1>5, <1>6, <1>7, <1>8, <1>9, <1>10, <1>11, <1>12 DEF Next

(* QuietFor is what CleanMapAddrPort asks: with no delay allowed for and   *)
(* the limit of Outside it is Expired.                                     *)
LEMMA ExpiredIsQuiet ==
  ASSUME NEW f \in Flows, IInv
  PROVE  Expired(f) <=> ExpiredWithin(f, 0)
BY TimeToRemoteTyped, Numbers, TunnelAssumption
   DEF Expired, ExpiredWithin, QuietFor, OutsideLimit, IInv, OutsideTyped

(* For any timeouts and delays, as long as nothing is lost: when Cleanup   *)
(* of Inside asks a channel to terminate, Outside has seen nothing of the  *)
(* flow for as long as Inside waited, but for the delay of an answer.  So  *)
(* CleanMapAddrPort ends the flow as well unless its own limit is longer.  *)
THEOREM SessionSafe == Spec => SessionNotCut
<1>1. Init => StampsAgree /\ AnswersAgree
  BY DEF Init, StampsAgree, AnswersAgree, HasChannel, InMap
<1>2. IInv /\ StampsAgree /\ AnswersAgree /\ [Next]_vars => StampsAgree' /\ AnswersAgree'
  BY NextStamps, NextAnswers
<1>3. IInv /\ StampsAgree /\ AnswersAgree /\ [Next]_vars =>
        [\A f \in Flows :
           /\ ~lost
           /\ HasChannel(f) /\ InMap(f)' /\ table'[f].RequestTermination
           /\ owner[f] # Free
           => \/ UnderWay(f)
              \/ ExpiredWithin(f, MaxDelay)
              \/ OutsideLimit(f) > InsideLimit(f) /\ QuietFor(f, InsideLimit(f), MaxDelay)]_vars
  <2> SUFFICES ASSUME IInv, StampsAgree, AnswersAgree, Next, NEW f \in Flows, ~lost, HasChannel(f),
                      InMap(f)', table'[f].RequestTermination, owner[f] # Free, ~UnderWay(f)
      PROVE  \/ ExpiredWithin(f, MaxDelay)
             \/ OutsideLimit(f) > InsideLimit(f) /\ QuietFor(f, InsideLimit(f), MaxDelay)
    OBVIOUS
  <2>1. Cleanup
    BY OnlyCleanupAsks
  <2>2. TimedOut(f)
    BY <2>1 DEF Cleanup, HasChannel, InMap
  <2>3. /\ table[f].TimePacketToLocal \in 0..AgeCap /\ timeToInside[f] \in 0..AgeCap
        /\ table[f].TimePacketToLocal <= timeToInside[f]
    BY Stamps DEF StampsAgree, HasChannel
  <2>4. /\ LastSeen(f) \in Nat
        /\ timeToRemote[f] # Never => LastSeen(f) <= timeToRemote[f] + MaxDelay
        /\ timeToRemote[f] \in Nat \cup {Never}
    BY Seen, TimeToRemoteTyped, Numbers DEF AnswersAgree, AnswersOld, HasChannel
  <2>5. /\ OutsideLimit(f) \in Nat /\ InsideLimit(f) \in Nat
        /\ table[f].TimePacketToLocal > InsideLimit(f) /\ LastSeen(f) > InsideLimit(f)
    BY <2>2, TunnelAssumption DEF TimedOut, OutsideLimit, InsideLimit, LastSeen
  <2>6. QuietFor(f, InsideLimit(f), MaxDelay)
    BY <2>3, <2>4, <2>5, Numbers DEF QuietFor
  <2>7. CASE OutsideLimit(f) <= InsideLimit(f)
    BY <2>3, <2>4, <2>5, <2>6, <2>7, Numbers DEF QuietFor, ExpiredWithin
  <2> QED
    BY <2>5, <2>6, <2>7
<1> QED
  BY <1>1, <1>2, <1>3, Invariance, PTL DEF Spec, SessionNotCut

=============================================================================
