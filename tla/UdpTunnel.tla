------------------------------ MODULE UdpTunnel ------------------------------
(***************************************************************************)
(* The tunnel of udpbohrer from end to end: the flow numbers of Outside,   *)
(* the local channels of Inside that are named by the same numbers, the    *)
(* funnel between them, and the restart of either side.  FlowTable and     *)
(* LocalChannels show each table with its locks and goroutines; here every *)
(* table operation is one step, and what matters is that the two tables    *)
(* live and die independently: Outside forgets all its flows when it       *)
(* restarts, Inside keeps its channels until they time out, and a number   *)
(* that Outside hands out again may still name a channel of the remote     *)
(* that had it before.                                                     *)
(*                                                                         *)
(* One Id is looked at.  A datagram of the funnel carries a number; what   *)
(* it is about is the remote that sent the payload or that the local       *)
(* system means to answer.  Queues of a process count as network.  The     *)
(* network loses, doubles and reorders, and delivers within MaxDelay or    *)
(* not at all.  Timestamps are ages in seconds, capped.                    *)
(***************************************************************************)
EXTENDS Integers, FiniteSets

CONSTANTS
  Remotes,          \* addresses of remote systems
  Flows,            \* flow numbers
  Single,           \* initTimeoutSeconds, the same on both sides
  Bidirectional,    \* timeoutSeconds
  CleanUpInterval,  \* 5: what Go_in2out_receive adds to cleanUpTimeout
  MaxDelay,         \* the network delivers within so many seconds or never
  MaxInFlight,      \* bound: datagrams in the funnel
  Free,             \* the owner of a number nobody has
  NoEntry,          \* a number without a channel
  Never             \* the zero timestamp

Age == Nat \cup {Never}
UDPConnToLocal == [RequestTermination : BOOLEAN, TimePacketToLocal : Nat, TimePacketToOutside : Age]

ASSUME TunnelAssumption ==
  /\ Single \in Nat /\ Bidirectional \in Nat /\ CleanUpInterval \in Nat
  /\ MaxDelay \in Nat /\ MaxInFlight \in Nat \ {0}
  /\ Free \notin Remotes
  /\ NoEntry \notin UDPConnToLocal
  /\ Never \notin Nat

VARIABLES
  \* Outside
  owner,         \* mToR: number -> the remote it stands for
  timeToInside,  \* seconds since a packet of the owner
  timeToRemote,  \* seconds since an answer to the owner
  \* Inside
  table,         \* mapLocalChannel: number -> UDPConnToLocal
  heard,         \* per number: remotes whose socket to the local system is
                 \* still read by a Go_receive_from_local
  unnoticed,     \* numbers that asked to terminate since the clock ticked
  sinceCleanUp,  \* seconds since the last Cleanup
  \* both, and the network
  up,            \* the sides that run
  met,           \* the sides that had a HELO of the other
  net,           \* datagrams in the funnel
  \* history
  unused,        \* per number: seconds without an owner or an answer
  rested,        \* per number: it was unused long enough when handed out
  lost           \* a datagram was lost or a side restarted

outsideVars == <<owner, timeToInside, timeToRemote>>
insideVars  == <<table, heard, unnoticed, sinceCleanUp>>
sideVars    == <<up, met>>
vars == <<outsideVars, insideVars, sideVars, net, unused, rested, lost>>

Sides == {"Inside", "Outside"}

Longest == IF Single > Bidirectional THEN Single ELSE Bidirectional
AgeCap == Longest + 1
CleanUpCap == 2 * CleanUpInterval + 2

(* So long Inside may keep what it has of a number that nobody uses: a     *)
(* last packet under way, the timeout, the longest time to a Cleanup.      *)
KeepTime == MaxDelay + AgeCap + CleanUpCap

Datagram == [to : Sides, flow : Flows, remote : Remotes, age : 0..MaxDelay]

Init ==
  /\ owner = [f \in Flows |-> Free]
  /\ timeToInside = [f \in Flows |-> 0]
  /\ timeToRemote = [f \in Flows |-> Never]
  /\ table = [f \in Flows |-> NoEntry]
  /\ heard = [f \in Flows |-> {}]
  /\ unnoticed = {} /\ sinceCleanUp = CleanUpCap
  /\ up = Sides /\ met = {} /\ net = {}
  /\ unused = [f \in Flows |-> KeepTime + 1]
  /\ rested = [f \in Flows |-> FALSE]
  /\ lost = FALSE

Send(to, f, r) ==
  /\ Cardinality(net) < MaxInFlight
  /\ net' = net \cup {[to |-> to, flow |-> f, remote |-> r, age |-> 0]}

(* The network gives d to its receiver, and may keep a duplicate. *)
Taken(d) == net' \in {net, net \ {d}}

-----------------------------------------------------------------------------
(* Outside *)

Owns(r) == {f \in Flows : owner[f] = r}

(* GetFlowFromAddressPort, and the packet goes on once Inside is known. *)
Forward(f, r) ==
  /\ timeToInside' = [timeToInside EXCEPT ![f] = 0]
  /\ IF "Outside" \in met
     THEN Send("Inside", f, r) /\ UNCHANGED lost
     ELSE lost' = TRUE /\ UNCHANGED net

PacketOfOwner(r) ==
  /\ "Outside" \in up
  /\ \E f \in Owns(r) : Forward(f, r)
  /\ UNCHANGED <<owner, timeToRemote, insideVars, sideVars, unused, rested>>

PacketOfNewcomer(r) ==
  /\ "Outside" \in up
  /\ Owns(r) = {}
  /\ \E f \in Flows :
       /\ owner[f] = Free
       /\ owner' = [owner EXCEPT ![f] = r]
       /\ timeToRemote' = [timeToRemote EXCEPT ![f] = Never]
       /\ Forward(f, r)
       /\ rested' = [rested EXCEPT ![f] = unused[f] > KeepTime]
       /\ unused' = [unused EXCEPT ![f] = 0]
  /\ UNCHANGED <<insideVars, sideVars>>

(* Go_out2in_receive and Go_send_to_remote: the answer goes to whoever has *)
(* the number now, or to nobody.                                           *)
AnswerToRemote(d) ==
  /\ d \in net /\ d.to = "Outside"
  /\ {"Outside"} \subseteq up \cap met
  /\ owner[d.flow] # Free
  /\ timeToRemote' = [timeToRemote EXCEPT ![d.flow] = 0]
  /\ Taken(d)
  /\ UNCHANGED <<owner, timeToInside, insideVars, sideVars, unused, rested, lost>>

Expired(f) ==
  \/ timeToRemote[f] = Never /\ timeToInside[f] > Single
  \/ /\ timeToRemote[f] # Never
     /\ timeToInside[f] > Bidirectional /\ timeToRemote[f] > Bidirectional

CleanMapAddrPort ==
  LET expired == {f \in Flows : owner[f] # Free /\ Expired(f)} IN
  /\ "Outside" \in up
  /\ expired # {}
  /\ owner' = [f \in Flows |-> IF f \in expired THEN Free ELSE owner[f]]
  /\ timeToInside' = [f \in Flows |-> IF f \in expired THEN 0 ELSE timeToInside[f]]
  /\ timeToRemote' = [f \in Flows |-> IF f \in expired THEN Never ELSE timeToRemote[f]]
  /\ rested' = [f \in Flows |-> IF f \in expired THEN FALSE ELSE rested[f]]
  /\ UNCHANGED <<insideVars, sideVars, net, unused, lost>>

-----------------------------------------------------------------------------
(* Inside *)

InMap(f) == table[f] # NoEntry

(* getLocalChannel: an entry asked to terminate is as good as none. *)
HasChannel(f) == InMap(f) /\ ~table[f].RequestTermination

(* GetLocalChannel takes the channel of the number or makes a new entry    *)
(* with a socket of its own; the goroutines of an entry in whose place it  *)
(* comes go on, for they find the new one under their number.              *)
PacketToLocal(d) ==
  /\ d \in net /\ d.to = "Inside"
  /\ {"Inside"} \subseteq up \cap met
  /\ table' = [table EXCEPT ![d.flow] =
       IF HasChannel(d.flow) THEN [@ EXCEPT !.TimePacketToLocal = 0]
       ELSE [RequestTermination |-> FALSE, TimePacketToLocal |-> 0,
             TimePacketToOutside |-> Never]]
  /\ heard' = [heard EXCEPT ![d.flow] = @ \cup {d.remote}]
  /\ unnoticed' = unnoticed \ {d.flow}
  /\ Taken(d)
  /\ UNCHANGED <<sinceCleanUp, outsideVars, sideVars, unused, rested, lost>>

(* The local system answers r on a socket that is still read, and          *)
(* Go_in2out_send stamps whatever entry the number has by then.            *)
AnswerOfLocal(f, r) ==
  /\ r \in heard[f]
  /\ Send("Outside", f, r)
  /\ table' = IF InMap(f) THEN [table EXCEPT ![f].TimePacketToOutside = 0] ELSE table
  /\ unused' = [unused EXCEPT ![f] = 0]
  /\ UNCHANGED <<heard, unnoticed, sinceCleanUp, outsideVars, sideVars, rested, lost>>

TimedOutOfPackets(f) ==
  table[f].TimePacketToLocal > (IF table[f].TimePacketToOutside = Never THEN Single ELSE Bidirectional)
TimedOut(f) ==
  \/ table[f].TimePacketToOutside = Never /\ table[f].TimePacketToLocal > Single
  \/ /\ table[f].TimePacketToOutside # Never
     /\ table[f].TimePacketToLocal > Bidirectional
     /\ table[f].TimePacketToOutside > Bidirectional

(* Cleanup drops what asked to terminate and has no goroutine left, and    *)
(* asks what timed out.  Counts that went wrong may keep an entry.         *)
Cleanup ==
  /\ "Inside" \in up
  /\ sinceCleanUp > 2 * CleanUpInterval
  /\ sinceCleanUp' = 0
  /\ LET asked == {f \in Flows : InMap(f) /\ ~table[f].RequestTermination /\ TimedOut(f)}
         done  == {f \in Flows : InMap(f) /\ table[f].RequestTermination /\ heard[f] = {}}
     IN \E removed \in SUBSET done :
          /\ table' = [f \in Flows |->
                IF f \in removed THEN NoEntry
                ELSE IF f \in asked THEN [table[f] EXCEPT !.RequestTermination = TRUE]
                ELSE table[f]]
          /\ unnoticed' = unnoticed \cup asked
  /\ UNCHANGED <<heard, outsideVars, sideVars, net, unused, rested, lost>>

(* CheckRequestTermination of one Go_receive_from_local. *)
NeverTerminates(f) == FALSE
Terminates(f) == InMap(f) => table[f].RequestTermination

Poll(f, r) ==
  /\ r \in heard[f]
  /\ Terminates(f)
  /\ heard' = [heard EXCEPT ![f] = @ \ {r}]
  /\ UNCHANGED <<table, unnoticed, sinceCleanUp, outsideVars, sideVars, net, unused, rested, lost>>

-----------------------------------------------------------------------------
(* HELOs, restarts, the network and the clock *)

(* Outside learns where Inside is, Inside that Outside answers. *)
HeloToOutside ==
  /\ up = Sides
  /\ met' = met \cup {"Outside"}
  /\ UNCHANGED <<outsideVars, insideVars, up, net, unused, rested, lost>>

HeloToInside ==
  /\ up = Sides /\ "Outside" \in met
  /\ met' = Sides
  /\ UNCHANGED <<outsideVars, insideVars, up, net, unused, rested, lost>>

KeepFlows == UNCHANGED <<owner, timeToInside, timeToRemote, rested>>
ForgetFlows ==
  /\ owner' = [f \in Flows |-> Free]
  /\ timeToInside' = [f \in Flows |-> 0]
  /\ timeToRemote' = [f \in Flows |-> Never]
  /\ rested' = [f \in Flows |-> FALSE]

OutsideExit ==
  /\ "Outside" \in up
  /\ ForgetFlows
  /\ up' = up \ {"Outside"} /\ met' = met \ {"Outside"}
  /\ lost' = TRUE
  /\ UNCHANGED <<insideVars, net, unused>>

InsideExit ==
  /\ "Inside" \in up
  /\ table' = [f \in Flows |-> NoEntry]
  /\ heard' = [f \in Flows |-> {}]
  /\ unnoticed' = {} /\ sinceCleanUp' = CleanUpCap
  /\ up' = up \ {"Inside"} /\ met' = met \ {"Inside"}
  /\ lost' = TRUE
  /\ UNCHANGED <<outsideVars, net, unused, rested>>

Restart(s) ==
  /\ s \notin up
  /\ up' = up \cup {s}
  /\ UNCHANGED <<outsideVars, insideVars, met, net, unused, rested, lost>>

(* Also a datagram that its receiver refuses. *)
Lose(d) ==
  /\ d \in net
  /\ net' = net \ {d}
  /\ lost' = TRUE
  /\ UNCHANGED <<outsideVars, insideVars, sideVars, unused, rested>>

Older(age) == IF age \in {Never, AgeCap} THEN age ELSE age + 1
UpTo(n, cap) == IF n < cap THEN n + 1 ELSE cap

(* Every goroutine polls between two ticks.  Cleanup is due when sinceCleanUp *)
(* is over twice the interval, and a second later if a HELO ends that turn. *)
Tick ==
  /\ "Inside" \in up => sinceCleanUp < CleanUpCap
  /\ \A f \in Flows : Terminates(f) /\ f \notin unnoticed => heard[f] = {}
  /\ \A d \in net : d.age < MaxDelay
  /\ timeToInside' = [f \in Flows |-> IF owner[f] = Free THEN 0 ELSE Older(timeToInside[f])]
  /\ timeToRemote' = [f \in Flows |-> Older(timeToRemote[f])]
  /\ table' = [f \in Flows |->
                 IF ~InMap(f) THEN NoEntry
                 ELSE [table[f] EXCEPT !.TimePacketToLocal = Older(@),
                                       !.TimePacketToOutside = Older(@)]]
  /\ unnoticed' = {}
  /\ sinceCleanUp' = UpTo(sinceCleanUp, CleanUpCap)
  /\ net' = {[d EXCEPT !.age = @ + 1] : d \in net}
  /\ unused' = [f \in Flows |-> IF owner[f] = Free THEN UpTo(unused[f], KeepTime + 1) ELSE 0]
  /\ UNCHANGED <<owner, heard, sideVars, rested, lost>>

Next ==
  \/ \E r \in Remotes : PacketOfOwner(r) \/ PacketOfNewcomer(r)
  \/ \E d \in net : AnswerToRemote(d) \/ PacketToLocal(d) \/ Lose(d)
  \/ \E f \in Flows, r \in Remotes : AnswerOfLocal(f, r) \/ Poll(f, r)
  \/ CleanMapAddrPort \/ Cleanup
  \/ HeloToOutside \/ HeloToInside
  \/ OutsideExit \/ InsideExit \/ \E s \in Sides : Restart(s)
  \/ Tick

Spec == Init /\ [][Next]_vars

-----------------------------------------------------------------------------
(* Properties *)

(* Types and the bounds of the timers; a side that is down knows nothing. *)
TypeOK ==
  /\ owner \in [Flows -> Remotes \cup {Free}]
  /\ timeToInside \in [Flows -> 0..AgeCap]
  /\ timeToRemote \in [Flows -> 0..AgeCap \cup {Never}]
  /\ table \in [Flows -> UDPConnToLocal \cup {NoEntry}]
  /\ heard \in [Flows -> SUBSET Remotes]
  /\ unnoticed \in SUBSET Flows /\ sinceCleanUp \in 0..CleanUpCap
  /\ up \in SUBSET Sides /\ met \in SUBSET up
  /\ net \in SUBSET Datagram /\ Cardinality(net) <= MaxInFlight
  /\ unused \in [Flows -> 0..(KeepTime + 1)]
  /\ rested \in [Flows -> BOOLEAN] /\ lost \in BOOLEAN
  /\ "Outside" \notin up => \A f \in Flows : owner[f] = Free
  /\ "Inside" \notin up => \A f \in Flows : ~InMap(f) /\ heard[f] = {}

(* A number that Outside hands out after nobody used it for KeepTime, be   *)
(* it the same Outside or a restarted one, brings no trace of the remote   *)
(* that had it before: no socket of Inside that is read for another one,   *)
(* no datagram about another one in the funnel.                            *)
RestedNumberIsClean ==
  \A f \in Flows : rested[f] =>
    /\ heard[f] \subseteq {owner[f]}
    /\ \A d \in net : d.flow = f => d.remote = owner[f]

(* Outside saw no packet of f for longer than limit, and no answer for     *)
(* longer than that but for n seconds.                                     *)
QuietFor(f, limit, n) ==
  /\ timeToInside[f] > limit
  /\ timeToRemote[f] # Never => timeToRemote[f] + n > limit

OutsideLimit(f) == IF timeToRemote[f] = Never THEN Single ELSE Bidirectional
InsideLimit(f) == IF table[f].TimePacketToOutside = Never THEN Single ELSE Bidirectional

(* CleanMapAddrPort ends f, Expired(f), within n seconds at the latest if  *)
(* f stays unused.                                                         *)
ExpiredWithin(f, n) == QuietFor(f, OutsideLimit(f), n)

UnderWay(f) == \E d \in net : d.to = "Inside" /\ d.flow = f

(* As long as nothing is lost and nobody restarts, Inside ends the channel *)
(* of a flow that Outside has only when                                    *)
(*   - a packet of the remote is just under way to Inside, or              *)
(*   - Outside ends the flow as well: it has expired there, or will within *)
(*     MaxDelay, for the last answer took so long, or                      *)
(*   - Outside waits longer, for only one of them knows of an answer: the  *)
(*     channel has none (Inside made it anew, of a packet that came after  *)
(*     the old one timed out) or, if Single is the longer limit, Outside.  *)
(*     Then Outside saw nothing of the flow for as long as Inside waits,   *)
(*     but for the delay of an answer.                                     *)
SessionNotCut ==
  [][\A f \in Flows :
       /\ ~lost
       /\ HasChannel(f) /\ InMap(f)' /\ table'[f].RequestTermination
       /\ owner[f] # Free
       => \/ UnderWay(f)
          \/ ExpiredWithin(f, MaxDelay)
          \/ OutsideLimit(f) > InsideLimit(f) /\ QuietFor(f, InsideLimit(f), MaxDelay)]_vars
=============================================================================
