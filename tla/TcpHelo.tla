------------------------------- MODULE TcpHelo -------------------------------
(***************************************************************************)
(* The control connection of tcpbohrer: RunInside, goSendHelo and          *)
(* goConnectToOutside on the Inside, RunOutside, goSendToInside and what   *)
(* the dispatcher does with connections that are no answers on the         *)
(* Outside.  The first connection that Outside accepts is the control      *)
(* connection; every later one goes to the dispatcher, the control         *)
(* connection of a restarted Inside too.  Each side exits on a wrong, late *)
(* or missing message and is started again by init.                        *)
(*                                                                         *)
(* ReadFromTCPConnection never notices the end of a stream (err is that of *)
(* the first Read, whose deadline has passed), so a reader learns of the   *)
(* end of its peer by its own timeout.  A connection is its two streams of *)
(* whole messages of 14 bytes.  A connection that answers an announcement  *)
(* is followed until Outside has read its key; TcpAccept and TcpHalf go on *)
(* from there.  Timestamps are ages or seconds left.                       *)
(***************************************************************************)
EXTENDS Integers, Sequences, SequencesExt

CONSTANTS
  Conns,              \* TCP connections to Funnel:OutPort
  HeloTimeout,        \* heloTimeout, seconds
  ConnectTimeout,     \* connectTimeout
  MaxTimeDifference,  \* maxControlTimeDifferenceSeconds
  ChannelSize,        \* 20: entries of chToInside
  StreamSize,         \* messages the buffers of one stream hold
  MaxConnecting,      \* bound: goConnectToOutside running at a time
  NoConn

ASSUME TcpHeloAssumption ==
  /\ HeloTimeout \in Nat /\ HeloTimeout >= 3
  /\ ConnectTimeout \in Nat \ {0} /\ MaxTimeDifference \in Nat
  /\ ChannelSize \in Nat \ {0} /\ StreamSize \in Nat \ {0}
  /\ MaxConnecting \in Nat
  /\ NoConn \notin Conns

VARIABLES
  \* Inside
  inside,         \* "dial", "run", "exited", or "down" when init is due
  control,        \* conn of RunInside
  bAnswered,      \* timeout is HeloTimeout, no longer ConnectTimeout
  insideLeft,     \* seconds left in ReadFromTCPConnection
  untilHelo,      \* seconds left of the sleep of goSendHelo
  connecting,     \* goConnectToOutside that wait for their connections
  \* Outside
  outside,        \* "accept", "read", "put", "exited" or "down"
  heloConn,       \* the first connection accepted
  bReceivedHelo,  \* the dispatcher and goSendToInside run
  outsideLeft,    \* seconds left in ReadFromTCPConnection
  answer,         \* at "put": the age of the HELO to answer
  chToInside,     \* queue to goSendToInside
  \* the network
  backlog,        \* connections the listener has, oldest first
  toOutside,      \* per connection: messages under way
  toInside,       \* messages under way on the control connection of Inside
  blocked,        \* per side: seconds that its Write has been waiting
  calm,           \* all arrives at once, nobody crashes, init starts at once
  \* history
  orphan          \* per side: seconds it has gone on without its peer

readVars    == <<inside, control, bAnswered, insideLeft>>
insideVars  == <<readVars, untilHelo, connecting>>
runVars     == <<outside, heloConn, bReceivedHelo, outsideLeft, answer>>
outsideVars == <<runVars, chToInside>>
netVars     == <<backlog, toOutside, toInside>>
envVars     == <<blocked, calm, orphan>>
vars == <<insideVars, outsideVars, netVars, envVars>>

Sides == {"Inside", "Outside"}
RepeatTimeWhole == HeloTimeout
RepeatTime == HeloTimeout \div 3   \* time.Duration(HeloTimeout/3) seconds
AgeCap == MaxTimeDifference + 1

(* An old message and the timeout that it starts anew, or the timeout with *)
(* no message at all.                                                      *)
Patience == IF ConnectTimeout > HeloTimeout + MaxTimeDifference
            THEN ConnectTimeout ELSE HeloTimeout + MaxTimeDifference
OrphanCap == Patience + 1

Message == [kind : {"HELO", "key", "answer", "call"}, age : 0..AgeCap]
Msg(k, a) == [kind |-> k, age |-> a]

(* DecodeControlPacket refuses a timestamp too far from the own clock. *)
AnyAge(m) == TRUE
Decodes(m) == m.age <= MaxTimeDifference

Up(s) == IF s = "Inside" THEN inside = "run" ELSE outside \in {"read", "put"}
Linked == control # NoConn /\ heloConn = control
FreeConns == Conns \ ({control, heloConn} \cup ToSet(backlog))

Init ==
  /\ inside = "down" /\ control = NoConn /\ bAnswered = FALSE
  /\ insideLeft = 0 /\ untilHelo = 0 /\ connecting = 0
  /\ outside = "down" /\ heloConn = NoConn /\ bReceivedHelo = FALSE
  /\ outsideLeft = 0 /\ answer = 0 /\ chToInside = <<>>
  /\ backlog = <<>> /\ toOutside = [c \in Conns |-> <<>>] /\ toInside = <<>>
  /\ blocked = [s \in Sides |-> 0] /\ calm = FALSE
  /\ orphan = [s \in Sides |-> 0]

-----------------------------------------------------------------------------
(* Inside *)

(* A connection to Outside whose first message, if any, is under way. *)
Connect(first) ==
  /\ outside \in {"accept", "read", "put"}
  /\ FreeConns # {}
  /\ LET c == CHOOSE c \in FreeConns : TRUE IN
       /\ backlog' = Append(backlog, c)
       /\ toOutside' = [toOutside EXCEPT ![c] = first]

DialToOutside ==
  /\ inside = "dial"
  /\ Connect(<<>>)
  /\ control' = Last(backlog')
  /\ inside' = "run" /\ bAnswered' = FALSE
  /\ insideLeft' = ConnectTimeout /\ untilHelo' = 0
  /\ UNCHANGED <<connecting, outsideVars, toInside, envVars>>

(* os.Exit: the streams of the process end, with or without what is in them. *)
InsideDies ==
  /\ inside' = "exited"
  /\ control' = NoConn /\ bAnswered' = FALSE
  /\ insideLeft' = 0 /\ untilHelo' = 0 /\ connecting' = 0
  /\ toInside' = <<>>
  /\ toOutside' \in {toOutside} \cup
       IF control = NoConn THEN {} ELSE {[toOutside EXCEPT ![control] = <<>>]}
  /\ blocked' = [blocked EXCEPT !["Inside"] = 0]
  /\ orphan' = [orphan EXCEPT !["Inside"] = 0]
  /\ UNCHANGED <<outsideVars, backlog, calm>>

(* All three tries of DialToOutsideOrLocal failed. *)
DialFails ==
  /\ inside = "dial"
  /\ ~calm \/ outside \in {"exited", "down"} \/ FreeConns = {}
  /\ InsideDies

HeloDue == inside = "run" /\ untilHelo = 0
HasOutside(c) == c = heloConn \/ c \in ToSet(backlog)

(* A HELO is encoded before its Write, which may block.  A Write to a peer *)
(* that is gone may still succeed.                                         *)
HeloAge == IF blocked["Inside"] < AgeCap THEN blocked["Inside"] ELSE AgeCap

SendHelo ==
  /\ HeloDue
  /\ IF HasOutside(control)
     THEN /\ Len(toOutside[control]) < StreamSize
          /\ toOutside' = [toOutside EXCEPT ![control] = Append(@, Msg("HELO", HeloAge))]
     ELSE UNCHANGED toOutside
  /\ untilHelo' = RepeatTime
  /\ blocked' = [blocked EXCEPT !["Inside"] = 0]
  /\ UNCHANGED <<readVars, connecting, outsideVars, backlog, toInside, calm, orphan>>

SendHeloFails ==
  /\ HeloDue
  /\ ~HasOutside(control) \/ blocked["Inside"] = ConnectTimeout
  /\ InsideDies

(* RunInside: the timeout is chosen once there was an answer, and starts   *)
(* anew with every message.                                                *)
ReadByInside ==
  LET m == Head(toInside) IN
  /\ inside = "run" /\ toInside # <<>>
  /\ Decodes(m)
  /\ toInside' = Tail(toInside)
  /\ bAnswered' = (bAnswered \/ m.kind = "answer")
  /\ insideLeft' = IF bAnswered' THEN HeloTimeout ELSE ConnectTimeout
  /\ \/ m.kind = "answer" /\ UNCHANGED connecting
     \/ m.kind = "call" /\ connecting < MaxConnecting /\ connecting' = connecting + 1
     \/ m.kind = "call" /\ connecting = MaxConnecting /\ UNCHANGED connecting
  /\ UNCHANGED <<inside, control, untilHelo, outsideVars, backlog, toOutside, envVars>>

InsideExits ==
  /\ inside = "run"
  /\ insideLeft = 0 \/ (toInside # <<>> /\ ~Decodes(Head(toInside)))
  /\ InsideDies

(* goConnectToOutside: the local system answers and then Outside does, or  *)
(* it returns without a word to Outside.                                   *)
ConnectToOutside ==
  /\ connecting > 0
  /\ connecting' = connecting - 1
  /\ \/ Connect(<<Msg("key", 0)>>)
     \/ UNCHANGED <<backlog, toOutside>>
  /\ UNCHANGED <<readVars, untilHelo, outsideVars, toInside, envVars>>

-----------------------------------------------------------------------------
(* Outside *)

(* AcceptTCP has no deadline; what comes first is taken for Inside. *)
AcceptInside ==
  /\ outside = "accept" /\ backlog # <<>>
  /\ heloConn' = Head(backlog) /\ backlog' = Tail(backlog)
  /\ outside' = "read" /\ outsideLeft' = ConnectTimeout
  /\ orphan' = IF heloConn' = control THEN [orphan EXCEPT !["Inside"] = 0] ELSE orphan
  /\ UNCHANGED <<insideVars, bReceivedHelo, answer, chToInside, toOutside, toInside,
                 blocked, calm>>

(* os.Exit: the listener and its connections end. *)
OutsideDies ==
  /\ outside' = "exited"
  /\ heloConn' = NoConn /\ bReceivedHelo' = FALSE
  /\ outsideLeft' = 0 /\ answer' = 0 /\ chToInside' = <<>>
  /\ backlog' = <<>>
  /\ toOutside' = [c \in Conns |-> <<>>]
  /\ toInside' \in {toInside, <<>>}
  /\ blocked' = [blocked EXCEPT !["Outside"] = 0]
  /\ orphan' = [orphan EXCEPT !["Outside"] = 0]
  /\ UNCHANGED <<insideVars, calm>>

GoodHelo(m) == m.kind = "HELO" /\ Decodes(m)

ReadHeloAndStart ==
  /\ outside = "read" /\ toOutside[heloConn] # <<>>
  /\ GoodHelo(Head(toOutside[heloConn]))
  /\ answer' = Head(toOutside[heloConn]).age
  /\ toOutside' = [toOutside EXCEPT ![heloConn] = Tail(@)]
  /\ outside' = "put" /\ bReceivedHelo' = TRUE
  /\ UNCHANGED <<insideVars, heloConn, outsideLeft, chToInside, backlog, toInside, envVars>>

ReadHelo ==
  /\ outside = "read" /\ toOutside[heloConn] # <<>>
  /\ GoodHelo(Head(toOutside[heloConn]))
  /\ answer' = Head(toOutside[heloConn]).age
  /\ toOutside' = [toOutside EXCEPT ![heloConn] = Tail(@)]
  /\ outside' = "put"
  /\ UNCHANGED <<insideVars, heloConn, bReceivedHelo, outsideLeft, chToInside, backlog,
                 toInside, envVars>>

OutsideExits ==
  /\ outside = "read"
  /\ \/ outsideLeft = 0
     \/ toOutside[heloConn] # <<>> /\ ~GoodHelo(Head(toOutside[heloConn]))
  /\ OutsideDies

(* The answer keeps the timestamp of the HELO.  Only after the first one   *)
(* the goroutines are started that fill and empty chToInside.              *)
PutAnswer ==
  /\ outside = "put"
  /\ Len(chToInside) < ChannelSize
  /\ chToInside' = Append(chToInside, Msg("answer", answer))
  /\ answer' = 0
  /\ bReceivedHelo' = TRUE
  /\ outside' = "read" /\ outsideLeft' = HeloTimeout
  /\ UNCHANGED <<insideVars, heloConn, netVars, envVars>>

AnnounceAtOnce ==
  /\ heloConn # NoConn
  /\ Len(chToInside) < ChannelSize
  /\ chToInside' = Append(chToInside, Msg("call", 0))
  /\ UNCHANGED <<insideVars, runVars, netVars, envVars>>

(* goManageAcceptedConnectionFromRemote announces a parked connection. *)
Announce ==
  /\ bReceivedHelo
  /\ Len(chToInside) < ChannelSize
  /\ chToInside' = Append(chToInside, Msg("call", 0))
  /\ UNCHANGED <<insideVars, runVars, netVars, envVars>>

SendToInside ==
  /\ bReceivedHelo /\ chToInside # <<>>
  /\ IF Linked
     THEN /\ Len(toInside) < StreamSize
          /\ toInside' = Append(toInside, Head(chToInside))
     ELSE UNCHANGED toInside
  /\ chToInside' = Tail(chToInside)
  /\ blocked' = [blocked EXCEPT !["Outside"] = 0]
  /\ UNCHANGED <<insideVars, runVars, backlog, toOutside, calm, orphan>>

SendToInsideFails ==
  /\ bReceivedHelo /\ chToInside # <<>>
  /\ ~Linked \/ blocked["Outside"] = ConnectTimeout
  /\ OutsideDies

(* The dispatcher reads the first message of any other connection.  That   *)
(* of another Inside is no key and is closed, a key leaves this module,    *)
(* and one that stays silent for ConnectTimeout is closed.                 *)
Dispatch ==
  /\ bReceivedHelo /\ backlog # <<>>
  /\ calm /\ Head(backlog) = control => toOutside[control] # <<>>
  /\ backlog' = Tail(backlog)
  /\ toOutside' = [toOutside EXCEPT ![Head(backlog)] = <<>>]
  /\ UNCHANGED <<insideVars, outsideVars, toInside, envVars>>

-----------------------------------------------------------------------------
(* init, crashes and the clock *)

InsideStarts ==
  /\ inside \in {"exited", "down"}
  /\ inside' = "dial"
  /\ UNCHANGED <<control, bAnswered, insideLeft, untilHelo, connecting, outsideVars,
                 netVars, envVars>>

OutsideStarts ==
  /\ outside \in {"exited", "down"}
  /\ outside' = "accept"
  /\ UNCHANGED <<insideVars, heloConn, bReceivedHelo, outsideLeft, answer, chToInside,
                 netVars, envVars>>

Crash ==
  /\ ~calm
  /\ \/ inside \in {"dial", "run"} /\ InsideDies
     \/ outside \in {"accept", "read", "put"} /\ OutsideDies

CalmDown ==
  /\ ~calm
  /\ calm' = TRUE
  /\ UNCHANGED <<insideVars, outsideVars, netVars, blocked, orphan>>

UpTo(n, cap) == IF n < cap THEN n + 1 ELSE cap
Older(s) == [i \in DOMAIN s |-> [s[i] EXCEPT !.age = UpTo(@, AgeCap)]]

Waits(s) ==
  IF s = "Inside" THEN HeloDue /\ HasOutside(control) /\ Len(toOutside[control]) = StreamSize
  ELSE chToInside # <<>> /\ Linked /\ Len(toInside) = StreamSize

(* What each side does within the second it can. *)
InsideInTime ==
  inside = "run" =>
    /\ insideLeft > 0
    /\ HeloDue => Waits("Inside") /\ blocked["Inside"] < ConnectTimeout
OutsideInTime ==
  /\ outside = "read" => outsideLeft > 0
  /\ outside = "put" => Len(chToInside) = ChannelSize
  /\ chToInside # <<>> => Waits("Outside") /\ blocked["Outside"] < ConnectTimeout

(* In the calm, all that is under way arrives within the second as well. *)
AllArrived ==
  /\ inside \in {"run", "exited"} /\ outside \notin {"down", "put"}
  /\ connecting = 0 /\ chToInside = <<>> /\ toInside = <<>>
  /\ heloConn # NoConn => toOutside[heloConn] = <<>>
  /\ (outside = "accept" \/ bReceivedHelo) => backlog = <<>>

Tick ==
  /\ InsideInTime /\ OutsideInTime
  /\ calm => AllArrived
  /\ inside' = IF inside = "exited" THEN "down" ELSE inside
  /\ outside' = IF outside = "exited" THEN "down" ELSE outside
  /\ insideLeft' = IF inside = "run" THEN insideLeft - 1 ELSE 0
  /\ untilHelo' = IF untilHelo > 0 THEN untilHelo - 1 ELSE 0
  /\ outsideLeft' = IF outside = "read" THEN outsideLeft - 1 ELSE outsideLeft
  /\ answer' = IF outside = "put" THEN UpTo(answer, AgeCap) ELSE answer
  /\ chToInside' = Older(chToInside)
  /\ toOutside' = [c \in Conns |-> Older(toOutside[c])]
  /\ toInside' = Older(toInside)
  /\ blocked' = [s \in Sides |-> IF Waits(s) THEN blocked[s] + 1 ELSE 0]
  /\ orphan' = [s \in Sides |-> IF Up(s) /\ ~Linked THEN UpTo(orphan[s], OrphanCap) ELSE 0]
  /\ UNCHANGED <<control, bAnswered, connecting, heloConn, bReceivedHelo, backlog, calm>>

InsideStep ==
  \/ DialToOutside \/ DialFails \/ SendHelo \/ SendHeloFails
  \/ ReadByInside \/ InsideExits \/ ConnectToOutside \/ InsideStarts
OutsideStep ==
  \/ AcceptInside \/ ReadHelo \/ PutAnswer \/ OutsideExits
  \/ SendToInside \/ SendToInsideFails \/ Dispatch \/ OutsideStarts

Next == InsideStep \/ OutsideStep \/ Announce \/ Crash \/ CalmDown \/ Tick

Spec == Init /\ [][Next]_vars

(* The clock runs whatever the remotes do; every goroutine that can go on   *)
(* does, a channel serves the senders that wait in turn, and init starts a *)
(* side that exited.                                                       *)
Fairness ==
  /\ SF_vars(Tick)
  /\ WF_vars(DialToOutside \/ DialFails)
  /\ WF_vars(SendHelo \/ SendHeloFails)
  /\ WF_vars(ReadByInside \/ InsideExits)
  /\ WF_vars(ConnectToOutside)
  /\ WF_vars(AcceptInside) /\ SF_vars(PutAnswer)
  /\ WF_vars(ReadHelo \/ OutsideExits)
  /\ WF_vars(SendToInside \/ SendToInsideFails)
  /\ WF_vars(Dispatch)
  /\ WF_vars(InsideStarts) /\ WF_vars(OutsideStarts)

FairSpec == Spec /\ Fairness

-----------------------------------------------------------------------------
(* Properties *)

(* Types and the bounds of the timers; what a side has when it is down. *)
TypeOK ==
  /\ inside \in {"dial", "run", "exited", "down"}
  /\ control \in Conns \cup {NoConn} /\ bAnswered \in BOOLEAN
  /\ insideLeft \in 0..HeloTimeout \cup 0..ConnectTimeout
  /\ untilHelo \in 0..RepeatTime /\ connecting \in 0..MaxConnecting
  /\ outside \in {"accept", "read", "put", "exited", "down"}
  /\ heloConn \in Conns \cup {NoConn} /\ bReceivedHelo \in BOOLEAN
  /\ outsideLeft \in 0..HeloTimeout \cup 0..ConnectTimeout /\ answer \in 0..AgeCap
  /\ chToInside \in Seq(Message) /\ Len(chToInside) <= ChannelSize
  /\ backlog \in Seq(Conns) /\ IsInjective(backlog)
  /\ toOutside \in [Conns -> Seq(Message)] /\ toInside \in Seq(Message)
  /\ blocked \in [Sides -> 0..ConnectTimeout] /\ calm \in BOOLEAN
  /\ orphan \in [Sides -> 0..OrphanCap]
  /\ (control # NoConn) = (inside = "run")
  /\ (heloConn # NoConn) = (outside \in {"read", "put"})

(* "Loss of control connection, HELO timeout or a badly formatted message  *)
(* are errors which cannot be recovered.  Inside and Outside systems       *)
(* terminate": although the end of the stream goes unnoticed and a Write   *)
(* to a dead peer may succeed, no side goes on without its peer for longer *)
(* than an old message may take plus the timeout that it starts anew, or   *)
(* than the first timeout.                                                 *)
LossNoticed == \A s \in Sides : orphan[s] <= Patience

(* The types hold.  RunOutside puts its answers into a channel of limited  *)
(* size, and nobody empties it before the first one is in: it is never     *)
(* full without a goroutine that empties it or gives up, so the main loop  *)
(* is not stuck.                                                           *)
FullChannelHasReader ==
  /\ TypeOK
  /\ outside = "put" /\ Len(chToInside) = ChannelSize => bReceivedHelo

(* Calls are announced on the control connection, but what Inside reads    *)
(* first is always the answer to its HELO: it dials for no remote while    *)
(* the connection is still on trial.                                       *)
AnswerBeforeCalls ==
  (connecting > 0 \/ (toInside # <<>> /\ Head(toInside).kind = "call")) => bAnswered

(* Both sides run and talk to each other on the same connection. *)
Established == inside = "run" /\ bAnswered /\ Linked /\ bReceivedHelo

(* Whoever crashed, whatever was late, and whichever dead connections      *)
(* Outside still had or took for Inside: once all is calm, the two come    *)
(* together again and stay so.                                             *)
LinkRecovers == <>calm => <>[]Established
=============================================================================
