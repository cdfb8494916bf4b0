------------------------------ MODULE HeloLink ------------------------------
(***************************************************************************)
(* The HELO exchange of udpbohrer: Go_in2out_send, Go_in2out_receive and   *)
(* HeloRoundtrip on the Inside, Go_out2in_receive and ManageAddressPort on *)
(* the Outside, between them a NAT router and a network that loses,        *)
(* delays, reorders and duplicates datagrams.  Inside sends a HELO at      *)
(* every interval, and sooner when no answer came; Outside remembers where *)
(* it came from and answers; each side exits when it hears nothing for too *)
(* long and is started again (by init or systemd).                         *)
(*                                                                         *)
(* Both systems have the same clock: a difference only shifts the ages at  *)
(* which a HELO is refused.  Timestamps are ages or seconds left.  Every   *)
(* goroutine goes round its loop once a second (a read deadline or a one   *)
(* second timer), so the clock waits until each has.  Data datagrams only  *)
(* make the loops turn earlier; a loop may turn at any time here.          *)
(***************************************************************************)
EXTENDS Integers, FiniteSets

CONSTANTS
  Addresses,           \* addresses the NAT may show for Inside
  HeloTimeout,         \* heloTimeout, seconds
  HeloRepeatInterval,  \* heloRepeatInterval
  HeloRoundtripTime,   \* heloRoundtripTime
  MaxTimeDifference,   \* maxControlTimeDifferenceSeconds
  MaxDelay,            \* delay of a datagram once the network is calm
  MaxInFlight,         \* bound: HELO datagrams in the network
  NoAddress            \* addrPortIn before any HELO

ASSUME HeloAssumption ==
  /\ HeloTimeout \in Nat \ {0} /\ HeloRepeatInterval \in Nat \ {0}
  /\ HeloRoundtripTime \in Nat /\ MaxTimeDifference \in Nat
  /\ MaxDelay \in 1..MaxTimeDifference
  /\ MaxInFlight \in Nat \ {0}
  /\ NoAddress \notin Addresses

Goroutines == {"in2out_send", "in2out_receive", "out2in_receive"}

VARIABLES
  \* Inside
  sender,       \* where Go_in2out_send is; "down" when Inside does not run
  sinceHelo,    \* ut - unixTimeSinceLastHelo
  bSent,        \* HeloRoundtrip: a HELO is unanswered ...
  sinceSent,    \* ... this many seconds after timeSent
  insideLeft,   \* seconds to heloTimeOut of Inside
  outsideKnown, \* bAddrFromOutsideValid
  \* Outside
  reader,       \* where Go_out2in_receive is; "down" when it does not run
  outsideLeft,  \* seconds to heloTimeOut of Outside
  addrPortIn,   \* where Outside sends to
  \* the network
  net,          \* HELO datagrams under way
  nat,          \* the address the NAT shows for Inside now
  calm,         \* nothing is lost, late or remapped; init restarts at once
  \* history and scheduling
  ahead,        \* Outside restarted its timeout after Inside did
  answered,     \* an answer arrived since the last HELO of Inside was written
  due           \* goroutines that have not looped since the clock ticked

sendVars    == <<sender, sinceHelo, sinceSent>>
insideVars  == <<sendVars, bSent, insideLeft, outsideKnown>>
outsideVars == <<reader, outsideLeft, addrPortIn>>
envVars     == <<nat, calm>>
vars        == <<insideVars, outsideVars, net, envVars, ahead, answered, due>>

InsideUp  == sender # "down"
OutsideUp == reader # "down"

(* int64(float32(pHeloTimeout + 2.3*helo_repeat_interval)) *)
InsideStartTimeout == HeloTimeout + (23 * HeloRepeatInterval) \div 10

InsideTimeoutOfOutside == HeloTimeout
InsideTimeoutOfThree == HeloTimeout + 3 * HeloRepeatInterval
InsideTimeout == HeloTimeout + 2 * HeloRepeatInterval

(* Larger ages compare as these do. *)
HeloCap == 2 + IF HeloRepeatInterval > HeloRoundtripTime + 1
               THEN HeloRepeatInterval ELSE HeloRoundtripTime + 1
SentCap == HeloRoundtripTime + 2

Datagram == [kind : {"HELO", "answer"}, addr : Addresses, age : 0..(MaxTimeDifference + 1)]

(* DecodeControlPacket refuses a timestamp too far from the own clock. *)
Decodes(m) == m.age <= MaxTimeDifference

Init ==
  /\ sender = "loop" /\ sinceHelo = HeloCap /\ bSent = FALSE /\ sinceSent = SentCap
  /\ insideLeft = InsideStartTimeout /\ outsideKnown = FALSE
  /\ reader = "check" /\ outsideLeft = HeloTimeout /\ addrPortIn = NoAddress
  /\ net = {} /\ nat \in Addresses /\ calm = FALSE
  /\ ahead = FALSE /\ answered = TRUE /\ due = {}

-----------------------------------------------------------------------------
(* Inside *)

HeloReceived == bSent' = FALSE

NeverToResend == FALSE
IsToResend == bSent /\ sinceSent > HeloRoundtripTime

(* The head of the loop of Go_in2out_send: is a HELO due? *)
HeloDue == sinceHelo >= HeloRepeatInterval \/ IsToResend

WriteHelo ==
  /\ sender = "loop"
  /\ HeloDue
  /\ Cardinality(net) < MaxInFlight
  /\ net' = net \cup {[kind |-> "HELO", addr |-> nat, age |-> 0]}
  /\ sinceHelo' = 0
  /\ sender' = "written"
  /\ answered' = FALSE
  /\ due' = due \ {"in2out_send"}
  /\ UNCHANGED <<sinceSent, bSent, insideLeft, outsideKnown, outsideVars, envVars, ahead>>

(* HeloRoundtrip.HeloSent, after the datagram has left. *)
HeloSent ==
  /\ sender = "written"
  /\ bSent' = TRUE
  /\ sinceSent' = 0
  /\ sender' = "loop"
  /\ UNCHANGED <<sinceHelo, insideLeft, outsideKnown, outsideVars, net, envVars,
                 ahead, answered, due>>

(* Otherwise the select: a message to forward, or one second without. *)
NoHeloDue ==
  /\ sender = "loop"
  /\ ~HeloDue
  /\ due' = due \ {"in2out_send"}
  /\ UNCHANGED <<insideVars, outsideVars, net, envVars, ahead, answered>>

(* The network gives m to its receiver, and may keep a duplicate. *)
Taken(m) == net \ {m}
TakenOrKept(m) == {Taken(m)} \cup IF calm THEN {} ELSE {net}

InsideReceive(m) ==
  /\ InsideUp
  /\ m \in net /\ m.kind = "answer" /\ m.addr = nat
  /\ net' \in TakenOrKept(m)
  /\ due' = due \ {"in2out_receive"}
  /\ IF Decodes(m)
     THEN /\ insideLeft' = InsideTimeout
          /\ outsideKnown' = TRUE
          /\ HeloReceived
          /\ ahead' = FALSE
          /\ answered' = TRUE
     ELSE UNCHANGED <<insideLeft, outsideKnown, bSent, ahead, answered>>
  /\ UNCHANGED <<sendVars, outsideVars, envVars>>

(* A second without a HELO: only then the timeout is looked at. *)
InsideIdle ==
  /\ InsideUp
  /\ insideLeft >= 0
  /\ due' = due \ {"in2out_receive"}
  /\ UNCHANGED <<insideVars, outsideVars, net, envVars, ahead, answered>>

(* os.Exit ends both goroutines, and what they knew is gone. *)
InsideExit ==
  /\ InsideUp
  /\ insideLeft < 0
  /\ sender' = "down"
  /\ sinceHelo' = HeloCap /\ bSent' = FALSE /\ sinceSent' = SentCap
  /\ outsideKnown' = FALSE /\ answered' = TRUE
  /\ due' = due \ {"in2out_send", "in2out_receive"}
  /\ UNCHANGED <<insideLeft, outsideVars, net, envVars, ahead>>

InsideRestart ==
  /\ ~InsideUp
  /\ sender' = "loop"
  /\ insideLeft' = InsideStartTimeout
  /\ ahead' = FALSE
  /\ UNCHANGED <<sinceHelo, sinceSent, bSent, outsideKnown, outsideVars, net, envVars,
                 answered, due>>

-----------------------------------------------------------------------------
(* Outside *)

OutsideCheck ==
  /\ reader = "check"
  /\ outsideLeft >= 0
  /\ reader' = "read"
  /\ due' = due \ {"out2in_receive"}
  /\ UNCHANGED <<insideVars, outsideLeft, addrPortIn, net, envVars, ahead, answered>>

OutsideExit ==
  /\ reader = "check"
  /\ outsideLeft < 0
  /\ reader' = "down"
  /\ addrPortIn' = NoAddress
  /\ due' = due \ {"out2in_receive"}
  /\ UNCHANGED <<insideVars, outsideLeft, net, envVars, ahead, answered>>

(* No datagram within a second, or one with data. *)
OutsideIdle ==
  /\ reader = "read"
  /\ reader' = "check"
  /\ UNCHANGED <<insideVars, outsideLeft, addrPortIn, net, envVars, ahead, answered, due>>

SetAddressOnce(addr) == addrPortIn' = IF addrPortIn = NoAddress THEN addr ELSE addrPortIn
SetAddress(addr) == addrPortIn' = addr

OutsideReceive(m) ==
  /\ reader = "read"
  /\ m \in net /\ m.kind = "HELO"
  /\ reader' = "check"
  /\ IF Decodes(m)
     THEN /\ SetAddress(m.addr)
          /\ outsideLeft' = HeloTimeout
          /\ \E rest \in TakenOrKept(m) :
               /\ Cardinality(rest) < MaxInFlight
               /\ net' = rest \cup {[kind |-> "answer", addr |-> m.addr, age |-> 0]}
          /\ ahead' = TRUE
     ELSE /\ net' \in TakenOrKept(m)
          /\ UNCHANGED <<addrPortIn, outsideLeft, ahead>>
  /\ UNCHANGED <<insideVars, envVars, answered, due>>

OutsideRestart ==
  /\ ~OutsideUp
  /\ reader' = "check" /\ outsideLeft' = HeloTimeout
  /\ ahead' = TRUE
  /\ UNCHANGED <<insideVars, addrPortIn, net, envVars, answered, due>>

-----------------------------------------------------------------------------
(* The network and the clock *)

(* Nobody takes a datagram that reaches no process or no mapping of the NAT. *)
Undeliverable(m) ==
  \/ m.kind = "HELO" /\ ~OutsideUp
  \/ m.kind = "answer" /\ (m.addr # nat \/ ~InsideUp)

Lose(m) ==
  /\ m \in net
  /\ ~calm \/ Undeliverable(m)
  /\ net' = Taken(m)
  /\ UNCHANGED <<insideVars, outsideVars, envVars, ahead, answered, due>>

Remap ==
  /\ ~calm
  /\ nat' \in Addresses \ {nat}
  /\ UNCHANGED <<insideVars, outsideVars, net, calm, ahead, answered, due>>

CalmDown ==
  /\ ~calm
  /\ calm' = TRUE
  /\ UNCHANGED <<insideVars, outsideVars, net, nat, ahead, answered, due>>

UpTo(n, cap) == IF n < cap THEN n + 1 ELSE cap
DownTo(n, cap) == IF n > cap THEN n - 1 ELSE cap

Tick ==
  /\ due = {}
  /\ calm => InsideUp /\ OutsideUp /\ \A m \in net : m.age < MaxDelay
  /\ sinceHelo' = UpTo(sinceHelo, HeloCap)
  /\ sinceSent' = UpTo(sinceSent, SentCap)
  /\ insideLeft' = DownTo(insideLeft, -1)
  /\ outsideLeft' = DownTo(outsideLeft, -1)
  /\ net' = {[m EXCEPT !.age = UpTo(@, MaxTimeDifference + 1)] : m \in net}
  /\ due' = {g \in Goroutines : IF g = "out2in_receive" THEN OutsideUp ELSE InsideUp}
  /\ UNCHANGED <<sender, bSent, outsideKnown, reader, addrPortIn, envVars, ahead, answered>>

Send == WriteHelo \/ HeloSent \/ NoHeloDue
Receive == \E m \in net : InsideReceive(m) \/ OutsideReceive(m)
Loop == InsideIdle \/ OutsideCheck \/ OutsideIdle
Restart == InsideRestart \/ OutsideRestart

Next ==
  \/ Send \/ Receive \/ Loop
  \/ InsideExit \/ OutsideExit \/ Restart
  \/ \E m \in net : Lose(m)
  \/ Remap \/ CalmDown \/ Tick

Spec == Init /\ [][Next]_vars

(* The clock runs, a goroutine that can go on does, a datagram that reaches *)
(* a reading goroutine is read, and init starts a side that exited.        *)
Fairness ==
  /\ WF_vars(Tick)
  /\ WF_vars(Send)
  /\ WF_vars(InsideIdle) /\ WF_vars(OutsideCheck) /\ WF_vars(OutsideIdle)
  /\ WF_vars(InsideExit) /\ WF_vars(OutsideExit)
  /\ WF_vars(InsideRestart) /\ WF_vars(OutsideRestart)
  /\ WF_vars(\E m \in net : InsideReceive(m))
  /\ SF_vars(\E m \in net : OutsideReceive(m))
  /\ WF_vars(\E m \in net : Undeliverable(m) /\ Lose(m))

FairSpec == Spec /\ Fairness

-----------------------------------------------------------------------------
(* Properties *)

(* Types and the bounds of the timers. *)
TypeOK ==
  /\ sender \in {"loop", "written", "down"}
  /\ sinceHelo \in 0..HeloCap /\ sinceSent \in 0..SentCap
  /\ bSent \in BOOLEAN /\ outsideKnown \in BOOLEAN
  /\ insideLeft \in -1..InsideStartTimeout
  /\ reader \in {"check", "read", "down"}
  /\ outsideLeft \in -1..HeloTimeout
  /\ addrPortIn \in Addresses \cup {NoAddress}
  /\ net \in SUBSET Datagram /\ Cardinality(net) <= MaxInFlight
  /\ nat \in Addresses /\ calm \in BOOLEAN
  /\ ahead \in BOOLEAN /\ answered \in BOOLEAN /\ due \in SUBSET Goroutines

InsideExits == InsideUp /\ ~InsideUp'

(* "Outside system restarts first": when Inside gives up, Outside is down,  *)
(* or it was started or heard a HELO whose answer did not come through.    *)
OutsideExitsFirst == [][InsideExits => ahead \/ ~OutsideUp]_vars

(* As long as no answer comes, Inside repeats its HELO when the interval   *)
(* has passed, and does not go on for more than a second after the         *)
(* roundtrip time, although the two goroutines share bSent and timeSent    *)
(* and late answers to earlier HELOs arrive at any moment in between.      *)
SilenceRetriggers ==
  InsideUp /\ ~answered =>
    /\ sinceHelo <= HeloRepeatInterval
    /\ sender = "loop" => sinceSent <= HeloRoundtripTime + 1

(* Both sides run and know where to send. *)
Established ==
  /\ InsideUp /\ outsideKnown
  /\ OutsideUp /\ addrPortIn = nat

(* However many datagrams were lost or late and whoever exited: once the   *)
(* network is calm the link comes up and stays, without another exit.      *)
LinkRecovers == <>calm => <>[]Established
=============================================================================
