--------------------------- MODULE HeloLinkProofs ---------------------------
(***************************************************************************)
(* Proofs about HeloLink, for any timeouts, any set of addresses, and any  *)
(* bound on the datagrams in the network.  Both results are about clocks   *)
(* of different goroutines, and both rest on the same argument: the clock  *)
(* waits until each goroutine went round its loop, so that a goroutine     *)
(* that is not due any more has acted on what it saw.  TimeoutInv keeps    *)
(* the distance between the timeouts of the two sides, SilenceInv where    *)
(* the HELO exchange of Inside is while no answer comes.                   *)
(***************************************************************************)
EXTENDS HeloLink, FiniteSetTheorems, TLAPS

TimeoutInv ==
  /\ OutsideUp /\ outsideLeft = -1 => "out2in_receive" \in due
  /\ ~ahead /\ InsideUp /\ OutsideUp => insideLeft >= outsideLeft + (2 * HeloRepeatInterval)

SilenceInv ==
  /\ ~InsideUp => answered
  /\ sender = "written" /\ ~answered =>
       /\ sinceHelo <= 1
       /\ "in2out_send" \notin due => sinceHelo = 0
  /\ sender = "loop" /\ ~answered =>
       /\ bSent
       /\ sinceHelo <= HeloRepeatInterval /\ sinceSent <= HeloRoundtripTime + 1
       /\ "in2out_send" \notin due => sinceHelo < HeloRepeatInterval /\ sinceSent <= HeloRoundtripTime

Types == TypeOK /\ IsFiniteSet(net)

IInv == Types /\ TimeoutInv /\ SilenceInv

(* The actions, one by one. *)
Steps ==
  \/ WriteHelo \/ HeloSent \/ NoHeloDue
  \/ \E m \in net : InsideReceive(m) \/ OutsideReceive(m) \/ Lose(m)
  \/ InsideIdle \/ OutsideCheck \/ OutsideIdle
  \/ InsideExit \/ OutsideExit \/ InsideRestart \/ OutsideRestart
  \/ Remap \/ CalmDown \/ Tick

LEMMA NextSteps == Next <=> Steps
BY DEF Next, Steps, Send, Receive, Loop, Restart

-----------------------------------------------------------------------------
(* The timeouts and the caps. *)

LEMMA Timeouts ==
  /\ HeloTimeout \in Nat /\ HeloTimeout >= 1
  /\ HeloRepeatInterval \in Nat /\ HeloRepeatInterval >= 1
  /\ HeloRoundtripTime \in Nat
  /\ InsideStartTimeout \in Nat
  /\ InsideStartTimeout >= HeloTimeout + (2 * HeloRepeatInterval)
  /\ InsideTimeout = HeloTimeout + (2 * HeloRepeatInterval) /\ InsideTimeout \in Nat
  /\ MaxTimeDifference \in Nat /\ MaxInFlight \in Nat
<1>1. /\ HeloTimeout \in Nat /\ HeloTimeout >= 1
      /\ HeloRepeatInterval \in Nat /\ HeloRepeatInterval >= 1
      /\ HeloRoundtripTime \in Nat /\ MaxTimeDifference \in Nat /\ MaxInFlight \in Nat
  BY HeloAssumption
<1>2. /\ (23 * HeloRepeatInterval) \div 10 \in Nat
      /\ (23 * HeloRepeatInterval) \div 10 >= 2 * HeloRepeatInterval
  BY <1>1
<1> QED
  BY <1>1, <1>2 DEF InsideStartTimeout, InsideTimeout

LEMMA Caps ==
  /\ HeloCap \in Nat /\ HeloCap >= HeloRepeatInterval + 2
  /\ SentCap \in Nat /\ SentCap = HeloRoundtripTime + 2
BY Timeouts DEF HeloCap, SentCap

LEMMA Counters ==
  /\ \A cap \in Nat : \A n \in 0..cap : UpTo(n, cap) \in 0..cap /\ UpTo(n, cap) <= n + 1
  /\ \A top \in Nat : \A n \in -1..top :
       /\ DownTo(n, -1) \in -1..top
       /\ n >= 0 => DownTo(n, -1) = n - 1
BY DEF UpTo, DownTo

-----------------------------------------------------------------------------
(* The network *)

LEMMA Network ==
  ASSUME Types
  PROVE  /\ \A m \in net : m \in Datagram
         /\ \A m : /\ IsFiniteSet(net \ {m})
                   /\ Cardinality(net \ {m}) <= Cardinality(net)
         /\ Cardinality(net) \in Nat
<1>1. IsFiniteSet(net) /\ net \subseteq Datagram /\ Cardinality(net) \in Nat
  BY FS_CardinalityType DEF Types, TypeOK
<1>2. ASSUME NEW m
      PROVE  IsFiniteSet(net \ {m}) /\ Cardinality(net \ {m}) <= Cardinality(net)
  BY <1>1, FS_Subset
<1> QED
  BY <1>1, <1>2

(* What the network can hold. *)
NetType(S) == S \in SUBSET Datagram /\ Cardinality(S) <= MaxInFlight /\ IsFiniteSet(S)

LEMMA NetTaken ==
  ASSUME Types, NEW m, NEW S \in TakenOrKept(m)
  PROVE  NetType(S) /\ NetType(Taken(m))
<1>1. NetType(net)
  BY DEF Types, TypeOK, NetType
<1>2. NetType(net \ {m})
  <2>1. /\ IsFiniteSet(net \ {m}) /\ Cardinality(net \ {m}) <= Cardinality(net)
        /\ Cardinality(net) \in Nat /\ Cardinality(net \ {m}) \in Nat
    BY Network, FS_CardinalityType
  <2>2. Cardinality(net) <= MaxInFlight /\ net \ {m} \in SUBSET Datagram
    BY <1>1 DEF NetType
  <2>3. Cardinality(net \ {m}) <= MaxInFlight
    BY <2>1, <2>2, Timeouts
  <2> QED
    BY <2>1, <2>2, <2>3 DEF NetType
<1> QED
  BY <1>1, <1>2 DEF TakenOrKept, Taken

LEMMA NetSent ==
  ASSUME NEW S, NetType(S), NEW m \in Datagram, Cardinality(S) < MaxInFlight
  PROVE  NetType(S \cup {m})
<1>1. IsFiniteSet(S) /\ Cardinality(S) \in Nat
  BY FS_CardinalityType DEF NetType
<1>2. IsFiniteSet(S \cup {m})
      /\ (Cardinality(S \cup {m}) = Cardinality(S) \/ Cardinality(S \cup {m}) = Cardinality(S) + 1)
  BY <1>1, FS_AddElement
<1>3. Cardinality(S \cup {m}) <= MaxInFlight
  BY <1>1, <1>2, Timeouts
<1> QED
  BY <1>2, <1>3 DEF NetType

LEMMA NetAged ==
  ASSUME Types
  PROVE  NetType({[m EXCEPT !.age = UpTo(@, MaxTimeDifference + 1)] : m \in net})
<1> DEFINE f(m) == [m EXCEPT !.age = UpTo(@, MaxTimeDifference + 1)]
           T == {f(m) : m \in net}
<1>1. IsFiniteSet(net) /\ net \subseteq Datagram /\ Cardinality(net) <= MaxInFlight
      /\ Cardinality(net) \in Nat
  BY FS_CardinalityType DEF Types, TypeOK
<1>2. ASSUME NEW m \in Datagram PROVE f(m) \in Datagram
  <2>1. m.age \in 0..(MaxTimeDifference + 1) /\ MaxTimeDifference + 1 \in Nat
    BY Timeouts DEF Datagram
  <2>2. UpTo(m.age, MaxTimeDifference + 1) \in 0..(MaxTimeDifference + 1)
    BY <2>1, Counters
  <2> QED
    BY <2>2 DEF Datagram
<1>3. T \subseteq Datagram
  BY <1>1, <1>2
<1>4. IsFiniteSet(T) /\ Cardinality(T) <= Cardinality(net)
  <2> DEFINE g == [m \in net |-> f(m)]
  <2>1. g \in Surjection(net, T)
    BY DEF Surjection
  <2> HIDE DEF g, T
  <2> QED
    BY <1>1, <2>1, FS_Surjection
<1>5. Cardinality(T) \in Nat
  BY <1>4, FS_CardinalityType
<1>6. Cardinality(T) <= MaxInFlight
  BY <1>1, <1>4, <1>5, Timeouts
<1> QED
  BY <1>3, <1>4, <1>6 DEF NetType

-----------------------------------------------------------------------------
(* Types *)

(* What TypeOK says of the variables beside net, in two halves. *)
InsideType ==
  /\ sender \in {"loop", "written", "down"}
  /\ sinceHelo \in 0..HeloCap /\ sinceSent \in 0..SentCap
  /\ bSent \in BOOLEAN /\ outsideKnown \in BOOLEAN
  /\ insideLeft \in -1..InsideStartTimeout

OutsideType ==
  /\ reader \in {"check", "read", "down"}
  /\ outsideLeft \in -1..HeloTimeout
  /\ addrPortIn \in Addresses \cup {NoAddress}
  /\ nat \in Addresses /\ calm \in BOOLEAN
  /\ ahead \in BOOLEAN /\ answered \in BOOLEAN /\ due \in SUBSET Goroutines

LEMMA TypeParts == Types <=> InsideType /\ OutsideType /\ NetType(net)
BY DEF Types, TypeOK, InsideType, OutsideType, NetType

LEMMA TypePartsNext == InsideType' /\ OutsideType' /\ NetType(net') => Types'
BY DEF Types, TypeOK, InsideType, OutsideType, NetType, InsideStartTimeout, HeloCap, SentCap, Datagram,
  Goroutines

LEMMA InsideStepTypes ==
  ASSUME Types,
         \/ WriteHelo \/ HeloSent \/ NoHeloDue \/ InsideIdle \/ InsideExit \/ InsideRestart
         \/ \E m \in net : InsideReceive(m)
  PROVE  Types'
<1>1. InsideType /\ OutsideType /\ NetType(net)
  BY TypeParts
<1>2. InsideType'
  <2>1. /\ HeloCap \in 0..HeloCap /\ SentCap \in 0..SentCap /\ 0 \in 0..HeloCap /\ 0 \in 0..SentCap
        /\ InsideTimeout \in -1..InsideStartTimeout /\ InsideStartTimeout \in -1..InsideStartTimeout
    BY Caps, Timeouts
  <2>2. CASE WriteHelo \/ HeloSent \/ NoHeloDue \/ InsideIdle
    BY <1>1, <2>1, <2>2 DEF InsideType, WriteHelo, HeloSent, NoHeloDue, InsideIdle, insideVars, sendVars
  <2>3. CASE InsideExit \/ InsideRestart
    BY <1>1, <2>1, <2>3 DEF InsideType, InsideExit, InsideRestart
  <2>4. CASE \E m \in net : InsideReceive(m)
    <3>1. /\ UNCHANGED <<sender, sinceHelo, sinceSent>>
          /\ insideLeft' \in {insideLeft, InsideTimeout}
          /\ outsideKnown' \in {outsideKnown, TRUE} /\ bSent' \in {bSent, FALSE}
      BY <2>4 DEF InsideReceive, HeloReceived, sendVars
    <3> QED
      BY <1>1, <2>1, <3>1 DEF InsideType
  <2> QED
    BY <2>2, <2>3, <2>4
<1>3. OutsideType'
  BY <1>1 DEF OutsideType, WriteHelo, HeloSent, NoHeloDue, InsideIdle, InsideExit,
    InsideRestart, InsideReceive, outsideVars, envVars
<1>4. NetType(net')
  <2>1. CASE WriteHelo
    <3>1. [kind |-> "HELO", addr |-> nat, age |-> 0] \in Datagram
      BY <1>1, Timeouts DEF Datagram, OutsideType
    <3> QED
      BY <1>1, <2>1, <3>1, NetSent DEF WriteHelo
  <2>2. CASE \E m \in net : InsideReceive(m)
    BY <2>2, NetTaken DEF InsideReceive
  <2>3. CASE HeloSent \/ NoHeloDue \/ InsideIdle \/ InsideExit \/ InsideRestart
    BY <1>1, <2>3 DEF HeloSent, NoHeloDue, InsideIdle, InsideExit, InsideRestart
  <2> QED
    BY <2>1, <2>2, <2>3
<1> QED
  BY <1>2, <1>3, <1>4, TypePartsNext

LEMMA OutsideStepTypes ==
  ASSUME Types,
         \/ OutsideCheck \/ OutsideIdle \/ OutsideExit \/ OutsideRestart
         \/ \E m \in net : OutsideReceive(m)
  PROVE  Types'
<1>1. InsideType /\ OutsideType /\ NetType(net)
  BY TypeParts
<1>2. InsideType'
  BY <1>1 DEF InsideType, OutsideCheck, OutsideIdle, OutsideExit, OutsideRestart, OutsideReceive,
    insideVars, sendVars
<1>3. \A m \in net : m.addr \in Addresses
  BY Network DEF Datagram
<1>4. OutsideType'
  <2>1. HeloTimeout \in -1..HeloTimeout
    BY Timeouts
  <2>2. CASE OutsideCheck \/ OutsideIdle \/ OutsideExit \/ OutsideRestart
    BY <1>1, <2>1, <2>2 DEF OutsideType, OutsideCheck, OutsideIdle, OutsideExit, OutsideRestart, envVars
  <2>3. CASE \E m \in net : OutsideReceive(m)
    <3>1. /\ reader' = "check" /\ UNCHANGED <<nat, calm, answered, due>>
          /\ outsideLeft' \in {outsideLeft, HeloTimeout} /\ ahead' \in {ahead, TRUE}
          /\ addrPortIn' = addrPortIn \/ \E m \in net : addrPortIn' = m.addr
      BY <2>3 DEF OutsideReceive, SetAddress, envVars
    <3> QED
      BY <1>1, <1>3, <2>1, <3>1 DEF OutsideType
  <2> QED
    BY <2>2, <2>3
<1>5. NetType(net')
  <2>1. CASE \E m \in net : OutsideReceive(m)
    <3> PICK m \in net : OutsideReceive(m)
      BY <2>1
    <3>1. [kind |-> "answer", addr |-> m.addr, age |-> 0] \in Datagram
      BY <1>3, Timeouts DEF Datagram
    <3>2. PICK S \in TakenOrKept(m) :
            net' = S \/ ( /\ Cardinality(S) < MaxInFlight
                         /\ net' = S \cup {[kind |-> "answer", addr |-> m.addr, age |-> 0]} )
      BY DEF OutsideReceive
    <3>3. NetType(S)
      BY NetTaken
    <3> QED
      BY <3>1, <3>2, <3>3, NetSent
  <2>2. CASE OutsideCheck \/ OutsideIdle \/ OutsideExit \/ OutsideRestart
    BY <1>1, <2>2 DEF OutsideCheck, OutsideIdle, OutsideExit, OutsideRestart
  <2> QED
    BY <2>1, <2>2
<1> QED
  BY <1>2, <1>4, <1>5, TypePartsNext

LEMMA OtherStepTypes ==
  ASSUME Types, Remap \/ CalmDown \/ Tick \/ \E m \in net : Lose(m)
  PROVE  Types'
<1>1. InsideType /\ OutsideType /\ NetType(net)
  BY TypeParts
<1>2. CASE Tick
  <2>1. /\ sinceHelo' \in 0..HeloCap /\ sinceSent' \in 0..SentCap
        /\ insideLeft' \in -1..InsideStartTimeout /\ outsideLeft' \in -1..HeloTimeout
    BY <1>1, <1>2, Counters, Caps, Timeouts DEF Tick, InsideType, OutsideType
  <2>2. NetType(net')
    BY <1>2, NetAged DEF Tick
  <2>3. InsideType' /\ OutsideType'
    BY <1>1, <1>2, <2>1 DEF Tick, InsideType, OutsideType, envVars
  <2> QED
    BY <2>2, <2>3, TypePartsNext
<1>3. CASE Remap \/ CalmDown \/ \E m \in net : Lose(m)
  <2>1. InsideType' /\ OutsideType'
    BY <1>1, <1>3 DEF Remap, CalmDown, Lose, InsideType, OutsideType, insideVars, sendVars,
      outsideVars, envVars
  <2>2. net' = net \/ \E m : net' = Taken(m)
    BY <1>3 DEF Remap, CalmDown, Lose
  <2>3. \A m : NetType(Taken(m))
    BY NetTaken DEF TakenOrKept
  <2>4. NetType(net')
    BY <1>1, <2>2, <2>3
  <2> QED
    BY <2>1, <2>4, TypePartsNext
<1> QED
  BY <1>2, <1>3

-----------------------------------------------------------------------------
(* Timeouts *)

(* While Outside is not ahead, each restart of a timeout keeps Inside two  *)
(* intervals later; and the clock stops at Outside's timeout until it      *)
(* exits or restarts it.                                                   *)
LEMMA TimeoutStep ==
  ASSUME Types, TimeoutInv, Steps
  PROVE  TimeoutInv'
<1>1. /\ insideLeft \in -1..InsideStartTimeout /\ outsideLeft \in -1..HeloTimeout
      /\ ahead \in BOOLEAN /\ due \in SUBSET Goroutines
  BY DEF Types, TypeOK
<1> USE DEF TimeoutInv, InsideUp, OutsideUp
<1>2. CASE WriteHelo \/ HeloSent \/ NoHeloDue \/ InsideIdle \/ Remap \/ CalmDown \/ \E m \in net : Lose(m)
  BY <1>2 DEF WriteHelo, HeloSent, NoHeloDue, InsideIdle, Remap, CalmDown, Lose, insideVars, sendVars,
    outsideVars
<1>3. CASE \E m \in net : InsideReceive(m)
  <2>1. \/ insideLeft' = InsideTimeout
        \/ insideLeft' = insideLeft /\ ahead' = ahead
    BY <1>3 DEF InsideReceive
  <2>2. /\ UNCHANGED <<sender, reader, outsideLeft>>
        /\ "out2in_receive" \in due => "out2in_receive" \in due'
    BY <1>3 DEF InsideReceive, outsideVars, sendVars
  <2>3. InsideTimeout >= outsideLeft + (2 * HeloRepeatInterval)
    BY <1>1, Timeouts
  <2> QED
    BY <2>1, <2>2, <2>3
<1>4. CASE InsideRestart
  <2>1. InsideStartTimeout >= outsideLeft + (2 * HeloRepeatInterval)
    BY <1>1, Timeouts
  <2> QED
    BY <1>4, <2>1 DEF InsideRestart, outsideVars
<1>5. CASE InsideExit
  BY <1>5 DEF InsideExit, outsideVars
<1>6. CASE OutsideCheck \/ OutsideIdle \/ OutsideExit
  BY <1>1, <1>6 DEF OutsideCheck, OutsideIdle, OutsideExit, insideVars, sendVars
<1>7. CASE OutsideRestart \/ \E m \in net : OutsideReceive(m)
  <2>1. HeloTimeout # -1
    BY Timeouts
  <2>2. CASE OutsideRestart
    BY <2>1, <2>2 DEF OutsideRestart
  <2>3. CASE \E m \in net : OutsideReceive(m)
    BY <2>1, <2>3 DEF OutsideReceive, insideVars, sendVars
  <2> QED
    BY <1>7, <2>2, <2>3
<1>8. CASE Tick
  <2>1. /\ due = {} /\ UNCHANGED <<sender, reader, ahead>>
        /\ insideLeft' = DownTo(insideLeft, -1) /\ outsideLeft' = DownTo(outsideLeft, -1)
        /\ OutsideUp => "out2in_receive" \in due'
    BY <1>8 DEF Tick, Goroutines
  <2>2. OutsideUp' = OutsideUp /\ InsideUp' = InsideUp
    BY <2>1
  <2>3. ASSUME ~ahead, InsideUp, OutsideUp
        PROVE  insideLeft' >= outsideLeft' + (2 * HeloRepeatInterval)
    <3>1. outsideLeft >= 0 /\ insideLeft >= outsideLeft + (2 * HeloRepeatInterval)
      BY <1>1, <2>1, <2>3, Timeouts
    <3>2. insideLeft >= 0
      BY <1>1, <3>1, Timeouts
    <3>3. insideLeft' = insideLeft - 1 /\ outsideLeft' = outsideLeft - 1
      BY <1>1, <2>1, <3>1, <3>2, Counters, Timeouts
    <3> QED
      BY <1>1, <3>1, <3>3, Timeouts
  <2> QED
    BY <2>1, <2>2, <2>3
<1> QED
  BY <1>2, <1>3, <1>4, <1>5, <1>6, <1>7, <1>8 DEF Steps

-----------------------------------------------------------------------------
(* Silence *)

LEMMA SilenceStep ==
  ASSUME Types, SilenceInv, Steps
  PROVE  SilenceInv'
<1>1. /\ sinceHelo \in 0..HeloCap /\ sinceSent \in 0..SentCap /\ bSent \in BOOLEAN
      /\ sender \in {"loop", "written", "down"} /\ answered \in BOOLEAN
  BY DEF Types, TypeOK
<1>2. HeloRepeatInterval \in Nat /\ HeloRepeatInterval >= 1 /\ HeloRoundtripTime \in Nat
  BY Timeouts
<1> USE DEF SilenceInv, InsideUp
<1>3. CASE \/ OutsideCheck \/ OutsideIdle \/ OutsideExit \/ OutsideRestart \/ Remap \/ CalmDown
           \/ \E m \in net : OutsideReceive(m) \/ Lose(m)
  <2>1. /\ UNCHANGED <<sender, sinceHelo, sinceSent, bSent, answered>>
        /\ "in2out_send" \in due' <=> "in2out_send" \in due
    BY <1>3 DEF OutsideCheck, OutsideIdle, OutsideExit, OutsideRestart, OutsideReceive, Remap, CalmDown,
      Lose, insideVars, sendVars
  <2> QED
    BY <2>1
<1>4. CASE InsideIdle \/ \E m \in net : InsideReceive(m)
  <2>1. /\ UNCHANGED <<sender, sinceHelo, sinceSent>>
        /\ answered' \/ (bSent' = bSent /\ answered' = answered)
        /\ "in2out_send" \in due' <=> "in2out_send" \in due
    BY <1>4 DEF InsideIdle, InsideReceive, insideVars, sendVars
  <2> QED
    BY <2>1
<1>5. CASE WriteHelo
  BY <1>5 DEF WriteHelo
<1>6. CASE HeloSent
  <2>1. /\ sender = "written" /\ sender' = "loop" /\ bSent' = TRUE /\ sinceSent' = 0
        /\ UNCHANGED <<sinceHelo, answered, due>>
    BY <1>6 DEF HeloSent
  <2> QED
    BY <1>1, <1>2, <2>1
<1>7. CASE NoHeloDue
  <2>1. /\ sender = "loop" /\ UNCHANGED <<sender, sinceHelo, sinceSent, bSent, answered>>
        /\ ~(sinceHelo >= HeloRepeatInterval) /\ ~(bSent /\ sinceSent > HeloRoundtripTime)
    BY <1>7 DEF NoHeloDue, HeloDue, IsToResend, insideVars, sendVars
  <2> QED
    BY <1>1, <1>2, <2>1
<1>8. CASE InsideExit \/ InsideRestart
  BY <1>8 DEF InsideExit, InsideRestart
<1>9. CASE Tick
  <2>1. /\ due = {} /\ UNCHANGED <<sender, bSent, answered>>
        /\ sinceHelo' = UpTo(sinceHelo, HeloCap) /\ sinceSent' = UpTo(sinceSent, SentCap)
        /\ InsideUp => "in2out_send" \in due'
    BY <1>9 DEF Tick, Goroutines
  <2>2. /\ sinceHelo' \in 0..HeloCap /\ sinceHelo' <= sinceHelo + 1
        /\ sinceSent' \in 0..SentCap /\ sinceSent' <= sinceSent + 1
    BY <1>1, <2>1, Counters, Caps
  <2>3. CASE sender = "loop" /\ ~answered
    <3>1. bSent /\ sinceHelo < HeloRepeatInterval /\ sinceSent <= HeloRoundtripTime
      BY <2>1, <2>3
    <3>2. sinceHelo' <= HeloRepeatInterval /\ sinceSent' <= HeloRoundtripTime + 1
      BY <1>1, <1>2, <2>2, <3>1
    <3> QED
      BY <2>1, <2>3, <3>1, <3>2
  <2>4. CASE sender = "written" /\ ~answered
    <3>1. sinceHelo = 0
      BY <2>1, <2>4
    <3>2. sinceHelo' <= 1
      BY <2>2, <3>1
    <3> QED
      BY <2>1, <2>4, <3>2
  <2>5. CASE answered \/ sender = "down"
    BY <2>1, <2>5
  <2> QED
    BY <1>1, <2>3, <2>4, <2>5
<1> QED
  BY <1>3, <1>4, <1>5, <1>6, <1>7, <1>8, <1>9 DEF Steps

-----------------------------------------------------------------------------
(* The theorems. *)

LEMMA InitInv == Init => IInv
<1> SUFFICES ASSUME Init PROVE IInv
  OBVIOUS
<1> USE DEF Init
<1>1. InsideType
  <2>1. HeloCap \in 0..HeloCap /\ SentCap \in 0..SentCap /\ InsideStartTimeout \in -1..InsideStartTimeout
    BY Caps, Timeouts
  <2>2. sinceHelo = HeloCap /\ sinceSent = SentCap /\ insideLeft = InsideStartTimeout
    OBVIOUS
  <2>3. sender \in {"loop", "written", "down"} /\ bSent \in BOOLEAN /\ outsideKnown \in BOOLEAN
    OBVIOUS
  <2> QED
    BY ONLY <2>1, <2>2, <2>3 DEF InsideType
<1>2. OutsideType
  <2>1. outsideLeft \in -1..HeloTimeout
    BY Timeouts
  <2>2. /\ reader \in {"check", "read", "down"} /\ addrPortIn \in Addresses \cup {NoAddress}
        /\ nat \in Addresses /\ due \in SUBSET Goroutines
    OBVIOUS
  <2>3. calm \in BOOLEAN /\ ahead \in BOOLEAN /\ answered \in BOOLEAN
    OBVIOUS
  <2> QED
    BY ONLY <2>1, <2>2, <2>3 DEF OutsideType
<1>3. NetType(net)
  BY FS_EmptySet, Timeouts DEF NetType
<1>4. TimeoutInv
  BY Timeouts DEF TimeoutInv
<1>5. SilenceInv
  BY DEF SilenceInv, InsideUp
<1> QED
  BY <1>1, <1>2, <1>3, <1>4, <1>5, TypeParts DEF IInv

LEMMA NextInv == IInv /\ [Next]_vars => IInv'
<1> SUFFICES ASSUME IInv, [Next]_vars PROVE IInv'
  OBVIOUS
<1>1. CASE Next
  <2>1. Steps
    BY <1>1, NextSteps
  <2>2. Types'
    BY <2>1, InsideStepTypes, OutsideStepTypes, OtherStepTypes DEF IInv, Steps
  <2> QED
    BY <2>1, <2>2, TimeoutStep, SilenceStep DEF IInv
<1>2. CASE UNCHANGED vars
  BY <1>2 DEF vars, insideVars, sendVars, outsideVars, envVars, IInv, Types, TypeOK, TimeoutInv,
    SilenceInv, InsideUp, OutsideUp
<1> QED
  BY <1>1, <1>2

(* The types and the two clock invariants hold in every state.             *)
THEOREM Invariance == Spec => []IInv
BY InitInv, NextInv, PTL DEF Spec

(* Every variable stays in its type, every timer within its bound, and the *)
(* network within the datagrams it can hold.                               *)
THEOREM TypeCorrect == Spec => []TypeOK
<1>1. IInv => TypeOK
  BY DEF IInv, Types
<1> QED
  BY <1>1, Invariance, PTL

(* HeloRoundtrip keeps Inside at it: without an answer the next HELO       *)
(* leaves when the interval has passed, and at the latest a second after   *)
(* the roundtrip time, wherever the two goroutines are.                    *)
THEOREM SilenceEnds == Spec => []SilenceRetriggers
<1>1. IInv => SilenceRetriggers
  <2> SUFFICES ASSUME IInv, InsideUp, ~answered
               PROVE  /\ sinceHelo <= HeloRepeatInterval
                      /\ sender = "loop" => sinceSent <= HeloRoundtripTime + 1
    BY DEF SilenceRetriggers
  <2>1. /\ sender \in {"loop", "written"} /\ sinceHelo \in Nat
    BY Caps DEF IInv, Types, TypeOK, InsideUp
  <2>2. CASE sender = "loop"
    BY <2>2 DEF IInv, SilenceInv
  <2>3. CASE sender = "written"
    <3>1. sinceHelo <= 1
      BY <2>3 DEF IInv, SilenceInv
    <3> QED
      BY <2>1, <2>3, <3>1, Timeouts
  <2> QED
    BY <2>1, <2>2, <2>3
<1> QED
  BY <1>1, Invariance, PTL

(* "Outside system restarts first": Inside gives up while Outside runs     *)
(* only if Outside restarted its timeout since Inside last did.            *)
THEOREM OutsideFirst == Spec => OutsideExitsFirst
<1>1. IInv /\ [Next]_vars => [InsideExits => ahead \/ ~OutsideUp]_vars
  <2> SUFFICES ASSUME IInv, Next, InsideExits, OutsideUp, ~ahead
               PROVE  FALSE
    OBVIOUS
  <2>1. Steps /\ InsideUp /\ ~InsideUp'
    BY NextSteps DEF InsideExits
  <2>2. InsideExit
    BY <2>1 DEF Steps, WriteHelo, HeloSent, NoHeloDue, InsideReceive, OutsideReceive, Lose, InsideIdle,
      OutsideCheck, OutsideIdle, InsideExit, OutsideExit, InsideRestart, OutsideRestart, Remap, CalmDown,
      Tick, InsideUp, insideVars, sendVars
  <2>3. insideLeft < 0
    BY <2>2 DEF InsideExit
  <2>4. insideLeft >= outsideLeft + (2 * HeloRepeatInterval)
    BY <2>1 DEF IInv, TimeoutInv
  <2>5. outsideLeft \in -1..HeloTimeout /\ insideLeft \in -1..InsideStartTimeout
    BY DEF IInv, Types, TypeOK
  <2> QED
    BY <2>3, <2>4, <2>5, Timeouts
<1> QED
  BY <1>1, Invariance, PTL DEF Spec, OutsideExitsFirst
=============================================================================
