--------------------------- MODULE TcpHeloProofs ---------------------------
(***************************************************************************)
(* Proofs about TcpHelo, for any connections, timeouts and sizes of the    *)
(* channel and the streams.  OrderInv follows the first answer from the    *)
(* channel through the stream to Inside, and OrphanInv compares how long a *)
(* side is alone with the age of what it can still read and the timeout    *)
(* that runs.                                                              *)
(***************************************************************************)
EXTENDS TcpHelo, SequenceTheorems, TLAPS

(* TypeOK in parts. *)
InsideTyped ==
  /\ inside \in {"dial", "run", "exited", "down"}
  /\ control \in Conns \cup {NoConn} /\ bAnswered \in BOOLEAN
  /\ insideLeft \in 0..HeloTimeout \cup 0..ConnectTimeout
  /\ untilHelo \in 0..RepeatTime /\ connecting \in 0..MaxConnecting
  /\ control # NoConn <=> inside = "run"

OutsideTyped ==
  /\ outside \in {"accept", "read", "put", "exited", "down"}
  /\ heloConn \in Conns \cup {NoConn} /\ bReceivedHelo \in BOOLEAN
  /\ outsideLeft \in 0..HeloTimeout \cup 0..ConnectTimeout /\ answer \in 0..AgeCap
  /\ chToInside \in Seq(Message) /\ Len(chToInside) <= ChannelSize
  /\ heloConn # NoConn <=> outside \in {"read", "put"}

NetTyped ==
  /\ backlog \in Seq(Conns) /\ IsInjective(backlog)
  /\ toOutside \in [Conns -> Seq(Message)] /\ toInside \in Seq(Message)

EnvTyped ==
  /\ blocked \in [Sides -> 0..ConnectTimeout] /\ calm \in BOOLEAN
  /\ orphan \in [Sides -> 0..OrphanCap]

(* Nothing is in the channel before the first answer, and the connection   *)
(* that was taken for Inside does not wait to be accepted.                 *)
RunInv ==
  /\ chToInside # <<>> => bReceivedHelo
  /\ bReceivedHelo => heloConn # NoConn
  /\ heloConn \notin ToSet(backlog)

(* Until Inside has read an answer, an answer is what comes next: at the   *)
(* head of the stream or, once Outside sends at all, of the channel.       *)
OrderInv ==
  /\ control = NoConn => toInside = <<>> /\ connecting = 0
  /\ connecting > 0 => bAnswered
  /\ ~bAnswered /\ toInside # <<>> => Head(toInside).kind = "answer"
  /\ Linked /\ bReceivedHelo /\ ~bAnswered /\ toInside = <<>> =>
       chToInside # <<>> /\ Head(chToInside).kind = "answer"

(* A side without its peer reads only what was under way when it lost it.  *)
AsOld(s, n) == \A i \in DOMAIN s : s[i].age >= n \/ s[i].age = AgeCap

OrphanInv ==
  /\ Linked => \A s \in Sides : orphan[s] = 0
  /\ \A s \in Sides : ~Up(s) => orphan[s] = 0
  /\ inside = "run" => orphan["Inside"] + insideLeft <= Patience
  /\ outside = "read" => orphan["Outside"] + outsideLeft <= Patience
  /\ outside = "put" => orphan["Outside"] <= MaxTimeDifference
  /\ AsOld(toInside, orphan["Inside"])
  /\ heloConn # NoConn => AsOld(toOutside[heloConn], orphan["Outside"])

Typed == InsideTyped /\ OutsideTyped /\ NetTyped /\ EnvTyped
IInv == Typed /\ RunInv /\ OrderInv /\ OrphanInv

LEMMA TypeParts == TypeOK <=> Typed
BY DEF TypeOK, Typed, InsideTyped, OutsideTyped, NetTyped, EnvTyped

-----------------------------------------------------------------------------
(* Bounds, sequences *)

LEMMA Numbers ==
  /\ HeloTimeout \in Nat /\ HeloTimeout >= 3 /\ ConnectTimeout \in Nat /\ ConnectTimeout >= 1
  /\ MaxTimeDifference \in Nat /\ MaxConnecting \in Nat
  /\ ChannelSize \in Nat /\ ChannelSize >= 1 /\ StreamSize \in Nat /\ StreamSize >= 1
  /\ AgeCap \in Nat /\ AgeCap = MaxTimeDifference + 1
  /\ Patience \in Nat /\ Patience >= ConnectTimeout /\ Patience >= HeloTimeout + MaxTimeDifference
  /\ OrphanCap \in Nat /\ OrphanCap = Patience + 1
  /\ RepeatTime \in Nat
  /\ NoConn \notin Conns
BY TcpHeloAssumption DEF AgeCap, Patience, OrphanCap, RepeatTime

LEMMA UpToFacts ==
  ASSUME NEW cap \in Nat, NEW n \in 0..cap
  PROVE  UpTo(n, cap) \in 0..cap /\ UpTo(n, cap) <= n + 1 /\ UpTo(n, cap) >= n
         /\ (UpTo(n, cap) = n + 1 \/ UpTo(n, cap) = cap)
BY DEF UpTo

LEMMA TailFacts ==
  ASSUME NEW S, NEW s \in Seq(S), s # <<>>
  PROVE  /\ Head(s) \in S /\ Head(s) = s[1] /\ 1 \in DOMAIN s
         /\ Tail(s) \in Seq(S) /\ Len(Tail(s)) = Len(s) - 1 /\ Len(s) \in Nat
         /\ \A i \in DOMAIN Tail(s) : i + 1 \in DOMAIN s /\ Tail(s)[i] = s[i + 1]
OBVIOUS

LEMMA AppendFacts ==
  ASSUME NEW S, NEW s \in Seq(S), NEW x \in S
  PROVE  /\ Append(s, x) \in Seq(S) /\ Len(Append(s, x)) = Len(s) + 1 /\ Len(s) \in Nat
         /\ Append(s, x) # <<>>
         /\ Head(Append(s, x)) = IF s = <<>> THEN x ELSE Head(s)
         /\ Append(s, x)[Len(s) + 1] = x
         /\ \A i \in DOMAIN Append(s, x) :
              (i \in DOMAIN s /\ Append(s, x)[i] = s[i]) \/ (i = Len(s) + 1 /\ Append(s, x)[i] = x)
OBVIOUS

LEMMA MessageFacts ==
  ASSUME NEW m \in Message
  PROVE  /\ m.age \in 0..AgeCap /\ m.age \in Nat
         /\ [m EXCEPT !.age = UpTo(@, AgeCap)] \in Message
         /\ [m EXCEPT !.age = UpTo(@, AgeCap)].kind = m.kind
         /\ [m EXCEPT !.age = UpTo(@, AgeCap)].age = UpTo(m.age, AgeCap)
BY UpToFacts, Numbers DEF Message

LEMMA AsOldTail ==
  ASSUME NEW s \in Seq(Message), s # <<>>, NEW n, AsOld(s, n)
  PROVE  AsOld(Tail(s), n)
BY TailFacts DEF AsOld

LEMMA AsOldAppend ==
  ASSUME NEW s \in Seq(Message), NEW m \in Message, NEW n, AsOld(s, n), m.age >= n
  PROVE  AsOld(Append(s, m), n)
BY AppendFacts DEF AsOld

LEMMA AsOldEmpty == \A n : AsOld(<<>>, n)
BY DEF AsOld

(* Old messages that decode tell how long their sender is away at most. *)
LEMMA AsOldDecodes ==
  ASSUME NEW s \in Seq(Message), s # <<>>, NEW n \in Nat, AsOld(s, n), Decodes(Head(s))
  PROVE  n <= MaxTimeDifference
<1>1. Head(s).age >= n \/ Head(s).age = AgeCap
  BY TailFacts DEF AsOld
<1>2. Head(s).age \in Nat
  <2>1. Head(s) \in Message
    BY TailFacts
  <2> QED
    BY <2>1, MessageFacts
<1> QED
  BY <1>1, <1>2, Numbers DEF Decodes

LEMMA OlderFacts ==
  ASSUME NEW s \in Seq(Message)
  PROVE  /\ Older(s) \in Seq(Message) /\ Len(Older(s)) = Len(s) /\ DOMAIN Older(s) = DOMAIN s
         /\ s = <<>> <=> Older(s) = <<>>
         /\ s # <<>> => Head(Older(s)).kind = Head(s).kind
         /\ \A i \in DOMAIN s : Older(s)[i].age = UpTo(s[i].age, AgeCap) /\ s[i].age \in 0..AgeCap
<1>1. /\ DOMAIN s = 1..Len(s) /\ Len(s) \in Nat
      /\ \A i \in 1..Len(s) : s[i] \in Message
  OBVIOUS
<1>2. \A m \in Message : m.age \in 0..AgeCap
  BY MessageFacts
<1>3. Older(s) = [i \in 1..Len(s) |-> [s[i] EXCEPT !.age = UpTo(@, AgeCap)]]
  BY <1>1 DEF Older
<1>4. \A i \in 1..Len(s) : /\ Older(s)[i] \in Message /\ Older(s)[i].kind = s[i].kind
                           /\ Older(s)[i].age = UpTo(s[i].age, AgeCap)
  BY <1>1, <1>3, MessageFacts
<1>5. Older(s) \in Seq(Message) /\ Len(Older(s)) = Len(s) /\ DOMAIN Older(s) = 1..Len(s)
  <2>1. DOMAIN Older(s) = 1..Len(s) /\ Older(s) \in [1..Len(s) -> Message]
    BY <1>3, <1>4
  <2>2. Older(s) \in Seq(Message)
    BY <1>1, <2>1, SeqDef
  <2> QED
    BY <1>1, <2>1, <2>2, LenProperties
<1>6. s = <<>> <=> Older(s) = <<>>
  BY <1>1, <1>5
<1>7. s # <<>> => Head(Older(s)).kind = Head(s).kind
  <2> HAVE s # <<>>
  <2>1. 1 \in 1..Len(s) /\ Head(s) = s[1] /\ Head(Older(s)) = Older(s)[1]
    BY <1>1, <1>5, <1>6
  <2> QED
    BY <1>4, <2>1
<1> QED
  BY <1>1, <1>2, <1>4, <1>5, <1>6, <1>7

LEMMA AsOldOlder ==
  ASSUME NEW s \in Seq(Message), NEW n \in Nat, NEW k \in Nat, k <= n + 1, AsOld(s, n)
  PROVE  AsOld(Older(s), k)
<1>1. SUFFICES ASSUME NEW i \in DOMAIN s
               PROVE  Older(s)[i].age >= k \/ Older(s)[i].age = AgeCap
  BY OlderFacts DEF AsOld
<1>2. /\ Older(s)[i].age = UpTo(s[i].age, AgeCap) /\ s[i].age \in 0..AgeCap
      /\ s[i].age >= n \/ s[i].age = AgeCap
  BY OlderFacts DEF AsOld
<1> QED
  BY <1>2, Numbers DEF UpTo

-----------------------------------------------------------------------------
(* Connections *)

LEMMA ConnectFacts ==
  ASSUME IInv, NEW first \in Seq(Message), Connect(first)
  PROVE  \E c \in Conns :
           /\ c \notin {control, heloConn} /\ c \notin ToSet(backlog)
           /\ Last(backlog') = c
           /\ ToSet(backlog') = ToSet(backlog) \cup {c}
           /\ backlog' \in Seq(Conns) /\ IsInjective(backlog')
           /\ toOutside' \in [Conns -> Seq(Message)]
           /\ \A d \in Conns : d # c => toOutside'[d] = toOutside[d]
<1> DEFINE c == CHOOSE c \in FreeConns : TRUE
<1>1. c \in FreeConns /\ backlog' = Append(backlog, c) /\ toOutside' = [toOutside EXCEPT ![c] = first]
  BY DEF Connect
<1> HIDE DEF c
<1>2. c \in Conns /\ c \notin {control, heloConn} /\ c \notin ToSet(backlog)
  BY <1>1 DEF FreeConns
<1>3. backlog \in Seq(Conns) /\ IsInjective(backlog) /\ toOutside \in [Conns -> Seq(Message)]
  BY DEF IInv, Typed, NetTyped
<1>4. /\ backlog' \in Seq(Conns) /\ Len(backlog') = Len(backlog) + 1 /\ Len(backlog) \in Nat
      /\ DOMAIN backlog = 1..Len(backlog) /\ DOMAIN backlog' = 1..(Len(backlog) + 1)
      /\ \A i \in 1..Len(backlog) : backlog'[i] = backlog[i]
      /\ backlog'[Len(backlog) + 1] = c
  BY <1>1, <1>2, <1>3
<1>5. Last(backlog') = c
  BY <1>4 DEF Last
<1>6. ToSet(backlog') = ToSet(backlog) \cup {c}
  BY <1>4 DEF ToSet
<1>7. IsInjective(backlog')
  <2>1. \A i \in 1..Len(backlog) : backlog[i] # c
    BY <1>2, <1>4 DEF ToSet
  <2>2. \A i, j \in 1..Len(backlog) : backlog[i] = backlog[j] => i = j
    BY <1>3, <1>4 DEF IsInjective
  <2> QED
    BY <1>4, <2>1, <2>2 DEF IsInjective
<1>8. /\ toOutside' \in [Conns -> Seq(Message)]
      /\ \A d \in Conns : d # c => toOutside'[d] = toOutside[d]
  BY <1>1, <1>2, <1>3
<1> QED
  BY <1>2, <1>4, <1>5, <1>6, <1>7, <1>8

LEMMA BacklogTail ==
  ASSUME IInv, backlog # <<>>
  PROVE  /\ Head(backlog) \in Conns /\ Tail(backlog) \in Seq(Conns)
         /\ IsInjective(Tail(backlog)) /\ ToSet(Tail(backlog)) = ToSet(backlog) \ {Head(backlog)}
         /\ Head(backlog) \in ToSet(backlog)
<1>1. backlog \in Seq(Conns) /\ IsInjective(backlog)
  BY DEF IInv, Typed, NetTyped
<1> DEFINE t == Tail(backlog)
<1>2. /\ t \in Seq(Conns) /\ Len(backlog) \in Nat /\ Len(backlog) >= 1 /\ Len(t) = Len(backlog) - 1
      /\ DOMAIN backlog = 1..Len(backlog) /\ DOMAIN t = 1..(Len(backlog) - 1)
      /\ \A i \in 1..(Len(backlog) - 1) : t[i] = backlog[i + 1]
      /\ Head(backlog) = backlog[1] /\ Head(backlog) \in Conns
  BY <1>1
<1> HIDE DEF t
<1>3. \A i, j \in 1..Len(backlog) : backlog[i] = backlog[j] => i = j
  BY <1>1, <1>2 DEF IsInjective
<1>4. IsInjective(t)
  BY <1>2, <1>3 DEF IsInjective
<1>5. ToSet(t) = ToSet(backlog) \ {Head(backlog)}
  <2>1. \A x : x \in ToSet(t) <=> \E i \in 1..(Len(backlog) - 1) : x = backlog[i + 1]
    BY <1>2 DEF ToSet
  <2>2. \A x : x \in ToSet(backlog) <=> \E i \in 1..Len(backlog) : x = backlog[i]
    BY <1>2 DEF ToSet
  <2>3. \A i \in 1..Len(backlog) : i = 1 \/ (i - 1 \in 1..(Len(backlog) - 1) /\ (i - 1) + 1 = i)
    BY <1>2
  <2>4. \A i \in 1..(Len(backlog) - 1) : i + 1 \in 1..Len(backlog) /\ i + 1 # 1
    BY <1>2
  <2>5. ASSUME NEW x \in ToSet(t) PROVE x \in ToSet(backlog) \ {Head(backlog)}
    BY <1>2, <1>3, <2>1, <2>2, <2>4
  <2>6. ASSUME NEW x \in ToSet(backlog) \ {Head(backlog)} PROVE x \in ToSet(t)
    BY <1>2, <2>1, <2>2, <2>3
  <2> QED
    BY <2>5, <2>6
<1>6. Head(backlog) \in ToSet(backlog)
  BY <1>2 DEF ToSet
<1> QED
  BY <1>2, <1>4, <1>5, <1>6 DEF t

LEMMA AsOldZero ==
  ASSUME NEW s \in Seq(Message)
  PROVE  AsOld(s, 0)
<1>1. SUFFICES ASSUME NEW i \in DOMAIN s PROVE s[i].age >= 0
  BY DEF AsOld
<1>2. s[i] \in Message
  OBVIOUS
<1>3. s[i].age \in Nat
  BY <1>2, MessageFacts
<1> QED
  BY <1>3

LEMMA TimerBounds ==
  /\ 0 \in 0..HeloTimeout \cup 0..ConnectTimeout
  /\ ConnectTimeout \in 0..HeloTimeout \cup 0..ConnectTimeout
  /\ HeloTimeout \in 0..HeloTimeout \cup 0..ConnectTimeout
  /\ 0 \in 0..RepeatTime /\ RepeatTime \in 0..RepeatTime
  /\ 0 \in 0..MaxConnecting /\ 0 \in 0..AgeCap /\ 0 \in 0..ConnectTimeout /\ 0 \in 0..OrphanCap
BY Numbers

LEMMA NoMessages == <<>> \in Seq(Message) /\ Len(<<>>) = 0 /\ 0 <= ChannelSize
BY Numbers

LEMMA NewMessage ==
  ASSUME NEW k \in {"HELO", "key", "answer", "call"}, NEW a \in 0..AgeCap
  PROVE  Msg(k, a) \in Message /\ Msg(k, a).kind = k /\ Msg(k, a).age = a
BY DEF Msg, Message

LEMMA Orphans ==
  ASSUME IInv
  PROVE  /\ orphan \in [Sides -> Nat] /\ Sides = {"Inside", "Outside"}
         /\ orphan["Inside"] \in Nat /\ orphan["Outside"] \in Nat
         /\ inside = "run" => orphan["Inside"] <= Patience
         /\ outside = "read" => orphan["Outside"] <= Patience
BY Numbers DEF IInv, Typed, InsideTyped, OutsideTyped, EnvTyped, Sides, OrphanInv

-----------------------------------------------------------------------------
(* A side ends. *)

LEMMA InsideDiesInv ==
  ASSUME IInv, InsideDies
  PROVE  IInv'
<1>1. /\ inside' = "exited" /\ control' = NoConn /\ bAnswered' = FALSE
      /\ insideLeft' = 0 /\ untilHelo' = 0 /\ connecting' = 0 /\ toInside' = <<>>
      /\ toOutside' = toOutside \/ (control # NoConn /\ toOutside' = [toOutside EXCEPT ![control] = <<>>])
      /\ blocked' = [blocked EXCEPT !["Inside"] = 0]
      /\ orphan' = [orphan EXCEPT !["Inside"] = 0]
      /\ UNCHANGED <<outsideVars, backlog, calm>>
  BY DEF InsideDies
<1> USE DEF outsideVars, runVars
<1>2. InsideTyped'
  BY <1>1, TimerBounds DEF InsideTyped
<1>3. OutsideTyped'
  BY <1>1 DEF IInv, Typed, OutsideTyped
<1>4. NetTyped'
  <2>1. <<>> \in Seq(Message)
    OBVIOUS
  <2>2. toOutside' \in [Conns -> Seq(Message)]
    BY <1>1, <2>1 DEF IInv, Typed, NetTyped
  <2> QED
    BY <1>1, <2>1, <2>2 DEF IInv, Typed, NetTyped
<1>5. EnvTyped' /\ orphan'["Inside"] = 0 /\ orphan'["Outside"] = orphan["Outside"]
  BY <1>1, Numbers DEF IInv, Typed, EnvTyped, Sides
<1>6. RunInv' /\ OrderInv'
  BY <1>1 DEF IInv, RunInv, OrderInv, Linked
<1>7. OrphanInv'
  <2>1. ~Linked' /\ AsOld(toInside', 0)
    BY <1>1, AsOldEmpty DEF Linked
  <2>2. \A s \in Sides : ~Up(s)' => orphan'[s] = 0
    BY <1>1, <1>5 DEF IInv, OrphanInv, Up, Sides
  <2>3. heloConn # NoConn => AsOld(toOutside'[heloConn], orphan["Outside"])
    <3>1. heloConn # NoConn => heloConn \in Conns /\ AsOld(toOutside[heloConn], orphan["Outside"])
      BY DEF IInv, OrphanInv, Typed, OutsideTyped
    <3>2. heloConn # NoConn => toOutside'[heloConn] \in {toOutside[heloConn], <<>>}
      BY <1>1, <3>1 DEF IInv, Typed, NetTyped
    <3> QED
      BY <3>1, <3>2, AsOldEmpty
  <2> QED
    BY <1>1, <1>5, <2>1, <2>2, <2>3 DEF IInv, OrphanInv
<1> QED
  BY <1>2, <1>3, <1>4, <1>5, <1>6, <1>7 DEF IInv, Typed

LEMMA OutsideDiesInv ==
  ASSUME IInv, OutsideDies
  PROVE  IInv'
<1>1. /\ outside' = "exited" /\ heloConn' = NoConn /\ bReceivedHelo' = FALSE
      /\ outsideLeft' = 0 /\ answer' = 0 /\ chToInside' = <<>> /\ backlog' = <<>>
      /\ toOutside' = [c \in Conns |-> <<>>]
      /\ toInside' \in {toInside, <<>>}
      /\ blocked' = [blocked EXCEPT !["Outside"] = 0]
      /\ orphan' = [orphan EXCEPT !["Outside"] = 0]
      /\ UNCHANGED <<insideVars, calm>>
  BY DEF OutsideDies
<1> USE DEF insideVars, readVars
<1>2. InsideTyped'
  BY <1>1 DEF IInv, Typed, InsideTyped
<1>3. OutsideTyped'
  BY <1>1, TimerBounds, NoMessages DEF OutsideTyped
<1>4. NetTyped'
  <2>1. toOutside' \in [Conns -> Seq(Message)]
    BY <1>1, NoMessages
  <2>3. backlog' \in Seq(Conns) /\ toInside' \in Seq(Message)
    <3>1. <<>> \in Seq(Conns) /\ toInside \in Seq(Message)
      BY DEF IInv, Typed, NetTyped
    <3> QED
      BY <1>1, <3>1, NoMessages
  <2>2. IsInjective(backlog')
    BY <1>1 DEF IsInjective
  <2> QED
    BY <2>1, <2>2, <2>3 DEF NetTyped
<1>5. EnvTyped' /\ orphan'["Outside"] = 0 /\ orphan'["Inside"] = orphan["Inside"]
  BY <1>1, Numbers DEF IInv, Typed, EnvTyped, Sides
<1>6. RunInv'
  BY <1>1 DEF RunInv, ToSet
<1>7. ~Linked'
  BY <1>1 DEF Linked
<1>8. OrderInv'
  BY <1>1, <1>7 DEF IInv, OrderInv
<1>9. OrphanInv'
  <2>1. AsOld(toInside', orphan["Inside"])
    BY <1>1, AsOldEmpty DEF IInv, OrphanInv
  <2>2. \A s \in Sides : ~Up(s)' => orphan'[s] = 0
    BY <1>1, <1>5 DEF IInv, OrphanInv, Up, Sides
  <2> QED
    BY <1>1, <1>5, <1>7, <2>1, <2>2 DEF IInv, OrphanInv
<1> QED
  BY <1>2, <1>3, <1>4, <1>5, <1>6, <1>8, <1>9 DEF IInv, Typed

-----------------------------------------------------------------------------
(* Inside. *)

LEMMA DialToOutsideInv ==
  ASSUME IInv, DialToOutside
  PROVE  IInv'
<1>1. /\ inside = "dial" /\ inside' = "run" /\ bAnswered' = FALSE /\ control' = Last(backlog')
      /\ insideLeft' = ConnectTimeout /\ untilHelo' = 0
      /\ UNCHANGED <<connecting, outsideVars, toInside, envVars>>
  BY DEF DialToOutside
<1>2. PICK c \in Conns :
        /\ c \notin {control, heloConn} /\ c \notin ToSet(backlog)
        /\ Last(backlog') = c
        /\ ToSet(backlog') = ToSet(backlog) \cup {c}
        /\ backlog' \in Seq(Conns) /\ IsInjective(backlog')
        /\ toOutside' \in [Conns -> Seq(Message)]
        /\ \A d \in Conns : d # c => toOutside'[d] = toOutside[d]
  <2>1. Connect(<<>>) /\ <<>> \in Seq(Message)
    BY DEF DialToOutside
  <2> QED
    BY <2>1, ConnectFacts
<1> USE DEF outsideVars, runVars, envVars
<1>3. InsideTyped'
  <2>1. control' \in Conns /\ control' # NoConn
    BY <1>1, <1>2, Numbers
  <2>2. connecting' \in 0..MaxConnecting
    BY <1>1 DEF IInv, Typed, InsideTyped
  <2> QED
    BY <1>1, <2>1, <2>2, TimerBounds DEF InsideTyped
<1>4. OutsideTyped' /\ NetTyped' /\ EnvTyped'
  BY <1>1, <1>2 DEF IInv, Typed, OutsideTyped, NetTyped, EnvTyped
<1>5. control = NoConn /\ toInside = <<>> /\ connecting = 0 /\ ~Linked'
  BY <1>1, <1>2, Numbers DEF IInv, Typed, InsideTyped, OrderInv, Linked
<1>6. RunInv' /\ OrderInv'
  BY <1>1, <1>2, <1>5, Numbers DEF IInv, RunInv, OrderInv
<1>7. OrphanInv'
  <2>1. orphan["Inside"] = 0 /\ \A s \in Sides : ~Up(s)' => orphan[s] = 0
    BY <1>1 DEF IInv, OrphanInv, Up, Sides
  <2>2. heloConn # NoConn => AsOld(toOutside'[heloConn], orphan["Outside"])
    BY <1>2 DEF IInv, OrphanInv, Typed, OutsideTyped
  <2> QED
    BY <1>1, <1>5, <2>1, <2>2, Numbers DEF IInv, OrphanInv
<1> QED
  BY <1>3, <1>4, <1>6, <1>7 DEF IInv, Typed

LEMMA SendHeloInv ==
  ASSUME IInv, SendHelo
  PROVE  IInv'
<1>1. /\ inside = "run" /\ untilHelo' = RepeatTime
      /\ blocked' = [blocked EXCEPT !["Inside"] = 0]
      /\ toOutside' = toOutside
         \/ toOutside' = [toOutside EXCEPT ![control] = Append(@, Msg("HELO", HeloAge))]
      /\ UNCHANGED <<readVars, connecting, outsideVars, backlog, toInside, calm, orphan>>
  BY DEF SendHelo, HeloDue
<1> USE DEF readVars, outsideVars, runVars
<1>2. control \in Conns /\ control # NoConn
  BY <1>1 DEF IInv, Typed, InsideTyped
<1>3. Msg("HELO", HeloAge) \in Message
  <2>1. blocked["Inside"] \in Nat
    BY Numbers DEF IInv, Typed, EnvTyped, Sides
  <2>2. HeloAge \in 0..AgeCap
    BY <2>1, Numbers DEF HeloAge
  <2> QED
    BY <2>2, NewMessage
<1>4. toOutside \in [Conns -> Seq(Message)]
  BY DEF IInv, Typed, NetTyped
<1>5. Append(toOutside[control], Msg("HELO", HeloAge)) \in Seq(Message)
  BY <1>2, <1>3, <1>4, AppendFacts
<1>6. toOutside' \in [Conns -> Seq(Message)]
  BY <1>1, <1>4, <1>5
<1>7. InsideTyped' /\ OutsideTyped' /\ NetTyped' /\ EnvTyped'
  <2>1. InsideTyped' /\ OutsideTyped'
    BY <1>1, TimerBounds DEF IInv, Typed, InsideTyped, OutsideTyped
  <2>2. NetTyped'
    BY <1>1, <1>6 DEF IInv, Typed, NetTyped
  <2>3. EnvTyped'
    BY <1>1, TimerBounds DEF IInv, Typed, EnvTyped
  <2> QED
    BY <2>1, <2>2, <2>3
<1>8. RunInv' /\ OrderInv'
  BY <1>1 DEF IInv, RunInv, OrderInv, Linked
<1>9. OrphanInv'
  <2>1. ASSUME heloConn # NoConn PROVE AsOld(toOutside'[heloConn], orphan["Outside"])
    <3>1. heloConn \in Conns /\ AsOld(toOutside[heloConn], orphan["Outside"])
      BY <2>1 DEF IInv, OrphanInv, Typed, OutsideTyped
    <3>2. CASE heloConn = control
      <4>1. orphan["Outside"] = 0
        BY <1>2, <3>2 DEF IInv, OrphanInv, Linked, Sides
      <4>2. toOutside'[heloConn] \in Seq(Message)
        BY <1>6, <3>1
      <4> QED
        BY <4>1, <4>2, AsOldZero
    <3>3. CASE heloConn # control
      <4>1. toOutside'[heloConn] = toOutside[heloConn]
        BY <1>1, <1>4, <3>1, <3>3
      <4> QED
        BY <3>1, <4>1
    <3> QED
      BY <3>2, <3>3
  <2> QED
    BY <1>1, <2>1 DEF IInv, OrphanInv, Linked, Up
<1> QED
  BY <1>7, <1>8, <1>9 DEF IInv, Typed

(* The first message that Inside reads is an answer. *)
LEMMA ReadByInsideInv ==
  ASSUME IInv, ReadByInside
  PROVE  IInv'
<1>1. /\ inside = "run" /\ toInside # <<>> /\ Decodes(Head(toInside))
      /\ toInside' = Tail(toInside)
      /\ bAnswered' = (bAnswered \/ Head(toInside).kind = "answer")
      /\ insideLeft' = IF bAnswered' THEN HeloTimeout ELSE ConnectTimeout
      /\ connecting' = connecting \/ (connecting < MaxConnecting /\ connecting' = connecting + 1)
      /\ UNCHANGED <<inside, control, untilHelo, outsideVars, backlog, toOutside, envVars>>
  BY DEF ReadByInside
<1> USE DEF outsideVars, runVars, envVars
<1>2. bAnswered' = TRUE /\ insideLeft' = HeloTimeout
  BY <1>1 DEF IInv, OrderInv, Typed, InsideTyped
<1>3. toInside \in Seq(Message) /\ Tail(toInside) \in Seq(Message)
  BY <1>1, TailFacts DEF IInv, Typed, NetTyped
<1>4. connecting' \in 0..MaxConnecting
  BY <1>1, Numbers DEF IInv, Typed, InsideTyped
<1>5. InsideTyped'
  BY <1>1, <1>2, <1>4, Numbers DEF IInv, Typed, InsideTyped
<1>6. OutsideTyped' /\ NetTyped' /\ EnvTyped'
  BY <1>1, <1>3 DEF IInv, Typed, OutsideTyped, NetTyped, EnvTyped
<1>7. RunInv' /\ OrderInv'
  BY <1>1, <1>2 DEF IInv, Typed, InsideTyped, RunInv, OrderInv
<1>8. OrphanInv'
  <2>1. AsOld(toInside, orphan["Inside"]) /\ orphan["Inside"] \in Nat
    BY Orphans DEF IInv, OrphanInv
  <2>2. orphan["Inside"] <= MaxTimeDifference
    BY <1>1, <1>3, <2>1, AsOldDecodes
  <2>3. AsOld(toInside', orphan["Inside"])
    BY <1>1, <1>3, <2>1, AsOldTail
  <2>4. orphan["Inside"] + insideLeft' <= Patience
    BY <1>2, <2>1, <2>2, Numbers
  <2> QED
    BY <1>1, <2>3, <2>4 DEF IInv, OrphanInv, Linked, Up
<1> QED
  BY <1>5, <1>6, <1>7, <1>8 DEF IInv, Typed

LEMMA ConnectToOutsideInv ==
  ASSUME IInv, ConnectToOutside
  PROVE  IInv'
<1>1. /\ connecting > 0 /\ connecting' = connecting - 1
      /\ UNCHANGED <<readVars, untilHelo, outsideVars, toInside, envVars>>
  BY DEF ConnectToOutside
<1> USE DEF readVars, outsideVars, runVars, envVars
<1>2. /\ backlog' \in Seq(Conns) /\ IsInjective(backlog') /\ toOutside' \in [Conns -> Seq(Message)]
      /\ heloConn \notin ToSet(backlog')
      /\ heloConn \in Conns => toOutside'[heloConn] = toOutside[heloConn]
  <2>1. CASE UNCHANGED <<backlog, toOutside>>
    BY <2>1 DEF IInv, Typed, NetTyped, RunInv
  <2>2. CASE Connect(<<Msg("key", 0)>>)
    <3>1. <<Msg("key", 0)>> \in Seq(Message)
      BY NewMessage, Numbers
    <3>2. PICK c \in Conns :
            /\ c \notin {control, heloConn} /\ c \notin ToSet(backlog)
            /\ Last(backlog') = c
            /\ ToSet(backlog') = ToSet(backlog) \cup {c}
            /\ backlog' \in Seq(Conns) /\ IsInjective(backlog')
            /\ toOutside' \in [Conns -> Seq(Message)]
            /\ \A d \in Conns : d # c => toOutside'[d] = toOutside[d]
      BY <2>2, <3>1, ConnectFacts
    <3> QED
      BY <3>2 DEF IInv, RunInv
  <2> QED
    BY <2>1, <2>2 DEF ConnectToOutside
<1>3. connecting' \in 0..MaxConnecting
  BY <1>1, Numbers DEF IInv, Typed, InsideTyped
<1>4. InsideTyped' /\ OutsideTyped' /\ NetTyped' /\ EnvTyped'
  BY <1>1, <1>2, <1>3 DEF IInv, Typed, InsideTyped, OutsideTyped, NetTyped, EnvTyped
<1>5. RunInv'
  BY <1>1, <1>2 DEF IInv, RunInv
<1>6. OrderInv'
  <2>1. bAnswered /\ control # NoConn
    BY <1>1, Numbers DEF IInv, Typed, InsideTyped, OrderInv
  <2> QED
    BY <1>1, <2>1 DEF IInv, OrderInv, Linked
<1>7. OrphanInv'
  BY <1>1, <1>2 DEF IInv, OrphanInv, Linked, Up, Typed, OutsideTyped
<1> QED
  BY <1>4, <1>5, <1>6, <1>7 DEF IInv, Typed

LEMMA InsideStartsInv ==
  ASSUME IInv, InsideStarts
  PROVE  IInv'
<1>1. /\ inside \in {"exited", "down"} /\ inside' = "dial"
      /\ UNCHANGED <<control, bAnswered, insideLeft, untilHelo, connecting, outsideVars, netVars, envVars>>
  BY DEF InsideStarts
<1> USE DEF outsideVars, runVars, netVars, envVars
<1>2. InsideTyped' /\ OutsideTyped' /\ NetTyped' /\ EnvTyped'
  BY <1>1 DEF IInv, Typed, InsideTyped, OutsideTyped, NetTyped, EnvTyped
<1>3. RunInv' /\ OrderInv' /\ OrphanInv'
  BY <1>1 DEF IInv, RunInv, OrderInv, OrphanInv, Linked, Up
<1> QED
  BY <1>2, <1>3 DEF IInv, Typed
-----------------------------------------------------------------------------
(* Outside. *)

LEMMA AcceptInsideInv ==
  ASSUME IInv, AcceptInside
  PROVE  IInv'
<1>1. /\ outside = "accept" /\ backlog # <<>>
      /\ heloConn' = Head(backlog) /\ backlog' = Tail(backlog)
      /\ outside' = "read" /\ outsideLeft' = ConnectTimeout
      /\ orphan' = IF heloConn' = control THEN [orphan EXCEPT !["Inside"] = 0] ELSE orphan
      /\ UNCHANGED <<insideVars, bReceivedHelo, answer, chToInside, toOutside, toInside, blocked, calm>>
  BY DEF AcceptInside
<1> USE DEF insideVars, readVars
<1>2. /\ heloConn' \in Conns /\ heloConn' # NoConn
      /\ backlog' \in Seq(Conns) /\ IsInjective(backlog') /\ heloConn' \notin ToSet(backlog')
  BY <1>1, BacklogTail, Numbers
<1>3. heloConn = NoConn /\ bReceivedHelo = FALSE /\ chToInside = <<>>
  BY <1>1 DEF IInv, Typed, OutsideTyped, RunInv
<1>4. InsideTyped' /\ NetTyped'
  BY <1>1, <1>2 DEF IInv, Typed, InsideTyped, NetTyped
<1>5. OutsideTyped'
  BY <1>1, <1>2, TimerBounds DEF IInv, Typed, OutsideTyped
<1>6. /\ orphan'["Outside"] = 0 /\ orphan["Outside"] = 0
      /\ orphan'["Inside"] = orphan["Inside"] \/ orphan'["Inside"] = 0
      /\ heloConn' = control => orphan'["Inside"] = 0
  BY <1>1 DEF IInv, Typed, EnvTyped, OrphanInv, Up, Sides
<1>7. EnvTyped'
  BY <1>1, TimerBounds DEF IInv, Typed, EnvTyped, Sides
<1>8. RunInv' /\ OrderInv'
  BY <1>1, <1>2, <1>3 DEF IInv, RunInv, OrderInv
<1>9. OrphanInv'
  <2>1. Linked' => \A s \in Sides : orphan'[s] = 0
    BY <1>1, <1>6 DEF Linked, Sides
  <2>2. \A s \in Sides : ~Up(s)' => orphan'[s] = 0
    BY <1>1, <1>6 DEF IInv, OrphanInv, Up, Sides
  <2>3. inside' = "run" => orphan'["Inside"] + insideLeft' <= Patience
    <3>1. inside = "run" => insideLeft <= Patience
      BY Orphans, Numbers DEF IInv, OrphanInv, Typed, InsideTyped
    <3> QED
      BY <1>1, <1>6, <3>1, Numbers DEF IInv, OrphanInv, Typed, InsideTyped
  <2>4. orphan'["Outside"] + outsideLeft' <= Patience
    BY <1>1, <1>6, Numbers
  <2>5. AsOld(toInside', orphan'["Inside"])
    BY <1>1, <1>6, AsOldZero DEF IInv, OrphanInv, Typed, NetTyped
  <2>6. AsOld(toOutside'[heloConn'], orphan'["Outside"])
    BY <1>1, <1>2, <1>6, AsOldZero DEF IInv, Typed, NetTyped
  <2> QED
    BY <1>1, <2>1, <2>2, <2>3, <2>4, <2>5, <2>6 DEF OrphanInv
<1> QED
  BY <1>4, <1>5, <1>7, <1>8, <1>9 DEF IInv, Typed

LEMMA ReadHeloInv ==
  ASSUME IInv, ReadHelo
  PROVE  IInv'
<1>1. /\ outside = "read" /\ toOutside[heloConn] # <<>>
      /\ Decodes(Head(toOutside[heloConn]))
      /\ answer' = Head(toOutside[heloConn]).age
      /\ toOutside' = [toOutside EXCEPT ![heloConn] = Tail(@)]
      /\ outside' = "put"
      /\ UNCHANGED <<insideVars, heloConn, bReceivedHelo, outsideLeft, chToInside, backlog, toInside, envVars>>
  BY DEF ReadHelo, GoodHelo
<1> USE DEF insideVars, readVars, envVars
<1>2. heloConn \in Conns /\ heloConn # NoConn
  BY <1>1 DEF IInv, Typed, OutsideTyped
<1>3. toOutside \in [Conns -> Seq(Message)] /\ toOutside[heloConn] \in Seq(Message)
  BY <1>2 DEF IInv, Typed, NetTyped
<1>4. Head(toOutside[heloConn]) \in Message /\ Tail(toOutside[heloConn]) \in Seq(Message)
  BY <1>1, <1>3, TailFacts
<1>5. answer' \in 0..AgeCap
  BY <1>1, <1>4, MessageFacts
<1>6. toOutside' \in [Conns -> Seq(Message)] /\ toOutside'[heloConn] = Tail(toOutside[heloConn])
  BY <1>1, <1>2, <1>3, <1>4
<1>7. InsideTyped' /\ EnvTyped'
  BY <1>1 DEF IInv, Typed, InsideTyped, EnvTyped
<1>8. OutsideTyped' /\ NetTyped'
  BY <1>1, <1>2, <1>5, <1>6 DEF IInv, Typed, OutsideTyped, NetTyped
<1>9. RunInv' /\ OrderInv'
  BY <1>1 DEF IInv, RunInv, OrderInv, Linked
<1>10. OrphanInv'
  <2>1. AsOld(toOutside[heloConn], orphan["Outside"]) /\ orphan["Outside"] \in Nat
    BY <1>2, Orphans DEF IInv, OrphanInv
  <2>2. orphan["Outside"] <= MaxTimeDifference
    BY <1>1, <1>3, <2>1, AsOldDecodes
  <2>3. AsOld(toOutside'[heloConn], orphan["Outside"])
    BY <1>1, <1>3, <1>6, <2>1, AsOldTail
  <2> QED
    BY <1>1, <2>2, <2>3 DEF IInv, OrphanInv, Linked, Up
<1> QED
  BY <1>7, <1>8, <1>9, <1>10 DEF IInv, Typed

(* The first message in the channel is an answer. *)
LEMMA PutAnswerInv ==
  ASSUME IInv, PutAnswer
  PROVE  IInv'
<1>1. /\ outside = "put" /\ Len(chToInside) < ChannelSize
      /\ chToInside' = Append(chToInside, Msg("answer", answer)) /\ answer' = 0
      /\ bReceivedHelo' = TRUE /\ outside' = "read" /\ outsideLeft' = HeloTimeout
      /\ UNCHANGED <<insideVars, heloConn, netVars, envVars>>
  BY DEF PutAnswer
<1> USE DEF insideVars, readVars, netVars, envVars
<1>2. heloConn # NoConn /\ chToInside \in Seq(Message)
  BY <1>1 DEF IInv, Typed, OutsideTyped
<1>3. Msg("answer", answer) \in Message /\ Msg("answer", answer).kind = "answer"
  BY NewMessage DEF IInv, Typed, OutsideTyped
<1>4. /\ chToInside' \in Seq(Message) /\ Len(chToInside') <= ChannelSize /\ chToInside' # <<>>
      /\ Head(chToInside') = IF chToInside = <<>> THEN Msg("answer", answer) ELSE Head(chToInside)
  BY <1>1, <1>2, <1>3, AppendFacts, Numbers
<1>5. InsideTyped' /\ NetTyped' /\ EnvTyped'
  BY <1>1 DEF IInv, Typed, InsideTyped, NetTyped, EnvTyped
<1>6. OutsideTyped'
  BY <1>1, <1>4, TimerBounds DEF IInv, Typed, OutsideTyped
<1>7. RunInv'
  BY <1>1, <1>2 DEF IInv, RunInv
<1>8. OrderInv'
  <2>1. CASE chToInside = <<>>
    BY <1>1, <1>3, <1>4, <2>1 DEF IInv, OrderInv
  <2>2. CASE chToInside # <<>>
    BY <1>1, <1>4, <2>2 DEF IInv, OrderInv, RunInv, Linked
  <2> QED
    BY <2>1, <2>2
<1>9. OrphanInv'
  <2>1. orphan["Outside"] + HeloTimeout <= Patience
    BY <1>1, Orphans, Numbers DEF IInv, OrphanInv
  <2> QED
    BY <1>1, <2>1 DEF IInv, OrphanInv, Linked, Up
<1> QED
  BY <1>5, <1>6, <1>7, <1>8, <1>9 DEF IInv, Typed

LEMMA AnnounceInv ==
  ASSUME IInv, Announce
  PROVE  IInv'
<1>1. /\ bReceivedHelo /\ Len(chToInside) < ChannelSize
      /\ chToInside' = Append(chToInside, Msg("call", 0))
      /\ UNCHANGED <<insideVars, runVars, netVars, envVars>>
  BY DEF Announce
<1> USE DEF insideVars, readVars, runVars, netVars, envVars
<1>2. chToInside \in Seq(Message) /\ Msg("call", 0) \in Message
  BY NewMessage, TimerBounds DEF IInv, Typed, OutsideTyped
<1>3. /\ chToInside' \in Seq(Message) /\ Len(chToInside') <= ChannelSize /\ chToInside' # <<>>
      /\ chToInside # <<>> => Head(chToInside') = Head(chToInside)
  BY <1>1, <1>2, AppendFacts, Numbers
<1>4. InsideTyped' /\ NetTyped' /\ EnvTyped' /\ OutsideTyped'
  BY <1>1, <1>3 DEF IInv, Typed, InsideTyped, OutsideTyped, NetTyped, EnvTyped
<1>5. RunInv' /\ OrderInv' /\ OrphanInv'
  BY <1>1, <1>3 DEF IInv, RunInv, OrderInv, OrphanInv, Linked, Up
<1> QED
  BY <1>4, <1>5 DEF IInv, Typed

(* Until there was an answer, what reaches the empty stream is an answer. *)
LEMMA SendToInsideInv ==
  ASSUME IInv, SendToInside
  PROVE  IInv'
<1>1. /\ bReceivedHelo /\ chToInside # <<>>
      /\ Linked => toInside' = Append(toInside, Head(chToInside))
      /\ ~Linked => toInside' = toInside
      /\ chToInside' = Tail(chToInside)
      /\ blocked' = [blocked EXCEPT !["Outside"] = 0]
      /\ UNCHANGED <<insideVars, runVars, backlog, toOutside, calm, orphan>>
  BY DEF SendToInside
<1> USE DEF insideVars, readVars, runVars
<1>2. chToInside \in Seq(Message) /\ toInside \in Seq(Message)
  BY DEF IInv, Typed, OutsideTyped, NetTyped
<1>3. /\ Head(chToInside) \in Message /\ chToInside' \in Seq(Message)
      /\ Len(chToInside') <= ChannelSize
  BY <1>1, <1>2, TailFacts, Numbers DEF IInv, Typed, OutsideTyped
<1>4. /\ toInside' \in Seq(Message)
      /\ Linked => toInside' # <<>>
      /\ Linked => Head(toInside') = IF toInside = <<>> THEN Head(chToInside) ELSE Head(toInside)
  <2>1. PICK m \in Message : m = Head(chToInside)
    BY <1>3
  <2>2. /\ Append(toInside, m) \in Seq(Message) /\ Append(toInside, m) # <<>>
        /\ Head(Append(toInside, m)) = IF toInside = <<>> THEN m ELSE Head(toInside)
    BY ONLY <1>2, AppendFacts
  <2>3. toInside' = IF Linked THEN Append(toInside, m) ELSE toInside
    BY <1>1, <2>1
  <2>4. CASE Linked
    BY <2>1, <2>2, <2>3, <2>4
  <2>5. CASE ~Linked
    BY <1>2, <2>3, <2>5
  <2> QED
    BY <2>4, <2>5
<1>5. InsideTyped' /\ NetTyped' /\ OutsideTyped'
  BY <1>1, <1>3, <1>4 DEF IInv, Typed, InsideTyped, OutsideTyped, NetTyped
<1>6. EnvTyped'
  BY <1>1, TimerBounds DEF IInv, Typed, EnvTyped
<1>7. RunInv'
  BY <1>1 DEF IInv, RunInv
<1>8. OrderInv'
  <2>1. CASE Linked
    BY <1>1, <1>4, <2>1 DEF IInv, OrderInv, Linked
  <2>2. CASE ~Linked
    BY <1>1, <2>2 DEF IInv, OrderInv, Linked
  <2> QED
    BY <2>1, <2>2
<1>9. OrphanInv'
  <2>1. AsOld(toInside', orphan["Inside"])
    <3>1. CASE Linked
      BY <1>4, <3>1, AsOldZero DEF IInv, OrphanInv, Sides
    <3>2. CASE ~Linked
      BY <1>1, <3>2 DEF IInv, OrphanInv
    <3> QED
      BY <3>1, <3>2
  <2> QED
    BY <1>1, <2>1 DEF IInv, OrphanInv, Linked, Up
<1> QED
  BY <1>5, <1>6, <1>7, <1>8, <1>9 DEF IInv, Typed

LEMMA DispatchInv ==
  ASSUME IInv, Dispatch
  PROVE  IInv'
<1>1. /\ backlog # <<>> /\ backlog' = Tail(backlog)
      /\ toOutside' = [toOutside EXCEPT ![Head(backlog)] = <<>>]
      /\ UNCHANGED <<insideVars, outsideVars, toInside, envVars>>
  BY DEF Dispatch
<1> USE DEF insideVars, readVars, outsideVars, runVars, envVars
<1>2. /\ Head(backlog) \in Conns /\ backlog' \in Seq(Conns) /\ IsInjective(backlog')
      /\ ToSet(backlog') = ToSet(backlog) \ {Head(backlog)} /\ Head(backlog) \in ToSet(backlog)
  BY <1>1, BacklogTail
<1>3. toOutside' \in [Conns -> Seq(Message)]
  BY <1>1, <1>2, NoMessages DEF IInv, Typed, NetTyped
<1>4. heloConn # Head(backlog) /\ heloConn \notin ToSet(backlog')
  BY <1>2 DEF IInv, RunInv
<1>5. heloConn # NoConn => toOutside'[heloConn] = toOutside[heloConn]
  BY <1>1, <1>4 DEF IInv, Typed, OutsideTyped, NetTyped
<1>6. InsideTyped' /\ NetTyped' /\ EnvTyped' /\ OutsideTyped'
  BY <1>1, <1>2, <1>3 DEF IInv, Typed, InsideTyped, OutsideTyped, NetTyped, EnvTyped
<1>7. RunInv' /\ OrderInv' /\ OrphanInv'
  BY <1>1, <1>4, <1>5 DEF IInv, RunInv, OrderInv, OrphanInv, Linked, Up
<1> QED
  BY <1>6, <1>7 DEF IInv, Typed

LEMMA OutsideStartsInv ==
  ASSUME IInv, OutsideStarts
  PROVE  IInv'
<1>1. /\ outside \in {"exited", "down"} /\ outside' = "accept"
      /\ UNCHANGED <<insideVars, heloConn, bReceivedHelo, outsideLeft, answer, chToInside, netVars, envVars>>
  BY DEF OutsideStarts
<1> USE DEF insideVars, readVars, netVars, envVars
<1>2. InsideTyped' /\ OutsideTyped' /\ NetTyped' /\ EnvTyped'
  BY <1>1 DEF IInv, Typed, InsideTyped, OutsideTyped, NetTyped, EnvTyped
<1>3. RunInv' /\ OrderInv' /\ OrphanInv'
  BY <1>1 DEF IInv, RunInv, OrderInv, OrphanInv, Linked, Up
<1> QED
  BY <1>2, <1>3 DEF IInv, Typed

-----------------------------------------------------------------------------
(* The clock. *)

LEMMA CalmDownInv ==
  ASSUME IInv, CalmDown
  PROVE  IInv'
<1>1. /\ calm' = TRUE
      /\ UNCHANGED <<insideVars, outsideVars, netVars, blocked, orphan>>
  BY DEF CalmDown
<1> USE DEF insideVars, readVars, outsideVars, runVars, netVars
<1>2. InsideTyped' /\ OutsideTyped' /\ NetTyped' /\ EnvTyped'
  BY <1>1 DEF IInv, Typed, InsideTyped, OutsideTyped, NetTyped, EnvTyped
<1>3. RunInv' /\ OrderInv' /\ OrphanInv'
  BY <1>1 DEF IInv, RunInv, OrderInv, OrphanInv, Linked, Up
<1> QED
  BY <1>2, <1>3 DEF IInv, Typed

(* The sides stay what they are but for the restart that becomes due, and  *)
(* no message comes or goes.                                               *)
LEMMA TickKeeps ==
  ASSUME IInv, Tick
  PROVE  /\ inside' = "run" <=> inside = "run"
         /\ inside' \in {"dial", "run", "exited", "down"}
         /\ outside' = "read" <=> outside = "read"
         /\ outside' = "put" <=> outside = "put"
         /\ outside' \in {"accept", "read", "put", "exited", "down"}
         /\ UNCHANGED <<control, bAnswered, connecting, heloConn, bReceivedHelo, backlog, calm>>
         /\ Linked' <=> Linked
         /\ \A s \in Sides : Up(s)' <=> Up(s)
<1>1. /\ inside' = IF inside = "exited" THEN "down" ELSE inside
      /\ outside' = IF outside = "exited" THEN "down" ELSE outside
      /\ UNCHANGED <<control, bAnswered, connecting, heloConn, bReceivedHelo, backlog, calm>>
  BY DEF Tick
<1>2. /\ inside \in {"dial", "run", "exited", "down"}
      /\ outside \in {"accept", "read", "put", "exited", "down"}
  BY DEF IInv, Typed, InsideTyped, OutsideTyped
<1> QED
  BY <1>1, <1>2 DEF Linked, Up, Sides

LEMMA TickMessages ==
  ASSUME IInv, Tick
  PROVE  /\ chToInside \in Seq(Message) /\ toInside \in Seq(Message)
         /\ toOutside \in [Conns -> Seq(Message)]
         /\ chToInside' = Older(chToInside) /\ toInside' = Older(toInside)
         /\ \A c \in Conns : toOutside'[c] = Older(toOutside[c])
         /\ chToInside' \in Seq(Message) /\ toInside' \in Seq(Message)
         /\ toOutside' \in [Conns -> Seq(Message)]
         /\ Len(chToInside') = Len(chToInside)
<1>1. /\ chToInside' = Older(chToInside) /\ toInside' = Older(toInside)
      /\ toOutside' = [c \in Conns |-> Older(toOutside[c])]
  BY DEF Tick
<1>2. /\ chToInside \in Seq(Message) /\ toInside \in Seq(Message)
      /\ toOutside \in [Conns -> Seq(Message)]
  BY DEF IInv, Typed, OutsideTyped, NetTyped
<1>3. /\ Older(chToInside) \in Seq(Message) /\ Older(toInside) \in Seq(Message)
      /\ Len(Older(chToInside)) = Len(chToInside)
  BY <1>2, OlderFacts
<1>4. \A c \in Conns : Older(toOutside[c]) \in Seq(Message)
  BY <1>2, OlderFacts
<1> QED
  BY <1>1, <1>2, <1>3, <1>4

LEMMA TickOrphans ==
  ASSUME IInv, Tick, NEW s \in Sides
  PROVE  /\ orphan'[s] \in 0..OrphanCap /\ orphan'[s] <= orphan[s] + 1
         /\ orphan[s] \in Nat /\ orphan'[s] \in Nat
         /\ Linked \/ ~Up(s) => orphan'[s] = 0
<1>1. orphan'[s] = IF Up(s) /\ ~Linked THEN UpTo(orphan[s], OrphanCap) ELSE 0
  BY DEF Tick
<1>2. orphan[s] \in 0..OrphanCap /\ OrphanCap \in Nat
  BY Numbers DEF IInv, Typed, EnvTyped
<1>3. UpTo(orphan[s], OrphanCap) \in 0..OrphanCap /\ UpTo(orphan[s], OrphanCap) <= orphan[s] + 1
  BY <1>2, UpToFacts
<1> QED
  BY <1>1, <1>2, <1>3

LEMMA TickTimers ==
  ASSUME IInv, Tick
  PROVE  /\ insideLeft' \in 0..HeloTimeout \cup 0..ConnectTimeout
         /\ outsideLeft' \in 0..HeloTimeout \cup 0..ConnectTimeout
         /\ untilHelo' \in 0..RepeatTime /\ answer' \in 0..AgeCap
         /\ insideLeft \in Nat /\ outsideLeft \in Nat
         /\ inside = "run" => insideLeft' = insideLeft - 1
         /\ outside = "read" => outsideLeft' = outsideLeft - 1
<1>1. /\ insideLeft' = IF inside = "run" THEN insideLeft - 1 ELSE 0
      /\ untilHelo' = IF untilHelo > 0 THEN untilHelo - 1 ELSE 0
      /\ outsideLeft' = IF outside = "read" THEN outsideLeft - 1 ELSE outsideLeft
      /\ answer' = IF outside = "put" THEN UpTo(answer, AgeCap) ELSE answer
      /\ inside = "run" => insideLeft > 0
      /\ outside = "read" => outsideLeft > 0
  BY DEF Tick, InsideInTime, OutsideInTime
<1>2. /\ insideLeft \in 0..HeloTimeout \cup 0..ConnectTimeout
      /\ outsideLeft \in 0..HeloTimeout \cup 0..ConnectTimeout
      /\ untilHelo \in 0..RepeatTime /\ answer \in 0..AgeCap
  BY DEF IInv, Typed, InsideTyped, OutsideTyped
<1>3. UpTo(answer, AgeCap) \in 0..AgeCap
  BY <1>2, UpToFacts, Numbers
<1> QED
  BY <1>1, <1>2, <1>3, Numbers

LEMMA TickBlocked ==
  ASSUME IInv, Tick
  PROVE  blocked' \in [Sides -> 0..ConnectTimeout]
<1>1. blocked' = [s \in Sides |-> IF Waits(s) THEN blocked[s] + 1 ELSE 0]
  BY DEF Tick
<1>2. ASSUME NEW s \in Sides, Waits(s) PROVE blocked[s] < ConnectTimeout
  <2>1. CASE s = "Inside"
    BY <1>2, <2>1 DEF Tick, InsideInTime, HeloDue, Waits
  <2>2. CASE s = "Outside"
    BY <1>2, <2>2 DEF Tick, OutsideInTime, Waits
  <2> QED
    BY <2>1, <2>2 DEF Sides
<1>3. \A s \in Sides : blocked[s] \in 0..ConnectTimeout
  BY DEF IInv, Typed, EnvTyped
<1>4. \A s \in Sides : (IF Waits(s) THEN blocked[s] + 1 ELSE 0) \in 0..ConnectTimeout
  BY <1>2, <1>3, Numbers
<1> QED
  BY <1>1, <1>4

(* Whoever is alone at "put" is not waiting for the clock: its channel is  *)
(* not full, since goSendToInside would fail.                              *)
LEMMA TickInv ==
  ASSUME IInv, Tick
  PROVE  IInv'
<1>1. InsideTyped'
  BY TickKeeps, TickTimers DEF IInv, Typed, InsideTyped
<1>2. OutsideTyped'
  <2>1. chToInside' \in Seq(Message) /\ Len(chToInside') <= ChannelSize
    BY TickMessages DEF IInv, Typed, OutsideTyped
  <2> QED
    BY <2>1, TickKeeps, TickTimers DEF IInv, Typed, OutsideTyped
<1>3. NetTyped'
  BY TickKeeps, TickMessages DEF IInv, Typed, NetTyped
<1>4. EnvTyped'
  <2>1. orphan' \in [Sides -> 0..OrphanCap]
    <3>1. orphan' = [s \in Sides |-> IF Up(s) /\ ~Linked THEN UpTo(orphan[s], OrphanCap) ELSE 0]
      BY DEF Tick
    <3> QED
      BY <3>1, TickOrphans
  <2> QED
    BY <2>1, TickKeeps, TickBlocked DEF IInv, Typed, EnvTyped
<1>5. /\ chToInside' = <<>> <=> chToInside = <<>>
      /\ toInside' = <<>> <=> toInside = <<>>
      /\ chToInside # <<>> => Head(chToInside').kind = Head(chToInside).kind
      /\ toInside # <<>> => Head(toInside').kind = Head(toInside).kind
  BY TickMessages, OlderFacts
<1>6. RunInv'
  BY <1>5, TickKeeps DEF IInv, RunInv
<1>7. OrderInv'
  BY <1>5, TickKeeps DEF IInv, OrderInv
<1>8. OrphanInv'
  <2>1. "Inside" \in Sides /\ "Outside" \in Sides
    BY DEF Sides
  <2>2. inside' = "run" => orphan'["Inside"] + insideLeft' <= Patience
    <3> HAVE inside' = "run"
    <3>1. inside = "run" /\ orphan["Inside"] + insideLeft <= Patience
      BY TickKeeps DEF IInv, OrphanInv
    <3>2. insideLeft' = insideLeft - 1 /\ insideLeft \in Nat
      BY <3>1, TickTimers
    <3>3. orphan'["Inside"] <= orphan["Inside"] + 1 /\ orphan["Inside"] \in Nat /\ orphan'["Inside"] \in Nat
      BY <2>1, TickOrphans
    <3> QED
      BY <3>1, <3>2, <3>3, Numbers
  <2>3. outside' = "read" => orphan'["Outside"] + outsideLeft' <= Patience
    <3> HAVE outside' = "read"
    <3>1. outside = "read" /\ orphan["Outside"] + outsideLeft <= Patience
      BY TickKeeps DEF IInv, OrphanInv
    <3>2. outsideLeft' = outsideLeft - 1 /\ outsideLeft \in Nat
      BY <3>1, TickTimers
    <3>3. orphan'["Outside"] <= orphan["Outside"] + 1 /\ orphan["Outside"] \in Nat /\ orphan'["Outside"] \in Nat
      BY <2>1, TickOrphans
    <3> QED
      BY <3>1, <3>2, <3>3, Numbers
  <2>4. outside' = "put" => orphan'["Outside"] <= MaxTimeDifference
    <3> HAVE outside' = "put"
    <3>1. outside = "put"
      BY TickKeeps
    <3>2. Len(chToInside) = ChannelSize
      BY <3>1 DEF Tick, OutsideInTime
    <3>3. chToInside # <<>>
      BY <3>2, Numbers
    <3>4. Linked
      BY <3>3 DEF Tick, OutsideInTime, Waits
    <3> QED
      BY <2>1, <3>4, TickOrphans, Numbers
  <2>5. AsOld(toInside', orphan'["Inside"])
    <3>1. AsOld(toInside, orphan["Inside"])
      BY DEF IInv, OrphanInv
    <3> QED
      BY <2>1, <3>1, TickOrphans, TickMessages, AsOldOlder
  <2>6. ASSUME heloConn' # NoConn PROVE AsOld(toOutside'[heloConn'], orphan'["Outside"])
    <3>1. heloConn' = heloConn /\ heloConn \in Conns
      BY <2>6, TickKeeps DEF IInv, Typed, OutsideTyped
    <3>2. AsOld(toOutside[heloConn], orphan["Outside"])
      BY <2>6, <3>1 DEF IInv, OrphanInv
    <3>3. toOutside'[heloConn'] = Older(toOutside[heloConn]) /\ toOutside[heloConn] \in Seq(Message)
      BY <3>1, TickMessages
    <3> QED
      BY <2>1, <3>2, <3>3, TickOrphans, AsOldOlder
  <2>7. /\ Linked' => \A s \in Sides : orphan'[s] = 0
        /\ \A s \in Sides : ~Up(s)' => orphan'[s] = 0
    BY TickKeeps, TickOrphans
  <2> QED
    BY <2>2, <2>3, <2>4, <2>5, <2>6, <2>7 DEF OrphanInv
<1> QED
  BY <1>1, <1>2, <1>3, <1>4, <1>6, <1>7, <1>8 DEF IInv, Typed

-----------------------------------------------------------------------------
(* All steps, and what follows. *)

LEMMA InitInv ==
  ASSUME Init
  PROVE  IInv
<1>1. /\ inside = "down" /\ control = NoConn /\ bAnswered = FALSE
      /\ insideLeft = 0 /\ untilHelo = 0 /\ connecting = 0
      /\ outside = "down" /\ heloConn = NoConn /\ bReceivedHelo = FALSE
      /\ outsideLeft = 0 /\ answer = 0 /\ chToInside = <<>>
      /\ backlog = <<>> /\ toOutside = [c \in Conns |-> <<>>] /\ toInside = <<>>
      /\ blocked = [s \in Sides |-> 0] /\ calm = FALSE
      /\ orphan = [s \in Sides |-> 0]
  BY DEF Init
<1>2. InsideTyped
  BY <1>1, TimerBounds DEF InsideTyped
<1>3. OutsideTyped
  BY <1>1, TimerBounds, NoMessages DEF OutsideTyped
<1>4. NetTyped
  <2>1. <<>> \in Seq(Conns) /\ IsInjective(<<>>)
    BY DEF IsInjective
  <2> QED
    BY <1>1, <2>1, NoMessages DEF NetTyped
<1>5. EnvTyped
  BY <1>1, TimerBounds DEF EnvTyped
<1>6. RunInv /\ OrderInv
  BY <1>1 DEF RunInv, OrderInv, ToSet, Linked
<1>7. OrphanInv
  BY <1>1, AsOldEmpty DEF OrphanInv, Linked, Sides
<1> QED
  BY <1>2, <1>3, <1>4, <1>5, <1>6, <1>7 DEF IInv, Typed

LEMMA StutterInv ==
  ASSUME IInv, UNCHANGED vars
  PROVE  IInv'
<1> USE DEF vars, insideVars, readVars, outsideVars, runVars, netVars, envVars
<1>1. InsideTyped' /\ OutsideTyped' /\ NetTyped' /\ EnvTyped'
  BY DEF IInv, Typed, InsideTyped, OutsideTyped, NetTyped, EnvTyped
<1>2. RunInv' /\ OrderInv' /\ OrphanInv'
  BY DEF IInv, RunInv, OrderInv, OrphanInv, Linked, Up
<1> QED
  BY <1>1, <1>2 DEF IInv, Typed

LEMMA NextInv ==
  ASSUME IInv, [Next]_vars
  PROVE  IInv'
<1>1. CASE InsideStep
  <2>1. ASSUME DialFails \/ SendHeloFails \/ InsideExits PROVE IInv'
    BY <2>1, InsideDiesInv DEF DialFails, SendHeloFails, InsideExits
  <2> QED
    BY <1>1, <2>1, DialToOutsideInv, SendHeloInv, ReadByInsideInv, ConnectToOutsideInv,
       InsideStartsInv DEF InsideStep
<1>2. CASE OutsideStep
  <2>1. ASSUME OutsideExits \/ SendToInsideFails PROVE IInv'
    BY <2>1, OutsideDiesInv DEF OutsideExits, SendToInsideFails
  <2> QED
    BY <1>2, <2>1, AcceptInsideInv, ReadHeloInv, PutAnswerInv, SendToInsideInv, DispatchInv,
       OutsideStartsInv DEF OutsideStep
<1>3. CASE Announce
  BY <1>3, AnnounceInv
<1>4. CASE Crash
  BY <1>4, InsideDiesInv, OutsideDiesInv DEF Crash
<1>5. CASE CalmDown
  BY <1>5, CalmDownInv
<1>6. CASE Tick
  BY <1>6, TickInv
<1>7. CASE UNCHANGED vars
  BY <1>7, StutterInv
<1> QED
  BY <1>1, <1>2, <1>3, <1>4, <1>5, <1>6, <1>7 DEF Next

(* The inductive invariant holds in every reachable state. *)
THEOREM Invariance == Spec => []IInv
<1>1. Init => IInv
  BY InitInv
<1>2. IInv /\ [Next]_vars => IInv'
  BY NextInv
<1> QED
  BY <1>1, <1>2, PTL DEF Spec

(* The variables and the timers keep their types: no connection waits      *)
(* twice in the backlog, chToInside holds no more than its size, and a     *)
(* Write never waits for longer than connectTimeout.                       *)
THEOREM TypeCorrect == Spec => []TypeOK
<1>1. IInv => TypeOK
  BY TypeParts DEF IInv
<1> QED
  BY <1>1, Invariance, PTL

(* No side goes on without its peer for longer than the loss of messages,  *)
(* unnoticed ends of streams and old answers can explain.                  *)
THEOREM LossBounded == Spec => []LossNoticed
<1>1. IInv => LossNoticed
  <2> SUFFICES ASSUME IInv, NEW s \in Sides
               PROVE  orphan[s] <= Patience
    BY DEF LossNoticed
  <2>1. CASE ~Up(s)
    BY <2>1, Numbers DEF IInv, OrphanInv
  <2>2. CASE s = "Inside" /\ Up(s)
    BY <2>2, Orphans DEF Up
  <2>3. CASE s = "Outside" /\ Up(s)
    <3>1. outside = "put" => orphan["Outside"] <= Patience
      BY Orphans, Numbers DEF IInv, OrphanInv
    <3> QED
      BY <2>3, <3>1, Orphans DEF Up
  <2> QED
    BY <2>1, <2>2, <2>3 DEF Sides
<1> QED
  BY <1>1, Invariance, PTL

(* RunOutside never waits at the full channel without the goroutine that   *)
(* empties it.                                                             *)
THEOREM ReaderThere == Spec => []FullChannelHasReader
<1>1. IInv => FullChannelHasReader
  <2> SUFFICES ASSUME IInv, outside = "put", Len(chToInside) = ChannelSize
               PROVE  bReceivedHelo
    BY TypeParts DEF IInv, FullChannelHasReader
  <2>1. chToInside # <<>>
    BY Numbers
  <2> QED
    BY <2>1 DEF IInv, RunInv
<1> QED
  BY <1>1, Invariance, PTL

(* Inside dials for no remote before Outside answered its HELO. *)
THEOREM AnswerFirst == Spec => []AnswerBeforeCalls
<1>1. IInv => AnswerBeforeCalls
  <2>1. IInv => bAnswered \in BOOLEAN
    BY DEF IInv, Typed, InsideTyped
  <2>2. "call" # "answer"
    OBVIOUS
  <2> QED
    BY <2>1, <2>2 DEF IInv, OrderInv, AnswerBeforeCalls
<1> QED
  BY <1>1, Invariance, PTL
=============================================================================
