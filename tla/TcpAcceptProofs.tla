--------------------------- MODULE TcpAcceptProofs ---------------------------
(***************************************************************************)
(* Proofs about TcpAccept, for any finite set of connections, any limit,   *)
(* timeout and channel.  OnlyUnknockedLeak says of whom the counter is     *)
(* made up; a release keeps it only when the connection it is for was      *)
(* counted, and AnswerMatchedIffInTime holds only when an announced key is *)
(* that of a parked or an expired connection.  Both depend on where a      *)
(* connection can be at a time: RelayedHasHalves, QueueInv, TakenInv and   *)
(* KeyInv.  LockInv says what the mutex of the parked connections gives    *)
(* to its holder.                                                          *)
(***************************************************************************)
EXTENDS TcpAccept, FiniteSetTheorems, TLAPS

Pending(k) == st[k] = "parked" \/ (st[k] = "closed" /\ Expired(k))

RelayedHasHalves == \A c \in Conns : st[c] = "relayed" <=> halves[c] # {}

QueueInv ==
  /\ \A i, j \in 1..Len(cha) : cha[i] = cha[j] => i = j
  /\ \A c \in Conns : st[c] = "queued" <=> \E i \in 1..Len(cha) : cha[i] = c

TakenInv ==
  /\ \A c \in Conns : st[c] = "taken" => taken = c
  /\ taken # NoConn =>
       /\ taken \notin announced \cup answers
       /\ st[taken] = "taken" \/ Pending(taken)

KeyInv ==
  /\ announced \cap answers = {}
  /\ \A k \in announced \cup answers : Pending(k)

LockInv ==
  /\ lock = "free" => owed = 0
  /\ lock = "store" => taken # NoConn /\ st[taken] = "taken"
  /\ lock \in Conns => lock \in answers
  /\ lock # "free" => \A c \in Conns : st[c] = "parked" => ~Expired(c)

PlaceInv == RelayedHasHalves /\ QueueInv /\ TakenInv /\ KeyInv /\ LockInv

IInv == TypeOK /\ OnlyUnknockedLeak /\ PlaceInv

AtAcceptor == {"closed", "requested", "refused", "granted", "accepted"}

Bit(b) == IF b THEN 1 ELSE 0

-----------------------------------------------------------------------------
(* Counting connections. *)

LEMMA Finite ==
  ASSUME NEW S \in SUBSET Conns
  PROVE  IsFiniteSet(S) /\ Cardinality(S) \in Nat
BY AcceptAssumption, FS_Subset, FS_CardinalityType

LEMMA LimitType == ConnLimit \in Nat /\ ConnLimit > 1 /\ AgeCap \in Nat /\ AgeCap = ConnectTimeout + 1
BY AcceptAssumption DEF ConnLimit, AgeCap

LEMMA CardOfOneMore ==
  ASSUME NEW S \in SUBSET Conns, NEW c \in Conns
  PROVE  /\ c \notin S => Cardinality(S \cup {c}) = Cardinality(S) + 1
         /\ c \in S => Cardinality(S \ {c}) + 1 = Cardinality(S)
<1>1. IsFiniteSet(S) /\ Cardinality(S) \in Nat
  BY Finite
<1>2. c \notin S => Cardinality(S \cup {c}) = Cardinality(S) + 1
  BY <1>1, FS_AddElement
<1>3. ASSUME c \in S PROVE Cardinality(S \ {c}) + 1 = Cardinality(S)
  <2>1. Cardinality(S \ {c}) = Cardinality(S) - 1
    BY <1>1, <1>3, FS_RemoveElement
  <2> QED
    BY <1>1, <2>1
<1> QED
  BY <1>2, <1>3

(* What a set counts more when one connection joins or leaves it. *)
LEMMA CardMoves ==
  ASSUME NEW S \in SUBSET Conns, NEW T \in SUBSET Conns, NEW c \in Conns,
         \A k \in Conns : k # c => (k \in S <=> k \in T)
  PROVE  Cardinality(T) + Bit(c \in S) = Cardinality(S) + Bit(c \in T)
<1>1. Cardinality(S) \in Nat /\ Cardinality(T) \in Nat
  BY Finite
<1>2. CASE c \in S /\ c \notin T
  <2>1. T = S \ {c}
    BY <1>2
  <2> QED
    BY <1>1, <1>2, <2>1, CardOfOneMore DEF Bit
<1>3. CASE c \notin S /\ c \in T
  <2>1. T = S \cup {c}
    BY <1>3
  <2> QED
    BY <1>1, <1>3, <2>1, CardOfOneMore DEF Bit
<1>4. CASE c \in S <=> c \in T
  <2>1. S = T
    BY <1>4
  <2> QED
    BY <1>1, <1>4, <2>1 DEF Bit
<1> QED
  BY <1>2, <1>3, <1>4

Halfcounted == {"requested", "refused"}
Fullcounted == {"granted", "accepted", "queued", "taken", "parked"}

NeededParts ==
  /\ In(Halfcounted) \in SUBSET Conns
  /\ In(Fullcounted) \in SUBSET Conns
  /\ Cardinality(In(Halfcounted)) \in Nat
  /\ Cardinality(In(Fullcounted)) \in Nat
  /\ \A d \in Directions : HalvesOf(d) \in SUBSET Conns /\ Cardinality(HalvesOf(d)) \in Nat
  /\ Needed = Cardinality(In(Halfcounted)) + 2 * Cardinality(In(Fullcounted))
       + Cardinality(HalvesOf("Remote->Outside")) + Cardinality(HalvesOf("Outside->Remote"))
  /\ Needed \in Nat

LEMMA NeededType == NeededParts
<1>1. In(Halfcounted) \in SUBSET Conns /\ In(Fullcounted) \in SUBSET Conns
  BY DEF In
<1>2. \A d \in Directions : HalvesOf(d) \in SUBSET Conns
  BY DEF HalvesOf
<1>3. /\ Cardinality(In(Halfcounted)) \in Nat /\ Cardinality(In(Fullcounted)) \in Nat
  BY <1>1, Finite
<1>4. \A d \in Directions : Cardinality(HalvesOf(d)) \in Nat
  BY <1>2, Finite
<1>5. Needed = Cardinality(In(Halfcounted)) + 2 * Cardinality(In(Fullcounted))
       + Cardinality(HalvesOf("Remote->Outside")) + Cardinality(HalvesOf("Outside->Remote"))
  BY DEF Needed, FullyCounted, Halfcounted, Fullcounted
<1>6. "Remote->Outside" \in Directions /\ "Outside->Remote" \in Directions
  BY DEF Directions
<1> QED
  BY <1>1, <1>2, <1>3, <1>4, <1>5, <1>6 DEF NeededParts

LEMMA NeededTypeNext == NeededParts'
BY NeededType, PTL

(* What a connection counts. *)
Weight(c) ==
  Bit(st[c] \in Halfcounted) + 2 * Bit(st[c] \in Fullcounted)
    + Bit("Remote->Outside" \in halves[c]) + Bit("Outside->Remote" \in halves[c])

LEMMA SumMoves ==
  ASSUME NEW a \in Nat, NEW b \in Nat, NEW r \in Nat, NEW o \in Nat,
         NEW a1 \in Nat, NEW b1 \in Nat, NEW r1 \in Nat, NEW o1 \in Nat,
         NEW x \in 0..1, NEW y \in 0..1, NEW v \in 0..1, NEW w \in 0..1,
         NEW x1 \in 0..1, NEW y1 \in 0..1, NEW v1 \in 0..1, NEW w1 \in 0..1,
         a1 + x = a + x1, b1 + y = b + y1, r1 + v = r + v1, o1 + w = o + w1
  PROVE  (a1 + 2 * b1 + r1 + o1) + (x + 2 * y + v + w) = (a + 2 * b + r + o) + (x1 + 2 * y1 + v1 + w1)
OBVIOUS

(* When only one connection changes, the sum changes by what it counts. *)
LEMMA NeededMoves ==
  ASSUME NEW c \in Conns,
         \A k \in Conns : k # c => st'[k] = st[k] /\ halves'[k] = halves[k]
  PROVE  Needed' + Weight(c) = Needed + Weight(c)'
<1>1. ASSUME NEW S
      PROVE  Cardinality(In(S)') + Bit(st[c] \in S) = Cardinality(In(S)) + Bit(st'[c] \in S)
  <2> DEFINE A == {k \in Conns : st[k] \in S}
             B == {k \in Conns : st'[k] \in S}
  <2>1. A \in SUBSET Conns /\ B \in SUBSET Conns
    OBVIOUS
  <2>2. \A k \in Conns : k # c => (k \in A <=> k \in B)
    OBVIOUS
  <2>3. (c \in A <=> st[c] \in S) /\ (c \in B <=> st'[c] \in S)
    OBVIOUS
  <2>4. In(S) = A /\ In(S)' = B
    BY DEF In
  <2> HIDE DEF A, B
  <2>5. Cardinality(B) + Bit(c \in A) = Cardinality(A) + Bit(c \in B)
    BY <2>1, <2>2, CardMoves
  <2>6. Bit(c \in A) = Bit(st[c] \in S) /\ Bit(c \in B) = Bit(st'[c] \in S)
    BY <2>3 DEF Bit
  <2> QED
    BY <2>4, <2>5, <2>6
<1>2. ASSUME NEW d
      PROVE  Cardinality(HalvesOf(d)') + Bit(d \in halves[c])
               = Cardinality(HalvesOf(d)) + Bit(d \in halves'[c])
  <2> DEFINE A == {k \in Conns : d \in halves[k]}
             B == {k \in Conns : d \in halves'[k]}
  <2>1. A \in SUBSET Conns /\ B \in SUBSET Conns
    OBVIOUS
  <2>2. \A k \in Conns : k # c => (k \in A <=> k \in B)
    OBVIOUS
  <2>3. (c \in A <=> d \in halves[c]) /\ (c \in B <=> d \in halves'[c])
    OBVIOUS
  <2>4. HalvesOf(d) = A /\ HalvesOf(d)' = B
    BY DEF HalvesOf
  <2> HIDE DEF A, B
  <2>5. Cardinality(B) + Bit(c \in A) = Cardinality(A) + Bit(c \in B)
    BY <2>1, <2>2, CardMoves
  <2>6. Bit(c \in A) = Bit(d \in halves[c]) /\ Bit(c \in B) = Bit(d \in halves'[c])
    BY <2>3 DEF Bit
  <2> QED
    BY <2>4, <2>5, <2>6
<1>3. /\ Cardinality(In(Halfcounted)') + Bit(st[c] \in Halfcounted) = Cardinality(In(Halfcounted)) + Bit(st'[c] \in Halfcounted)
      /\ Cardinality(In(Fullcounted)') + Bit(st[c] \in Fullcounted) = Cardinality(In(Fullcounted)) + Bit(st'[c] \in Fullcounted)
  BY <1>1
<1>4. /\ Cardinality(HalvesOf("Remote->Outside")') + Bit("Remote->Outside" \in halves[c])
           = Cardinality(HalvesOf("Remote->Outside")) + Bit("Remote->Outside" \in halves'[c])
      /\ Cardinality(HalvesOf("Outside->Remote")') + Bit("Outside->Remote" \in halves[c])
           = Cardinality(HalvesOf("Outside->Remote")) + Bit("Outside->Remote" \in halves'[c])
  BY <1>2
<1>5. NeededParts /\ NeededParts'
  BY NeededType, NeededTypeNext
<1>6. /\ Cardinality(In(Halfcounted)) \in Nat
      /\ Cardinality(In(Fullcounted)) \in Nat
      /\ Cardinality(In(Halfcounted)') \in Nat
      /\ Cardinality(In(Fullcounted)') \in Nat
      /\ Cardinality(HalvesOf("Remote->Outside")) \in Nat
      /\ Cardinality(HalvesOf("Outside->Remote")) \in Nat
      /\ Cardinality(HalvesOf("Remote->Outside")') \in Nat
      /\ Cardinality(HalvesOf("Outside->Remote")') \in Nat
  BY <1>5 DEF NeededParts, Directions
<1>7. /\ Bit(st[c] \in Halfcounted) \in 0..1 /\ Bit(st'[c] \in Halfcounted) \in 0..1
      /\ Bit(st[c] \in Fullcounted) \in 0..1 /\ Bit(st'[c] \in Fullcounted) \in 0..1
      /\ Bit("Remote->Outside" \in halves[c]) \in 0..1 /\ Bit("Remote->Outside" \in halves'[c]) \in 0..1
      /\ Bit("Outside->Remote" \in halves[c]) \in 0..1 /\ Bit("Outside->Remote" \in halves'[c]) \in 0..1
  BY DEF Bit
<1>8. /\ Needed = Cardinality(In(Halfcounted)) + 2 * Cardinality(In(Fullcounted))
          + Cardinality(HalvesOf("Remote->Outside")) + Cardinality(HalvesOf("Outside->Remote"))
      /\ Needed' = Cardinality(In(Halfcounted)') + 2 * Cardinality(In(Fullcounted)')
          + Cardinality(HalvesOf("Remote->Outside")') + Cardinality(HalvesOf("Outside->Remote")')
  BY <1>5 DEF NeededParts
<1>9. /\ Weight(c) = Bit(st[c] \in Halfcounted) + 2 * Bit(st[c] \in Fullcounted)
           + Bit("Remote->Outside" \in halves[c]) + Bit("Outside->Remote" \in halves[c])
      /\ Weight(c)' = Bit(st'[c] \in Halfcounted) + 2 * Bit(st'[c] \in Fullcounted)
           + Bit("Remote->Outside" \in halves'[c]) + Bit("Outside->Remote" \in halves'[c])
  BY DEF Weight
<1> QED
  BY <1>3, <1>4, <1>6, <1>7, <1>8, <1>9, SumMoves

(* A count that is there is within the limit, and so is what makes it up. *)
LEMMA CountBounds ==
  ASSUME connCount \in 0..ConnLimit, owed \in Nat, unknocked \in Nat, OnlyUnknockedLeak
  PROVE  owed \in 0..ConnLimit /\ unknocked \in 0..ConnLimit
<1>1. Needed \in Nat /\ ConnLimit \in Nat
  BY NeededType, LimitType DEF NeededParts
<1> QED
  BY <1>1 DEF OnlyUnknockedLeak

-----------------------------------------------------------------------------
(* Where a connection is: the acceptor's steps. *)

LEMMA AcceptorPlaces ==
  ASSUME IInv, NEW c \in Conns, NEW s \in AtAcceptor,
         st[c] \in AtAcceptor, c \notin announced \cup answers, taken # c,
         st' = [st EXCEPT ![c] = s],
         \A k \in Conns : k # c => age'[k] = age[k],
         UNCHANGED <<cha, taken, lock, owed, announced, answers, halves>>
  PROVE  PlaceInv'
<1>1. /\ st \in [Conns -> States] /\ taken \in Conns \cup {NoConn}
      /\ announced \in SUBSET Conns /\ answers \in SUBSET Conns
      /\ cha \in Seq(Conns) /\ lock \in {"free", "store"} \cup Conns
  BY DEF IInv, TypeOK
<1>2. /\ st'[c] = s
      /\ \A k \in Conns : k # c => st'[k] = st[k]
  BY <1>1
<1>3. RelayedHasHalves'
  BY <1>2 DEF IInv, PlaceInv, RelayedHasHalves, AtAcceptor
<1>4. QueueInv'
  BY <1>2 DEF IInv, PlaceInv, QueueInv, AtAcceptor
<1>5. \A k \in Conns : k # c /\ Pending(k) => Pending(k)'
  BY <1>2 DEF Pending, Expired
<1>6. TakenInv'
  BY <1>1, <1>2, <1>5 DEF IInv, PlaceInv, TakenInv, AtAcceptor
<1>7. KeyInv'
  BY <1>1, <1>2, <1>5 DEF IInv, PlaceInv, KeyInv
<1>8. LockInv'
  BY <1>1, <1>2 DEF IInv, PlaceInv, LockInv, AtAcceptor, Expired
<1> QED
  BY <1>3, <1>4, <1>6, <1>7, <1>8 DEF PlaceInv

(* What a connection counts in a state of the dispatcher or the acceptor. *)
Units(s) == IF s \in Halfcounted THEN 1 ELSE IF s \in Fullcounted THEN 2 ELSE 0

LEMMA UnitsMove ==
  ASSUME IInv, NEW c \in Conns, NEW s \in States,
         st' = [st EXCEPT ![c] = s], halves' = halves
  PROVE  Needed' + Units(st[c]) = Needed + Units(s)
<1>1. /\ st'[c] = s
      /\ \A k \in Conns : k # c => st'[k] = st[k] /\ halves'[k] = halves[k]
  BY DEF IInv, TypeOK
<1>2. Needed' + Weight(c) = Needed + Weight(c)'
  BY <1>1, NeededMoves
<1> DEFINE h == Bit("Remote->Outside" \in halves[c]) + Bit("Outside->Remote" \in halves[c])
<1>3. h \in Nat
  BY DEF Bit
<1>4. Weight(c) = Units(st[c]) + h
  BY DEF Weight, Units, Bit, Halfcounted, Fullcounted
<1>5. Weight(c)' = Units(s) + h
  BY <1>1 DEF Weight, Units, Bit, Halfcounted, Fullcounted
<1>6. Needed \in Nat /\ Needed' \in Nat
  BY NeededType, NeededTypeNext DEF NeededParts
<1>7. Units(s) \in Nat /\ Units(st[c]) \in Nat
  BY DEF Units
<1> HIDE DEF h
<1> QED
  BY <1>2, <1>3, <1>4, <1>5, <1>6, <1>7

(* q counts n needed, o owed and k leaked; a connection goes from x to x1  *)
(* units, and u of them leak.                                              *)
Balanced(q, L, n, o, k, n1, x, x1, u) ==
  /\ L \in Nat /\ L > 1 /\ q \in 0..L
  /\ n \in Nat /\ o \in Nat /\ k \in Nat /\ n1 \in Nat
  /\ x \in 0..2 /\ x1 \in 0..2 /\ u \in 0..1
  /\ q = n + o + k
  /\ n1 + x = n + x1

LEMMA CountArithmetic ==
  \A q, L, n, o, k, n1, x, x1, u : Balanced(q, L, n, o, k, n1, x, x1, u) =>
    /\ RequestGranted(q, L) /\ x1 + u = x + 1 =>
         AfterRequest(q, L) \in 0..L /\ AfterRequest(q, L) = n1 + o + (k + u)
    /\ x1 + u + 1 = x =>
         AfterRelease(q) \in 0..L /\ AfterRelease(q) = n1 + o + (k + u)
    /\ x1 + u = x => q = n1 + o + (k + u)
    /\ n1 + o + (k + u) \in 0..L => k + u \in 0..L
BY DEF Balanced, RequestGranted, AfterRequest, AfterRelease

CountStep(c, s, u) ==
  /\ s \in States /\ u \in 0..1
  /\ st' = [st EXCEPT ![c] = s]
  /\ UNCHANGED <<halves, owed>>
  /\ unknocked' = unknocked + u
  /\ \/ RequestGranted(connCount, ConnLimit) /\ connCount' = AfterRequest(connCount, ConnLimit)
          /\ Units(s) + u = Units(st[c]) + 1
     \/ connCount' = AfterRelease(connCount) /\ Units(s) + u + 1 = Units(st[c])
     \/ connCount' = connCount /\ Units(s) + u = Units(st[c])

(* A step of one connection from one state to another keeps the count when *)
(* it asks or releases as many as the states differ by.  What is needed is *)
(* always counted, so that a release finds its count.                      *)
LEMMA StepCounts ==
  ASSUME IInv, NEW c \in Conns, NEW s, NEW u, CountStep(c, s, u)
  PROVE  connCount' \in 0..ConnLimit /\ unknocked' \in 0..ConnLimit /\ OnlyUnknockedLeak'
<1> USE DEF CountStep
<1>1. Needed' + Units(st[c]) = Needed + Units(s)
  BY UnitsMove
<1>2. /\ connCount = Needed + owed + unknocked
      /\ connCount \in 0..ConnLimit /\ owed \in 0..ConnLimit /\ unknocked \in 0..ConnLimit
  BY DEF IInv, TypeOK, OnlyUnknockedLeak
<1>3. Needed \in Nat /\ Needed' \in Nat /\ ConnLimit \in Nat /\ ConnLimit > 1
  BY NeededType, NeededTypeNext, LimitType DEF NeededParts
<1>4. Units(s) \in 0..2 /\ Units(st[c]) \in 0..2
  BY DEF Units
<1>5. Balanced(connCount, ConnLimit, Needed, owed, unknocked, Needed', Units(st[c]), Units(s), u)
  BY <1>1, <1>2, <1>3, <1>4 DEF Balanced
<1>6. /\ RequestGranted(connCount, ConnLimit) /\ Units(s) + u = Units(st[c]) + 1 =>
           /\ AfterRequest(connCount, ConnLimit) \in 0..ConnLimit
           /\ AfterRequest(connCount, ConnLimit) = Needed' + owed + (unknocked + u)
      /\ Units(s) + u + 1 = Units(st[c]) =>
           /\ AfterRelease(connCount) \in 0..ConnLimit
           /\ AfterRelease(connCount) = Needed' + owed + (unknocked + u)
      /\ Units(s) + u = Units(st[c]) => connCount = Needed' + owed + (unknocked + u)
      /\ Needed' + owed + (unknocked + u) \in 0..ConnLimit => unknocked + u \in 0..ConnLimit
  BY <1>5, CountArithmetic
<1>7. connCount' \in 0..ConnLimit /\ connCount' = Needed' + owed' + unknocked'
  BY <1>2, <1>6
<1>8. unknocked' \in 0..ConnLimit
  BY <1>3, <1>6, <1>7
<1> QED
  BY <1>7, <1>8 DEF OnlyUnknockedLeak

(* The same for a step that starts or ends half connections. *)
LEMMA WeightCounts ==
  ASSUME IInv, NEW c \in Conns,
         \A k \in Conns : k # c => st'[k] = st[k] /\ halves'[k] = halves[k],
         Weight(c) \in 0..2, Weight(c)' \in 0..2, UNCHANGED <<owed, unknocked>>,
         \/ connCount' = AfterRelease(connCount) /\ Weight(c) = Weight(c)' + 1
         \/ connCount' = connCount /\ Weight(c) = Weight(c)'
  PROVE  connCount' \in 0..ConnLimit /\ OnlyUnknockedLeak'
<1>1. Needed' + Weight(c) = Needed + Weight(c)'
  BY NeededMoves
<1>2. /\ connCount = Needed + owed + unknocked
      /\ connCount \in 0..ConnLimit /\ owed \in Nat /\ unknocked \in Nat
  BY LimitType DEF IInv, TypeOK, OnlyUnknockedLeak
<1>3. Needed \in Nat /\ Needed' \in Nat /\ ConnLimit \in Nat /\ ConnLimit > 1
  BY NeededType, NeededTypeNext, LimitType DEF NeededParts
<1>4. Balanced(connCount, ConnLimit, Needed, owed, unknocked, Needed', Weight(c), Weight(c)', 0)
  BY <1>1, <1>2, <1>3 DEF Balanced
<1>5. /\ Weight(c)' + 0 + 1 = Weight(c) =>
           /\ AfterRelease(connCount) \in 0..ConnLimit
           /\ AfterRelease(connCount) = Needed' + owed + (unknocked + 0)
      /\ Weight(c)' + 0 = Weight(c) => connCount = Needed' + owed + (unknocked + 0)
  BY <1>4, CountArithmetic
<1>6. unknocked + 0 = unknocked /\ Weight(c)' + 0 = Weight(c)'
  BY <1>2
<1> QED
  BY <1>2, <1>5, <1>6 DEF OnlyUnknockedLeak

LEMMA AcceptInv ==
  ASSUME IInv, NEW i \in Ids, NEW c \in Conns, Accept(i, c)
  PROVE  IInv'
<1>1. st[c] = "closed" /\ c \notin announced \cup answers /\ taken # c
  BY DEF Accept, Fresh
<1>2. PlaceInv'
  BY <1>1, AcceptorPlaces DEF Accept, AtAcceptor, dispatchVars, insideVars, IInv, TypeOK
<1>3. Units("requested") = 1 /\ Units(st[c]) = 0
  BY <1>1 DEF Units, Halfcounted, Fullcounted
<1>4. unknocked' = unknocked + 0
  BY DEF Accept, IInv, TypeOK
<1>5. connCount' \in 0..ConnLimit /\ unknocked' \in 0..ConnLimit /\ OnlyUnknockedLeak'
  <2>1. CountStep(c, "requested", 0)
    BY <1>3, <1>4 DEF CountStep, Accept, States, dispatchVars
  <2> QED
    BY <2>1, StepCounts
<1>6. TypeOK'
  BY <1>5, LimitType DEF IInv, TypeOK, Accept, dispatchVars, insideVars, States
<1> QED
  BY <1>2, <1>5, <1>6 DEF IInv

LEMMA AcceptorInv ==
  ASSUME IInv, NEW c \in Conns, st[c] # "accepted", Acceptor(c)
  PROVE  IInv'
<1>1. st[c] \in {"requested", "refused", "granted"}
  BY DEF Acceptor, SecondGranted, SecondRefused, ReleaseFirst, KnockMissing, SetTimeAccepted,
    SendToDispatcher
<1>2. PICK s \in {"closed", "refused", "granted", "accepted"} : st' = [st EXCEPT ![c] = s]
  BY <1>1 DEF Acceptor, SecondGranted, SecondRefused, ReleaseFirst, KnockMissing, SetTimeAccepted,
    SendToDispatcher
<1>3. c \notin announced \cup answers /\ taken # c
  <2>1. ~Pending(c) /\ c # NoConn
    BY <1>1, AcceptAssumption DEF Pending
  <2> QED
    BY <1>1, <2>1 DEF IInv, PlaceInv, TakenInv, KeyInv
<1>4. UNCHANGED <<id, cha, dispatching, taken, lock, owed, announced, answers, halves>>
  BY <1>1 DEF Acceptor, SecondGranted, SecondRefused, ReleaseFirst, KnockMissing, SetTimeAccepted,
    SendToDispatcher, acceptVars, dispatchVars, insideVars
<1>5. /\ age' \in [Conns -> 0..AgeCap]
      /\ \A k \in Conns : k # c => age'[k] = age[k]
  BY <1>1, LimitType DEF Acceptor, SecondGranted, SecondRefused, ReleaseFirst, KnockMissing,
    SetTimeAccepted, SendToDispatcher, IInv, TypeOK
<1>6. PlaceInv'
  BY <1>1, <1>2, <1>3, <1>4, <1>5, AcceptorPlaces DEF AtAcceptor
<1>7. connCount' \in 0..ConnLimit /\ unknocked' \in 0..ConnLimit /\ OnlyUnknockedLeak'
  <2>1. st'[c] = s /\ s \in States /\ unknocked \in Nat
    BY <1>2 DEF IInv, TypeOK, States
  <2>2. CASE SecondGranted(c)
    <3>1. s = "granted" /\ unknocked' = unknocked + 0
      BY <2>1, <2>2 DEF SecondGranted, IInv, TypeOK
    <3>2. Units(s) + 0 = Units(st[c]) + 1
      BY <3>1, <2>2 DEF SecondGranted, Units, Halfcounted, Fullcounted
    <3>3. CountStep(c, s, 0)
      BY <1>2, <1>4, <2>1, <2>2, <3>1, <3>2 DEF CountStep, SecondGranted
    <3> QED
      BY <3>3, StepCounts
  <2>3. CASE SecondRefused(c) \/ SetTimeAccepted(c)
    <3>1. unknocked' = unknocked + 0 /\ connCount' = connCount
      BY <2>1, <2>3 DEF SecondRefused, SetTimeAccepted
    <3>2. Units(s) + 0 = Units(st[c])
      BY <2>1, <2>3 DEF SecondRefused, SetTimeAccepted, Units, Halfcounted, Fullcounted, IInv, TypeOK
    <3>3. CountStep(c, s, 0)
      BY <1>2, <1>4, <2>1, <3>1, <3>2 DEF CountStep
    <3> QED
      BY <3>3, StepCounts
  <2>4. CASE ReleaseFirst(c)
    <3>1. s = "closed" /\ unknocked' = unknocked + 0
      BY <2>1, <2>4 DEF ReleaseFirst, IInv, TypeOK
    <3>2. Units(s) + 0 + 1 = Units(st[c])
      BY <3>1, <2>4 DEF ReleaseFirst, Units, Halfcounted, Fullcounted
    <3>3. CountStep(c, s, 0)
      BY <1>2, <1>4, <2>1, <2>4, <3>1, <3>2 DEF CountStep, ReleaseFirst, TakenBack
    <3> QED
      BY <3>3, StepCounts
  <2>5. CASE KnockMissing(c)
    <3>1. s = "closed" /\ unknocked' = unknocked + 1
      BY <2>1, <2>5 DEF KnockMissing, IInv, TypeOK
    <3>2. Units(s) + 1 + 1 = Units(st[c])
      BY <3>1, <2>5 DEF KnockMissing, Units, Halfcounted, Fullcounted
    <3>3. CountStep(c, s, 1)
      BY <1>2, <1>4, <2>1, <2>5, <3>1, <3>2 DEF CountStep, KnockMissing
    <3> QED
      BY <3>3, StepCounts
  <2> QED
    BY <1>1, <2>2, <2>3, <2>4, <2>5 DEF Acceptor, SendToDispatcher
<1>8. TypeOK'
  BY <1>2, <1>4, <1>5, <1>7 DEF IInv, TypeOK, States
<1> QED
  BY <1>6, <1>7, <1>8 DEF IInv

-----------------------------------------------------------------------------
(* The way to the dispatcher. *)

LEMMA SendToDispatcherInv ==
  ASSUME IInv, NEW c \in Conns, SendToDispatcher(c)
  PROVE  IInv'
<1> USE DEF SendToDispatcher, dispatchVars, insideVars
<1>1. /\ st \in [Conns -> States] /\ taken \in Conns \cup {NoConn}
      /\ announced \in SUBSET Conns /\ answers \in SUBSET Conns
      /\ cha \in Seq(Conns) /\ Len(cha) \in Nat /\ Len(cha) <= ChaSize
      /\ lock \in {"free", "store"} \cup Conns
      /\ unknocked \in Nat /\ ChaSize \in Nat
  BY AcceptAssumption, LimitType DEF IInv, TypeOK
<1>2. /\ st[c] = "accepted" /\ st'[c] = "queued"
      /\ \A k \in Conns : k # c => st'[k] = st[k]
  BY <1>1
<1>3. ~Pending(c) /\ c # NoConn
  BY <1>2, AcceptAssumption DEF Pending
<1>4. c \notin announced \cup answers /\ taken # c
  BY <1>2, <1>3 DEF IInv, PlaceInv, TakenInv, KeyInv
<1>5. RelayedHasHalves'
  BY <1>2 DEF IInv, PlaceInv, RelayedHasHalves
<1>6. /\ cha' \in Seq(Conns) /\ Len(cha') = Len(cha) + 1
      /\ cha'[Len(cha) + 1] = c
      /\ \A i \in 1..Len(cha) : cha'[i] = cha[i]
  BY <1>1
<1>7. \A i \in 1..Len(cha) : cha[i] # c
  BY <1>2 DEF IInv, PlaceInv, QueueInv
<1>8. 1..Len(cha') = 1..Len(cha) \cup {Len(cha) + 1}
  BY <1>1, <1>6
<1>9. QueueInv'
  <2>1. \A i, j \in 1..Len(cha') : cha'[i] = cha'[j] => i = j
    BY <1>6, <1>7, <1>8 DEF IInv, PlaceInv, QueueInv
  <2>2. ASSUME NEW k \in Conns
        PROVE  st'[k] = "queued" <=> \E i \in 1..Len(cha') : cha'[i] = k
    <3>1. CASE k = c
      BY <1>2, <1>6, <1>8, <3>1
    <3>2. CASE k # c
      <4>1. st[k] = "queued" <=> \E i \in 1..Len(cha) : cha[i] = k
        BY DEF IInv, PlaceInv, QueueInv
      <4>2. (\E i \in 1..Len(cha) : cha[i] = k) <=> \E i \in 1..Len(cha') : cha'[i] = k
        BY <1>6, <1>8, <3>2
      <4> QED
        BY <1>2, <3>2, <4>1, <4>2
    <3> QED
      BY <3>1, <3>2
  <2> QED
    BY <2>1, <2>2 DEF QueueInv
<1>10. \A k \in Conns : k # c /\ Pending(k) => Pending(k)'
  BY <1>2 DEF Pending, Expired
<1>11. TakenInv'
  BY <1>1, <1>2, <1>4, <1>10 DEF IInv, PlaceInv, TakenInv
<1>12. KeyInv'
  BY <1>1, <1>2, <1>4, <1>10 DEF IInv, PlaceInv, KeyInv
<1>13. LockInv'
  BY <1>1, <1>2 DEF IInv, PlaceInv, LockInv, Expired
<1>14. CountStep(c, "queued", 0)
  BY <1>1, <1>2 DEF CountStep, Units, Halfcounted, Fullcounted, States
<1>15. connCount' \in 0..ConnLimit /\ unknocked' \in 0..ConnLimit /\ OnlyUnknockedLeak'
  BY <1>14, StepCounts
<1>16. Len(cha') <= ChaSize
  BY <1>1, <1>6
<1>17. TypeOK'
  BY <1>6, <1>15, <1>16 DEF IInv, TypeOK, States
<1> QED
  BY <1>5, <1>9, <1>11, <1>12, <1>13, <1>15, <1>17 DEF IInv, PlaceInv

LEMMA TakeAcceptedInv ==
  ASSUME IInv, TakeAccepted
  PROVE  IInv'
<1> USE DEF TakeAccepted, insideVars
<1> DEFINE c == Head(cha)
<1>1. /\ st \in [Conns -> States] /\ taken = NoConn
      /\ announced \in SUBSET Conns /\ answers \in SUBSET Conns
      /\ cha \in Seq(Conns) /\ Len(cha) \in Nat /\ Len(cha) <= ChaSize /\ cha # <<>>
      /\ lock \in {"free", "store"} \cup Conns
      /\ unknocked \in Nat /\ ChaSize \in Nat
  BY AcceptAssumption, LimitType DEF IInv, TypeOK
<1>2. /\ Len(cha) > 0 /\ c = cha[1] /\ c \in Conns
      /\ cha' \in Seq(Conns) /\ Len(cha') = Len(cha) - 1
      /\ \A i \in 1..(Len(cha) - 1) : cha'[i] = cha[i + 1]
  BY <1>1
<1> HIDE DEF c
<1>3. taken' = c /\ st' = [st EXCEPT ![c] = "taken"]
  BY DEF c
<1>4. st[c] = "queued"
  <2>1. 1 \in 1..Len(cha)
    BY <1>1, <1>2
  <2> QED
    BY <1>2, <2>1 DEF IInv, PlaceInv, QueueInv
<1>5. /\ st'[c] = "taken"
      /\ \A k \in Conns : k # c => st'[k] = st[k]
  BY <1>1, <1>2, <1>3
<1>6. ~Pending(c) /\ c # NoConn
  BY <1>2, <1>4, AcceptAssumption DEF Pending
<1>7. c \notin announced \cup answers
  BY <1>6 DEF IInv, PlaceInv, KeyInv
<1>8. RelayedHasHalves'
  BY <1>4, <1>5 DEF IInv, PlaceInv, RelayedHasHalves
<1>9. QueueInv'
  <2>1. \A i \in 1..Len(cha') : i \in 1..(Len(cha) - 1) /\ i + 1 \in 1..Len(cha) /\ i + 1 # 1
    BY <1>1, <1>2
  <2>2. \A i, j \in 1..Len(cha') : cha'[i] = cha'[j] => i = j
    <3> SUFFICES ASSUME NEW i \in 1..Len(cha'), NEW j \in 1..Len(cha'), cha'[i] = cha'[j]
                 PROVE  i = j
      OBVIOUS
    <3>1. cha[i + 1] = cha[j + 1] /\ i + 1 \in 1..Len(cha) /\ j + 1 \in 1..Len(cha)
      BY <1>2, <2>1
    <3>2. i + 1 = j + 1
      BY <3>1 DEF IInv, PlaceInv, QueueInv
    <3> QED
      BY <3>2
  <2>3. ASSUME NEW k \in Conns
        PROVE  st'[k] = "queued" <=> \E i \in 1..Len(cha') : cha'[i] = k
    <3>1. st[k] = "queued" <=> \E i \in 1..Len(cha) : cha[i] = k
      BY DEF IInv, PlaceInv, QueueInv
    <3>2. CASE k = c
      <4>1. \A i \in 1..Len(cha) : i # 1 => cha[i] # cha[1]
        BY <1>1, <1>2 DEF IInv, PlaceInv, QueueInv
      <4>2. ~ \E i \in 1..Len(cha') : cha'[i] = k
        BY <1>2, <2>1, <3>2, <4>1
      <4> QED
        BY <1>5, <3>2, <4>2
    <3>3. CASE k # c
      <4>1. ASSUME NEW i \in 1..Len(cha), cha[i] = k
            PROVE  \E j \in 1..Len(cha') : cha'[j] = k
        <5>1. i # 1 /\ i - 1 \in 1..Len(cha') /\ (i - 1) + 1 = i
          BY <1>1, <1>2, <3>3, <4>1
        <5>2. cha'[i - 1] = k
          BY <1>2, <2>1, <4>1, <5>1
        <5> QED
          BY <5>1, <5>2
      <4>2. ASSUME NEW j \in 1..Len(cha'), cha'[j] = k
            PROVE  \E i \in 1..Len(cha) : cha[i] = k
        BY <1>2, <2>1, <4>2
      <4> QED
        BY <1>5, <3>1, <3>3, <4>1, <4>2
    <3> QED
      BY <3>2, <3>3
  <2> QED
    BY <2>2, <2>3 DEF QueueInv
<1>10. \A k \in Conns : k # c /\ Pending(k) => Pending(k)'
  BY <1>5 DEF Pending, Expired
<1>11. \A k \in Conns : st[k] # "taken"
  BY <1>1, AcceptAssumption DEF IInv, PlaceInv, TakenInv
<1>12. TakenInv'
  BY <1>1, <1>3, <1>5, <1>7, <1>11 DEF TakenInv
<1>13. KeyInv'
  BY <1>1, <1>5, <1>7, <1>10 DEF IInv, PlaceInv, KeyInv
<1>14. LockInv'
  BY <1>1, <1>5 DEF IInv, PlaceInv, LockInv, Expired
<1>15. CountStep(c, "taken", 0)
  <2>1. Units("taken") = 2 /\ Units(st[c]) = 2
    BY <1>4 DEF Units, Halfcounted, Fullcounted
  <2>2. "taken" \in States /\ unknocked' = unknocked + 0 /\ UNCHANGED <<halves, owed, connCount>>
    BY <1>1 DEF States
  <2> HIDE DEF TakeAccepted
  <2> QED
    BY <1>3, <2>1, <2>2 DEF CountStep
<1>16. connCount' \in 0..ConnLimit /\ unknocked' \in 0..ConnLimit /\ OnlyUnknockedLeak'
  BY <1>2, <1>15, StepCounts
<1>17. Len(cha') <= ChaSize
  BY <1>1, <1>2
<1>18. st' \in [Conns -> States]
  BY <1>1, <1>3 DEF States
<1>19. TypeOK'
  BY <1>2, <1>3, <1>16, <1>17, <1>18 DEF IInv, TypeOK
<1> QED
  BY <1>8, <1>9, <1>12, <1>13, <1>14, <1>16, <1>19 DEF IInv, PlaceInv

-----------------------------------------------------------------------------
(* The mutex of the parked connections. *)

(* The expired connections are closed, and what they count is owed. *)
LEMMA CleanupCounts ==
  ASSUME IInv, lock = "free", Cleanup, UNCHANGED <<connCount, halves, unknocked>>
  PROVE  owed' \in 0..ConnLimit /\ OnlyUnknockedLeak'
<1> DEFINE E == ExpiredConns
           F == In(Fullcounted)
<1>1. E \in SUBSET Conns /\ F \in SUBSET Conns /\ E \subseteq F
  BY DEF ExpiredConns, In, Fullcounted
<1>2. In(Fullcounted)' = F \ E
  BY DEF Cleanup, ExpiredConns, In, Fullcounted
<1>3. In(Halfcounted)' = In(Halfcounted)
  BY DEF Cleanup, ExpiredConns, In, Halfcounted
<1>4. \A d : HalvesOf(d)' = HalvesOf(d)
  BY DEF HalvesOf
<1>5. owed' = 2 * Cardinality(E)
  BY DEF Cleanup, HalvesPerConnection
<1> HIDE DEF E, F
<1>6. IsFiniteSet(E) /\ IsFiniteSet(F) /\ Cardinality(E) \in Nat /\ Cardinality(F) \in Nat
  BY <1>1, Finite
<1>7. Cardinality(F \ E) + Cardinality(E) = Cardinality(F)
  <2>1. F \cap E = E
    BY <1>1
  <2>2. Cardinality(F \ E) = Cardinality(F) - Cardinality(E)
    BY <1>6, <2>1, FS_Difference
  <2> QED
    BY <1>6, <2>2
<1>8. Needed' + 2 * Cardinality(E) = Needed
  <2>1. NeededParts /\ NeededParts'
    BY NeededType, NeededTypeNext
  <2>2. /\ Cardinality(In(Halfcounted)) \in Nat
        /\ Cardinality(HalvesOf("Remote->Outside")) \in Nat
        /\ Cardinality(HalvesOf("Outside->Remote")) \in Nat
        /\ Cardinality(F \ E) \in Nat
    BY <1>2, <2>1 DEF NeededParts, Directions
  <2>3. /\ Needed = Cardinality(In(Halfcounted)) + 2 * Cardinality(F)
           + Cardinality(HalvesOf("Remote->Outside")) + Cardinality(HalvesOf("Outside->Remote"))
        /\ Needed' = Cardinality(In(Halfcounted)) + 2 * Cardinality(F \ E)
           + Cardinality(HalvesOf("Remote->Outside")) + Cardinality(HalvesOf("Outside->Remote"))
    BY <1>2, <1>3, <1>4, <2>1 DEF NeededParts, F
  <2> QED
    BY <1>6, <1>7, <2>2, <2>3
<1>9. owed = 0 /\ unknocked \in Nat /\ connCount = Needed + unknocked /\ connCount \in 0..ConnLimit
  <2>1. owed = 0 /\ unknocked \in 0..ConnLimit /\ connCount \in 0..ConnLimit
    BY DEF IInv, PlaceInv, LockInv, TypeOK
  <2>2. connCount = Needed + owed + unknocked /\ Needed \in Nat /\ ConnLimit \in Nat
    BY NeededType, LimitType DEF IInv, OnlyUnknockedLeak, NeededParts
  <2> QED
    BY <2>1, <2>2
<1>10. Needed' \in Nat /\ ConnLimit \in Nat
  BY NeededTypeNext, LimitType DEF NeededParts
<1>11. connCount' = Needed' + owed' + unknocked'
  BY <1>5, <1>6, <1>8, <1>9, <1>10
<1>12. owed' \in 0..ConnLimit
  BY <1>5, <1>6, <1>8, <1>9, <1>10
<1> QED
  BY <1>11, <1>12 DEF OnlyUnknockedLeak

(* Whoever has the mutex finds no expired connection parked. *)
LEMMA CleanupInv ==
  ASSUME IInv, lock = "free", Cleanup,
         \/ lock' = "store" /\ taken # NoConn /\ st[taken] = "taken"
         \/ lock' \in answers,
         UNCHANGED <<age, connCount, acceptVars, dispatching, taken, insideVars, halves, unknocked>>
  PROVE  IInv'
<1>1. /\ st \in [Conns -> States] /\ taken \in Conns \cup {NoConn}
      /\ announced \in SUBSET Conns /\ answers \in SUBSET Conns
  BY DEF IInv, TypeOK
<1>2. /\ \A c \in Conns : c \in ExpiredConns => st[c] = "parked" /\ st'[c] = "closed" /\ Expired(c)
      /\ \A c \in Conns : c \notin ExpiredConns => st'[c] = st[c]
      /\ \A c \in Conns : st[c] = "parked" /\ Expired(c) => c \in ExpiredConns
  BY <1>1 DEF Cleanup, ExpiredConns, In
<1>3. \A c : Expired(c)' <=> Expired(c)
  BY DEF Expired
<1>4. \A c \in Conns : Pending(c) => Pending(c)'
  BY <1>2, <1>3 DEF Pending
<1>5. \A c \in Conns, s \in {"relayed", "queued", "taken"} : st'[c] = s <=> st[c] = s
  BY <1>2
<1>6. RelayedHasHalves'
  BY <1>5 DEF IInv, PlaceInv, RelayedHasHalves
<1>7. QueueInv'
  BY <1>5 DEF IInv, PlaceInv, QueueInv, acceptVars
<1>8. TakenInv'
  BY <1>1, <1>4, <1>5 DEF IInv, PlaceInv, TakenInv, insideVars
<1>9. KeyInv'
  BY <1>1, <1>4 DEF IInv, PlaceInv, KeyInv, insideVars
<1>10. LockInv'
  <2>1. "free" \notin Conns /\ "store" \notin Conns
    BY AcceptAssumption
  <2>2. \A c \in Conns : st'[c] = "parked" => ~Expired(c)'
    BY <1>2, <1>3
  <2>3. lock' # "free"
    BY <1>1, <2>1
  <2>4. lock' = "store" => taken' # NoConn /\ st'[taken'] = "taken"
    BY <1>1, <1>5, <2>1
  <2>5. lock' \in Conns => lock' \in answers'
    BY <1>1, <2>1 DEF insideVars
  <2> QED
    BY <2>2, <2>3, <2>4, <2>5 DEF LockInv
<1>11. owed' \in 0..ConnLimit /\ OnlyUnknockedLeak'
  BY CleanupCounts
<1>12. st' \in [Conns -> States]
  BY <1>1 DEF Cleanup, States
<1>13. TypeOK'
  BY <1>1, <1>11, <1>12 DEF IInv, TypeOK, acceptVars, insideVars
<1> QED
  BY <1>6, <1>7, <1>8, <1>9, <1>10, <1>11, <1>13 DEF IInv, PlaceInv

(* Without a step of a connection the same is needed. *)
LEMMA NeededStays ==
  ASSUME UNCHANGED <<st, halves>>
  PROVE  Needed' = Needed
BY DEF Needed, In, FullyCounted, HalvesOf

LEMMA CleanupReleaseInv ==
  ASSUME IInv, CleanupRelease
  PROVE  IInv'
<1> USE DEF CleanupRelease, acceptVars, insideVars
<1>1. connCount' \in 0..ConnLimit /\ owed' \in 0..ConnLimit /\ OnlyUnknockedLeak'
  <2>1. Needed' = Needed
    BY NeededStays
  <2>2. /\ connCount = Needed + owed + unknocked /\ Needed \in Nat /\ ConnLimit \in Nat
        /\ connCount \in 0..ConnLimit /\ owed \in 0..ConnLimit /\ unknocked \in 0..ConnLimit
    BY NeededType, LimitType DEF IInv, OnlyUnknockedLeak, NeededParts, TypeOK
  <2>3. connCount > 0 /\ connCount' = connCount - 1 /\ owed' = owed - 1
    BY <2>2 DEF AfterRelease
  <2>4. connCount' \in 0..ConnLimit /\ owed' \in 0..ConnLimit
    BY <2>2, <2>3
  <2>5. connCount' = Needed' + owed' + unknocked'
    BY <2>1, <2>2, <2>3
  <2> QED
    BY <2>4, <2>5 DEF OnlyUnknockedLeak
<1>2. \A c : Pending(c) => Pending(c)'
  BY DEF Pending, Expired
<1>3. RelayedHasHalves' /\ QueueInv'
  BY DEF IInv, PlaceInv, RelayedHasHalves, QueueInv
<1>4. TakenInv'
  BY <1>2 DEF IInv, PlaceInv, TakenInv
<1>5. KeyInv'
  BY <1>2 DEF IInv, PlaceInv, KeyInv
<1>6. LockInv'
  BY LimitType DEF IInv, PlaceInv, LockInv, Expired, TypeOK
<1>7. TypeOK'
  BY <1>1 DEF IInv, TypeOK
<1> QED
  BY <1>1, <1>3, <1>4, <1>5, <1>6, <1>7 DEF IInv, PlaceInv

LEMMA StoredInv ==
  ASSUME IInv, Stored
  PROVE  IInv'
<1> USE DEF Stored, acceptVars, insideVars
<1>1. /\ st \in [Conns -> States] /\ taken \in Conns \cup {NoConn}
      /\ announced \in SUBSET Conns /\ answers \in SUBSET Conns
      /\ unknocked \in Nat
  BY LimitType DEF IInv, TypeOK
<1>2. taken # NoConn /\ taken \in Conns /\ st[taken] = "taken"
  BY <1>1 DEF IInv, PlaceInv, LockInv
<1>3. /\ st'[taken] = "parked"
      /\ \A k \in Conns : k # taken => st'[k] = st[k]
  BY <1>1, <1>2
<1>4. taken \notin announced \cup answers
  BY <1>2 DEF IInv, PlaceInv, TakenInv
<1>5. \A k \in Conns : Pending(k) => Pending(k)'
  BY <1>2, <1>3 DEF Pending, Expired
<1>6. RelayedHasHalves'
  BY <1>2, <1>3 DEF IInv, PlaceInv, RelayedHasHalves
<1>7. QueueInv'
  BY <1>2, <1>3 DEF IInv, PlaceInv, QueueInv
<1>8. TakenInv'
  BY <1>2, <1>3, <1>4 DEF IInv, PlaceInv, TakenInv, Pending
<1>9. KeyInv'
  BY <1>1, <1>5 DEF IInv, PlaceInv, KeyInv
<1>10. LockInv'
  BY AcceptAssumption DEF LockInv
<1>11. CountStep(taken, "parked", 0)
  <2>1. Units("parked") = 2 /\ Units(st[taken]) = 2
    BY <1>2 DEF Units, Halfcounted, Fullcounted
  <2>2. "parked" \in States /\ unknocked' = unknocked + 0 /\ UNCHANGED <<halves, owed, connCount>>
    BY <1>1 DEF States
  <2> QED
    BY <2>1, <2>2 DEF CountStep
<1>12. connCount' \in 0..ConnLimit /\ unknocked' \in 0..ConnLimit /\ OnlyUnknockedLeak'
  BY <1>2, <1>11, StepCounts
<1>13. st' \in [Conns -> States]
  BY <1>1, <1>2 DEF States
<1>14. TypeOK'
  BY <1>12, <1>13 DEF IInv, TypeOK
<1> QED
  BY <1>6, <1>7, <1>8, <1>9, <1>10, <1>12, <1>14 DEF IInv, PlaceInv

-----------------------------------------------------------------------------
(* Announcing, answering, relaying, and the clock. *)

(* The steps that move no connection and no count. *)
LEMMA CountStays ==
  ASSUME IInv, UNCHANGED <<st, halves, connCount, owed, unknocked>>
  PROVE  OnlyUnknockedLeak'
BY NeededStays DEF IInv, OnlyUnknockedLeak

LEMMA AnnounceInv ==
  ASSUME IInv, Announce \/ RunOutsideDispatcher
  PROVE  IInv'
<1> USE DEF Announce, RunOutsideDispatcher, acceptVars, insideVars
<1>1. UNCHANGED <<st, age, connCount, id, cha, lock, owed, answers, halves, unknocked>>
  OBVIOUS
<1>2. OnlyUnknockedLeak'
  BY <1>1, CountStays
<1>3. \A c : Pending(c) => Pending(c)'
  BY <1>1 DEF Pending, Expired
<1>4. RelayedHasHalves' /\ QueueInv'
  BY <1>1 DEF IInv, PlaceInv, RelayedHasHalves, QueueInv
<1>5. CASE RunOutsideDispatcher
  <2>1. TakenInv' /\ KeyInv'
    BY <1>1, <1>3, <1>5 DEF IInv, PlaceInv, TakenInv, KeyInv
  <2>2. LockInv'
    BY <1>1, <1>5 DEF IInv, PlaceInv, LockInv, Expired
  <2>3. TypeOK'
    BY <1>1, <1>5 DEF IInv, TypeOK
  <2> QED
    BY <1>2, <1>4, <2>1, <2>2, <2>3 DEF IInv, PlaceInv
<1>6. CASE Announce
  <2>1. /\ taken \in Conns /\ taken \notin announced \cup answers
        /\ st[taken] # "taken" /\ Pending(taken)
    BY <1>6 DEF IInv, PlaceInv, TakenInv, MayAnnounce, TypeOK
  <2>2. TakenInv'
    BY <1>1, <1>6, <2>1 DEF IInv, PlaceInv, TakenInv
  <2>3. KeyInv'
    BY <1>1, <1>3, <1>6, <2>1 DEF IInv, PlaceInv, KeyInv
  <2>4. LockInv'
    BY <1>1, <1>6, <2>1 DEF IInv, PlaceInv, LockInv, Expired
  <2>5. TypeOK'
    BY <1>1, <1>6, <2>1 DEF IInv, TypeOK
  <2> QED
    BY <1>2, <1>4, <2>2, <2>3, <2>4, <2>5 DEF IInv, PlaceInv
<1> QED
  BY <1>5, <1>6

LEMMA InsideInv ==
  ASSUME IInv, NEW k \in Conns, AnswerOfInside(k) \/ NoAnswer(k)
  PROVE  IInv'
<1> USE DEF AnswerOfInside, NoAnswer, acceptVars, dispatchVars
<1>1. UNCHANGED <<st, age, connCount, id, cha, dispatching, taken, lock, owed, halves, unknocked>>
  OBVIOUS
<1>2. OnlyUnknockedLeak'
  BY <1>1, CountStays
<1>3. \A c : Pending(c) => Pending(c)'
  BY <1>1 DEF Pending, Expired
<1>4. RelayedHasHalves' /\ QueueInv'
  BY <1>1 DEF IInv, PlaceInv, RelayedHasHalves, QueueInv
<1>5. /\ k \in announced /\ announced' = announced \ {k}
      /\ answers' = answers \/ answers' = answers \cup {k}
  OBVIOUS
<1>6. TakenInv'
  BY <1>1, <1>3, <1>5 DEF IInv, PlaceInv, TakenInv
<1>7. KeyInv'
  BY <1>1, <1>3, <1>5 DEF IInv, PlaceInv, KeyInv
<1>8. LockInv'
  BY <1>1, <1>5 DEF IInv, PlaceInv, LockInv, Expired
<1>9. TypeOK'
  BY <1>1, <1>5 DEF IInv, TypeOK
<1> QED
  BY <1>2, <1>4, <1>6, <1>7, <1>8, <1>9 DEF IInv, PlaceInv

LEMMA UnmatchedInv ==
  ASSUME IInv, NEW k \in Conns, Unmatched(k)
  PROVE  IInv'
<1> USE DEF Unmatched, acceptVars
<1>1. OnlyUnknockedLeak'
  BY CountStays
<1>2. \A c : Pending(c) => Pending(c)'
  BY DEF Pending, Expired
<1>3. RelayedHasHalves' /\ QueueInv'
  BY DEF IInv, PlaceInv, RelayedHasHalves, QueueInv
<1>4. TakenInv' /\ KeyInv'
  BY <1>2 DEF IInv, PlaceInv, TakenInv, KeyInv
<1>5. LockInv'
  BY AcceptAssumption DEF LockInv
<1>6. TypeOK'
  BY DEF IInv, TypeOK
<1> QED
  BY <1>1, <1>3, <1>4, <1>5, <1>6 DEF IInv, PlaceInv

LEMMA MatchedInv ==
  ASSUME IInv, NEW k \in Conns, Matched(k)
  PROVE  IInv'
<1> USE DEF Matched, acceptVars
<1>1. /\ st \in [Conns -> States] /\ halves \in [Conns -> SUBSET Directions]
      /\ announced \in SUBSET Conns /\ answers \in SUBSET Conns
      /\ age \in [Conns -> 0..AgeCap] /\ taken \in Conns \cup {NoConn}
  BY DEF IInv, TypeOK
<1>2. /\ st[k] = "parked" /\ st'[k] = "relayed" /\ halves'[k] = Directions
      /\ \A c \in Conns : c # k => st'[c] = st[c] /\ halves'[c] = halves[c] /\ age'[c] = age[c]
  BY <1>1
<1>3. halves[k] = {}
  BY <1>2 DEF IInv, PlaceInv, RelayedHasHalves
<1>4. k \in answers
  BY DEF IInv, PlaceInv, LockInv
<1>5. taken # k /\ k \notin announced
  BY <1>4, AcceptAssumption DEF IInv, PlaceInv, TakenInv, KeyInv
<1>6. \A c \in Conns : c # k /\ Pending(c) => Pending(c)'
  BY <1>2 DEF Pending, Expired
<1>7. RelayedHasHalves'
  BY <1>2 DEF IInv, PlaceInv, RelayedHasHalves, Directions
<1>8. QueueInv'
  BY <1>2 DEF IInv, PlaceInv, QueueInv
<1>9. TakenInv'
  BY <1>1, <1>2, <1>5, <1>6 DEF IInv, PlaceInv, TakenInv
<1>10. KeyInv'
  BY <1>1, <1>2, <1>5, <1>6 DEF IInv, PlaceInv, KeyInv
<1>11. LockInv'
  BY AcceptAssumption DEF LockInv
<1>12. OnlyUnknockedLeak'
  <2>1. Weight(k) = 2 /\ Weight(k)' = 2
    BY <1>2, <1>3 DEF Weight, Bit, Halfcounted, Fullcounted, Directions
  <2>2. UNCHANGED <<connCount, owed, unknocked>>
    OBVIOUS
  <2> QED
    BY <1>2, <2>1, <2>2, WeightCounts
<1>13. st' \in [Conns -> States] /\ halves' \in [Conns -> SUBSET Directions]
  BY <1>1 DEF States
<1>14. age' \in [Conns -> 0..AgeCap]
  BY <1>1, LimitType
<1>15. TypeOK'
  BY <1>13, <1>14 DEF IInv, TypeOK
<1> QED
  BY <1>7, <1>8, <1>9, <1>10, <1>11, <1>12, <1>15 DEF IInv, PlaceInv

LEMMA HalfEndsInv ==
  ASSUME IInv, NEW c \in Conns, NEW d \in Directions, HalfEnds(c, d)
  PROVE  IInv'
<1> USE DEF HalfEnds, acceptVars, dispatchVars, insideVars
<1>1. /\ st \in [Conns -> States] /\ halves \in [Conns -> SUBSET Directions]
      /\ announced \in SUBSET Conns /\ answers \in SUBSET Conns
      /\ taken \in Conns \cup {NoConn}
      /\ connCount \in 0..ConnLimit /\ owed \in Nat /\ unknocked \in Nat
  BY LimitType DEF IInv, TypeOK
<1>2. st[c] = "relayed" /\ d \in halves[c]
  BY DEF IInv, PlaceInv, RelayedHasHalves
<1>3. /\ halves'[c] = halves[c] \ {d}
      /\ st'[c] = IF halves[c] = {d} THEN "closed" ELSE "relayed"
      /\ \A k \in Conns : k # c => st'[k] = st[k] /\ halves'[k] = halves[k]
  BY <1>1, <1>2
<1>4. ~Pending(c) /\ c # NoConn
  BY <1>2, AcceptAssumption DEF Pending
<1>5. taken # c /\ c \notin announced \cup answers
  BY <1>2, <1>4 DEF IInv, PlaceInv, TakenInv, KeyInv
<1>6. \A k \in Conns : k # c /\ Pending(k) => Pending(k)'
  BY <1>3 DEF Pending, Expired
<1>7. RelayedHasHalves'
  <2>1. halves'[c] = {} <=> halves[c] = {d}
    BY <1>2, <1>3
  <2> QED
    BY <1>2, <1>3, <2>1 DEF IInv, PlaceInv, RelayedHasHalves
<1>8. QueueInv'
  BY <1>2, <1>3 DEF IInv, PlaceInv, QueueInv
<1>9. TakenInv'
  BY <1>1, <1>2, <1>3, <1>5, <1>6 DEF IInv, PlaceInv, TakenInv
<1>10. KeyInv'
  BY <1>1, <1>3, <1>5, <1>6 DEF IInv, PlaceInv, KeyInv
<1>11. LockInv'
  BY <1>1, <1>2, <1>3, <1>5 DEF IInv, PlaceInv, LockInv, Expired
<1>12. connCount' \in 0..ConnLimit /\ OnlyUnknockedLeak'
  <2>1. Weight(c) = Weight(c)' + 1 /\ Weight(c) \in 0..2 /\ Weight(c)' \in 0..2
    <3>1. /\ "Remote->Outside" \in halves'[c] <=> "Remote->Outside" \in halves[c] /\ d # "Remote->Outside"
          /\ "Outside->Remote" \in halves'[c] <=> "Outside->Remote" \in halves[c] /\ d # "Outside->Remote"
      BY <1>3
    <3>2. /\ st[c] \notin Halfcounted \cup Fullcounted
          /\ st'[c] \notin Halfcounted \cup Fullcounted
      BY <1>2, <1>3 DEF Halfcounted, Fullcounted
    <3>3. d = "Remote->Outside" \/ d = "Outside->Remote"
      BY DEF Directions
    <3> QED
      BY <1>2, <3>1, <3>2, <3>3 DEF Weight, Bit
  <2>2. connCount' = AfterRelease(connCount) /\ UNCHANGED <<owed, unknocked>>
    OBVIOUS
  <2> QED
    BY <1>3, <2>1, <2>2, WeightCounts
<1>13. halves' \in [Conns -> SUBSET Directions]
  BY <1>1
<1>14. st' \in [Conns -> States]
  BY <1>1 DEF States
<1>15. TypeOK'
  BY <1>12, <1>13, <1>14 DEF IInv, TypeOK
<1> QED
  BY <1>7, <1>8, <1>9, <1>10, <1>11, <1>12, <1>15 DEF IInv, PlaceInv

LEMMA TickInv ==
  ASSUME IInv, Tick
  PROVE  IInv'
<1> USE DEF Tick, acceptVars, dispatchVars, insideVars
<1>1. age \in [Conns -> 0..AgeCap] /\ AgeCap \in Nat /\ ConnectTimeout \in Nat
  BY LimitType, AcceptAssumption DEF IInv, TypeOK
<1>2. age' \in [Conns -> 0..AgeCap]
  BY <1>1
<1>3. \A c \in Conns : age'[c] >= age[c]
  BY <1>1
<1>4. \A c \in Conns : Expired(c) => Expired(c)'
  BY <1>1, <1>2, <1>3 DEF Expired
<1>5. \A c \in Conns : Pending(c) => Pending(c)'
  BY <1>4 DEF Pending
<1>6. OnlyUnknockedLeak'
  BY CountStays
<1>7. RelayedHasHalves' /\ QueueInv'
  BY DEF IInv, PlaceInv, RelayedHasHalves, QueueInv
<1>8. TakenInv'
  BY <1>5 DEF IInv, PlaceInv, TakenInv, TypeOK
<1>9. KeyInv'
  BY <1>5 DEF IInv, PlaceInv, KeyInv, TypeOK
<1>10. LockInv'
  BY AcceptAssumption DEF IInv, PlaceInv, LockInv
<1>11. TypeOK'
  BY <1>2 DEF IInv, TypeOK
<1> QED
  BY <1>6, <1>7, <1>8, <1>9, <1>10, <1>11 DEF IInv, PlaceInv

-----------------------------------------------------------------------------
(* The theorems. *)

LEMMA InitInv == Init => IInv
<1> SUFFICES ASSUME Init PROVE IInv
  OBVIOUS
<1> USE DEF Init
<1>1. TypeOK
  <2>1. st \in [Conns -> States] /\ halves \in [Conns -> SUBSET Directions]
    BY DEF States
  <2>2. age \in [Conns -> 0..AgeCap] /\ 0 \in 0..ConnLimit
    BY LimitType
  <2>3. cha \in Seq(Conns) /\ Len(cha) <= ChaSize
    BY AcceptAssumption
  <2>4. /\ connCount = 0 /\ dispatching = FALSE /\ taken = NoConn /\ lock = "free" /\ owed = 0
        /\ announced = {} /\ answers = {} /\ unknocked = 0 /\ id \in [Conns -> Ids]
    OBVIOUS
  <2> HIDE DEF Init
  <2> QED
    BY <2>1, <2>2, <2>3, <2>4 DEF TypeOK
<1>2. Needed = 0
  <2>1. /\ In({"requested", "refused"}) = {} /\ FullyCounted = {}
        /\ HalvesOf("Remote->Outside") = {} /\ HalvesOf("Outside->Remote") = {}
    BY DEF In, FullyCounted, HalvesOf
  <2>2. Cardinality({}) = 0
    BY FS_EmptySet
  <2> HIDE DEF Init
  <2> QED
    BY <2>1, <2>2 DEF Needed
<1>3. OnlyUnknockedLeak
  BY <1>2 DEF OnlyUnknockedLeak
<1>4. PlaceInv
  BY AcceptAssumption DEF PlaceInv, RelayedHasHalves, QueueInv, TakenInv, KeyInv, LockInv
<1> QED
  BY <1>1, <1>3, <1>4 DEF IInv

LEMMA NextInv == IInv /\ [Next]_vars => IInv'
<1> SUFFICES ASSUME IInv, [Next]_vars PROVE IInv'
  OBVIOUS
<1>1. CASE \E c \in Conns, i \in Ids : Accept(i, c)
  BY <1>1, AcceptInv
<1>2. CASE \E c \in Conns : Acceptor(c)
  <2> PICK c \in Conns : Acceptor(c)
    BY <1>2
  <2>1. CASE st[c] = "accepted"
    <3>1. SendToDispatcher(c)
      BY <2>1 DEF Acceptor, SecondGranted, SecondRefused, ReleaseFirst, KnockMissing, SetTimeAccepted
    <3> QED
      BY <3>1, SendToDispatcherInv
  <2>2. CASE st[c] # "accepted"
    BY <2>2, AcceptorInv
  <2> QED
    BY <2>1, <2>2
<1>3. CASE \E k \in Conns : Process(k)
  <2> PICK k \in Conns : Process(k)
    BY <1>3
  <2>1. CASE GetConnection(k)
    BY <2>1, CleanupInv DEF GetConnection, CleanupForGet
  <2> QED
    BY <2>1, MatchedInv, UnmatchedInv DEF Process
<1>4. CASE Manage
  <2>1. CASE StoreConnection
    BY <2>1, CleanupInv DEF StoreConnection
  <2> QED
    BY <1>4, <2>1, AnnounceInv, TakeAcceptedInv, StoredInv DEF Manage
<1>5. CASE CleanupRelease
  BY <1>5, CleanupReleaseInv
<1>6. CASE \E c \in Conns, d \in Directions : HalfEnds(c, d)
  BY <1>6, HalfEndsInv
<1>7. CASE \E k \in Conns : AnswerOfInside(k) \/ NoAnswer(k)
  BY <1>7, InsideInv
<1>8. CASE Tick
  BY <1>8, TickInv
<1>9. CASE UNCHANGED vars
  <2> USE <1>9 DEF vars, acceptVars, dispatchVars, insideVars
  <2>1. OnlyUnknockedLeak'
    BY CountStays
  <2>2. \A c : Pending(c) => Pending(c)'
    BY DEF Pending, Expired
  <2>3. PlaceInv'
    BY <2>2 DEF IInv, PlaceInv, RelayedHasHalves, QueueInv, TakenInv, KeyInv, LockInv, Expired
  <2>4. TypeOK'
    BY DEF IInv, TypeOK
  <2> QED
    BY <2>1, <2>3, <2>4 DEF IInv
<1> QED
  BY <1>1, <1>2, <1>3, <1>4, <1>5, <1>6, <1>7, <1>8, <1>9 DEF Next

(* The count and what each connection is in, in every state.              *)
THEOREM Invariance == Spec => []IInv
BY InitInv, NextInv, PTL DEF Spec

(* Every variable stays in its type; above all the counter of the limiter  *)
(* stays within two per allowed connection, whatever races at the limit.   *)
THEOREM TypeCorrect == Spec => []TypeOK
<1>1. IInv => TypeOK
  BY DEF IInv
<1> QED
  BY <1>1, Invariance, PTL

(* Acceptors, cleanup and half connections together release each           *)
(* connection exactly as often as it was counted; what is never given back *)
(* is one count for each connection without a knock.                       *)
THEOREM CountExact == Spec => []OnlyUnknockedLeak
<1>1. IInv => OnlyUnknockedLeak
  BY DEF IInv
<1> QED
  BY <1>1, Invariance, PTL

(* GetConnection finds the connection of an answer if and only if          *)
(* ConnectTimeout is not over: its own cleanup removed it otherwise, and   *)
(* the announcement was sent after storage.                                *)
THEOREM MatchedInTime == Spec => AnswerMatchedIffInTime
<1>1. IInv /\ [Next]_vars =>
        [\A k \in Conns : lock = k /\ lock' = "free" =>
           (st'[k] = "relayed" <=> age[k] <= ConnectTimeout)]_vars
  <2> SUFFICES ASSUME IInv, Next, NEW k \in Conns, lock = k, lock' = "free"
               PROVE  st'[k] = "relayed" <=> age[k] <= ConnectTimeout
    OBVIOUS
  <2>1. k # "free" /\ k # "store"
    BY AcceptAssumption
  <2>2. Matched(k) \/ Unmatched(k)
    BY <2>1 DEF Next, Accept, Acceptor, SecondGranted, SecondRefused, ReleaseFirst, KnockMissing,
      SetTimeAccepted, SendToDispatcher, Process, GetConnection, Matched, Unmatched, Manage,
      RunOutsideDispatcher, TakeAccepted, StoreConnection, Stored, Announce, CleanupRelease,
      HalfEnds, AnswerOfInside, NoAnswer, Tick, dispatchVars
  <2>3. age[k] \in Nat /\ ConnectTimeout \in Nat /\ st \in [Conns -> States]
    BY AcceptAssumption, LimitType DEF IInv, TypeOK
  <2>4. Expired(k) <=> ~(age[k] <= ConnectTimeout)
    BY <2>3 DEF Expired
  <2>5. k \in answers /\ Pending(k) /\ (st[k] = "parked" => ~Expired(k))
    BY <2>1 DEF IInv, PlaceInv, LockInv, KeyInv
  <2>6. CASE Matched(k)
    BY <2>3, <2>4, <2>5, <2>6 DEF Matched
  <2>7. CASE Unmatched(k)
    BY <2>3, <2>4, <2>5, <2>7 DEF Unmatched, Pending
  <2> QED
    BY <2>2, <2>6, <2>7
<1> QED
  BY <1>1, Invariance, PTL DEF Spec, AnswerMatchedIffInTime
=============================================================================
