------------------------- MODULE SharedStateProofs -------------------------
(***************************************************************************)
(* Proofs about the four components whose state several goroutines share   *)
(* and whose every operation is one step: the caches of MessagePool and    *)
(* the map of PortKnock and the counters of RateLog behind a mutex, the    *)
(* two connections and the TCPTimeout of TcpHalf.  They are four parts     *)
(* that know nothing of each other, and their Init, Next and Spec carry    *)
(* their names so that one module can extend them all.  Each part has an   *)
(* invariant, a lemma for each of its steps, and its theorems at the end,  *)
(* for any values of its constants.                                        *)
(*                                                                         *)
(* PoolInv takes both properties of the pool, which are inductive only     *)
(* together.  KnockInv adds to the counter that the knock of an open page  *)
(* has run as long as the page is old.  LogInv compares what the ideal     *)
(* limiter has left with the burst and the seconds that are not refilled   *)
(* yet.  HalfInv counts the bytes between the peers and the ticks that     *)
(* find them waiting.                                                      *)
(***************************************************************************)
EXTENDS MessagePool, PortKnock, RateLog, TcpHalf, SequenceTheorems, FiniteSetTheorems, TLAPS

-----------------------------------------------------------------------------
(* MessagePool *)

(* OneOwner in parts. *)
PlacesDistinct == Distinct(msgCache) /\ \A s \in Senders : Distinct(chan[s])
ChansApartFromCache == \A s \in Senders : Members(chan[s]) \cap Members(msgCache) = {}
ChansApart ==
  \A s, t \in Senders : s # t => Members(chan[s]) \cap Members(chan[t]) = {}
HandsApart ==
  \A g \in Goroutines : hand[g] # NoMsg =>
    /\ hand[g] \notin Members(msgCache)
    /\ \A s \in Senders : hand[g] \notin Members(chan[s])
    /\ \A h \in Goroutines : hand[h] = hand[g] => h = g

PoolInv ==
  /\ PoolTypeOK
  /\ PlacesDistinct /\ ChansApartFromCache /\ ChansApart /\ HandsApart
  /\ BuffersNotShared

LEMMA PoolParts == PoolInv <=> OneOwner /\ BuffersNotShared
  BY DEF PoolInv, OneOwner, PlacesDistinct, ChansApartFromCache, ChansApart, HandsApart

-----------------------------------------------------------------------------
(* Stacks and queues. *)

LEMMA AppendFacts ==
  ASSUME NEW S, NEW s \in Seq(S), NEW x \in S
  PROVE  /\ Append(s, x) \in Seq(S) /\ Len(Append(s, x)) = Len(s) + 1
         /\ Members(Append(s, x)) = Members(s) \cup {x}
         /\ Distinct(s) /\ x \notin Members(s) => Distinct(Append(s, x))
<1> DEFINE a == Append(s, x)
<1>1. /\ a \in Seq(S) /\ Len(a) = Len(s) + 1 /\ Len(s) \in Nat
      /\ \A i \in 1..Len(s) : a[i] = s[i]
      /\ a[Len(s) + 1] = x
  OBVIOUS
<1> HIDE DEF a
<1>2. Members(a) = Members(s) \cup {x}
  BY <1>1 DEF Members
<1>3. ASSUME Distinct(s), x \notin Members(s) PROVE Distinct(a)
  <2> SUFFICES ASSUME NEW i \in 1..Len(a), NEW j \in 1..Len(a), a[i] = a[j], i # j
               PROVE  FALSE
    BY DEF Distinct
  <2>1. CASE i \in 1..Len(s) /\ j \in 1..Len(s)
    BY <1>1, <1>3, <2>1 DEF Distinct
  <2>2. CASE i = Len(s) + 1 \/ j = Len(s) + 1
    BY <1>1, <1>3, <2>2 DEF Members
  <2> QED
    BY <1>1, <2>1, <2>2
<1> QED
  BY <1>1, <1>2, <1>3 DEF a

LEMMA PushedFacts ==
  ASSUME NEW S, NEW s \in Seq(S), NEW x \in S, NEW cap \in Nat, Len(s) <= cap
  PROVE  /\ Pushed(s, x, cap) \in Seq(S) /\ Len(Pushed(s, x, cap)) <= cap
         /\ Members(Pushed(s, x, cap)) \subseteq Members(s) \cup {x}
         /\ Distinct(s) /\ x \notin Members(s) => Distinct(Pushed(s, x, cap))
<1>1. Len(s) \in Nat
  OBVIOUS
<1>2. CASE Len(s) < cap
  BY <1>1, <1>2, AppendFacts DEF Pushed
<1>3. CASE ~(Len(s) < cap)
  BY <1>3 DEF Pushed
<1> QED
  BY <1>2, <1>3

LEMMA PopFacts ==
  ASSUME NEW S, NEW s \in Seq(S)
  PROVE  /\ AfterPop(s) \in Seq(S) /\ Len(AfterPop(s)) <= Len(s)
         /\ Members(AfterPop(s)) \subseteq Members(s)
         /\ s # <<>> => Top(s) \in Members(s) /\ Top(s) \in S
         /\ Distinct(s) => Distinct(AfterPop(s))
         /\ Distinct(s) /\ s # <<>> => Top(s) \notin Members(AfterPop(s))
<1>1. CASE s = <<>>
  BY <1>1 DEF AfterPop
<1>2. CASE s # <<>>
  <2> DEFINE p == AfterPop(s)
  <2>1. p = SubSeq(s, 1, Len(s) - 1) /\ Len(s) \in Nat /\ Len(s) > 0
    BY <1>2 DEF AfterPop, Popped
  <2>2. /\ p \in Seq(S) /\ Len(p) = Len(s) - 1
        /\ \A i \in 1..(Len(s) - 1) : p[i] = s[i]
    <3> DEFINE n == Len(s) - 1
    <3>1. n \in Int /\ n >= 0 /\ \A i \in 1..n : s[i] \in S
      BY <2>1
    <3> HIDE DEF n
    <3>2. /\ SubSeq(s, 1, n) \in Seq(S)
          /\ Len(SubSeq(s, 1, n)) = IF 1 <= n THEN n - 1 + 1 ELSE 0
          /\ \A i \in 1..(n - 1 + 1) : SubSeq(s, 1, n)[i] = s[1 + i - 1]
      BY <3>1, SubSeqProperties
    <3>3. p = SubSeq(s, 1, n)
      BY <2>1 DEF n
    <3>4. /\ p \in Seq(S) /\ Len(p) = n
          /\ \A i \in 1..n : p[i] = s[i]
      BY <3>1, <3>2, <3>3
    <3> QED
      BY <3>4 DEF n
  <2> HIDE DEF p
  <2>3. /\ Members(p) = {s[i] : i \in 1..(Len(s) - 1)}
        /\ Top(s) = s[Len(s)] /\ Members(s) = {s[i] : i \in 1..Len(s)}
    BY <2>2 DEF Members, Top
  <2>4. Members(p) \subseteq Members(s) /\ Top(s) \in Members(s) /\ Top(s) \in S
    BY <2>1, <2>3
  <2>5. ASSUME Distinct(s) PROVE Distinct(p) /\ Top(s) \notin Members(p)
    BY <2>1, <2>2, <2>3, <2>5 DEF Distinct
  <2> QED
    BY <1>2, <2>1, <2>2, <2>4, <2>5 DEF p
<1> QED
  BY <1>1, <1>2

LEMMA TailFacts ==
  ASSUME NEW S, NEW s \in Seq(S), s # <<>>
  PROVE  /\ Tail(s) \in Seq(S) /\ Len(Tail(s)) <= Len(s)
         /\ Members(Tail(s)) \subseteq Members(s)
         /\ Head(s) \in Members(s) /\ Head(s) \in S
         /\ Distinct(s) => Distinct(Tail(s)) /\ Head(s) \notin Members(Tail(s))
<1> DEFINE t == Tail(s)
<1>1. /\ t \in Seq(S) /\ Len(t) = Len(s) - 1 /\ Len(s) \in Nat /\ Len(s) > 0
      /\ \A i \in 1..(Len(s) - 1) : t[i] = s[i + 1]
      /\ Head(s) = s[1] /\ s[1] \in S
  OBVIOUS
<1> HIDE DEF t
<1>2. /\ Members(t) = {s[i + 1] : i \in 1..(Len(s) - 1)}
      /\ Members(s) = {s[i] : i \in 1..Len(s)}
  BY <1>1 DEF Members
<1>3. Members(t) \subseteq Members(s) /\ Head(s) \in Members(s)
  BY <1>1, <1>2
<1>4. ASSUME Distinct(s) PROVE Distinct(t) /\ Head(s) \notin Members(t)
  BY <1>1, <1>2, <1>4 DEF Distinct
<1> QED
  BY <1>1, <1>3, <1>4 DEF t

-----------------------------------------------------------------------------
(* The steps. *)

LEMMA PoolInitInv == PoolInit => PoolInv
<1> SUFFICES ASSUME PoolInit PROVE PoolInv
  OBVIOUS
<1> USE DEF PoolInit
<1>1. Members(<<>>) = {} /\ Distinct(<<>>)
  BY DEF Members, Distinct
<1>2. PoolTypeOK
  BY PoolAssumption DEF PoolTypeOK
<1>3. \A m \in Msgs : ~InUse(m)
  BY <1>1, PoolAssumption DEF InUse
<1> QED
  BY <1>1, <1>2, <1>3
  DEF PoolInv, PlacesDistinct, ChansApartFromCache, ChansApart, HandsApart, BuffersNotShared

(* What the pool gives away belongs to nobody: neither the message nor its *)
(* buffer is in use, and neither stays in its cache.                       *)
LEMMA NewUDPMessageInv ==
  ASSUME PoolInv, NEW g \in Receivers, NEW m \in Msgs, NEW p \in Payloads, NewUDPMessage(g, m, p)
  PROVE  PoolInv'
<1>1. /\ hand[g] = NoMsg /\ NextMsg(m) /\ NextPayload(p)
      /\ msgCache' = AfterPop(msgCache) /\ payloadCache' = AfterPop(payloadCache)
      /\ payload' = [k \in Msgs |-> IF k = m THEN p
                                   ELSE IF payload[k] = p THEN NoPayload ELSE payload[k]]
      /\ IsToRecycle' = [IsToRecycle EXCEPT ![m] = FALSE]
      /\ hand' = [hand EXCEPT ![g] = m]
      /\ chan' = chan
  BY DEF NewUDPMessage, PayloadsAfterPop
<1>2. g \in Goroutines /\ m # NoMsg
  BY PoolAssumption DEF Goroutines
<1>3. msgCache \in Seq(Msgs) /\ payloadCache \in Seq(Payloads)
  BY DEF PoolInv, PoolTypeOK
<1>4. /\ msgCache' \in Seq(Msgs) /\ Len(msgCache') <= Len(msgCache)
      /\ Members(msgCache') \subseteq Members(msgCache) /\ Distinct(msgCache')
      /\ msgCache # <<>> => m \in Members(msgCache) /\ m \notin Members(msgCache')
  BY <1>1, <1>3, PopFacts DEF PoolInv, PlacesDistinct, NextMsg
<1>5. /\ payloadCache' \in Seq(Payloads) /\ Len(payloadCache') <= Len(payloadCache)
      /\ Members(payloadCache') \subseteq Members(payloadCache) /\ Distinct(payloadCache')
      /\ payloadCache # <<>> => p \in Members(payloadCache) /\ p \notin Members(payloadCache')
  BY <1>1, <1>3, PopFacts DEF PoolInv, BuffersNotShared, NextPayload
<1>6. m \notin Members(msgCache') /\ ~InUse(m)
  <2>1. CASE msgCache = <<>>
    BY <1>1, <1>4, <2>1 DEF NextMsg, MsgGarbage
  <2>2. CASE msgCache # <<>>
    BY <1>2, <1>4, <2>2 DEF InUse, PoolInv, HandsApart, ChansApartFromCache
  <2> QED
    BY <2>1, <2>2
<1>7. /\ p \notin Members(payloadCache')
      /\ \A n \in Msgs : InUse(n) => payload[n] # p
  <2>1. CASE payloadCache = <<>>
    BY <1>1, <1>5, <2>1 DEF NextPayload, PayloadGarbage, MsgGarbage
  <2>2. CASE payloadCache # <<>>
    BY <1>5, <2>2 DEF PoolInv, BuffersNotShared
  <2> QED
    BY <2>1, <2>2
<1>8. \A h \in Goroutines : hand'[h] = IF h = g THEN m ELSE hand[h]
  BY <1>1 DEF PoolInv, PoolTypeOK
<1>9. \A n \in Msgs : InUse(n)' <=> n = m \/ InUse(n)
  BY <1>1, <1>2, <1>8, PoolAssumption DEF InUse
<1>10. PoolTypeOK'
  <2>1. Len(msgCache') \in Nat /\ Len(payloadCache') \in Nat /\ Len(msgCache) \in Nat
        /\ Len(payloadCache) \in Nat
    BY <1>3, <1>4, <1>5
  <2>2. Len(msgCache') <= LenMsgCache /\ Len(payloadCache') <= LenPayloadCache
    BY <1>4, <1>5, <2>1, PoolAssumption DEF PoolInv, PoolTypeOK
  <2>3. payload' \in [Msgs -> Payloads \cup {NoPayload}]
    BY <1>1 DEF PoolInv, PoolTypeOK
  <2>4. IsToRecycle' \in [Msgs -> BOOLEAN] /\ hand' \in [Goroutines -> Msgs \cup {NoMsg}]
    BY <1>1 DEF PoolInv, PoolTypeOK
  <2> QED
    BY <1>1, <1>4, <1>5, <2>2, <2>3, <2>4 DEF PoolInv, PoolTypeOK
<1>11. PlacesDistinct' /\ ChansApartFromCache' /\ ChansApart'
  BY <1>1, <1>4 DEF PoolInv, PlacesDistinct, ChansApartFromCache, ChansApart
<1>12. HandsApart'
  <2> SUFFICES ASSUME NEW h \in Goroutines, hand'[h] # NoMsg
      PROVE  /\ hand'[h] \notin Members(msgCache')
             /\ \A s \in Senders : hand'[h] \notin Members(chan[s])
             /\ \A k \in Goroutines : hand'[k] = hand'[h] => k = h
    BY <1>1 DEF HandsApart
  <2>1. CASE h = g
    BY <1>6, <1>8, <2>1 DEF InUse
  <2>2. CASE h # g
    BY <1>4, <1>6, <1>8, <2>2 DEF InUse, PoolInv, HandsApart
  <2> QED
    BY <2>1, <2>2
<1>13. BuffersNotShared'
  <2>1. \A n \in Msgs : payload'[n] = IF n = m THEN p
                                      ELSE IF payload[n] = p THEN NoPayload ELSE payload[n]
    BY <1>1
  <2> SUFFICES ASSUME NEW n \in Msgs, InUse(n)'
      PROVE  /\ payload'[n] \in Payloads \ Members(payloadCache')
             /\ \A k \in Msgs : InUse(k)' /\ payload'[k] = payload'[n] => k = n
    BY <1>5 DEF BuffersNotShared
  <2>2. \A k \in Msgs : InUse(k) => /\ payload[k] \in Payloads \ Members(payloadCache)
                                    /\ payload[k] # p
                                    /\ \A l \in Msgs : InUse(l) /\ payload[l] = payload[k] => l = k
    BY <1>7 DEF PoolInv, BuffersNotShared
  <2>3. \A k \in Msgs : InUse(k)' /\ k # m => InUse(k) /\ payload'[k] = payload[k]
    BY <1>9, <2>1, <2>2
  <2>4. CASE n = m
    BY <1>7, <2>1, <2>2, <2>3, <2>4
  <2>5. CASE n # m
    BY <1>5, <2>1, <2>2, <2>3, <2>5
  <2> QED
    BY <2>4, <2>5
<1> QED
  BY <1>10, <1>11, <1>12, <1>13 DEF PoolInv

LEMMA ReturnMsgInv ==
  ASSUME PoolInv, NEW g \in Goroutines, ReturnMsg(g)
  PROVE  PoolInv'
<1> DEFINE m == hand[g]
<1>1. /\ m # NoMsg
      /\ IsToRecycle' = [IsToRecycle EXCEPT ![m] = TRUE]
      /\ payloadCache' = IF payload[m] = NoPayload THEN payloadCache
                         ELSE Pushed(payloadCache, payload[m], LenPayloadCache)
      /\ payload' = [payload EXCEPT ![m] = NoPayload]
      /\ msgCache' = Pushed(msgCache, m, LenMsgCache)
      /\ hand' = [hand EXCEPT ![g] = NoMsg]
      /\ chan' = chan
  BY DEF ReturnMsg
<1>2. /\ m \in Msgs /\ InUse(m)
      /\ msgCache \in Seq(Msgs) /\ Len(msgCache) <= LenMsgCache /\ LenMsgCache \in Nat
      /\ payloadCache \in Seq(Payloads) /\ Len(payloadCache) <= LenPayloadCache
      /\ LenPayloadCache \in Nat
  BY <1>1, PoolAssumption DEF PoolInv, PoolTypeOK, InUse
<1>3. payload[m] \in Payloads \ Members(payloadCache)
  BY <1>2 DEF PoolInv, BuffersNotShared
<1>4. m \notin Members(msgCache) /\ \A s \in Senders : m \notin Members(chan[s])
  BY <1>1 DEF PoolInv, HandsApart
<1>5. /\ msgCache' \in Seq(Msgs) /\ Len(msgCache') <= LenMsgCache
      /\ Members(msgCache') \subseteq Members(msgCache) \cup {m} /\ Distinct(msgCache')
  BY <1>1, <1>2, <1>4, PushedFacts DEF PoolInv, PlacesDistinct
<1>6. payloadCache' = Pushed(payloadCache, payload[m], LenPayloadCache)
  BY <1>1, <1>3, PoolAssumption
<1>7. /\ payloadCache' \in Seq(Payloads) /\ Len(payloadCache') <= LenPayloadCache
      /\ Members(payloadCache') \subseteq Members(payloadCache) \cup {payload[m]}
      /\ Distinct(payloadCache')
  BY <1>2, <1>3, <1>6, PushedFacts DEF PoolInv, BuffersNotShared
<1>8. /\ \A h \in Goroutines : hand'[h] = IF h = g THEN NoMsg ELSE hand[h]
      /\ \A n \in Msgs : payload'[n] = IF n = m THEN NoPayload ELSE payload[n]
  BY <1>1 DEF PoolInv, PoolTypeOK
<1>9. \A n \in Msgs : InUse(n)' <=> n # m /\ InUse(n)
  <2> SUFFICES ASSUME NEW n \in Msgs PROVE InUse(n)' <=> n # m /\ InUse(n)
    OBVIOUS
  <2>1. CASE n = m
    <3>1. \A h \in Goroutines : hand'[h] # m
      BY <1>1, <1>8 DEF PoolInv, HandsApart
    <3> QED
      BY <1>1, <1>4, <2>1, <3>1 DEF InUse
  <2>2. CASE n # m
    BY <1>1, <1>8, <2>2, PoolAssumption DEF InUse
  <2> QED
    BY <2>1, <2>2
<1>10. PoolTypeOK'
  <2>1. payload' \in [Msgs -> Payloads \cup {NoPayload}]
    BY <1>1 DEF PoolInv, PoolTypeOK
  <2>2. IsToRecycle' \in [Msgs -> BOOLEAN] /\ hand' \in [Goroutines -> Msgs \cup {NoMsg}]
    BY <1>1 DEF PoolInv, PoolTypeOK
  <2> QED
    BY <1>1, <1>5, <1>7, <2>1, <2>2 DEF PoolInv, PoolTypeOK
<1> HIDE DEF m
<1>11. PlacesDistinct' /\ ChansApartFromCache' /\ ChansApart'
  BY <1>1, <1>4, <1>5 DEF PoolInv, PlacesDistinct, ChansApartFromCache, ChansApart
<1>12. HandsApart'
  <2> SUFFICES ASSUME NEW h \in Goroutines, hand'[h] # NoMsg
      PROVE  /\ hand'[h] \notin Members(msgCache')
             /\ \A s \in Senders : hand'[h] \notin Members(chan[s])
             /\ \A k \in Goroutines : hand'[k] = hand'[h] => k = h
    BY <1>1 DEF HandsApart
  <2>1. h # g /\ hand'[h] = hand[h] /\ hand[h] # NoMsg
    BY <1>8
  <2>2. hand[h] # m
    BY <1>1, <2>1 DEF PoolInv, HandsApart, m
  <2>3. /\ hand[h] \notin Members(msgCache)
        /\ \A s \in Senders : hand[h] \notin Members(chan[s])
        /\ \A k \in Goroutines : hand[k] = hand[h] => k = h
    BY <2>1 DEF PoolInv, HandsApart
  <2> QED
    BY <1>5, <1>8, <2>1, <2>2, <2>3
<1>13. BuffersNotShared'
  <2> SUFFICES ASSUME NEW n \in Msgs, InUse(n)'
      PROVE  /\ payload'[n] \in Payloads \ Members(payloadCache')
             /\ \A k \in Msgs : InUse(k)' /\ payload'[k] = payload'[n] => k = n
    BY <1>7 DEF BuffersNotShared
  <2>1. \A k \in Msgs : InUse(k) => /\ payload[k] \in Payloads \ Members(payloadCache)
                                    /\ \A l \in Msgs : InUse(l) /\ payload[l] = payload[k] => l = k
    BY DEF PoolInv, BuffersNotShared
  <2>2. \A k \in Msgs : InUse(k)' => InUse(k) /\ k # m /\ payload'[k] = payload[k]
    BY <1>8, <1>9
  <2> QED
    BY <1>2, <1>7, <2>1, <2>2
<1> QED
  BY <1>10, <1>11, <1>12, <1>13 DEF PoolInv

LEMMA AbandonInv ==
  ASSUME PoolInv, NEW g \in Receivers, Abandon(g)
  PROVE  PoolInv'
<1>1. /\ hand' = [hand EXCEPT ![g] = NoMsg]
      /\ UNCHANGED <<msgCache, payloadCache, payload, IsToRecycle, chan>>
  BY DEF Abandon
<1>2. \A h \in Goroutines : hand'[h] = IF h = g THEN NoMsg ELSE hand[h]
  BY <1>1 DEF PoolInv, PoolTypeOK
<1>3. \A n \in Msgs : InUse(n)' => InUse(n)
  BY <1>1, <1>2, PoolAssumption DEF InUse
<1>4. hand' \in [Goroutines -> Msgs \cup {NoMsg}]
  BY <1>1 DEF PoolInv, PoolTypeOK
<1>5. PoolTypeOK'
  BY <1>1, <1>4 DEF PoolInv, PoolTypeOK
<1>6. PlacesDistinct' /\ ChansApartFromCache' /\ ChansApart'
  BY <1>1 DEF PoolInv, PlacesDistinct, ChansApartFromCache, ChansApart
<1>7. HandsApart'
  BY <1>1, <1>2 DEF PoolInv, HandsApart
<1>8. BuffersNotShared'
  BY <1>1, <1>3 DEF PoolInv, BuffersNotShared
<1> QED
  BY <1>5, <1>6, <1>7, <1>8 DEF PoolInv

LEMMA HandOverInv ==
  ASSUME PoolInv, NEW g \in Receivers, NEW s \in Senders, HandOver(g, s)
  PROVE  PoolInv'
<1> DEFINE m == hand[g]
<1>1. /\ m # NoMsg /\ Len(chan[s]) < ChanSize
      /\ chan' = [chan EXCEPT ![s] = Append(@, m)]
      /\ hand' = [hand EXCEPT ![g] = NoMsg]
      /\ UNCHANGED <<msgCache, payloadCache, payload, IsToRecycle>>
  BY DEF HandOver, Released
<1>2. g \in Goroutines /\ m \in Msgs /\ chan[s] \in Seq(Msgs)
  BY <1>1 DEF Goroutines, PoolInv, PoolTypeOK
<1>3. m \notin Members(msgCache) /\ \A t \in Senders : m \notin Members(chan[t])
  BY <1>1, <1>2 DEF PoolInv, HandsApart
<1>4. \A h \in Goroutines : hand[h] = m => h = g
  BY <1>1, <1>2 DEF PoolInv, HandsApart
<1> HIDE DEF m
<1>5. /\ \A h \in Goroutines : hand'[h] = IF h = g THEN NoMsg ELSE hand[h]
      /\ \A t \in Senders : chan'[t] = IF t = s THEN Append(chan[s], m) ELSE chan[t]
  BY <1>1 DEF PoolInv, PoolTypeOK
<1>6. /\ Append(chan[s], m) \in Seq(Msgs) /\ Len(Append(chan[s], m)) = Len(chan[s]) + 1
      /\ Members(Append(chan[s], m)) = Members(chan[s]) \cup {m}
      /\ Distinct(Append(chan[s], m))
  BY <1>2, <1>3, AppendFacts DEF PoolInv, PlacesDistinct
<1>7. \A t \in Senders : Members(chan'[t]) = Members(chan[t]) \cup (IF t = s THEN {m} ELSE {})
  BY <1>5, <1>6
<1>8. \A n \in Msgs : InUse(n)' => InUse(n)
  <2> SUFFICES ASSUME NEW n \in Msgs, InUse(n)' PROVE InUse(n)
    OBVIOUS
  <2>1. InUse(m)
    BY <1>2 DEF InUse, m
  <2>2. CASE n = m
    BY <2>1, <2>2
  <2>3. CASE n # m
    BY <1>2, <1>5, <1>7, <2>3, PoolAssumption DEF InUse
  <2> QED
    BY <2>2, <2>3
<1>9. PoolTypeOK'
  <2>1. hand' \in [Goroutines -> Msgs \cup {NoMsg}]
    BY <1>1 DEF PoolInv, PoolTypeOK
  <2>2. chan' \in [Senders -> Seq(Msgs)]
    BY <1>1, <1>6 DEF PoolInv, PoolTypeOK
  <2>3. \A t \in Senders : Len(chan'[t]) <= ChanSize
    BY <1>1, <1>2, <1>5, <1>6, PoolAssumption DEF PoolInv, PoolTypeOK
  <2> QED
    BY <1>1, <2>1, <2>2, <2>3 DEF PoolInv, PoolTypeOK
<1>10. PlacesDistinct'
  BY <1>1, <1>5, <1>6 DEF PoolInv, PlacesDistinct
<1>11. ChansApartFromCache' /\ ChansApart'
  <2>1. ChansApartFromCache'
    BY <1>1, <1>3, <1>7 DEF PoolInv, ChansApartFromCache
  <2>2. ASSUME NEW t \in Senders, NEW u \in Senders, t # u
        PROVE  Members(chan'[t]) \cap Members(chan'[u]) = {}
    <3>1. Members(chan[t]) \cap Members(chan[u]) = {}
      BY <2>2 DEF PoolInv, ChansApart
    <3> QED
      BY <1>3, <1>7, <2>2, <3>1
  <2> QED
    BY <2>1, <2>2 DEF ChansApart
<1>12. HandsApart'
  BY <1>1, <1>4, <1>5, <1>7 DEF PoolInv, HandsApart
<1>13. BuffersNotShared'
  BY <1>1, <1>8 DEF PoolInv, BuffersNotShared
<1> QED
  BY <1>9, <1>10, <1>11, <1>12, <1>13 DEF PoolInv

LEMMA TakeInv ==
  ASSUME PoolInv, NEW s \in Senders, Take(s)
  PROVE  PoolInv'
<1> DEFINE m == Head(chan[s])
<1>1. /\ hand[s] = NoMsg /\ chan[s] # <<>>
      /\ hand' = [hand EXCEPT ![s] = m]
      /\ chan' = [chan EXCEPT ![s] = Tail(@)]
      /\ UNCHANGED <<msgCache, payloadCache, payload, IsToRecycle>>
  BY DEF Take
<1>2. s \in Goroutines /\ chan[s] \in Seq(Msgs)
  BY DEF Goroutines, PoolInv, PoolTypeOK
<1>3. /\ Tail(chan[s]) \in Seq(Msgs) /\ Len(Tail(chan[s])) <= Len(chan[s])
      /\ Members(Tail(chan[s])) \subseteq Members(chan[s])
      /\ m \in Members(chan[s]) /\ m \in Msgs
      /\ Distinct(Tail(chan[s])) /\ m \notin Members(Tail(chan[s]))
  BY <1>1, <1>2, TailFacts DEF PoolInv, PlacesDistinct
<1> HIDE DEF m
<1>4. /\ \A h \in Goroutines : hand'[h] = IF h = s THEN m ELSE hand[h]
      /\ \A t \in Senders : chan'[t] = IF t = s THEN Tail(chan[s]) ELSE chan[t]
  BY <1>1 DEF PoolInv, PoolTypeOK
<1>5. /\ \A t \in Senders : Members(chan'[t]) \subseteq Members(chan[t])
      /\ \A t \in Senders : m \notin Members(chan'[t])
      /\ \A h \in Goroutines : hand[h] # m
      /\ m \notin Members(msgCache) /\ m # NoMsg
  <2>1. \A t \in Senders : Members(chan'[t]) \subseteq Members(chan[t])
    BY <1>3, <1>4
  <2>2. \A t \in Senders : m \notin Members(chan'[t])
    BY <1>3, <1>4 DEF PoolInv, ChansApart
  <2>3. m \notin Members(msgCache) /\ m # NoMsg
    BY <1>3, PoolAssumption DEF PoolInv, ChansApartFromCache
  <2>4. \A h \in Goroutines : hand[h] # m
    BY <1>3, <2>3 DEF PoolInv, HandsApart
  <2> QED
    BY <2>1, <2>2, <2>3, <2>4
<1>6. \A n \in Msgs : InUse(n)' => InUse(n)
  BY <1>2, <1>3, <1>4, <1>5 DEF InUse
<1>7. PoolTypeOK'
  <2>1. hand' \in [Goroutines -> Msgs \cup {NoMsg}]
    BY <1>1, <1>3 DEF PoolInv, PoolTypeOK
  <2>2. chan' \in [Senders -> Seq(Msgs)]
    BY <1>1, <1>3 DEF PoolInv, PoolTypeOK
  <2>3. \A t \in Senders : Len(chan'[t]) <= ChanSize
    <3> SUFFICES ASSUME NEW t \in Senders PROVE Len(chan'[t]) <= ChanSize
      OBVIOUS
    <3>1. Len(chan[t]) <= ChanSize /\ Len(chan[t]) \in Nat
      BY DEF PoolInv, PoolTypeOK
    <3>2. CASE t = s
      <4>1. Len(Tail(chan[s])) \in Nat
        BY <1>3
      <4>2. chan'[t] = Tail(chan[s]) /\ Len(Tail(chan[s])) <= Len(chan[s])
        BY <1>3, <1>4, <3>2
      <4>3. Len(chan[s]) <= ChanSize /\ Len(chan[s]) \in Nat /\ ChanSize \in Nat
        BY <3>1, <3>2, PoolAssumption
      <4> DEFINE n == Len(Tail(chan[s]))
      <4>4. n <= ChanSize
        <5>1. n \in Nat /\ n <= Len(chan[s])
          BY <4>1, <4>2
        <5> HIDE DEF n
        <5> QED
          BY <4>3, <5>1
      <4> QED
        BY <4>2, <4>4
    <3>3. CASE t # s
      BY <1>4, <3>1, <3>3
    <3> QED
      BY <3>2, <3>3
  <2> QED
    BY <1>1, <2>1, <2>2, <2>3 DEF PoolInv, PoolTypeOK
<1>8. PlacesDistinct'
  BY <1>1, <1>3, <1>4 DEF PoolInv, PlacesDistinct
<1>9. ChansApartFromCache' /\ ChansApart'
  BY <1>1, <1>5 DEF PoolInv, ChansApartFromCache, ChansApart
<1>10. HandsApart'
  BY <1>1, <1>4, <1>5 DEF PoolInv, HandsApart
<1>11. BuffersNotShared'
  BY <1>1, <1>6 DEF PoolInv, BuffersNotShared
<1> QED
  BY <1>7, <1>8, <1>9, <1>10, <1>11 DEF PoolInv

LEMMA PoolNextInv ==
  ASSUME PoolInv, [PoolNext]_poolVars
  PROVE  PoolInv'
<1>1. CASE UNCHANGED poolVars
  BY <1>1 DEF poolVars, PoolInv, PoolTypeOK, PlacesDistinct, ChansApartFromCache, ChansApart, HandsApart,
              BuffersNotShared, InUse
<1> QED
  BY <1>1, NewUDPMessageInv, ReturnMsgInv, AbandonInv, HandOverInv, TakeInv DEF PoolNext

LEMMA PoolInvariance == PoolSpec => []PoolInv
<1>1. PoolInit => PoolInv
  BY PoolInitInv
<1>2. PoolInv /\ [PoolNext]_poolVars => PoolInv'
  BY PoolNextInv
<1> QED
  BY <1>1, <1>2, PTL DEF PoolSpec

(* Whatever the goroutines of Outside do with the messages of NewUDPMessage *)
(* and ReturnMsg, a message is in one place: once in the cache, once in    *)
(* one channel, or in the hands of one goroutine.                          *)
THEOREM MessageOwned == PoolSpec => []OneOwner
<1>1. PoolInv => OneOwner
  BY PoolParts
<1> QED
  BY <1>1, PoolInvariance, PTL

(* The buffers, recycled apart from their messages in a cache of another   *)
(* size, belong to one message in use or wait once in the cache.           *)
THEOREM BufferOwned == PoolSpec => []BuffersNotShared
<1>1. PoolInv => BuffersNotShared
  BY PoolParts
<1> QED
  BY <1>1, PoolInvariance, PTL

-----------------------------------------------------------------------------
(* PortKnock *)

(* An open page has been loaded so long ago as its knock has run, or the   *)
(* repeated knocks have come so near the limit that one may be refused.    *)
Saturated == repeated + Cardinality(Clients) >= maxportknock
PagesKeep == \A c \in Clients : page[c] # NoPage => kmap[c] = timeOut - page[c] \/ Saturated

KnockInv == OnlyRepeatsLeak /\ PagesKeep

OverOnes == {c \in Clients : Over(c)}
Left == Entries \ OverOnes

-----------------------------------------------------------------------------
(* What the sets and the counter have to do with one another. *)

LEMMA ClientsFinite ==
  ASSUME NEW S \in SUBSET Clients
  PROVE  /\ IsFiniteSet(S) /\ Cardinality(S) \in Nat
         /\ Cardinality(Clients) \in Nat /\ Cardinality(S) <= Cardinality(Clients)
<1>1. IsFiniteSet(Clients)
  BY KnockAssumption, FS_Product DEF Clients
<1> QED
  BY <1>1, FS_Subset, FS_CardinalityType

LEMMA RefreshType == RefreshSeconds \in Nat \ {0} /\ RefreshSeconds < timeOut
<1>1. timeOut \in Nat /\ timeOut >= 2
  BY KnockAssumption
<1>2. (10 * timeOut) \div 22 \in Nat /\ (10 * timeOut) \div 22 < timeOut
  BY <1>1
<1> QED
  BY <1>1, <1>2 DEF RefreshSeconds

LEMMA KnockTypes ==
  ASSUME KnockInv
  PROVE  /\ kmap \in [Clients -> -1..timeOut \cup {NoKnock}]
         /\ page \in [Clients -> 0..RefreshSeconds \cup {NoPage}]
         /\ countportknock \in 0..maxportknock /\ repeated \in Nat /\ repeated < maxportknock
         /\ countportknock = Cardinality(Entries) + repeated
         /\ timeOut \in Nat /\ maxportknock \in Nat /\ maxportknock > 0
         /\ NoKnock \notin Int /\ NoPage \notin Int
BY KnockAssumption DEF KnockInv, OnlyRepeatsLeak, KnockTypeOK

(* A cleanup takes the knocks that are over from the map and from the      *)
(* counter alike.                                                          *)
LEMMA CleanupCounts ==
  ASSUME KnockInv
  PROVE  /\ CountAfterCleanup = Cardinality(Left) + repeated
         /\ CountAfterCleanup \in 0..maxportknock
         /\ Left \subseteq Clients /\ IsFiniteSet(Left) /\ Cardinality(Left) \in Nat
<1>1. OverOnes \subseteq Entries /\ Entries \subseteq Clients /\ Left \subseteq Clients
  BY DEF OverOnes, Entries, Over, Left
<1>2. /\ Cardinality(Entries) \in Nat /\ Cardinality(OverOnes) \in Nat
      /\ Cardinality(Left) \in Nat /\ IsFiniteSet(Left)
      /\ IsFiniteSet(Entries) /\ IsFiniteSet(OverOnes)
  BY <1>1, ClientsFinite
<1>3. Cardinality(Left) = Cardinality(Entries) - Cardinality(OverOnes)
  <2>1. Entries \cap OverOnes = OverOnes
    BY <1>1
  <2> QED
    BY <1>2, <2>1, FS_Difference DEF Left
<1>4. CountAfterCleanup = NotBelowZero(countportknock - Cardinality(OverOnes))
  BY DEF CountAfterCleanup, OverOnes
<1> QED
  BY <1>1, <1>2, <1>3, <1>4, KnockTypes DEF NotBelowZero

-----------------------------------------------------------------------------
(* The steps. *)

LEMMA KnockInitInv == KnockInit => KnockInv
<1> SUFFICES ASSUME KnockInit PROVE KnockInv
  OBVIOUS
<1>1. Entries = {} /\ Cardinality(Entries) = 0
  BY FS_EmptySet DEF KnockInit, Entries, Known
<1>2. KnockTypeOK
  BY KnockAssumption DEF KnockInit, KnockTypeOK
<1> QED
  BY <1>1, <1>2, KnockAssumption DEF KnockInv, OnlyRepeatsLeak, PagesKeep, KnockInit

(* The counts after a knock that is taken and after one that is refused.   *)
LEMMA TakenCounts ==
  ASSUME KnockInv, NEW c \in Clients, Insert(c), Room
  PROVE  countportknock' = Cardinality(Entries)' + repeated' /\ countportknock' \in 0..maxportknock
         /\ repeated' \in Nat /\ repeated' < maxportknock /\ repeated <= repeated'
<1>1. /\ kmap' = [Cleaned EXCEPT ![c] = timeOut]
      /\ countportknock' = CountAfterCleanup + 1
      /\ repeated' = IF Known(Cleaned, c) THEN repeated + 1 ELSE repeated
  BY DEF Insert
<1>2. \A k \in Clients : Cleaned[k] # NoKnock <=> k \in Left
  BY DEF Cleaned, Left, Entries, OverOnes, Over, Known
<1>3. Entries' = Left \cup {c}
  <2>1. \A k \in Clients : kmap'[k] = IF k = c THEN timeOut ELSE Cleaned[k]
    BY <1>1 DEF Cleaned
  <2> QED
    BY <1>2, <2>1, CleanupCounts, KnockTypes DEF Entries, Known
<1>4. CountAfterCleanup + 1 <= maxportknock
  BY CleanupCounts, KnockTypes DEF Room
<1>5. CASE c \in Left
  <2>1. Entries' = Left
    BY <1>3, <1>5
  <2>2. Cardinality(Left) # 0
    BY <1>5, CleanupCounts, FS_EmptySet
  <2>3. repeated' = repeated + 1
    BY <1>1, <1>2, <1>5 DEF Known
  <2> QED
    BY <1>1, <1>4, <2>1, <2>2, <2>3, CleanupCounts, KnockTypes
<1>6. CASE c \notin Left
  <2>1. Cardinality(Left \cup {c}) = Cardinality(Left) + 1
    BY <1>6, CleanupCounts, FS_AddElement, Zenon
  <2>2. Cardinality(Entries') = Cardinality(Left) + 1
    BY <1>3, <2>1, Zenon
  <2>3. repeated' = repeated
    BY <1>1, <1>2, <1>6 DEF Known
  <2> QED
    BY <1>1, <1>4, <2>2, <2>3, CleanupCounts, KnockTypes
<1> QED
  BY <1>5, <1>6

LEMMA RefusedCounts ==
  ASSUME KnockInv, NEW c \in Clients, Insert(c), ~Room
  PROVE  countportknock' = Cardinality(Entries)' + repeated' /\ countportknock' \in 0..maxportknock
         /\ repeated' = repeated /\ Saturated'
<1>1. kmap' = Cleaned /\ countportknock' = CountAfterCleanup /\ repeated' = repeated
  BY DEF Insert
<1>2. Entries' = Left
  BY <1>1 DEF Cleaned, Left, Entries, OverOnes, Over, Known
<1>3. Cardinality(Left) <= Cardinality(Clients) /\ Cardinality(Clients) \in Nat
  BY CleanupCounts, ClientsFinite
<1> QED
  BY <1>1, <1>2, <1>3, CleanupCounts, KnockTypes DEF Room, Saturated

LEMMA LoadInv ==
  ASSUME KnockInv, NEW c \in Clients, Load(c)
  PROVE  KnockInv'
<1>1. /\ Insert(c) /\ page' = [page EXCEPT ![c] = 0]
      /\ kmap' = IF Room THEN [Cleaned EXCEPT ![c] = timeOut] ELSE Cleaned
  BY DEF Load, Insert
<1>2. Cleaned \in [Clients -> -1..timeOut \cup {NoKnock}]
  BY KnockTypes DEF Cleaned
<1>3. kmap' \in [Clients -> -1..timeOut \cup {NoKnock}]
  BY <1>1, <1>2, KnockTypes
<1>4. page' \in [Clients -> 0..RefreshSeconds \cup {NoPage}]
  BY <1>1, KnockTypes, RefreshType
<1>5. /\ countportknock' = Cardinality(Entries)' + repeated' /\ countportknock' \in 0..maxportknock
      /\ repeated' \in Nat /\ repeated' < maxportknock /\ repeated <= repeated'
      /\ ~Room => Saturated'
  BY <1>1, TakenCounts, RefusedCounts, KnockTypes
<1>6. OnlyRepeatsLeak'
  BY <1>3, <1>4, <1>5, KnockTypes DEF OnlyRepeatsLeak, KnockTypeOK
<1>7. ASSUME NEW k \in Clients, page'[k] # NoPage
      PROVE  kmap'[k] = timeOut - page'[k] \/ Saturated'
  <2>1. CASE ~Room
    BY <1>5, <2>1
  <2>2. CASE Room /\ k = c
    <3>1. kmap'[k] = timeOut /\ page'[k] = 0
      BY <1>1, <1>2, <2>2, KnockTypes
    <3> QED
      BY <3>1, KnockTypes
  <2>3. CASE Room /\ k # c
    <3>1. kmap'[k] = Cleaned[k] /\ page'[k] = page[k]
      BY <1>1, <1>2, <2>3, KnockTypes
    <3>2. CASE kmap[k] = timeOut - page[k]
      <4>1. page[k] \in 0..RefreshSeconds
        BY <1>7, <3>1, KnockTypes
      <4>2. ~(kmap[k] < 0)
        BY <3>2, <4>1, KnockTypes, RefreshType
      <4> QED
        BY <3>1, <3>2, <4>2 DEF Cleaned, Over
    <3>3. CASE Saturated
      BY <1>5, <3>3, KnockTypes, ClientsFinite DEF Saturated
    <3> QED
      BY <1>7, <3>1, <3>2, <3>3 DEF KnockInv, PagesKeep
  <2> QED
    BY <2>1, <2>2, <2>3
<1> QED
  BY <1>6, <1>7 DEF KnockInv, PagesKeep

LEMMA CheckFailsInv ==
  ASSUME KnockInv, NEW c \in Clients, CheckFails(c)
  PROVE  KnockInv'
<1>1. /\ c \in Entries /\ UNCHANGED <<page, repeated>> /\ kmap[c] <= 0
      /\ kmap' = [kmap EXCEPT ![c] = NoKnock]
      /\ countportknock' = NotBelowZero(countportknock - 1)
  BY DEF CheckFails, Entries
<1>2. Entries' = Entries \ {c}
  BY <1>1, KnockTypes DEF Entries, Known
<1>3. IsFiniteSet(Entries) /\ Cardinality(Entries) \in Nat
  BY ClientsFinite DEF Entries
<1>4. Cardinality(Entries') = Cardinality(Entries) - 1 /\ Cardinality(Entries) # 0
  BY <1>1, <1>2, <1>3, FS_RemoveElement, FS_EmptySet
<1>5. countportknock' = Cardinality(Entries') + repeated' /\ countportknock' \in 0..maxportknock
  BY <1>1, <1>3, <1>4, KnockTypes DEF NotBelowZero
<1>6. kmap' \in [Clients -> -1..timeOut \cup {NoKnock}]
  BY <1>1, KnockTypes
<1>7. OnlyRepeatsLeak'
  BY <1>1, <1>5, <1>6, KnockTypes DEF OnlyRepeatsLeak, KnockTypeOK
<1>8. ASSUME NEW k \in Clients, page[k] # NoPage, kmap[k] = timeOut - page[k]
      PROVE  k # c
  <2>1. page[k] \in 0..RefreshSeconds
    BY <1>8, KnockTypes
  <2> QED
    BY <1>1, <1>8, <2>1, KnockTypes, RefreshType
<1>9. PagesKeep'
  BY <1>1, <1>8, KnockTypes DEF KnockInv, PagesKeep, Saturated
<1> QED
  BY <1>7, <1>9 DEF KnockInv

LEMMA KnockTickInv ==
  ASSUME KnockInv, KnockTick
  PROVE  KnockInv'
<1>1. /\ \A c \in Clients : page[c] # NoPage => page[c] < RefreshSeconds
      /\ kmap' = [c \in Clients |->
                    IF Known(kmap, c) /\ kmap[c] >= 0 THEN kmap[c] - 1 ELSE kmap[c]]
      /\ page' = [c \in Clients |-> IF page[c] = NoPage THEN NoPage ELSE page[c] + 1]
      /\ UNCHANGED <<countportknock, repeated>>
  BY DEF KnockTick
<1>2. \A c \in Clients : /\ kmap'[c] \in -1..timeOut \cup {NoKnock}
                         /\ kmap'[c] = NoKnock <=> kmap[c] = NoKnock
  BY <1>1, KnockTypes DEF Known
<1>3. \A c \in Clients : page'[c] \in 0..RefreshSeconds \cup {NoPage}
  BY <1>1, KnockTypes, RefreshType
<1>4. /\ kmap' \in [Clients -> -1..timeOut \cup {NoKnock}]
      /\ page' \in [Clients -> 0..RefreshSeconds \cup {NoPage}]
  BY <1>1, <1>2, <1>3
<1>5. Entries' = Entries
  BY <1>2 DEF Entries, Known
<1>6. OnlyRepeatsLeak'
  BY <1>1, <1>4, <1>5, KnockTypes DEF OnlyRepeatsLeak, KnockTypeOK
<1>7. ASSUME NEW c \in Clients, page[c] # NoPage, kmap[c] = timeOut - page[c]
      PROVE  kmap'[c] = timeOut - page'[c]
  <2>1. page[c] \in Nat /\ page[c] < timeOut
    BY <1>7, KnockTypes, RefreshType
  <2>2. kmap[c] > 0 /\ kmap[c] \in Int
    BY <1>7, <2>1, KnockTypes
  <2> QED
    BY <1>1, <1>7, <2>1, <2>2, KnockTypes DEF Known
<1>8. PagesKeep'
  BY <1>1, <1>7 DEF KnockInv, PagesKeep, Saturated
<1> QED
  BY <1>6, <1>8 DEF KnockInv

LEMMA KnockNextInv ==
  ASSUME KnockInv, [KnockNext]_knockVars
  PROVE  KnockInv'
<1>1. ASSUME NEW c \in Clients, ClosePage(c) PROVE KnockInv'
  <2>1. UNCHANGED <<kmap, countportknock, repeated>> /\ page' = [page EXCEPT ![c] = NoPage]
    BY <1>1 DEF ClosePage
  <2>2. page' \in [Clients -> 0..RefreshSeconds \cup {NoPage}]
    BY <2>1, KnockTypes
  <2>3. \A k \in Clients : page'[k] # NoPage => page'[k] = page[k]
    BY <2>1, KnockTypes
  <2> QED
    BY <2>1, <2>2, <2>3 DEF KnockInv, OnlyRepeatsLeak, KnockTypeOK, PagesKeep, Saturated, Entries, Known
<1>2. CASE UNCHANGED knockVars
  BY <1>2 DEF knockVars, KnockInv, OnlyRepeatsLeak, KnockTypeOK, PagesKeep, Saturated, Entries, Known
<1> QED
  BY <1>1, <1>2, LoadInv, CheckFailsInv, KnockTickInv DEF KnockNext

LEMMA KnockInvariance == KnockSpec => []KnockInv
<1>1. KnockInit => KnockInv
  BY KnockInitInv
<1>2. KnockInv /\ [KnockNext]_knockVars => KnockInv'
  BY KnockNextInv
<1> QED
  BY <1>1, <1>2, PTL DEF KnockSpec

(* For any names, addresses and limit, the counter of ManagePortKnock is   *)
(* the number of entries and of the repeated knocks, which leave a place.  *)
THEOREM CountExact == KnockSpec => []OnlyRepeatsLeak
<1>1. KnockInv => OnlyRepeatsLeak
  BY DEF KnockInv
<1> QED
  BY <1>1, KnockInvariance, PTL

(* For any timeout of two seconds and more, an open page keeps its knock   *)
(* until the repeated knocks and the clients reach the limit.              *)
THEOREM OpenPageServes == KnockSpec => []OpenPageKeepsKnock
<1>1. KnockInv => OpenPageKeepsKnock
  <2> SUFFICES ASSUME KnockInv, NEW c \in Clients, page[c] # NoPage, kmap[c] = timeOut - page[c]
               PROVE  CheckPasses(c)
    BY DEF OpenPageKeepsKnock, KnockInv, PagesKeep, Saturated
  <2>1. page[c] \in Nat /\ page[c] < timeOut
    BY KnockTypes, RefreshType
  <2>2. kmap[c] \in Int /\ kmap[c] > 0
    BY <2>1, KnockTypes
  <2> QED
    BY <2>2, KnockTypes DEF CheckPasses, Known
<1> QED
  BY <1>1, KnockInvariance, PTL

-----------------------------------------------------------------------------
(* RateLog *)

(* Since the last pause, the HELO lines logged and those that may be. *)
HeloRunInv == sinceHelo <= intervalHeloLogging => heloRun + heloBurst <= 3

(* The ideal limiter has what the burst and the seconds that were not yet  *)
(* turned into lines are worth, or is full.                                *)
Credit == Seconds * burst + Lines * sinceLog
CreditInv == Exact => allowance >= LessOf(Credit, Full)

LogInv == LogTypeOK /\ HeloRunInv /\ CreditInv

(* Whole numbers: how far a quotient falls short, and products. *)
LEMMA QuotientFacts ==
  ASSUME NEW a \in Nat, NEW b \in Nat \ {0}
  PROVE  /\ a \div b \in Nat /\ (a \div b) * b <= a /\ a < (a \div b) * b + b
         /\ (a * b) \div b = a
OBVIOUS

LEMMA MultiplyMonotone ==
  ASSUME NEW a \in Nat, NEW b \in Nat, NEW c \in Nat, a <= b
  PROVE  a * c <= b * c /\ c * a <= c * b /\ a * c \in Nat /\ c * a \in Nat
OBVIOUS

LEMMA ProductNat == \A m, n \in Nat : m * n \in Nat
OBVIOUS

LEMMA LogNumbers ==
  ASSUME LogTypeOK
  PROVE  /\ Seconds \in Nat \ {0} /\ Lines \in Nat \ {0}
         /\ maxBurst \in Nat \ {0} /\ intervalHeloLogging \in Nat
         /\ Full \in Nat /\ MaxIdle \in Nat
         /\ Overdrawn = -1
<1>1. Seconds \in Nat \ {0} /\ Lines \in Nat \ {0}
  BY RateLogAssumption DEF LogTypeOK, Seconds, Lines
<1>2. maxBurst \in Nat \ {0} /\ intervalHeloLogging \in Nat
  BY RateLogAssumption DEF maxBurst, intervalHeloLogging, AtLeastOne
<1>3. Full \in Nat
  BY <1>1, <1>2 DEF Full
<1> QED
  BY <1>1, <1>2, <1>3, RateLogAssumption DEF Overdrawn

(* What a refill takes from the seconds. *)
LEMMA RefillFacts ==
  ASSUME LogTypeOK
  PROVE  /\ Refill \in Nat /\ Refilled \in 0..maxBurst /\ Refilled <= burst + Refill
         /\ SinceLogAfterRefill \in 0..sinceLog
         /\ Exact => /\ Seconds * Refill + Lines * SinceLogAfterRefill = Lines * sinceLog
                     /\ Lines * SinceLogAfterRefill <= Seconds
<1>1. /\ sinceLog \in Nat /\ burst \in Nat /\ burst <= maxBurst
      /\ Seconds \in Nat \ {0} /\ Lines \in Nat \ {0} /\ maxBurst \in Nat
  BY LogNumbers DEF LogTypeOK
<1> DEFINE s == sinceLog
           a == s * Lines
           r == a \div Seconds
           q == (r * Seconds) \div Lines
<1>2. Refill = r /\ SinceLogAfterRefill = s - q
  BY DEF Refill, SinceLogAfterRefill
<1>3. a \in Nat /\ r \in Nat /\ r * Seconds \in Nat /\ r * Seconds <= a /\ a < r * Seconds + Seconds
  <2>1. a \in Nat
    BY <1>1, MultiplyMonotone
  <2> HIDE DEF a
  <2>2. r \in Nat /\ r * Seconds <= a /\ a < r * Seconds + Seconds
    BY <1>1, <2>1, QuotientFacts
  <2>3. r * Seconds \in Nat
    BY <1>1, <2>2, MultiplyMonotone
  <2> QED
    BY <2>1, <2>2, <2>3
<1>4. q \in Nat /\ q <= s
  <2>1. q \in Nat /\ q * Lines <= r * Seconds
    BY <1>1, <1>3, QuotientFacts
  <2>2. q * Lines <= s * Lines
    <3>1. q * Lines \in Nat
      BY <1>1, <2>1, MultiplyMonotone
    <3> QED
      BY <1>3, <2>1, <3>1
  <2>3. ASSUME q > s PROVE FALSE
    <3>1. q >= s + 1 /\ s + 1 \in Nat
      BY <1>1, <2>1, <2>3
    <3>2. (s + 1) * Lines <= q * Lines
      BY <1>1, <2>1, <3>1, MultiplyMonotone
    <3>3. (s + 1) * Lines = s * Lines + Lines
      BY <1>1
    <3> HIDE DEF q
    <3> QED
      BY <1>1, <1>3, <2>1, <2>2, <3>2, <3>3, MultiplyMonotone
  <2> HIDE DEF q
  <2> QED
    BY <1>1, <2>1, <2>3
<1>5. ASSUME Seconds = 1 PROVE r = a /\ q = s
  <2>1. r = a
    BY <1>3, <1>5
  <2>2. r * Seconds = s * Lines
    BY <1>3, <1>5, <2>1
  <2> QED
    BY <1>1, <2>1, <2>2, QuotientFacts
<1>6. ASSUME Lines = 1 PROVE a = s /\ q = r * Seconds
  BY <1>1, <1>3, <1>6
<1>7. Exact => /\ Seconds * r + Lines * (s - q) = Lines * s
               /\ Lines * (s - q) <= Seconds
  <2>1. CASE Seconds = 1
    <3>1. s - q = 0 /\ Lines * (s - q) = 0
      BY <1>1, <1>5, <2>1
    <3>2. Seconds * r = Lines * s
      BY <1>1, <1>5, <2>1
    <3>3. Lines * s \in Nat
      BY <1>1, MultiplyMonotone
    <3> QED
      BY <1>1, <3>1, <3>2, <3>3
  <2>2. CASE Lines = 1
    <3>1. Lines * (s - q) = s - r * Seconds /\ Lines * s = s
      BY <1>1, <1>3, <1>6, <2>2
    <3>2. Seconds * r = r * Seconds
      BY <1>1, <1>3
    <3>3. s < r * Seconds + Seconds
      BY <1>3, <1>6, <2>2
    <3> HIDE DEF r, q, s
    <3> DEFINE p == r * Seconds
    <3>4. p \in Nat /\ s < p + Seconds /\ Lines * (s - q) = s - p /\ Seconds * r = p /\ Lines * s = s
      BY <1>3, <3>1, <3>2, <3>3
    <3>5. s \in Nat
      BY <1>1 DEF s
    <3> HIDE DEF p
    <3> QED
      BY <1>1, <3>4, <3>5
  <2> QED
    BY <2>1, <2>2 DEF Exact
<1> HIDE DEF r, q, s, a
<1>8. Refilled \in 0..maxBurst /\ Refilled <= burst + r
  BY <1>1, <1>2, <1>3 DEF Refilled, LessOf
<1> QED
  BY <1>1, <1>2, <1>3, <1>4, <1>7, <1>8 DEF s

(* A line costs the ideal limiter what it costs the burst. *)
LogOrNot ==
  /\ sinceLog' = SinceLogAfterRefill
  /\ (Refilled > 0 /\ LogLine) \/ Suppress
  /\ UNCHANGED <<program, interval>>

LEMMA CreditStep ==
  ASSUME LogInv, LogOrNot
  PROVE  /\ CreditInv' /\ sinceLog' \in 0..MaxIdle /\ burst' \in 0..maxBurst
         /\ allowance' \in Overdrawn..Full
<1>1. /\ Seconds \in Nat \ {0} /\ Lines \in Nat \ {0} /\ maxBurst \in Nat \ {0} /\ Full \in Nat
      /\ MaxIdle \in Nat /\ Overdrawn = -1
      /\ sinceLog \in Nat /\ sinceLog <= MaxIdle /\ burst \in 0..maxBurst
      /\ allowance \in Overdrawn..Full
  BY LogNumbers DEF LogInv, LogTypeOK
<1>2. /\ Refill \in Nat /\ Refilled \in 0..maxBurst /\ Refilled <= burst + Refill
      /\ sinceLog' \in 0..sinceLog
      /\ Exact => /\ Seconds * Refill + Lines * sinceLog' = Lines * sinceLog
                  /\ Lines * sinceLog' <= Seconds
  BY RefillFacts DEF LogInv, LogOrNot
<1>3. /\ burst' = Refilled \/ (Refilled > 0 /\ burst' = Refilled - 1)
      /\ Seconds' = Seconds /\ Lines' = Lines /\ Full' = Full /\ (Exact' <=> Exact)
      /\ Credit' = Seconds * burst' + Lines * sinceLog'
  BY DEF LogOrNot, LogLine, Suppress, Seconds, Lines, Full, maxBurst, Exact, Credit
<1>4. sinceLog' \in 0..MaxIdle /\ burst' \in 0..maxBurst
  BY <1>1, <1>2, <1>3
<1>5. /\ Suppress => allowance' = allowance /\ burst' = Refilled
      /\ LogLine => /\ burst' = Refilled - 1
                    /\ allowance' = IF allowance < Seconds THEN Overdrawn ELSE allowance - Seconds
  BY DEF LogLine, Suppress
<1>6. allowance' \in Overdrawn..Full
  BY <1>1, <1>5 DEF LogOrNot
<1>7. CreditInv'
  <2> SUFFICES ASSUME Exact PROVE allowance' >= LessOf(Credit', Full)
    BY <1>3 DEF CreditInv
  <2> DEFINE x == Seconds * Refilled
             y == Lines * sinceLog'
             c == Seconds * burst + Lines * sinceLog
  <2>1. x \in Nat /\ y \in Nat /\ c \in Nat /\ x + y <= c /\ y <= Seconds
    <3>1. x \in Nat /\ x <= Seconds * (burst + Refill)
      BY <1>1, <1>2, MultiplyMonotone
    <3>2. Seconds * (burst + Refill) = Seconds * burst + Seconds * Refill
      BY <1>1, <1>2
    <3>3. y \in Nat /\ Seconds * burst \in Nat /\ Seconds * Refill \in Nat /\ Lines * sinceLog \in Nat
      <4>1. /\ Seconds \in Nat /\ Lines \in Nat /\ burst \in Nat /\ Refill \in Nat
            /\ sinceLog \in Nat /\ sinceLog' \in Nat
        BY <1>1, <1>2
      <4> QED
        BY <4>1, ProductNat
    <3> HIDE DEF x
    <3>4. Seconds * Refill + y = Lines * sinceLog /\ y <= Seconds
      BY <1>2
    <3> HIDE DEF y
    <3> QED
      BY <3>1, <3>2, <3>3, <3>4, <1>1
  <2>2. /\ Full = Seconds * maxBurst + Seconds /\ x <= Seconds * maxBurst
        /\ Seconds * maxBurst \in Nat
        /\ Refilled > 0 => Seconds * (Refilled - 1) = x - Seconds /\ x >= Seconds
    <3>1. Full = Seconds * maxBurst + Seconds
      BY <1>1 DEF Full
    <3>2. x <= Seconds * maxBurst /\ Seconds * maxBurst \in Nat
      BY <1>1, <1>2, MultiplyMonotone
    <3>3. ASSUME Refilled > 0 PROVE Seconds * (Refilled - 1) = x - Seconds /\ x >= Seconds
      <4>1. Seconds * (Refilled - 1) = x - Seconds
        BY <1>1, <1>2
      <4>2. Seconds * (Refilled - 1) \in Nat
        <5>1. Refilled - 1 \in Nat
          BY <1>2, <3>3
        <5> QED
          BY <1>1, <5>1, MultiplyMonotone
      <4> HIDE DEF x
      <4> QED
        BY <1>1, <2>1, <4>1, <4>2
    <3> QED
      BY <3>1, <3>2, <3>3
  <2>3. allowance >= c \/ allowance >= Full
    BY <1>1, <2>1 DEF LogInv, CreditInv, LessOf, Credit
  <2>4. CASE Suppress
    <3>1. Credit' = x + y /\ allowance' = allowance
      BY <1>3, <1>5, <2>4
    <3> HIDE DEF x, y, c
    <3> QED
      BY <1>1, <2>1, <2>3, <3>1 DEF LessOf
  <2>5. CASE Refilled > 0 /\ LogLine
    <3>1. Credit' = (x - Seconds) + y
      BY <1>3, <1>5, <2>2, <2>5
    <3>2. allowance' = IF allowance < Seconds THEN Overdrawn ELSE allowance - Seconds
      BY <1>5, <2>5
    <3> DEFINE m == Seconds * maxBurst
    <3>3. Full = m + Seconds /\ x <= m /\ m \in Nat /\ x >= Seconds
      BY <2>2, <2>5
    <3> HIDE DEF x, y, c, m
    <3> QED
      BY <1>1, <2>1, <2>3, <3>1, <3>2, <3>3 DEF LessOf
  <2> QED
    BY <2>4, <2>5 DEF LogOrNot
<1> QED
  BY <1>4, <1>6, <1>7

LEMMA LogOtherInv ==
  ASSUME LogInv, LogOther
  PROVE  LogInv'
<1>1. /\ LogOrNot
      /\ UNCHANGED <<program, interval, sinceHelo, heloBurst, heloRun>>
  BY DEF LogOther, LogOrNot
<1>2. maxBurst' = maxBurst /\ intervalHeloLogging' = intervalHeloLogging /\ Full' = Full
  BY <1>1 DEF maxBurst, intervalHeloLogging, Full, Seconds
<1>3. LogTypeOK'
  BY <1>1, <1>2, CreditStep DEF LogInv, LogTypeOK
<1>4. HeloRunInv'
  BY <1>1, <1>2 DEF LogInv, HeloRunInv
<1> QED
  BY <1>1, <1>3, <1>4, CreditStep DEF LogInv

LEMMA LogHeloInv ==
  ASSUME LogInv, LogHelo
  PROVE  LogInv'
<1>1. LogOrNot
  BY DEF LogHelo, LogOrNot
<1>2. maxBurst' = maxBurst /\ intervalHeloLogging' = intervalHeloLogging /\ Full' = Full
      /\ program' = program /\ interval' = interval
  BY <1>1 DEF maxBurst, intervalHeloLogging, Full, Seconds, LogOrNot
<1>3. /\ sinceHelo \in 0..(intervalHeloLogging + 1) /\ heloBurst \in 0..3 /\ heloRun \in 0..3
      /\ intervalHeloLogging \in Nat
      /\ sinceHelo <= intervalHeloLogging => heloRun + heloBurst <= 3
  BY LogNumbers DEF LogInv, LogTypeOK, HeloRunInv
<1>4. NewHeloBurst \in 1..3 /\ (sinceHelo <= intervalHeloLogging => NewHeloBurst = heloBurst)
  BY <1>3 DEF LogHelo, NewHeloBurst, LessOf
<1>5. \/ /\ heloBurst' = NewHeloBurst - 1 /\ sinceHelo' = 0
         /\ heloRun' = IF sinceHelo > intervalHeloLogging THEN 1 ELSE LessOf(heloRun + 1, RunCap)
      \/ /\ heloBurst' = NewHeloBurst
         /\ UNCHANGED <<sinceHelo, heloRun>>
  BY DEF LogHelo
<1>6. /\ sinceHelo' \in 0..(intervalHeloLogging + 1) /\ heloBurst' \in 0..3 /\ heloRun' \in 0..3
      /\ sinceHelo' <= intervalHeloLogging => heloRun' + heloBurst' <= 3
  BY <1>3, <1>4, <1>5 DEF LessOf, RunCap
<1>7. LogTypeOK'
  BY <1>1, <1>2, <1>6, CreditStep DEF LogInv, LogTypeOK
<1> QED
  BY <1>1, <1>2, <1>6, <1>7, CreditStep DEF LogInv, HeloRunInv

LEMMA LogTickInv ==
  ASSUME LogInv, LogTick
  PROVE  LogInv'
<1>1. /\ sinceLog < MaxIdle /\ sinceLog' = sinceLog + 1
      /\ sinceHelo' = LessOf(sinceHelo + 1, intervalHeloLogging + 1)
      /\ allowance' = IF allowance = Overdrawn THEN Overdrawn ELSE LessOf(allowance + Lines, Full)
      /\ UNCHANGED <<program, interval, burst, heloBurst, heloRun>>
  BY DEF LogTick
<1>2. /\ Seconds \in Nat \ {0} /\ Lines \in Nat \ {0} /\ Full \in Nat /\ MaxIdle \in Nat
      /\ Overdrawn = -1 /\ intervalHeloLogging \in Nat /\ maxBurst \in Nat
      /\ sinceLog \in Nat /\ burst \in 0..maxBurst /\ allowance \in Overdrawn..Full
      /\ sinceHelo \in 0..(intervalHeloLogging + 1)
  BY LogNumbers DEF LogInv, LogTypeOK
<1>3. /\ maxBurst' = maxBurst /\ intervalHeloLogging' = intervalHeloLogging /\ Full' = Full
      /\ Seconds' = Seconds /\ Lines' = Lines /\ (Exact' <=> Exact)
      /\ Credit' = Seconds * burst + Lines * (sinceLog + 1)
  BY <1>1 DEF maxBurst, intervalHeloLogging, Full, Seconds, Lines, Exact, Credit
<1>4. /\ sinceLog' \in 0..MaxIdle /\ allowance' \in Overdrawn..Full
      /\ sinceHelo' \in 0..(intervalHeloLogging + 1)
      /\ sinceHelo' <= intervalHeloLogging => sinceHelo <= intervalHeloLogging
  BY <1>1, <1>2 DEF LessOf
<1>5. LogTypeOK'
  BY <1>1, <1>3, <1>4 DEF LogInv, LogTypeOK
<1>6. HeloRunInv'
  BY <1>1, <1>3, <1>4 DEF LogInv, HeloRunInv
<1>7. CreditInv'
  <2> SUFFICES ASSUME Exact PROVE allowance' >= LessOf(Credit', Full)
    BY <1>3 DEF CreditInv
  <2>1. Credit \in Nat /\ Credit' = Credit + Lines
    <3>1. Seconds * burst \in Nat /\ Lines * sinceLog \in Nat
      BY <1>2, MultiplyMonotone
    <3>2. Lines * (sinceLog + 1) = Lines * sinceLog + Lines
      BY <1>2
    <3> QED
      BY <1>2, <1>3, <3>1, <3>2 DEF Credit
  <2>2. allowance >= LessOf(Credit, Full)
    BY DEF LogInv, CreditInv
  <2> QED
    BY <1>1, <1>2, <2>1, <2>2 DEF LessOf
<1> QED
  BY <1>5, <1>6, <1>7 DEF LogInv

LEMMA LogInitInv == LogInit => LogInv
<1> SUFFICES ASSUME LogInit PROVE LogInv
  OBVIOUS
<1>1. /\ program \in Programs /\ interval \in Intervals
      /\ sinceLog = 0 /\ burst = maxBurst
      /\ sinceHelo = intervalHeloLogging + 1 /\ heloBurst = 0
      /\ allowance = Full /\ heloRun = 0
  BY DEF LogInit
<1>2. Seconds \in Nat \ {0} /\ Lines \in Nat \ {0}
  BY <1>1, RateLogAssumption DEF Seconds, Lines
<1>3. maxBurst \in Nat \ {0} /\ intervalHeloLogging \in Nat /\ MaxIdle \in Nat
  BY RateLogAssumption DEF maxBurst, intervalHeloLogging, AtLeastOne
<1>4. Full \in Nat
  BY <1>2, <1>3 DEF Full
<1>5. LogTypeOK
  BY <1>1, <1>3, <1>4 DEF LogTypeOK, Overdrawn
<1>6. Credit \in Nat
  <2>1. Seconds * burst \in Nat /\ Lines * sinceLog \in Nat
    BY <1>1, <1>2, <1>3, MultiplyMonotone
  <2> QED
    BY <2>1 DEF Credit
<1> QED
  BY <1>1, <1>3, <1>4, <1>5, <1>6 DEF LogInv, HeloRunInv, CreditInv, LessOf

LEMMA LogNextInv ==
  ASSUME LogInv, [LogNext]_logVars
  PROVE  LogInv'
<1>1. CASE UNCHANGED logVars
  BY <1>1 DEF logVars, LogInv, LogTypeOK, HeloRunInv, CreditInv, Credit, Exact, Full, Seconds, Lines,
              maxBurst, intervalHeloLogging
<1> QED
  BY <1>1, LogOtherInv, LogHeloInv, LogTickInv DEF LogNext

LEMMA LogInvariance == LogSpec => []LogInv
<1>1. LogInit => LogInv
  BY LogInitInv
<1>2. LogInv /\ [LogNext]_logVars => LogInv'
  BY LogNextInv
<1> QED
  BY <1>1, <1>2, PTL DEF LogSpec

(* The bursts stay within their limits, and HELO lines that come without a *)
(* pause are three at most.                                                *)
THEOREM LogTypeCorrect == LogSpec => []LogTypeOK
<1>1. LogInv => LogTypeOK
  BY DEF LogInv
<1> QED
  BY <1>1, LogInvariance, PTL

(* For any whole interval or one over a whole number, any burst and any    *)
(* pauses, no more is logged than the interval earns and the burst and one *)
(* line more.                                                              *)
THEOREM LogBounded == LogSpec => []LinesBounded
<1>1. LogInv => LinesBounded
  <2> SUFFICES ASSUME LogInv, Exact PROVE allowance # Overdrawn
    BY DEF LinesBounded
  <2>1. Seconds * burst \in Nat /\ Lines * sinceLog \in Nat
    BY LogNumbers, MultiplyMonotone DEF LogInv, LogTypeOK
  <2>2. Credit \in Nat /\ Full \in Nat /\ allowance >= LessOf(Credit, Full) /\ Overdrawn = -1
    BY <2>1, LogNumbers DEF Credit, LogInv, CreditInv
  <2> QED
    BY <2>2 DEF LessOf
<1> QED
  BY <1>1, LogInvariance, PTL

-----------------------------------------------------------------------------
(* TcpHalf *)

(* Until a half ends, a byte is in the socket, in the buffer or written.   *)
BytesInv ==
  \A h \in Halves :
    /\ pc[h] \in {"start", "first"} => buf[h] = 0
    /\ ~Ended(h) => sent[h] = arrived[h] + buf[h] + written[h]

(* With a timeout of more than a second, bytes that wait for a reader make *)
(* it due at the first tick after the deadline was set, and at most one    *)
(* tick has found them waiting from then on.                               *)
Prompt(h) ==
  pc[h] = "first" =>
    /\ deadline[h] < SecondsTimeout /\ waiting[h] >= 1 => h \in due
    /\ deadline[h] <= SecondsTimeout - 2 => waiting[h] <= 1

LateInv == SecondsTimeout > 1 => \A h \in Halves : Prompt(h)

HalfInv == HalfTypeOK /\ BytesInv /\ LateInv

(* What BytesInv and the bounds of the bytes say of one half. *)
HalfCounts(h) ==
  /\ sent[h] \in 0..MaxBytes /\ arrived[h] \in 0..MaxBytes
  /\ buf[h] \in 0..MaxBytes /\ written[h] \in 0..MaxBytes
  /\ pc[h] \in {"start", "first"} => buf[h] = 0
  /\ ~Ended(h) => sent[h] = arrived[h] + buf[h] + written[h]

HalfTimes ==
  /\ pc \in [Halves -> {"start", "first", "second", "write", "done", "failed"}]
  /\ closed \in [Halves -> BOOLEAN]
  /\ deadline \in [Halves -> 0..SecondsTimeout \cup {NoDeadline}]
  /\ idle \in 0..IdleCap
  /\ due \subseteq Halves
  /\ waiting \in [Halves -> 0..WaitingCap]
  /\ \A h \in Halves : pc[h] = "first" => deadline[h] # NoDeadline
  /\ \A h \in Halves : pc[h] \in {"second", "write"} => deadline[h] = NoDeadline

HalfFunctions ==
  /\ DOMAIN sent = Halves /\ sent = [h \in Halves |-> sent[h]]
  /\ DOMAIN arrived = Halves /\ arrived = [h \in Halves |-> arrived[h]]
  /\ DOMAIN buf = Halves /\ buf = [h \in Halves |-> buf[h]]
  /\ DOMAIN written = Halves /\ written = [h \in Halves |-> written[h]]

(* HalfInv, half by half. *)
LEMMA HalfParts ==
  HalfInv <=> /\ HalfTimes /\ HalfFunctions /\ LateInv
              /\ \A h \in Halves : HalfCounts(h)
BY DEF HalfInv, HalfTypeOK, BytesInv, HalfTimes, HalfFunctions, HalfCounts

LEMMA HalfInitInv == HalfInit => HalfInv
BY HalfAssumption DEF HalfInit, HalfInv, HalfTypeOK, BytesInv, LateInv, Prompt, IdleCap, WaitingCap, Halves

LEMMA HalfStepInv ==
  ASSUME HalfInv, NEW h \in Halves, Step(h) \/ PeerSends(h) \/ PeerCloses(h)
  PROVE  HalfInv'
<1> SUFFICES HalfTimes' /\ HalfFunctions' /\ LateInv' /\ \A k \in Halves : HalfCounts(k)'
  BY HalfParts DEF HalfInv, HalfTypeOK, BytesInv, HalfTimes, HalfFunctions, HalfCounts, Ended
<1>1. HalfTimes /\ HalfFunctions /\ LateInv /\ \A k \in Halves : HalfCounts(k)
  BY HalfParts
<1>2. HalfTimes'
  <2> USE DEF HalfTimes, To, DataReceived, SetReadDeadline, ClearReadDeadline, peerVars, clockVars
  <2>1. SecondsTimeout \in 0..SecondsTimeout /\ 0 \in 0..IdleCap
        /\ SecondsTimeout # NoDeadline
    BY HalfAssumption DEF IdleCap
  <2>2. CASE Start(h)
    BY <1>1, <2>1, <2>2 DEF Start
  <2>3. CASE ReadFirst(h)
    BY <1>1, <2>1, <2>3 DEF ReadFirst
  <2>4. CASE ReadFails(h)
    BY <1>1, <2>1, <2>4 DEF ReadFails
  <2>5. CASE ReadSecond(h)
    BY <1>1, <2>1, <2>5 DEF ReadSecond
  <2>6. CASE Write(h)
    BY <1>1, <2>1, <2>6 DEF Write
  <2>7. CASE WriteFails(h)
    BY <1>1, <2>1, <2>7 DEF WriteFails
  <2>8. CASE PeerSends(h) \/ PeerCloses(h)
    BY <1>1, <2>1, <2>8 DEF PeerSends, PeerCloses
  <2> QED
    BY <2>2, <2>3, <2>4, <2>5, <2>6, <2>7, <2>8 DEF Step
<1>3. HalfFunctions'
  BY <1>1 DEF HalfFunctions, Step, Start, ReadFirst, ReadFails, ReadSecond, Write,
     WriteFails, PeerSends, PeerCloses, peerVars
<1>4. ASSUME NEW k \in Halves PROVE HalfCounts(k)'
  <2>1. CASE k # h
    BY <1>1, <2>1 DEF HalfTimes, HalfFunctions, HalfCounts, Step, Start, ReadFirst, ReadFails,
       ReadSecond, Write, WriteFails, PeerSends, PeerCloses, To, peerVars, Ended
  <2>2. CASE k = h
    BY <1>1, <2>2, HalfAssumption DEF HalfTimes, HalfFunctions, HalfCounts, Step, Start, ReadFirst, ReadFails,
       ReadSecond, Write, WriteFails, PeerSends, PeerCloses, To, peerVars, Ended, Output, MayReadSecond
  <2> QED
    BY <2>1, <2>2
<1>5. ASSUME SecondsTimeout > 1, NEW k \in Halves PROVE Prompt(k)'
  <2>1. Prompt(k) /\ pc \in [Halves -> {"start", "first", "second", "write", "done", "failed"}]
        /\ deadline \in [Halves -> 0..SecondsTimeout \cup {NoDeadline}]
    BY <1>1, <1>5 DEF LateInv, HalfTimes
  <2>2. waiting' = waiting
    BY DEF Step, Start, ReadFirst, ReadFails, ReadSecond, Write, WriteFails, PeerSends, PeerCloses, clockVars
  <2>3. CASE k # h
    <3>1. pc'[k] = pc[k] /\ deadline'[k] = deadline[k] /\ (k \in due => k \in due')
      BY <2>1, <2>3 DEF Step, Start, ReadFirst, ReadFails, ReadSecond, Write, WriteFails, PeerSends,
         PeerCloses, To, SetReadDeadline, ClearReadDeadline, clockVars
    <3> QED
      BY <2>1, <2>2, <3>1 DEF Prompt
  <2>4. CASE k = h /\ (Start(h) \/ Write(h))
    <3>1. deadline'[k] = SecondsTimeout
      BY <2>1, <2>4 DEF Start, Write, SetReadDeadline
    <3> QED
      BY <3>1, HalfAssumption DEF Prompt
  <2>5. CASE k = h /\ (ReadFirst(h) \/ ReadFails(h) \/ ReadSecond(h) \/ WriteFails(h))
    <3>1. pc'[k] # "first"
      BY <2>1, <2>5 DEF ReadFirst, ReadFails, ReadSecond, WriteFails, To
    <3> QED
      BY <3>1 DEF Prompt
  <2>6. CASE PeerSends(h) \/ PeerCloses(h)
    <3>1. UNCHANGED <<pc, deadline, due>>
      BY <2>6 DEF PeerSends, PeerCloses, clockVars
    <3> QED
      BY <2>1, <2>2, <3>1 DEF Prompt
  <2> QED
    BY <2>3, <2>4, <2>5, <2>6 DEF Step
<1>6. LateInv'
  BY <1>5 DEF LateInv
<1> QED
  BY <1>2, <1>3, <1>4, <1>6

LEMMA HalfTickInv ==
  ASSUME HalfInv, HalfTick
  PROVE  HalfInv'
<1>1. HalfTimes /\ HalfFunctions /\ LateInv /\ \A k \in Halves : HalfCounts(k)
  BY HalfParts
<1>2. /\ idle' = IF idle = IdleCap THEN IdleCap ELSE idle + 1
      /\ deadline' = [h \in Halves |->
                        IF deadline[h] = NoDeadline THEN NoDeadline
                        ELSE IF deadline[h] > 0 THEN deadline[h] - 1 ELSE 0]
      /\ UNCHANGED <<pc, sent, closed, arrived, buf, written>>
  BY DEF HalfTick, peerVars
<1>3. idle' \in 0..IdleCap
  BY <1>1, <1>2, HalfAssumption DEF HalfTimes, IdleCap
<1>4. \A h \in Halves : /\ deadline'[h] \in 0..SecondsTimeout \cup {NoDeadline}
                        /\ deadline'[h] = NoDeadline <=> deadline[h] = NoDeadline
  BY <1>1, <1>2, HalfAssumption DEF HalfTimes
<1>5. HalfTimes'
  <2>1. deadline' \in [Halves -> 0..SecondsTimeout \cup {NoDeadline}]
    BY <1>2, <1>4
  <2>2. due' \subseteq Halves
    BY DEF HalfTick
  <2>3. waiting' \in [Halves -> 0..WaitingCap]
    BY <1>1 DEF HalfTimes, HalfTick, WaitingCap
  <2> QED
    BY <1>1, <1>2, <1>3, <1>4, <2>1, <2>2, <2>3 DEF HalfTimes
<1>6. ASSUME SecondsTimeout > 1, NEW h \in Halves, pc'[h] = "first" PROVE Prompt(h)'
  <2>1. pc[h] = "first" /\ deadline[h] \in 1..SecondsTimeout /\ deadline'[h] = deadline[h] - 1
    <3>1. pc[h] = "first" /\ deadline[h] > 0 /\ deadline[h] # NoDeadline
      BY <1>1, <1>2, <1>6 DEF HalfTick, HalfTimes
    <3>2. deadline[h] \in 0..SecondsTimeout
      BY <1>1, <3>1 DEF HalfTimes
    <3> QED
      BY <1>2, <3>1, <3>2, HalfAssumption
  <2>2. waiting[h] \in 0..2 /\ due = {} /\ (h \in due' <=> arrived[h] > 0)
        /\ waiting'[h] = IF arrived[h] = 0 THEN 0 ELSE IF waiting[h] = 2 THEN 2 ELSE waiting[h] + 1
    BY <1>1, <2>1 DEF HalfTimes, HalfTick, WaitingCap
  <2>3. arrived[h] \in Nat
    BY <1>1 DEF HalfCounts
  <2>4. deadline[h] < SecondsTimeout => waiting[h] = 0
    BY <1>1, <1>6, <2>1, <2>2 DEF LateInv, Prompt
  <2> QED
    BY <2>1, <2>2, <2>3, <2>4, <1>6, HalfAssumption DEF Prompt
<1>7. LateInv'
  BY <1>6 DEF LateInv, Prompt
<1> QED
  BY <1>2, <1>5, <1>7 DEF HalfInv, HalfTypeOK, BytesInv, HalfTimes, Ended

LEMMA HalfNextInv ==
  ASSUME HalfInv, [HalfNext]_halfVars
  PROVE  HalfInv'
<1>1. CASE UNCHANGED halfVars
  BY <1>1 DEF halfVars, peerVars, clockVars, HalfInv, HalfTypeOK, BytesInv, LateInv, Prompt, Ended
<1> QED
  BY <1>1, HalfStepInv, HalfTickInv DEF HalfNext

LEMMA HalfInvariance == HalfSpec => []HalfInv
<1>1. HalfInit => HalfInv
  BY HalfInitInv
<1>2. HalfInv /\ [HalfNext]_halfVars => HalfInv'
  BY HalfNextInv
<1> QED
  BY <1>1, <1>2, PTL DEF HalfSpec

(* The bytes, deadlines and TCPTimeout keep their types, and a deadline is *)
(* set exactly while the first byte is awaited.                            *)
THEOREM HalfTypeCorrect == HalfSpec => []HalfTypeOK
<1>1. HalfInv => HalfTypeOK
  BY DEF HalfInv
<1> QED
  BY <1>1, HalfInvariance, PTL

(* For any timeout and any number of bytes: a half whose read fails has    *)
(* written all that it read, and what it leaves behind in the socket came  *)
(* within the last second before the deadline it failed at.                *)
THEOREM LossBounded == HalfSpec => LosesOnlyAtDeadline
<1>1. ASSUME HalfInv, [HalfNext]_halfVars, NEW h \in Halves, pc[h] # "done", pc'[h] = "done"
      PROVE  /\ written[h] + arrived[h] = sent[h]
             /\ arrived[h] > 0 => deadline[h] = 0 /\ (SecondsTimeout > 1 => waiting[h] <= 1)
  <2>1. ReadFails(h)
    <3>1. pc' # pc /\ HalfNext
      BY <1>1 DEF halfVars
    <3>2. ~HalfTick
      BY <3>1 DEF HalfTick
    <3>3. PICK k \in Halves : Step(k) \/ PeerSends(k) \/ PeerCloses(k)
      BY <3>1, <3>2 DEF HalfNext
    <3>4. ReadFails(k)
      BY <1>1, <3>1, <3>3 DEF HalfInv, HalfTypeOK, Step, Start, ReadFirst, ReadSecond, Write,
         WriteFails, PeerSends, PeerCloses, To
    <3>5. k = h
      BY <1>1, <3>4 DEF HalfInv, HalfTypeOK, ReadFails, To
    <3> QED
      BY <3>4, <3>5
  <2>2. pc[h] = "first" /\ (arrived[h] = 0 \/ deadline[h] = 0)
    BY <2>1 DEF ReadFails
  <2>3. HalfCounts(h)
    BY <1>1, HalfParts
  <2>4. written[h] + arrived[h] = sent[h]
    BY <2>2, <2>3, HalfAssumption DEF HalfCounts, Ended
  <2>5. ASSUME arrived[h] > 0 PROVE deadline[h] = 0
    BY <2>2, <2>3, <2>5 DEF HalfCounts
  <2>6. ASSUME arrived[h] > 0, SecondsTimeout > 1 PROVE waiting[h] <= 1
    <3>1. Prompt(h) /\ deadline[h] = 0
      BY <1>1, <2>5, <2>6 DEF HalfInv, LateInv
    <3> QED
      BY <2>2, <2>6, <3>1, HalfAssumption DEF Prompt
  <2> QED
    BY <2>4, <2>5, <2>6
<1>2. HalfInv /\ [HalfNext]_halfVars =>
        [\A h \in Halves : pc[h] # "done" /\ pc'[h] = "done" =>
           /\ written[h] + arrived[h] = sent[h]
           /\ arrived[h] > 0 => deadline[h] = 0 /\ (SecondsTimeout > 1 => waiting[h] <= 1)]_halfVars
  BY <1>1
<1> QED
  BY <1>2, HalfInvariance, PTL DEF HalfSpec, LosesOnlyAtDeadline
=============================================================================
