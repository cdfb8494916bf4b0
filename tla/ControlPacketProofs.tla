-------------------------- MODULE ControlPacketProofs --------------------------
(***************************************************************************)
(* Proofs about ControlPacket, for any width of the low word of the time,  *)
(* 2^32 too, any tolerance and any delay, as long as a packet does not     *)
(* live as long as the word takes to wrap around.  The inductive invariant *)
(* says what a packet is, for whom it is and how far the clocks are apart. *)
(***************************************************************************)
EXTENDS ControlPacket, FiniteSetTheorems, TLAPS

UdpKinds == {"udpHelo", "udpAnswer"}
TcpKinds == {"tcpHelo", "tcpAnswer", "call", "key"}

(* What the programs put into a packet, by its kind. *)
Exts(kind) == IF kind \in UdpKinds THEN {Plain} ELSE {Padded(0), Padded(1)}
Sealed(id, t, ext, dir) == EncodeControlPacket(Decoded(id, ext), dir, t, FALSE)

Skew == MaxOffset + MaxUnixTimeDiff

PacketOk(m) ==
  /\ m = [kind |-> m.kind, e |-> m.e, sentAt |-> m.sentAt, key |-> m.key, age |-> m.age]
  /\ m.kind \in UdpKinds \cup TcpKinds
  /\ m.age \in 0..MaxAge
  /\ m.sentAt \in Int
  /\ \E id \in {0, 1}, ext \in Exts(m.kind) :
       /\ m.e = Sealed(id, m.sentAt, ext, m.kind \in ToOutside)
       /\ m.kind \in {"call", "key"} => m.key = Sealed(id, m.sentAt, ext, TRUE)
  /\ Clock(m.kind) - m.sentAt \in (-Skew)..(Skew + m.age)

IInv ==
  /\ now \in FirstTime..LastTime /\ offset \in -MaxOffset..MaxOffset
  /\ IsFiniteSet(net) /\ Cardinality(net) <= MaxInFlight
  /\ \A m \in net : PacketOk(m)

-----------------------------------------------------------------------------
(* The word of the time. *)

LEMMA Numbers ==
  /\ Word \in Nat \ {0} /\ MaxUnixTimeDiff \in Nat /\ MaxOffset \in Nat /\ MaxAge \in Nat
  /\ MaxInFlight \in Nat /\ FirstTime \in Nat /\ LastTime \in Nat /\ FirstTime <= LastTime
  /\ Skew \in Nat /\ Skew = MaxOffset + MaxUnixTimeDiff
  /\ Skew + MaxAge + MaxUnixTimeDiff < Word
  BY ControlPacketAssumption DEF Skew

LEMMA Multiple ==
  ASSUME NEW w \in Nat \ {0}, NEW k \in Int, w * k < w, w * k > -w
  PROVE  k = 0
<1>1. k >= 1 => w * k >= w
  OBVIOUS
<1>2. k <= -1 => w * k <= -w
  OBVIOUS
<1> QED
  BY <1>1, <1>2

LEMMA DivMod ==
  ASSUME NEW w \in Nat \ {0}, NEW a \in Int
  PROVE  /\ a % w \in 0..(w - 1) /\ a \div w \in Int
         /\ a = (a % w) + w * (a \div w)
  OBVIOUS

(* What was completed to a full time has the same low word. *)
LEMMA LowWord ==
  ASSUME NEW w \in Nat \ {0}, NEW q \in Int, NEW r \in 0..(w - 1)
  PROVE  (r + w * q) % w = r
<1> DEFINE a == r + w * q
<1>1. a \in Int /\ w * q \in Int
  OBVIOUS
<1> HIDE DEF a
<1>2. a % w \in 0..(w - 1) /\ a \div w \in Int /\ a = (a % w) + w * (a \div w)
  BY <1>1, DivMod
<1> DEFINE k == (a \div w) - q
<1>3. k \in Int /\ w * k = w * (a \div w) - w * q
  BY <1>2
<1>4. w * k = r - (a % w)
  BY <1>1, <1>2, <1>3 DEF a
<1> HIDE DEF k
<1>5. k = 0
  <2>1. r - (a % w) < w /\ r - (a % w) > -w
    BY <1>2
  <2>2. w * k < w /\ w * k > -w /\ k \in Int
    BY <1>3, <1>4, <2>1
  <2> QED
    BY <2>2, Multiple
<1>6. w * 0 = 0
  OBVIOUS
<1> QED
  BY <1>2, <1>4, <1>5, <1>6 DEF a

Full(t, clock) == U32ToUnixTime(UnixTimeToU32(t), clock)

LEMMA FullTime ==
  ASSUME NEW t \in Int, NEW clock \in Int
  PROVE  /\ Full(t, clock) \in Int
         /\ UnixTimeToU32(t) \in 0..(Word - 1)
         /\ UnixTimeToU32(Full(t, clock)) = UnixTimeToU32(t)
         /\ t \div Word = clock \div Word => Full(t, clock) = t
         /\ \E k \in Int : Full(t, clock) - t = Word * k
<1> DEFINE r == t % Word
<1> DEFINE q == clock \div Word
<1>1. /\ r \in 0..(Word - 1) /\ q \in Int /\ t \div Word \in Int
      /\ t = r + Word * (t \div Word) /\ Word \in Nat \ {0}
  BY DivMod, Numbers
<1>2. Full(t, clock) = r + Word * q /\ UnixTimeToU32(t) = r
  BY DEF Full, U32ToUnixTime, UnixTimeToU32
<1>3. UnixTimeToU32(Full(t, clock)) = (r + Word * q) % Word
  BY <1>2 DEF UnixTimeToU32
<1> HIDE DEF r
<1>4. q = t \div Word => Full(t, clock) = t
  BY <1>1, <1>2
<1>5. \E k \in Int : Full(t, clock) - t = Word * k
  <2> HIDE DEF q
  <2> DEFINE p == t \div Word
  <2>1. p \in Int /\ t = r + Word * p
    BY <1>1
  <2> HIDE DEF p
  <2>2. q - p \in Int /\ Word * (q - p) = Word * q - Word * p
    BY <1>1, <2>1
  <2>3. Full(t, clock) - t = Word * (q - p)
    BY <1>1, <1>2, <2>1, <2>2
  <2> QED
    BY <2>2, <2>3
<1>6. (r + Word * q) % Word = r
  <2> HIDE DEF q
  <2> QED
    BY <1>1, LowWord
<1>7. Full(t, clock) \in Int
  <2> HIDE DEF q
  <2> QED
    BY <1>1, <1>2
<1> QED
  BY <1>1, <1>2, <1>3, <1>4, <1>5, <1>6, <1>7 DEF q

(* A completed time within the tolerance is the time that was sent, unless *)
(* the packet is so old that the word may have wrapped around.             *)
LEMMA WithinIsSent ==
  ASSUME NEW t \in Int, NEW clock \in Int,
         AbsDiffUnixTime(clock, Full(t, clock)) <= MaxUnixTimeDiff,
         clock - t \in (-Skew)..(Skew + MaxAge)
  PROVE  Full(t, clock) = t
<1> DEFINE f == Full(t, clock)
<1>1. PICK k \in Int : f - t = Word * k
  BY FullTime
<1>2. f \in Int
  BY FullTime
<1> HIDE DEF f
<1>3. clock - f <= MaxUnixTimeDiff /\ f - clock <= MaxUnixTimeDiff
  BY <1>2, Numbers DEF AbsDiffUnixTime, f
<1>4. f - t < Word /\ f - t > -Word
  BY <1>2, <1>3, Numbers
<1>5. k = 0
  BY <1>1, <1>4, Multiple, Numbers
<1>6. Word * 0 = 0
  BY Numbers
<1> QED
  BY <1>1, <1>2, <1>5, <1>6 DEF f

-----------------------------------------------------------------------------
(* Extensions and packets. *)

LEMMA ExtFacts ==
  /\ Plain \in Extension /\ LenOf(Plain) = 0
  /\ \A r \in {0, 1} : /\ Padded(r) \in Extension /\ LenOf(Padded(r)) = 2
                       /\ Padded(r)[2] = 1 /\ Padded(r)[3] = 0
<1>1. Plain \in Extension /\ \A i \in Cells : Plain[i] = 0
  BY DEF Plain, Zeros, Extension
<1>2. LenOf(Plain) = 0
  <2>1. \A n \in 0..3 : (/\ \A i \in Cells : i > n => Plain[i] = 0
                         /\ n > 0 => Plain[n] # 0) <=> n = 0
    BY <1>1 DEF Cells
  <2> QED
    BY <2>1 DEF LenOf
<1>3. ASSUME NEW r \in {0, 1}
      PROVE  /\ Padded(r) \in Extension /\ LenOf(Padded(r)) = 2
             /\ Padded(r)[2] = 1 /\ Padded(r)[3] = 0
  <2>1. Padded(r) \in Extension /\ Padded(r)[2] = 1 /\ Padded(r)[3] = 0
    BY DEF Padded, Zeros, Extension, Cells
  <2>2. \A n \in 0..3 : (/\ \A i \in Cells : i > n => Padded(r)[i] = 0
                         /\ n > 0 => Padded(r)[n] # 0) <=> n = 2
    BY <2>1 DEF Cells
  <2>3. LenOf(Padded(r)) = 2
    BY <2>2 DEF LenOf
  <2> QED
    BY <2>1, <2>3
<1> QED
  BY <1>1, <1>2, <1>3

LEMMA SealedFields ==
  ASSUME NEW id, NEW t, NEW ext, NEW dir
  PROVE  Sealed(id, t, ext, dir) =
           [Id |-> id, ut |-> UnixTimeToU32(t), ext |-> ext, Len |-> LenOf(ext),
            MAC |-> GetMAC(Block(id, UnixTimeToU32(t), ext), dir)]
  BY DEF Sealed, EncodeControlPacket, Decoded

(* m holds what its sender, by its kind, has put into it. *)
Holds(m, id, ext, dir) ==
  /\ m.kind \in UdpKinds \cup TcpKinds
  /\ ext \in Exts(m.kind)
  /\ m.e = Sealed(id, m.sentAt, ext, dir)

(* What the receiver has of a packet, whatever is behind its end. *)
LEMMA ReceivedFields ==
  ASSUME NEW m, NEW id, NEW ext, NEW dir, Holds(m, id, ext, dir),
         NEW junk \in Extension
  PROVE  LET e == Received(m, junk) IN
         /\ e.Id = id /\ e.ut = UnixTimeToU32(m.sentAt)
         /\ e.MAC = GetMAC(Block(id, UnixTimeToU32(m.sentAt), ext), dir)
         /\ Sanitized(e) = ext
<1> DEFINE e == Received(m, junk)
<1>0. m.kind \in UdpKinds \cup TcpKinds /\ ext \in Exts(m.kind)
  BY DEF Holds
<1>1. m.e = [Id |-> id, ut |-> UnixTimeToU32(m.sentAt), ext |-> ext, Len |-> LenOf(ext),
             MAC |-> GetMAC(Block(id, UnixTimeToU32(m.sentAt), ext), dir)]
  BY SealedFields DEF Holds
<1>2. CASE m.kind \in UdpKinds
  <2>1. e = [m.e EXCEPT !.Len = 0, !.ext = junk]
    BY <1>2 DEF Received, UdpKinds
  <2>2. /\ e.Id = id /\ e.ut = UnixTimeToU32(m.sentAt) /\ e.Len = 0
        /\ e.MAC = GetMAC(Block(id, UnixTimeToU32(m.sentAt), ext), dir)
    BY <1>1, <2>1
  <2>3. ext = Zeros
    BY <1>0, <1>2 DEF Exts, Plain
  <2>4. Sanitized(e) = Zeros
    BY <2>2 DEF Sanitized, Zeros, Cells
  <2> QED
    BY <2>2, <2>3, <2>4
<1>3. CASE m.kind \in TcpKinds
  <2>1. e = [m.e EXCEPT !.Len = 2]
    BY <1>3 DEF Received, TcpKinds
  <2>2. /\ e.Id = id /\ e.ut = UnixTimeToU32(m.sentAt) /\ e.Len = 2 /\ e.ext = ext
        /\ e.MAC = GetMAC(Block(id, UnixTimeToU32(m.sentAt), ext), dir)
    BY <1>1, <2>1
  <2>3. ext \in Extension /\ ext[3] = 0
    BY <1>0, <1>3, ExtFacts DEF Exts, UdpKinds, TcpKinds
  <2>4. Sanitized(e) = ext
    BY <2>2, <2>3 DEF Sanitized, Extension, Cells
  <2> QED
    BY <2>2, <2>4
<1> QED
  BY <1>0, <1>2, <1>3

(* When it is accepted, and what then is decoded. *)
LEMMA DecodesFacts ==
  ASSUME NEW m, NEW id, NEW ext, NEW dir, Holds(m, id, ext, dir),
         NEW junk \in Extension, NEW other, NEW clock
  PROVE  LET e == Received(m, junk) IN
         /\ Decodes(e, other, clock) <=>
              /\ other = dir
              /\ ~(AbsDiffUnixTime(clock, Full(m.sentAt, clock)) > MaxUnixTimeDiff)
         /\ DecodeControlPacket(e, clock) =
              [Id |-> id, UnixTime |-> Full(m.sentAt, clock), OptExtension |-> ext]
<1> DEFINE e == Received(m, junk)
<1>1. /\ e.Id = id /\ e.ut = UnixTimeToU32(m.sentAt)
      /\ e.MAC = GetMAC(Block(id, UnixTimeToU32(m.sentAt), ext), dir)
      /\ Sanitized(e) = ext
  BY ReceivedFields
<1> HIDE DEF e
<1>2. DecodedTime(e, clock) = Full(m.sentAt, clock)
  BY <1>1 DEF DecodedTime, Full
<1>3. WrongMAC(e, other) <=> other # dir
  BY <1>1 DEF WrongMAC, GetMAC
<1>4. /\ Decodes(e, other, clock) <=>
           /\ other = dir
           /\ ~(AbsDiffUnixTime(clock, Full(m.sentAt, clock)) > MaxUnixTimeDiff)
      /\ DecodeControlPacket(e, clock) =
           [Id |-> id, UnixTime |-> Full(m.sentAt, clock), OptExtension |-> ext]
  BY <1>1, <1>2, <1>3 DEF Decodes, TimeExpired, DecodeControlPacket
<1> QED
  BY <1>4 DEF e

-----------------------------------------------------------------------------
(* The clocks and the network. *)

LEMMA Clocks ==
  ASSUME IInv
  PROVE  /\ now \in Int /\ offset \in Int /\ -MaxOffset <= offset /\ offset <= MaxOffset
         /\ InsideClock \in Int /\ OutsideClock \in Int
         /\ InsideClock - OutsideClock \in -MaxOffset..MaxOffset
         /\ \A kind : Clock(kind) \in Int
         /\ \A kind \in {"udpHelo", "tcpHelo", "key"} : Clock(kind) = OutsideClock
         /\ \A kind \in {"udpAnswer", "tcpAnswer", "call"} : Clock(kind) = InsideClock
<1>1. now \in Int /\ offset \in Int /\ -MaxOffset <= offset /\ offset <= MaxOffset
  BY Numbers DEF IInv
<1>2. InsideClock \in Int /\ OutsideClock \in Int
      /\ InsideClock - OutsideClock \in -MaxOffset..MaxOffset
  BY <1>1, Numbers DEF InsideClock, OutsideClock
<1> QED
  BY <1>1, <1>2 DEF Clock, ToOutside

LEMMA NewPacket ==
  ASSUME NEW kind \in UdpKinds \cup TcpKinds, NEW sentAt \in Int, NEW id \in {0, 1},
         NEW ext \in Exts(kind), NEW e, NEW key,
         e = Sealed(id, sentAt, ext, kind \in ToOutside),
         kind \in {"call", "key"} => key = Sealed(id, sentAt, ext, TRUE),
         Clock(kind) - sentAt \in (-Skew)..Skew
  PROVE  PacketOk(Packet(kind, e, sentAt, key))
<1> DEFINE p == Packet(kind, e, sentAt, key)
<1>1. /\ p = [kind |-> kind, e |-> e, sentAt |-> sentAt, key |-> key, age |-> 0]
      /\ p.kind = kind /\ p.e = e /\ p.sentAt = sentAt /\ p.key = key /\ p.age = 0
  BY DEF Packet
<1> HIDE DEF p
<1>2. p.age \in 0..MaxAge /\ Skew + p.age = Skew
  BY <1>1, Numbers
<1> QED
  BY <1>1, <1>2 DEF PacketOk, p

LEMMA DropInv ==
  ASSUME IInv, net' \in SUBSET net, UNCHANGED <<now, offset>>
  PROVE  IInv'
<1>1. IsFiniteSet(net') /\ Cardinality(net') <= Cardinality(net)
  BY FS_Subset DEF IInv
<1>2. Cardinality(net') \in Nat /\ Cardinality(net) \in Nat
  BY <1>1, FS_CardinalityType DEF IInv
<1>3. Cardinality(net') <= MaxInFlight
  BY <1>1, <1>2, Numbers DEF IInv
<1>4. \A m \in net' : PacketOk(m)'
  BY DEF IInv, PacketOk, Clock, InsideClock, OutsideClock
<1> QED
  BY <1>1, <1>3, <1>4 DEF IInv

LEMMA PutInv ==
  ASSUME IInv, NEW rest \in SUBSET net, NEW p, Put(rest, p), PacketOk(p),
         UNCHANGED <<now, offset>>
  PROVE  IInv'
<1>1. net' = rest \cup {p} /\ Cardinality(rest) < MaxInFlight
  BY DEF Put
<1>2. IsFiniteSet(rest) /\ Cardinality(rest) \in Nat
  BY FS_Subset, FS_CardinalityType DEF IInv
<1>3. IsFiniteSet(net') /\ Cardinality(net') <= MaxInFlight
  <2>1. /\ IsFiniteSet(rest \cup {p})
        /\ Cardinality(rest \cup {p}) =
             IF p \in rest THEN Cardinality(rest) ELSE Cardinality(rest) + 1
    BY <1>2, FS_AddElement, Zenon
  <2> QED
    BY <1>1, <1>2, <2>1, Numbers
<1>4. \A m \in net' : PacketOk(m)
  BY <1>1 DEF IInv
<1>5. \A m \in net' : PacketOk(m)'
  BY <1>4 DEF PacketOk, Clock, InsideClock, OutsideClock
<1> QED
  BY <1>3, <1>5 DEF IInv

(* The receiver that accepts a packet has the time that it was sent at. *)
LEMMA Accepted ==
  ASSUME IInv, NEW m \in net, NEW junk \in Extension, NEW dir,
         Decodes(Received(m, junk), dir, Clock(m.kind))
  PROVE  /\ dir = (m.kind \in ToOutside)
         /\ m.sentAt \in Int
         /\ Clock(m.kind) - m.sentAt \in (-MaxUnixTimeDiff)..MaxUnixTimeDiff
         /\ \E id \in {0, 1}, ext \in Exts(m.kind) :
              /\ m.kind \in {"call", "key"} => m.key = Sealed(id, m.sentAt, ext, TRUE)
              /\ DecodeControlPacket(Received(m, junk), Clock(m.kind)) =
                   [Id |-> id, UnixTime |-> m.sentAt, OptExtension |-> ext]
<1>1. PacketOk(m)
  BY DEF IInv
<1>2. PICK id \in {0, 1}, ext \in Exts(m.kind) :
        /\ m.e = Sealed(id, m.sentAt, ext, m.kind \in ToOutside)
        /\ m.kind \in {"call", "key"} => m.key = Sealed(id, m.sentAt, ext, TRUE)
  BY <1>1 DEF PacketOk
<1>3. /\ m.kind \in UdpKinds \cup TcpKinds /\ m.sentAt \in Int /\ m.age \in 0..MaxAge
      /\ Clock(m.kind) - m.sentAt \in (-Skew)..(Skew + m.age)
  BY <1>1 DEF PacketOk
<1> DEFINE clock == Clock(m.kind)
<1>4. clock \in Int
  BY Clocks
<1>5. clock - m.sentAt \in (-Skew)..(Skew + MaxAge)
  BY <1>3, <1>4, Numbers
<1> DEFINE e == Received(m, junk)
<1>6. Decodes(e, dir, clock)
  OBVIOUS
<1> HIDE DEF clock
<1>7. /\ dir = (m.kind \in ToOutside)
      /\ ~(AbsDiffUnixTime(clock, Full(m.sentAt, clock)) > MaxUnixTimeDiff)
      /\ DecodeControlPacket(e, clock) =
           [Id |-> id, UnixTime |-> Full(m.sentAt, clock), OptExtension |-> ext]
  <2>1. PICK b : b = (m.kind \in ToOutside)
    OBVIOUS
  <2>2. Holds(m, id, ext, b)
    BY <1>2, <1>3, <2>1 DEF Holds
  <2>3. /\ Decodes(e, dir, clock) <=>
             /\ dir = b
             /\ ~(AbsDiffUnixTime(clock, Full(m.sentAt, clock)) > MaxUnixTimeDiff)
        /\ DecodeControlPacket(e, clock) =
             [Id |-> id, UnixTime |-> Full(m.sentAt, clock), OptExtension |-> ext]
    BY <2>2, DecodesFacts
  <2> HIDE DEF e
  <2> QED
    BY <1>6, <2>1, <2>3, Zenon
<1>8. Full(m.sentAt, clock) \in Int
  BY <1>3, <1>4, FullTime
<1>9. AbsDiffUnixTime(clock, Full(m.sentAt, clock)) <= MaxUnixTimeDiff
  BY <1>4, <1>7, <1>8, Numbers DEF AbsDiffUnixTime
<1>10. Full(m.sentAt, clock) = m.sentAt
  BY <1>3, <1>4, <1>5, <1>9, WithinIsSent
<1>14. clock - m.sentAt \in (-MaxUnixTimeDiff)..MaxUnixTimeDiff
  BY <1>3, <1>4, <1>9, <1>10, Numbers DEF AbsDiffUnixTime
<1> QED
  BY <1>2, <1>3, <1>7, <1>10, <1>14 DEF clock

-----------------------------------------------------------------------------
(* The steps. *)

LEMMA InitInv == Init => IInv
<1> SUFFICES ASSUME Init PROVE IInv
  OBVIOUS
<1>1. net = {} /\ IsFiniteSet(net) /\ Cardinality(net) = 0
  BY FS_EmptySet DEF Init
<1> QED
  BY <1>1, Numbers DEF Init, IInv

LEMMA SendHeloInv ==
  ASSUME IInv, SendHelo
  PROVE  IInv'
<1>1. InsideClock \in Int
  BY Clocks
<1>2. ASSUME NEW kind \in {"udpHelo", "tcpHelo"}, NEW ext \in Exts(kind)
      PROVE  PacketOk(Packet(kind, Sealed(0, InsideClock, ext, TRUE), InsideClock, NoKey))
  <2>1. kind \in UdpKinds \cup TcpKinds /\ (kind \in ToOutside) = TRUE
        /\ kind \notin {"call", "key"}
    BY DEF UdpKinds, TcpKinds, ToOutside
  <2>2. Clock(kind) - InsideClock \in (-Skew)..Skew
    BY Clocks, Numbers
  <2> QED
    BY <1>1, <2>1, <2>2, NewPacket
<1>3. Plain \in Exts("udpHelo") /\ Padded(0) \in Exts("tcpHelo")
  BY DEF Exts, UdpKinds
<1>4. UNCHANGED <<now, offset>>
  BY DEF SendHelo
<1>5. CASE Put(net, Packet("udpHelo", Sealed(0, InsideClock, Plain, TRUE), InsideClock, NoKey))
  BY <1>2, <1>3, <1>4, <1>5, PutInv
<1>6. CASE Put(net, Packet("tcpHelo", Sealed(0, InsideClock, Padded(0), TRUE),
                           InsideClock, NoKey))
  BY <1>2, <1>3, <1>4, <1>6, PutInv
<1> QED
  BY <1>5, <1>6 DEF SendHelo, Sealed

LEMMA AnnounceInv ==
  ASSUME IInv, Announce
  PROVE  IInv'
<1>1. PICK r \in {0, 1} :
        Put(net, Packet("call", Sealed(1, OutsideClock, Padded(r), FALSE), OutsideClock,
                        Sealed(1, OutsideClock, Padded(r), TRUE)))
  BY DEF Announce, Sealed
<1>2. OutsideClock \in Int /\ Clock("call") - OutsideClock \in (-Skew)..Skew
  BY Clocks, Numbers
<1>3. "call" \in UdpKinds \cup TcpKinds /\ ("call" \in ToOutside) = FALSE
      /\ Padded(r) \in Exts("call")
  BY DEF UdpKinds, TcpKinds, ToOutside, Exts
<1>4. PacketOk(Packet("call", Sealed(1, OutsideClock, Padded(r), FALSE), OutsideClock,
                      Sealed(1, OutsideClock, Padded(r), TRUE)))
  BY <1>2, <1>3, NewPacket
<1>5. UNCHANGED <<now, offset>>
  BY DEF Announce
<1> QED
  BY <1>1, <1>4, <1>5, PutInv

LEMMA AnswerHeloInv ==
  ASSUME IInv, NEW m \in net, NEW junk \in Extension, AnswerHelo(m, junk)
  PROVE  IInv'
<1> DEFINE e == Received(m, junk)
<1> DEFINE d == DecodeControlPacket(e, OutsideClock)
<1> DEFINE padded == [d EXCEPT !.OptExtension[2] = 1]
<1>1. /\ m.kind \in {"udpHelo", "tcpHelo"} /\ UNCHANGED <<now, offset>>
      /\ Clock(m.kind) = OutsideClock
  BY Clocks DEF AnswerHelo
<1>2. CASE ~Decodes(e, TRUE, OutsideClock)
  BY <1>1, <1>2, DropInv DEF AnswerHelo
<1>3. CASE Decodes(e, TRUE, OutsideClock)
  <2>1. /\ m.sentAt \in Int
        /\ OutsideClock - m.sentAt \in (-MaxUnixTimeDiff)..MaxUnixTimeDiff
        /\ \E id \in {0, 1}, ext \in Exts(m.kind) :
             d = [Id |-> id, UnixTime |-> m.sentAt, OptExtension |-> ext]
    BY <1>1, <1>3, Accepted
  <2>2. PICK id \in {0, 1}, ext \in Exts(m.kind) :
          d = [Id |-> id, UnixTime |-> m.sentAt, OptExtension |-> ext]
    BY <2>1
  <2>3. CASE m.kind = "udpHelo"
    <3>1. Put(net \ {m}, Packet("udpAnswer", EncodeControlPacket(d, FALSE, OutsideClock, FALSE),
                                OutsideClock, NoKey))
      BY <1>3, <2>3 DEF AnswerHelo
    <3>2. EncodeControlPacket(d, FALSE, OutsideClock, FALSE) =
            Sealed(id, OutsideClock, ext, FALSE)
      BY <2>2 DEF EncodeControlPacket, Sealed, Decoded
    <3>3. ext \in Exts("udpAnswer") /\ "udpAnswer" \in UdpKinds \cup TcpKinds
          /\ ("udpAnswer" \in ToOutside) = FALSE
      BY <2>3 DEF Exts, UdpKinds, TcpKinds, ToOutside
    <3>4. OutsideClock \in Int /\ Clock("udpAnswer") - OutsideClock \in (-Skew)..Skew
      BY Clocks, Numbers
    <3>5. PacketOk(Packet("udpAnswer", Sealed(id, OutsideClock, ext, FALSE), OutsideClock, NoKey))
      BY <3>3, <3>4, NewPacket
    <3> QED
      BY <1>1, <3>1, <3>2, <3>5, PutInv
  <2>4. CASE m.kind = "tcpHelo"
    <3>1. Put(net \ {m}, Packet("tcpAnswer", EncodeControlPacket(padded, FALSE, 0, TRUE),
                                m.sentAt, NoKey))
      BY <1>3, <2>4 DEF AnswerHelo
    <3>2. ext \in {Padded(0), Padded(1)} /\ ext \in Extension /\ ext[2] = 1
      BY <2>4, ExtFacts DEF Exts, UdpKinds
    <3>3. [ext EXCEPT ![2] = 1] = ext
      BY <3>2 DEF Extension, Cells
    <3>4. padded = d
      BY <2>2, <3>3
    <3>5. EncodeControlPacket(padded, FALSE, 0, TRUE) = Sealed(id, m.sentAt, ext, FALSE)
      <4>1. EncodeControlPacket(d, FALSE, 0, TRUE) = Sealed(id, m.sentAt, ext, FALSE)
        BY <2>2 DEF EncodeControlPacket, Sealed, Decoded
      <4> HIDE DEF d
      <4>2. padded = d
        BY <3>4
      <4> HIDE DEF padded
      <4> QED
        BY <4>1, <4>2
    <3>6. ext \in Exts("tcpAnswer") /\ "tcpAnswer" \in UdpKinds \cup TcpKinds
          /\ ("tcpAnswer" \in ToOutside) = FALSE
      BY <3>2 DEF Exts, UdpKinds, TcpKinds, ToOutside
    <3>7. Clock("tcpAnswer") - m.sentAt \in (-Skew)..Skew
      BY <2>1, Clocks, Numbers
    <3>8. PacketOk(Packet("tcpAnswer", Sealed(id, m.sentAt, ext, FALSE), m.sentAt, NoKey))
      BY <2>1, <3>6, <3>7, NewPacket
    <3> QED
      BY <1>1, <3>1, <3>5, <3>8, PutInv
  <2> QED
    BY <1>1, <2>3, <2>4
<1> QED
  BY <1>2, <1>3

LEMMA AnswerCallInv ==
  ASSUME IInv, NEW m \in net, NEW junk \in Extension, AnswerCall(m, junk)
  PROVE  IInv'
<1> DEFINE e == Received(m, junk)
<1> DEFINE d == DecodeControlPacket(e, InsideClock)
<1>1. /\ m.kind = "call" /\ UNCHANGED <<now, offset>>
      /\ Clock(m.kind) = InsideClock
  BY Clocks DEF AnswerCall
<1>2. CASE ~Decodes(e, FALSE, InsideClock)
  BY <1>1, <1>2, DropInv DEF AnswerCall
<1>3. CASE Decodes(e, FALSE, InsideClock)
  <2>1. /\ m.sentAt \in Int
        /\ InsideClock - m.sentAt \in (-MaxUnixTimeDiff)..MaxUnixTimeDiff
        /\ \E id \in {0, 1}, ext \in Exts(m.kind) :
             /\ m.kind \in {"call", "key"} => m.key = Sealed(id, m.sentAt, ext, TRUE)
             /\ d = [Id |-> id, UnixTime |-> m.sentAt, OptExtension |-> ext]
    BY <1>1, <1>3, Accepted
  <2>2. PICK id \in {0, 1}, ext \in Exts("call") :
          /\ m.key = Sealed(id, m.sentAt, ext, TRUE)
          /\ d = [Id |-> id, UnixTime |-> m.sentAt, OptExtension |-> ext]
    BY <1>1, <2>1
  <2>3. Put(net \ {m}, Packet("key", EncodeControlPacket(d, TRUE, 0, TRUE), m.sentAt, m.key))
    BY <1>3 DEF AnswerCall
  <2>4. EncodeControlPacket(d, TRUE, 0, TRUE) = Sealed(id, m.sentAt, ext, TRUE)
    BY <2>2 DEF EncodeControlPacket, Sealed, Decoded
  <2>5. ext \in Exts("key") /\ "key" \in UdpKinds \cup TcpKinds /\ ("key" \in ToOutside) = TRUE
    BY DEF Exts, UdpKinds, TcpKinds, ToOutside
  <2>6. Clock("key") - m.sentAt \in (-Skew)..Skew
    BY <2>1, Clocks, Numbers
  <2>7. PacketOk(Packet("key", Sealed(id, m.sentAt, ext, TRUE), m.sentAt, m.key))
    BY <2>1, <2>2, <2>5, <2>6, NewPacket
  <2> QED
    BY <1>1, <2>3, <2>4, <2>7, PutInv
<1> QED
  BY <1>2, <1>3

LEMMA TickInv ==
  ASSUME IInv, Tick
  PROVE  IInv'
<1> DEFINE aged(m) == [m EXCEPT !.age = @ + 1]
<1> DEFINE g == [m \in net |-> aged(m)]
<1>1. /\ now < LastTime /\ now' = now + 1 /\ offset' = offset
      /\ \A m \in net : m.age < MaxAge
      /\ net' = {aged(m) : m \in net}
  BY DEF Tick
<1>2. g \in Surjection(net, net')
  BY <1>1 DEF Surjection
<1>3. IsFiniteSet(net') /\ Cardinality(net') <= Cardinality(net)
  BY <1>2, FS_Surjection DEF IInv
<1>4. Cardinality(net') \in Nat /\ Cardinality(net) \in Nat
  BY <1>3, FS_CardinalityType DEF IInv
<1>5. Cardinality(net') <= MaxInFlight
  BY <1>3, <1>4, Numbers DEF IInv
<1>6. now' \in FirstTime..LastTime
  BY <1>1, Numbers DEF IInv
<1>7. ASSUME NEW m \in net PROVE PacketOk(aged(m))'
  <2> DEFINE a == aged(m)
  <2>1. PacketOk(m)
    BY DEF IInv
  <2>2. m = [kind |-> m.kind, e |-> m.e, sentAt |-> m.sentAt, key |-> m.key, age |-> m.age]
    BY <2>1 DEF PacketOk
  <2>3. /\ a = [kind |-> m.kind, e |-> m.e, sentAt |-> m.sentAt, key |-> m.key, age |-> m.age + 1]
        /\ a.kind = m.kind /\ a.e = m.e /\ a.sentAt = m.sentAt /\ a.key = m.key
        /\ a.age = m.age + 1
    BY <2>2
  <2> HIDE DEF a
  <2>4. m.age \in 0..MaxAge /\ m.age < MaxAge /\ m.sentAt \in Int
    BY <1>1, <2>1 DEF PacketOk
  <2>5. Clock(m.kind)' = Clock(m.kind) + 1 /\ Clock(m.kind) \in Int
    BY <1>1, Clocks DEF Clock, InsideClock, OutsideClock
  <2>6. Clock(m.kind)' - m.sentAt \in (-Skew)..(Skew + a.age)
    <3>1. Clock(m.kind) - m.sentAt \in (-Skew)..(Skew + m.age)
      BY <2>1 DEF PacketOk
    <3> QED
      BY <2>3, <2>4, <2>5, <3>1, Numbers
  <2>7. a.age \in 0..MaxAge
    BY <2>3, <2>4, Numbers
  <2>8. PacketOk(a)'
    BY <2>1, <2>3, <2>4, <2>6, <2>7 DEF PacketOk
  <2> QED
    BY <2>8 DEF a
<1>8. \A m \in net' : PacketOk(m)'
  BY <1>1, <1>7
<1> QED
  BY <1>1, <1>3, <1>5, <1>6, <1>8 DEF IInv

LEMMA NextInv ==
  ASSUME IInv, [Next]_vars
  PROVE  IInv'
<1>1. ASSUME NEW m \in net, Leave(m) PROVE IInv'
  BY <1>1, DropInv DEF Leave
<1>2. CASE UNCHANGED vars
  BY <1>2, DropInv DEF vars
<1> QED
  BY <1>1, <1>2, SendHeloInv, AnnounceInv, AnswerHeloInv, AnswerCallInv, TickInv DEF Next

(* The invariant holds in every reachable state. *)
THEOREM Invariance == Spec => []IInv
<1>1. Init => IInv
  BY InitInv
<1>2. IInv /\ [Next]_vars => IInv'
  BY NextInv
<1> QED
  BY <1>1, <1>2, PTL DEF Spec

-----------------------------------------------------------------------------
(* The properties. *)

LEMMA Held ==
  ASSUME IInv, NEW m \in net
  PROVE  /\ m.sentAt \in Int /\ m.age \in 0..MaxAge
         /\ \E id \in {0, 1}, ext \in Exts(m.kind) : \E dir :
              /\ dir = (m.kind \in ToOutside)
              /\ Holds(m, id, ext, dir)
              /\ m.kind \in {"call", "key"} => m.key = Sealed(id, m.sentAt, ext, TRUE)
<1>1. PacketOk(m)
  BY DEF IInv
<1>2. /\ m.kind \in UdpKinds \cup TcpKinds
      /\ m.sentAt \in Int /\ m.age \in 0..MaxAge
  BY <1>1 DEF PacketOk
<1>3. PICK id \in {0, 1}, ext \in Exts(m.kind) :
        /\ m.e = Sealed(id, m.sentAt, ext, m.kind \in ToOutside)
        /\ m.kind \in {"call", "key"} => m.key = Sealed(id, m.sentAt, ext, TRUE)
  BY <1>1 DEF PacketOk
<1>4. PICK dir : dir = (m.kind \in ToOutside)
  OBVIOUS
<1>5. Holds(m, id, ext, dir)
  BY <1>2, <1>3, <1>4 DEF Holds
<1> QED
  BY <1>2, <1>3, <1>4, <1>5

LEMMA PacketTypes ==
  ASSUME IInv, NEW m \in net
  PROVE  /\ m.kind \in ToOutside \cup ToInside /\ m.age \in 0..MaxAge
         /\ m.e.ut \in 0..(Word - 1) /\ m.e.ext \in Extension /\ m.e.Len \in 0..3
         /\ m.kind \in TcpKinds => m.e.Len = 2
<1>1. PICK id, ext, dir : Holds(m, id, ext, dir)
  BY Held
<1>2. /\ m.kind \in UdpKinds \cup TcpKinds /\ ext \in Exts(m.kind)
      /\ m.e = Sealed(id, m.sentAt, ext, dir)
  BY <1>1 DEF Holds
<1>3. m.e.ut = UnixTimeToU32(m.sentAt) /\ m.e.ext = ext /\ m.e.Len = LenOf(ext)
  BY <1>2, SealedFields
<1>4. m.sentAt \in Int /\ m.age \in 0..MaxAge
  BY Held
<1>5. UnixTimeToU32(m.sentAt) \in 0..(Word - 1)
  BY <1>4, FullTime
<1>6. /\ ext \in Extension /\ LenOf(ext) \in 0..3
      /\ m.kind \in TcpKinds => LenOf(ext) = 2
  BY <1>2, ExtFacts DEF Exts, UdpKinds, TcpKinds
<1> QED
  BY <1>2, <1>3, <1>4, <1>5, <1>6 DEF UdpKinds, TcpKinds, ToOutside, ToInside

LEMMA StaleFacts ==
  ASSUME IInv
  PROVE  NeverStale
<1>1. TypeOK
  BY PacketTypes DEF IInv, TypeOK
<1>2. ASSUME NEW m \in net, AcceptedAs(m, m.kind \in ToOutside)
      PROVE  Apart(m) <= MaxUnixTimeDiff
  <2>1. PICK dir : dir = (m.kind \in ToOutside)
    OBVIOUS
  <2>2. PICK junk \in Extension : Decodes(Received(m, junk), dir, Clock(m.kind))
    BY <1>2, <2>1 DEF AcceptedAs
  <2>3. m.sentAt \in Int
        /\ Clock(m.kind) - m.sentAt \in (-MaxUnixTimeDiff)..MaxUnixTimeDiff
    BY <2>2, Accepted
  <2>4. Clock(m.kind) \in Int
    BY Clocks
  <2> QED
    BY <2>3, <2>4, Numbers DEF Apart
<1>3. ASSUME NEW m \in net PROVE ~AcceptedAs(m, m.kind \notin ToOutside)
  <2>1. PICK other : other = (m.kind \notin ToOutside)
    OBVIOUS
  <2>2. SUFFICES ASSUME NEW junk \in Extension, Decodes(Received(m, junk), other, Clock(m.kind))
                 PROVE  FALSE
    BY <2>1 DEF AcceptedAs
  <2>3. other = (m.kind \in ToOutside)
    BY <2>2, Accepted
  <2> QED
    BY <2>1, <2>3
<1> QED
  BY <1>1, <1>2, <1>3 DEF NeverStale

LEMMA WrapFacts ==
  ASSUME IInv
  PROVE  FailsOnlyAtWrapAround
<1> SUFFICES ASSUME NEW m \in net, NEW junk \in Extension,
                    Apart(m) <= MaxUnixTimeDiff, m.sentAt \div Word = Clock(m.kind) \div Word
             PROVE  /\ Decodes(Received(m, junk), m.kind \in ToOutside, Clock(m.kind))
                    /\ DecodeControlPacket(Received(m, junk), Clock(m.kind)).UnixTime = m.sentAt
  BY DEF FailsOnlyAtWrapAround
<1> DEFINE e == Received(m, junk)
<1> DEFINE clock == Clock(m.kind)
<1>1. PICK id, ext, dir :
        dir = (m.kind \in ToOutside) /\ Holds(m, id, ext, dir)
  BY Held
<1>2. clock \in Int /\ m.sentAt \in Int
  BY Clocks, Held
<1>3. Full(m.sentAt, clock) = m.sentAt
  BY <1>2, FullTime
<1>4. ~(AbsDiffUnixTime(clock, m.sentAt) > MaxUnixTimeDiff)
  BY <1>2, Numbers DEF AbsDiffUnixTime, Apart
<1> HIDE DEF clock
<1>5. /\ Decodes(e, dir, clock) <=>
           /\ dir = dir
           /\ ~(AbsDiffUnixTime(clock, Full(m.sentAt, clock)) > MaxUnixTimeDiff)
      /\ DecodeControlPacket(e, clock) =
           [Id |-> id, UnixTime |-> Full(m.sentAt, clock), OptExtension |-> ext]
  BY <1>1, DecodesFacts
<1> HIDE DEF e
<1>6. Decodes(e, dir, clock) /\ DecodeControlPacket(e, clock).UnixTime = m.sentAt
  BY <1>3, <1>4, <1>5
<1> QED
  BY <1>1, <1>6 DEF e, clock

LEMMA KeyFacts ==
  ASSUME IInv
  PROVE  KeyComesBack
<1>1. ASSUME NEW m \in net, m.kind = "key" PROVE m.e = m.key
  BY <1>1, Held DEF Holds, ToOutside
<1>2. ASSUME NEW m \in net, m.kind \in {"tcpHelo", "tcpAnswer", "call", "key"}
      PROVE  m.e.Len = 2
  BY <1>2, PacketTypes DEF TcpKinds
<1> QED
  BY <1>1, <1>2 DEF KeyComesBack

(* Whatever the low word of the time does, nobody accepts a packet that is *)
(* further from his clock than the tolerance, or meant for the other side. *)
THEOREM NoStalePacket == Spec => []NeverStale
  BY Invariance, StaleFacts, PTL

(* A packet within the tolerance is refused only while the word wraps      *)
(* around between the two clocks.                                          *)
THEOREM OnlyWrapAroundFails == Spec => []FailsOnlyAtWrapAround
  BY Invariance, WrapFacts, PTL

(* The answer to an announcement is the key of the parked connection.      *)
THEOREM KeyMatches == Spec => []KeyComesBack
  BY Invariance, KeyFacts, PTL

=============================================================================
