---------------------------- MODULE ControlPacket ----------------------------
(***************************************************************************)
(* Control packets: EncodeControlPacket, DecodeControlPacket and the       *)
(* helpers of timehelper, with what udpbohrer and tcpbohrer send in them:  *)
(* HELOs and their answers, and the announcement of a remote that comes    *)
(* back as the key of its connection.  Time travels as the low word of the *)
(* Unix time and is completed with the high word of the receiver; the two  *)
(* clocks differ a little, packets arrive late, and the word wraps around. *)
(*                                                                         *)
(* A MAC is the direction and the block it is computed from: two blocks    *)
(* with the same 32 bits are left out.  The extension has three cells: the *)
(* random bytes, the byte that pads to 14 bytes, and the two after it that *)
(* nobody uses.                                                            *)
(***************************************************************************)
EXTENDS Integers, FiniteSets

CONSTANTS
  Word,             \* 2^32: the low word of the time counts to here
  MaxUnixTimeDiff,  \* max_unix_time_diff, seconds
  MaxOffset,        \* the clocks differ by no more seconds
  MaxAge,           \* bound: the network loses what is older
  MaxInFlight,      \* bound: packets in the network
  FirstTime,        \* clock of Inside at the start, ...
  LastTime          \* bound: ... and at the end

ASSUME ControlPacketAssumption ==
  /\ Word \in Nat \ {0} /\ MaxUnixTimeDiff \in Nat /\ MaxOffset \in Nat
  /\ MaxAge \in Nat /\ MaxInFlight \in Nat \ {0}
  /\ MaxOffset < FirstTime /\ FirstTime \in Nat
  /\ LastTime \in Nat /\ FirstTime <= LastTime
  /\ MaxAge + MaxOffset + 2 * MaxUnixTimeDiff < Word

VARIABLES
  now,     \* clock of Inside
  offset,  \* clock of Outside less that of Inside
  net      \* packets under way

vars == <<now, offset, net>>

-----------------------------------------------------------------------------
(* timehelper *)

UnixTimeToU32(unix) == unix % Word

U32ToUnixTime(u32, currUnix) == u32 + Word * (currUnix \div Word)

DiffUnixTime(u1, u2) == u1 - u2
AbsDiffUnixTime(u1, u2) == IF u1 > u2 THEN u1 - u2 ELSE u2 - u1

-----------------------------------------------------------------------------
(* controlpacker *)

Cells == 1..3
Extension == [Cells -> {0, 1}]
Zeros == [i \in Cells |-> 0]

GetMAC(block, bIsInsideToOutside) == [block |-> block, dir |-> bIsInsideToOutside]
Block(id, ut, ext) == [Id |-> id, ut |-> ut, ext |-> ext]

(* The packet ends with its last cell that is not zero. *)
LenOf(ext) ==
  CHOOSE n \in 0..3 : /\ \A i \in Cells : i > n => ext[i] = 0
                      /\ n > 0 => ext[n] # 0

EncodeNewTime(d, bIsInsideToOutside, unixTime, bKeepPacketTime) ==
  LET ut == UnixTimeToU32(unixTime)
  IN [Id |-> d.Id, ut |-> ut, ext |-> d.OptExtension, Len |-> LenOf(d.OptExtension),
      MAC |-> GetMAC(Block(d.Id, ut, d.OptExtension), bIsInsideToOutside)]

EncodeControlPacket(d, bIsInsideToOutside, unixTime, bKeepPacketTime) ==
  LET ut == UnixTimeToU32(IF bKeepPacketTime THEN d.UnixTime ELSE unixTime)
  IN [Id |-> d.Id, ut |-> ut, ext |-> d.OptExtension, Len |-> LenOf(d.OptExtension),
      MAC |-> GetMAC(Block(d.Id, ut, d.OptExtension), bIsInsideToOutside)]

(* What is left of the extension in the first Len cells. *)
Sanitized(e) == [i \in Cells |-> IF i <= e.Len THEN e.ext[i] ELSE 0]

DecodedTime(e, unixTime) == U32ToUnixTime(e.ut, unixTime)

TimeExpired(e, unixTime) ==
  AbsDiffUnixTime(unixTime, DecodedTime(e, unixTime)) > MaxUnixTimeDiff

WrongMACUnsanitized(e, bIsInsideToOutside) ==
  e.MAC # GetMAC(Block(e.Id, e.ut, e.ext), bIsInsideToOutside)
WrongMAC(e, bIsInsideToOutside) ==
  e.MAC # GetMAC(Block(e.Id, e.ut, Sanitized(e)), bIsInsideToOutside)

Decodes(e, bIsInsideToOutside, unixTime) ==
  ~TimeExpired(e, unixTime) /\ ~WrongMAC(e, bIsInsideToOutside)

DecodeControlPacket(e, unixTime) ==
  [Id |-> e.Id, UnixTime |-> DecodedTime(e, unixTime), OptExtension |-> Sanitized(e)]

(* The receiver sets Len itself: 10 bytes for a HELO of udpbohrer, whose   *)
(* buffer still has the bytes of an earlier datagram behind them, and 14   *)
(* bytes, into an empty buffer, for all of tcpbohrer.                      *)
Received(m, junk) ==
  IF m.kind \in {"udpHelo", "udpAnswer"}
  THEN [m.e EXCEPT !.Len = 0, !.ext = junk]
  ELSE [m.e EXCEPT !.Len = 2]

-----------------------------------------------------------------------------
(* Who sends what *)

ToOutside == {"udpHelo", "tcpHelo", "key"}
ToInside  == {"udpAnswer", "tcpAnswer", "call"}

InsideClock == now
OutsideClock == now + offset
Clock(kind) == IF kind \in ToOutside THEN OutsideClock ELSE InsideClock

Plain == Zeros
Padded(r) == [Zeros EXCEPT ![1] = r, ![2] = 1]
Decoded(id, ext) == [Id |-> id, UnixTime |-> 0, OptExtension |-> ext]

(* sentAt is the clock that the packet has its time from, in full, and     *)
(* key the connection that Outside has parked for a call.                  *)
Packet(kind, e, sentAt, key) ==
  [kind |-> kind, e |-> e, sentAt |-> sentAt, key |-> key, age |-> 0]

NoKey == EncodeControlPacket(Decoded(0, Plain), TRUE, 0, FALSE)

Put(rest, m) ==
  /\ Cardinality(rest) < MaxInFlight
  /\ net' = rest \cup {m}

Init ==
  /\ now = FirstTime
  /\ offset \in -MaxOffset..MaxOffset
  /\ net = {}

(* Go_in2out_send and goSendHelo. *)
SendHelo ==
  /\ \/ LET e == EncodeControlPacket(Decoded(0, Plain), TRUE, InsideClock, FALSE)
        IN Put(net, Packet("udpHelo", e, InsideClock, NoKey))
     \/ LET e == EncodeControlPacket(Decoded(0, Padded(0)), TRUE, InsideClock, FALSE)
        IN Put(net, Packet("tcpHelo", e, InsideClock, NoKey))
  /\ UNCHANGED <<now, offset>>

(* Go_out2in_receive answers with its own time, RunOutside with that of    *)
(* the HELO.  What does not decode ends here, a tcpbohrer with it.         *)
AnswerHelo(m, junk) ==
  LET e == Received(m, junk)
      d == DecodeControlPacket(e, OutsideClock)
      padded == [d EXCEPT !.OptExtension[2] = 1]
  IN
  /\ m \in net /\ m.kind \in {"udpHelo", "tcpHelo"}
  /\ IF ~Decodes(e, TRUE, OutsideClock) THEN net' = net \ {m}
     ELSE IF m.kind = "udpHelo"
     THEN Put(net \ {m}, Packet("udpAnswer", EncodeControlPacket(d, FALSE, OutsideClock, FALSE),
                                OutsideClock, NoKey))
     ELSE Put(net \ {m}, Packet("tcpAnswer", EncodeControlPacket(padded, FALSE, 0, TRUE),
                                m.sentAt, NoKey))
  /\ UNCHANGED <<now, offset>>

(* goManageAcceptedConnectionFromRemote encodes the same packet for both   *)
(* directions, keeps the one as key and sends the other.                   *)
Announce ==
  /\ \E r \in {0, 1} :
       LET d == Decoded(1, Padded(r))
           eToInside == EncodeControlPacket(d, FALSE, OutsideClock, FALSE)
           eToOutside == EncodeControlPacket(d, TRUE, OutsideClock, FALSE)
       IN Put(net, Packet("call", eToInside, OutsideClock, eToOutside))
  /\ UNCHANGED <<now, offset>>

(* RunInside encodes what it decoded for the other direction. *)
AnswerCall(m, junk) ==
  LET e == Received(m, junk)
      d == DecodeControlPacket(e, InsideClock)
  IN
  /\ m \in net /\ m.kind = "call"
  /\ IF Decodes(e, FALSE, InsideClock)
     THEN Put(net \ {m}, Packet("key", EncodeControlPacket(d, TRUE, 0, TRUE), m.sentAt, m.key))
     ELSE net' = net \ {m}
  /\ UNCHANGED <<now, offset>>

(* Lost, or at its end. *)
Leave(m) ==
  /\ net' = net \ {m}
  /\ UNCHANGED <<now, offset>>

Tick ==
  /\ now < LastTime
  /\ \A m \in net : m.age < MaxAge
  /\ now' = now + 1
  /\ net' = {[m EXCEPT !.age = @ + 1] : m \in net}
  /\ UNCHANGED offset

Next ==
  \/ SendHelo \/ Announce
  \/ \E m \in net, junk \in Extension : AnswerHelo(m, junk) \/ AnswerCall(m, junk)
  \/ \E m \in net : Leave(m)
  \/ Tick

Spec == Init /\ [][Next]_vars

-----------------------------------------------------------------------------
(* Properties *)

(* Types; the time in a packet is a word. *)
TypeOK ==
  /\ now \in FirstTime..LastTime /\ offset \in -MaxOffset..MaxOffset
  /\ Cardinality(net) <= MaxInFlight
  /\ \A m \in net :
       /\ m.kind \in ToOutside \cup ToInside /\ m.age \in 0..MaxAge
       /\ m.e.ut \in 0..(Word - 1) /\ m.e.ext \in Extension /\ m.e.Len \in 0..3

(* Seconds between the receiver's clock and the one that stamped m. *)
Apart(m) == IF Clock(m.kind) > m.sentAt THEN Clock(m.kind) - m.sentAt
                                        ELSE m.sentAt - Clock(m.kind)

AcceptedAs(m, bIsInsideToOutside) ==
  \E junk \in Extension : Decodes(Received(m, junk), bIsInsideToOutside, Clock(m.kind))

(* The types hold, and whatever the word of the time does, a packet is     *)
(* never accepted that is older or more ahead than the tolerance, not even *)
(* at the wrap around, and none that was meant for the other direction.    *)
NeverStale ==
  /\ TypeOK
  /\ \A m \in net :
       /\ AcceptedAs(m, m.kind \in ToOutside) => Apart(m) <= MaxUnixTimeDiff
       /\ ~AcceptedAs(m, m.kind \notin ToOutside)

(* "The exchange of HELO datagrams may fail during a couple of seconds     *)
(* around wrap around": a packet within the tolerance is accepted, with    *)
(* any junk behind its end, and decodes to the full time it was sent at,   *)
(* unless the word wrapped around between the two clocks.                  *)
FailsOnlyAtWrapAround ==
  \A m \in net, junk \in Extension :
    LET e == Received(m, junk) IN
    Apart(m) <= MaxUnixTimeDiff /\ m.sentAt \div Word = Clock(m.kind) \div Word =>
      /\ Decodes(e, m.kind \in ToOutside, Clock(m.kind))
      /\ DecodeControlPacket(e, Clock(m.kind)).UnixTime = m.sentAt

(* What Inside sends back for an announcement is byte for byte the key     *)
(* under which Outside has parked the connection, although it was decoded  *)
(* and encoded anew by another clock; and whatever tcpbohrer encodes has   *)
(* the 14 bytes without which goSendToInside drops it.                     *)
KeyComesBack ==
  \A m \in net :
    /\ m.kind = "key" => m.e = m.key
    /\ m.kind \in {"tcpHelo", "tcpAnswer", "call", "key"} => m.e.Len = 2
=============================================================================
