------------------------- MODULE LocalChannelsProofs -------------------------
(***************************************************************************)
(* Proofs about LocalChannels, for any keys, channels, capacity, timeouts  *)
(* and interval.  A goroutine knows its entry by its key only, so that     *)
(* everything depends on one fact: the channel of an entry has the key of  *)
(* the entry.  PhaseInv then says how far both goroutines of an entry are: *)
(* they serve it, or, once it is asked to terminate, each second brings    *)
(* them one step nearer to their end.  Cleanup comes again only after more *)
(* than 2 * CleanUpInterval seconds, when they are done.                   *)
(***************************************************************************)
EXTENDS LocalChannels, TLAPS

(* A goroutine of an entry that is, or is not, asked to terminate. *)
Phase(w, terminate) ==
  IF terminate
  THEN /\ go[w] \in Live \cup {"done"}
       /\ sinceCleanUp >= 1 /\ w \notin due => go[w] \in {"leaving", "done"}
       /\ sinceCleanUp >= 2 => go[w] \in {"leaving", "done"} /\ (w \notin due => go[w] = "done")
       /\ sinceCleanUp >= 3 => go[w] = "done"
  ELSE go[w] \in {"starting", "check", "select"}

PhaseInv ==
  \A k \in Keys, w \in Workers :
    InMap(k) /\ w[1] = table[k].ChToLocal => Phase(w, table[k].RequestTermination)

TargetInv ==
  main = "send" =>
    \E k \in Keys : InMap(k) /\ ~table[k].RequestTermination /\ table[k].ChToLocal = target

IInv == TypeOK /\ PhaseInv /\ TargetInv

Entry == UDPConnToLocal \cup {NoEntry}

(* The type invariant without what it says of the entries' channels. *)
Types ==
  /\ table \in [Keys -> Entry]
  /\ chan \in [Channels -> [key : Keys, open : BOOLEAN, queue : 0..ChanSize]]
  /\ go \in [Workers -> Live \cup {"done", "panicked"}]
  /\ chout \in SUBSET Keys
  /\ main \in {"read", "send", "clean"}
  /\ target \in Channels \cup {NoEntry}
  /\ sinceCleanUp \in 0..CleanUpCap
  /\ due \in SUBSET Workers

OwnChannel ==
  \A k \in Keys : InMap(k) => chan[table[k].ChToLocal].open /\ chan[table[k].ChToLocal].key = k

LEMMA TypeParts == TypeOK <=> Types /\ OwnChannel
BY DEF TypeOK, Types, OwnChannel, Entry

LEMMA Caps == AgeCap \in Nat /\ CleanUpInterval \in Nat /\ CleanUpInterval >= 1
              /\ CleanUpCap = 2 * CleanUpInterval + 1 /\ CleanUpCap \in Nat
BY ChannelAssumption DEF AgeCap, CleanUpCap

LEMMA WorkerType ==
  /\ \A w \in Workers : w[1] \in Channels
  /\ \A c \in Channels : <<c, "send">> \in Workers /\ <<c, "recv">> \in Workers
BY DEF Workers

LEMMA EntryType ==
  ASSUME Types, NEW k \in Keys, InMap(k)
  PROVE  /\ table[k] \in UDPConnToLocal
         /\ table[k].ChToLocal \in Channels
         /\ table[k].RequestTermination \in BOOLEAN
         /\ table[k].RunningGoRoutines \in Int
         /\ table[k].TimePacketToLocal \in Nat
         /\ table[k].TimePacketToOutside \in Nat \cup {Never}
<1>1. table[k] \in UDPConnToLocal
  BY DEF Types, InMap, Entry
<1> QED
  BY <1>1 DEF UDPConnToLocal

(* The channel tells the key. *)
LEMMA OneOwner ==
  ASSUME Types, OwnChannel
  PROVE  \A k, j \in Keys :
           InMap(k) /\ InMap(j) /\ table[k].ChToLocal = table[j].ChToLocal => k = j
BY DEF OwnChannel

LEMMA KeyOfWorker ==
  ASSUME Types, OwnChannel, NEW w \in Workers
  PROVE  /\ Key(w) \in Keys
         /\ \A k \in Keys : InMap(k) /\ w[1] = table[k].ChToLocal => Key(w) = k
<1>1. Key(w) \in Keys
  BY WorkerType DEF Key, Types
<1> QED
  BY <1>1 DEF Key, OwnChannel

-----------------------------------------------------------------------------
(* Steps that leave the entries in place. *)

(* Neither what channel an entry has nor whether it is to terminate. *)
SameEntries ==
  /\ table' \in [Keys -> Entry]
  /\ \A k \in Keys :
       /\ table'[k] # NoEntry <=> table[k] # NoEntry
       /\ table[k] # NoEntry =>
            /\ table'[k].ChToLocal = table[k].ChToLocal
            /\ table'[k].RequestTermination = table[k].RequestTermination

LEMMA CountedSame ==
  ASSUME Types, NEW k \in Keys, NEW n \in {1, -1}, table' = Counted(k, n)
  PROVE  SameEntries
<1>1. CASE ~InMap(k)
  BY <1>1 DEF Counted, SameEntries, Types
<1>2. CASE InMap(k)
  <2> DEFINE e == [table[k] EXCEPT !.RunningGoRoutines = @ + n]
  <2>1. table[k] \in UDPConnToLocal /\ table[k].RunningGoRoutines \in Int
    BY <1>2, EntryType
  <2>2. /\ e \in UDPConnToLocal
        /\ e.ChToLocal = table[k].ChToLocal
        /\ e.RequestTermination = table[k].RequestTermination
    BY <2>1 DEF UDPConnToLocal
  <2>3. table' = [table EXCEPT ![k] = e]
    BY <1>2 DEF Counted
  <2> HIDE DEF e
  <2>4. e # NoEntry /\ table[k] # NoEntry
    BY <1>2, <2>2, ChannelAssumption DEF InMap
  <2> QED
    BY <2>2, <2>3, <2>4 DEF SameEntries, Types, Entry
<1> QED
  BY <1>1, <1>2

LEMMA EntriesStay ==
  ASSUME Types, OwnChannel, SameEntries, chan' \in [Channels -> [key : Keys, open : BOOLEAN, queue : 0..ChanSize]],
         \A c \in Channels : chan'[c].key = chan[c].key /\ chan'[c].open = chan[c].open
  PROVE  OwnChannel'
<1> SUFFICES ASSUME NEW k \in Keys, InMap(k)'
             PROVE  chan'[table'[k].ChToLocal].open /\ chan'[table'[k].ChToLocal].key = k
  BY DEF OwnChannel
<1>1. InMap(k) /\ table'[k].ChToLocal = table[k].ChToLocal
  BY DEF SameEntries, InMap
<1>2. table[k].ChToLocal \in Channels
  BY <1>1, EntryType
<1> QED
  BY <1>1, <1>2 DEF OwnChannel

(* One goroutine takes a step; the others are where they were. *)
LEMMA WorkerMoves ==
  ASSUME Types, PhaseInv, SameEntries, NEW v \in Workers,
         \A w \in Workers : w # v => go'[w] = go[w] /\ (w \in due' <=> w \in due),
         sinceCleanUp' = sinceCleanUp,
         \A k \in Keys : InMap(k) /\ v[1] = table[k].ChToLocal => Phase(v, table[k].RequestTermination)'
  PROVE  PhaseInv'
<1> SUFFICES ASSUME NEW k \in Keys, NEW w \in Workers, InMap(k)', w[1] = table'[k].ChToLocal
             PROVE  Phase(w, table[k].RequestTermination)'
  BY DEF PhaseInv
<1>1. /\ InMap(k) /\ table'[k].ChToLocal = table[k].ChToLocal
      /\ table'[k].RequestTermination = table[k].RequestTermination
  BY DEF SameEntries, InMap
<1>2. CASE w = v
  BY <1>1, <1>2
<1>3. CASE w # v
  <2>1. Phase(w, table[k].RequestTermination)
    BY <1>1 DEF PhaseInv
  <2> QED
    BY <1>1, <1>3, <2>1 DEF Phase
<1> QED
  BY <1>2, <1>3

LEMMA TargetStays ==
  ASSUME TargetInv, SameEntries, UNCHANGED <<main, target>>
  PROVE  TargetInv'
BY DEF TargetInv, SameEntries, InMap

LEMMA NothingInTable ==
  ASSUME Types, UNCHANGED table
  PROVE  SameEntries
BY DEF Types, SameEntries

LEMMA PhaseStays ==
  ASSUME PhaseInv, SameEntries, UNCHANGED <<go, due, sinceCleanUp>>
  PROVE  PhaseInv'
BY DEF PhaseInv, SameEntries, InMap, Phase

-----------------------------------------------------------------------------
(* Go_in2out_receive *)

LEMMA PacketToChannelInv ==
  ASSUME IInv, NEW k \in Keys, PacketToChannel(k)
  PROVE  IInv'
<1> USE DEF PacketToChannel
<1>1. Types /\ OwnChannel /\ PhaseInv
  BY TypeParts DEF IInv
<1>2. InMap(k) /\ ~table[k].RequestTermination
  BY DEF HasChannel
<1> DEFINE e == [table[k] EXCEPT !.TimePacketToLocal = 0]
<1>3. table[k] \in UDPConnToLocal
  BY <1>1, <1>2, EntryType
<1>4. /\ e \in UDPConnToLocal
      /\ e.ChToLocal = table[k].ChToLocal
      /\ e.RequestTermination = table[k].RequestTermination
  BY <1>3 DEF UDPConnToLocal
<1>5. table' = [table EXCEPT ![k] = e]
  OBVIOUS
<1> HIDE DEF e
<1>6. e # NoEntry /\ table[k] # NoEntry
  BY <1>2, <1>4, ChannelAssumption DEF InMap
<1>7. SameEntries
  BY <1>1, <1>4, <1>5, <1>6 DEF SameEntries, Types, Entry
<1>8. OwnChannel'
  BY <1>1, <1>7, EntriesStay DEF Types
<1>9. PhaseInv'
  BY <1>1, <1>7, PhaseStays
<1>10. TargetInv'
  BY <1>2, <1>6, <1>7 DEF TargetInv, SameEntries, InMap
<1>11. target' \in Channels
  BY <1>1, <1>2, EntryType
<1>12. Types'
  BY <1>1, <1>7, <1>11 DEF Types, SameEntries
<1> QED
  BY <1>8, <1>9, <1>10, <1>12, TypeParts, PTL DEF IInv

LEMMA PacketToNewChannelInv ==
  ASSUME IInv, NEW k \in Keys, NEW c \in Channels, PacketToNewChannel(k, c)
  PROVE  IInv'
<1> USE DEF PacketToNewChannel
<1>1. Types /\ OwnChannel /\ PhaseInv
  BY TypeParts DEF IInv
<1> DEFINE e == [ChToLocal |-> c, RequestTermination |-> FALSE, RunningGoRoutines |-> 0,
                 TimePacketToLocal |-> 0, TimePacketToOutside |-> Never]
           h == [key |-> k, open |-> TRUE, queue |-> 0]
<1>2. /\ e \in UDPConnToLocal /\ e.ChToLocal = c /\ e.RequestTermination = FALSE
  BY DEF UDPConnToLocal
<1>3. /\ h \in [key : Keys, open : BOOLEAN, queue : 0..ChanSize] /\ h.key = k /\ h.open
  BY ChannelAssumption
<1>4. /\ table' = [table EXCEPT ![k] = e] /\ chan' = [chan EXCEPT ![c] = h]
      /\ go' = [w \in Workers |-> IF w[1] = c THEN "starting" ELSE go[w]]
      /\ target' = c /\ main' = "send" /\ Unused(c)
      /\ UNCHANGED <<chout, sinceCleanUp, due>>
  OBVIOUS
<1> HIDE DEF e, h, PacketToNewChannel
<1>5. e # NoEntry
  BY <1>2, ChannelAssumption
<1>6. /\ table' \in [Keys -> Entry] /\ table'[k] = e
      /\ \A j \in Keys : j # k => table'[j] = table[j]
  BY <1>1, <1>2, <1>4 DEF Types, Entry
<1>7. /\ chan' \in [Channels -> [key : Keys, open : BOOLEAN, queue : 0..ChanSize]] /\ chan'[c] = h
      /\ \A d \in Channels : d # c => chan'[d] = chan[d]
  BY <1>1, <1>3, <1>4 DEF Types
<1>8. \A j \in Keys : InMap(j) => table[j].ChToLocal # c /\ table[j].ChToLocal \in Channels
  BY <1>1, <1>4, EntryType DEF Unused
<1>9. OwnChannel'
  BY <1>1, <1>2, <1>3, <1>6, <1>7, <1>8 DEF OwnChannel, InMap
<1>10. /\ go' \in [Workers -> Live \cup {"done", "panicked"}]
       /\ \A w \in Workers : go'[w] = IF w[1] = c THEN "starting" ELSE go[w]
  BY <1>1, <1>4 DEF Types, Live
<1>11. PhaseInv'
  <2> SUFFICES ASSUME NEW j \in Keys, NEW w \in Workers, InMap(j)', w[1] = table'[j].ChToLocal
               PROVE  Phase(w, table[j].RequestTermination)'
    BY DEF PhaseInv
  <2>1. CASE j = k
    BY <1>2, <1>4, <1>6, <1>10, <2>1 DEF Phase
  <2>2. CASE j # k
    <3>1. InMap(j) /\ table'[j] = table[j] /\ w[1] # c
      BY <1>6, <1>8, <2>2 DEF InMap
    <3>2. Phase(w, table[j].RequestTermination)
      BY <1>1, <3>1 DEF PhaseInv
    <3> QED
      BY <1>4, <1>10, <3>1, <3>2 DEF Phase
  <2> QED
    BY <2>1, <2>2
<1>12. TargetInv'
  BY <1>2, <1>4, <1>5, <1>6 DEF TargetInv, InMap
<1>13. Types'
  BY <1>1, <1>4, <1>6, <1>7, <1>10 DEF Types
<1> QED
  BY <1>9, <1>11, <1>12, <1>13, TypeParts, PTL DEF IInv

LEMMA NoPacketInv ==
  ASSUME IInv, NoPacket
  PROVE  IInv'
<1> USE DEF NoPacket
<1>1. Types /\ OwnChannel /\ PhaseInv
  BY TypeParts DEF IInv
<1>2. SameEntries
  BY <1>1, NothingInTable
<1>3. PhaseInv' /\ OwnChannel'
  BY <1>1, <1>2, PhaseStays, EntriesStay DEF Types
<1>4. TargetInv'
  BY DEF TargetInv
<1>5. Types'
  BY <1>1 DEF Types
<1> QED
  BY <1>3, <1>4, <1>5, TypeParts, PTL DEF IInv

LEMMA TargetIsChannel ==
  ASSUME Types, TargetInv, main = "send"
  PROVE  target \in Channels
BY EntryType DEF TargetInv

LEMMA DeliverInv ==
  ASSUME IInv, Deliver
  PROVE  IInv'
<1> USE DEF Deliver
<1>1. Types /\ OwnChannel /\ PhaseInv /\ TargetInv
  BY TypeParts DEF IInv
<1>2. target \in Channels
  BY <1>1, TargetIsChannel
<1> DEFINE h == [chan[target] EXCEPT !.queue = @ + 1]
<1>3. chan[target] \in [key : Keys, open : BOOLEAN, queue : 0..ChanSize] /\ ChanSize \in Nat
  BY <1>1, <1>2, ChannelAssumption DEF Types
<1>4. /\ h \in [key : Keys, open : BOOLEAN, queue : 0..ChanSize]
      /\ h.key = chan[target].key /\ h.open = chan[target].open
  BY <1>3
<1>5. chan' = [chan EXCEPT ![target] = h]
  OBVIOUS
<1> HIDE DEF h
<1>6. /\ chan' \in [Channels -> [key : Keys, open : BOOLEAN, queue : 0..ChanSize]]
      /\ \A c \in Channels : chan'[c].key = chan[c].key /\ chan'[c].open = chan[c].open
  BY <1>1, <1>2, <1>4, <1>5 DEF Types
<1>7. SameEntries
  BY <1>1, NothingInTable
<1>8. PhaseInv' /\ OwnChannel'
  BY <1>1, <1>6, <1>7, PhaseStays, EntriesStay
<1>9. TargetInv'
  BY DEF TargetInv
<1>10. Types'
  BY <1>1, <1>6 DEF Types
<1> QED
  BY <1>8, <1>9, <1>10, TypeParts, PTL DEF IInv

-----------------------------------------------------------------------------
(* Cleanup *)

(* The entries Cleanup removes. *)
Removed == {k \in Keys : InMap(k) /\ Removable(k)}

LEMMA CleanupTable ==
  ASSUME Types, Cleanup
  PROVE  /\ table' \in [Keys -> Entry]
         /\ \A k \in Keys :
              /\ table'[k] # NoEntry <=> InMap(k) /\ k \notin Removed
              /\ InMap(k) /\ k \notin Removed =>
                   /\ table'[k].ChToLocal = table[k].ChToLocal
                   /\ table[k].RequestTermination => table'[k].RequestTermination
<1>1. ASSUME NEW k \in Keys, InMap(k), k \notin Removed
      PROVE  /\ table'[k] \in UDPConnToLocal /\ table'[k] # NoEntry
             /\ table'[k].ChToLocal = table[k].ChToLocal
             /\ table[k].RequestTermination => table'[k].RequestTermination
  <2> DEFINE t == TimedOut(k)
  <2>1. table'[k] = [table[k] EXCEPT !.RequestTermination = @ \/ TimedOut(k)]
    BY <1>1 DEF Cleanup, Removed
  <2>2. PICK b \in BOOLEAN : b <=> TimedOut(k)
    BY DEF TimedOut
  <2>3. table[k] \in UDPConnToLocal
    BY <1>1, EntryType
  <2>4. PICK r \in BOOLEAN : r = (table[k].RequestTermination \/ TimedOut(k))
    OBVIOUS
  <2>5. table'[k] = [table[k] EXCEPT !.RequestTermination = r]
    BY <2>1, <2>4
  <2>6. table'[k] \in UDPConnToLocal /\ table'[k].ChToLocal = table[k].ChToLocal
        /\ table'[k].RequestTermination = r
    BY <2>3, <2>5 DEF UDPConnToLocal
  <2> QED
    BY <2>4, <2>6, ChannelAssumption
<1>2. ASSUME NEW k \in Keys, ~InMap(k) \/ k \in Removed
      PROVE  table'[k] = NoEntry
  BY <1>2 DEF Cleanup, Removed
<1>3. table' = [k \in Keys |-> table'[k]]
  BY DEF Cleanup
<1>4. table' \in [Keys -> Entry]
  BY <1>1, <1>2, <1>3 DEF Entry
<1> QED
  BY <1>1, <1>2, <1>4 DEF Removed

LEMMA CleanupChannels ==
  ASSUME Types, Cleanup
  PROVE  /\ chan' \in [Channels -> [key : Keys, open : BOOLEAN, queue : 0..ChanSize]]
         /\ \A c \in Channels :
              /\ chan'[c].key = chan[c].key
              /\ chan'[c].open <=> chan[c].open /\ \A k \in Removed : table[k].ChToLocal # c
<1>1. ASSUME NEW c \in Channels
      PROVE  /\ chan'[c] \in [key : Keys, open : BOOLEAN, queue : 0..ChanSize]
             /\ chan'[c].key = chan[c].key
             /\ chan'[c].open <=> chan[c].open /\ \A k \in Removed : table[k].ChToLocal # c
  <2>1. chan[c] \in [key : Keys, open : BOOLEAN, queue : 0..ChanSize]
    BY DEF Types
  <2>2. chan'[c] = [chan[c] EXCEPT !.open = @ /\ \A k \in Removed : table[k].ChToLocal # c]
    BY DEF Cleanup, Removed
  <2>3. PICK b \in BOOLEAN : b = (chan[c].open /\ \A k \in Removed : table[k].ChToLocal # c)
    OBVIOUS
  <2>4. chan'[c] = [chan[c] EXCEPT !.open = b]
    BY <2>2, <2>3
  <2>5. /\ chan'[c] \in [key : Keys, open : BOOLEAN, queue : 0..ChanSize]
        /\ chan'[c].key = chan[c].key /\ chan'[c].open = b
    BY <2>1, <2>4
  <2> QED
    BY <2>3, <2>5
<1>2. chan' = [c \in Channels |-> chan'[c]]
  BY DEF Cleanup
<1> QED
  BY <1>1, <1>2

(* The goroutines of an entry to be removed are done by the time of the    *)
(* next Cleanup.                                                           *)
LEMMA DoneWhenDue ==
  ASSUME Types, PhaseInv, CleanUpDue, NEW k \in Removed, NEW w \in Workers,
         w[1] = table[k].ChToLocal
  PROVE  go[w] = "done"
<1>1. k \in Keys /\ InMap(k) /\ table[k].RequestTermination
  BY DEF Removed, Removable
<1>2. sinceCleanUp >= 3
  BY Caps DEF CleanUpDue, Types
<1> QED
  BY <1>1, <1>2 DEF PhaseInv, Phase

LEMMA EndOfIterationInv ==
  ASSUME IInv, EndOfIteration
  PROVE  IInv'
<1> USE DEF EndOfIteration
<1>1. Types /\ OwnChannel /\ PhaseInv
  BY TypeParts DEF IInv
<1>2. TargetInv'
  BY DEF TargetInv
<1>3. CASE ~CleanUpDue
  <2>1. SameEntries
    BY <1>1, <1>3, NothingInTable
  <2>2. PhaseInv' /\ OwnChannel'
    BY <1>1, <1>3, <2>1, PhaseStays, EntriesStay DEF Types
  <2>3. Types'
    BY <1>1, <1>3 DEF Types
  <2> QED
    BY <1>2, <2>2, <2>3, TypeParts, PTL DEF IInv
<1>4. CASE CleanUpDue
  <2>1. Cleanup /\ sinceCleanUp' = 0 /\ UNCHANGED <<target, go, chout, due>>
    BY <1>4
  <2>2. /\ table' \in [Keys -> Entry]
        /\ \A k \in Keys :
              /\ table'[k] # NoEntry <=> InMap(k) /\ k \notin Removed
              /\ InMap(k) /\ k \notin Removed =>
                   /\ table'[k].ChToLocal = table[k].ChToLocal
                   /\ table[k].RequestTermination => table'[k].RequestTermination
    BY <1>1, <2>1, CleanupTable
  <2>3. /\ chan' \in [Channels -> [key : Keys, open : BOOLEAN, queue : 0..ChanSize]]
        /\ \A c \in Channels :
              /\ chan'[c].key = chan[c].key
              /\ chan'[c].open <=> chan[c].open /\ \A k \in Removed : table[k].ChToLocal # c
    BY <1>1, <2>1, CleanupChannels
  <2>4. OwnChannel'
    <3> SUFFICES ASSUME NEW k \in Keys, InMap(k)'
                 PROVE  chan'[table'[k].ChToLocal].open /\ chan'[table'[k].ChToLocal].key = k
      BY DEF OwnChannel
    <3>1. InMap(k) /\ k \notin Removed /\ table'[k].ChToLocal = table[k].ChToLocal
      BY <2>2 DEF InMap
    <3>2. table[k].ChToLocal \in Channels
      BY <1>1, <3>1, EntryType
    <3>3. \A j \in Removed : j \in Keys /\ InMap(j) /\ j # k
      BY <3>1 DEF Removed
    <3>4. \A j \in Removed : table[j].ChToLocal # table[k].ChToLocal
      BY <1>1, <3>1, <3>3, OneOwner
    <3> QED
      BY <1>1, <2>3, <3>1, <3>2, <3>4 DEF OwnChannel
  <2>5. PhaseInv'
    <3> SUFFICES ASSUME NEW k \in Keys, NEW w \in Workers, InMap(k)', w[1] = table'[k].ChToLocal
                 PROVE  Phase(w, table[k].RequestTermination)'
      BY DEF PhaseInv
    <3>1. /\ InMap(k) /\ table'[k].ChToLocal = table[k].ChToLocal
          /\ table[k].RequestTermination => table'[k].RequestTermination
      BY <2>2 DEF InMap
    <3>2. Phase(w, table[k].RequestTermination)
      BY <1>1, <3>1 DEF PhaseInv
    <3> QED
      BY <2>1, <3>1, <3>2 DEF Phase, Live
  <2>6. Types'
    BY <1>1, <2>1, <2>2, <2>3, Caps DEF Types
  <2> QED
    BY <1>2, <2>4, <2>5, <2>6, TypeParts, PTL DEF IInv
<1> QED
  BY <1>3, <1>4

-----------------------------------------------------------------------------
(* The goroutines of an entry, and the clock. *)

(* What a goroutine does to itself. *)
WorkerStep(w, g, d) ==
  /\ w \in Workers /\ g \in Live \cup {"done"}
  /\ go' = [go EXCEPT ![w] = g]
  /\ d \subseteq {w} /\ due' = due \ d
  /\ UNCHANGED <<main, target, sinceCleanUp>>
  /\ chout' \in SUBSET Keys

(* A goroutine goes on as its phase allows, at the entry or beside it. *)
LEMMA WorkerStepInv ==
  ASSUME IInv, SameEntries, NEW w, NEW g, NEW d, WorkerStep(w, g, d),
         chan' \in [Channels -> [key : Keys, open : BOOLEAN, queue : 0..ChanSize]],
         \A c \in Channels : chan'[c].key = chan[c].key /\ chan'[c].open = chan[c].open,
         \A k \in Keys : InMap(k) /\ w[1] = table[k].ChToLocal =>
           IF table[k].RequestTermination
           THEN /\ g # "done" => go[w] \notin {"leaving", "done"}
                /\ g \notin {"leaving", "done"} => w \notin d
           ELSE g \in {"starting", "check", "select"}
  PROVE  IInv'
<1> USE DEF WorkerStep
<1>1. Types /\ OwnChannel /\ PhaseInv /\ TargetInv
  BY TypeParts DEF IInv
<1>2. /\ go'[w] = g
      /\ \A v \in Workers : v # w => go'[v] = go[v] /\ (v \in due' <=> v \in due)
      /\ w \in due' <=> w \in due /\ w \notin d
  BY <1>1 DEF Types
<1>3. ASSUME NEW k \in Keys, InMap(k), w[1] = table[k].ChToLocal
      PROVE  Phase(w, table[k].RequestTermination)'
  <2>1. table'[k].RequestTermination = table[k].RequestTermination
    BY <1>3 DEF SameEntries, InMap
  <2>2. Phase(w, table[k].RequestTermination)
    BY <1>1, <1>3 DEF PhaseInv
  <2>3. CASE table[k].RequestTermination
    BY <1>2, <1>3, <2>1, <2>2, <2>3 DEF Phase, Live
  <2>4. CASE ~table[k].RequestTermination
    BY <1>2, <1>3, <2>1, <2>4 DEF Phase
  <2> QED
    BY <2>3, <2>4
<1>4. PhaseInv'
  BY <1>1, <1>2, <1>3, WorkerMoves
<1>5. OwnChannel'
  BY <1>1, EntriesStay
<1>6. TargetInv'
  BY <1>1, TargetStays
<1>7. go' \in [Workers -> Live \cup {"done", "panicked"}] /\ due' \in SUBSET Workers
  BY <1>1 DEF Types
<1>8. Types'
  BY <1>1, <1>7 DEF Types, SameEntries
<1> QED
  BY <1>4, <1>5, <1>6, <1>8, TypeParts, PTL DEF IInv

LEMMA WorkInv ==
  ASSUME IInv, NEW w \in Workers, Work(w)
  PROVE  IInv'
<1>1. Types /\ OwnChannel
  BY TypeParts DEF IInv
<1>2. /\ Key(w) \in Keys
      /\ \A k \in Keys : InMap(k) /\ w[1] = table[k].ChToLocal => Key(w) = k
  BY <1>1, KeyOfWorker
<1>3. chan \in [Channels -> [key : Keys, open : BOOLEAN, queue : 0..ChanSize]] /\ chout \in SUBSET Keys
      /\ due \in SUBSET Workers
  BY <1>1 DEF Types
<1>4. \A k \in Keys : InMap(k) /\ w[1] = table[k].ChToLocal /\ ~table[k].RequestTermination =>
        go[w] \in {"starting", "check", "select"}
  BY DEF IInv, PhaseInv, Phase
<1>5. CASE Start(w)
  <2>1. SameEntries
    BY <1>1, <1>2, <1>5, CountedSame DEF Start
  <2>2. WorkerStep(w, "check", {})
    BY <1>3, <1>5 DEF Start, WorkerStep, mainVars, Live
  <2>3. go[w] = "starting" /\ chan' = chan
    BY <1>5 DEF Start
  <2> QED
    BY <1>3, <2>1, <2>2, <2>3, WorkerStepInv
<1>6. CASE Check(w)
  <2>1. SameEntries
    BY <1>1, <1>6, NothingInTable DEF Check
  <2>2. PICK g \in {"leaving", "select"} : g = (IF Terminates(Key(w)) THEN "leaving" ELSE "select")
    OBVIOUS
  <2>3. WorkerStep(w, g, {w})
    BY <1>3, <1>6, <2>2 DEF Check, WorkerStep, mainVars, Live
  <2>4. go[w] = "check" /\ chan' = chan
    BY <1>6 DEF Check
  <2>5. ASSUME NEW k \in Keys, InMap(k), w[1] = table[k].ChToLocal
        PROVE  g = IF table[k].RequestTermination THEN "leaving" ELSE "select"
    BY <1>2, <2>2, <2>5 DEF Terminates
  <2> QED
    BY <1>3, <2>1, <2>3, <2>4, <2>5, WorkerStepInv
<1>7. CASE Leave(w)
  <2>1. SameEntries
    BY <1>1, <1>2, <1>7, CountedSame DEF Leave
  <2>2. WorkerStep(w, "done", {w})
    BY <1>3, <1>7 DEF Leave, WorkerStep, mainVars
  <2>3. go[w] = "leaving" /\ chan' = chan
    BY <1>7 DEF Leave
  <2> QED
    BY <1>3, <1>4, <2>1, <2>2, <2>3, WorkerStepInv
<1>8. CASE Idle(w)
  <2>1. SameEntries
    BY <1>1, <1>8, NothingInTable DEF Idle
  <2>2. WorkerStep(w, "check", {})
    BY <1>3, <1>8 DEF Idle, WorkerStep, mainVars, Live
  <2>3. go[w] = "select" /\ chan' = chan
    BY <1>8 DEF Idle
  <2> QED
    BY <1>3, <2>1, <2>2, <2>3, WorkerStepInv
<1> QED
  BY <1>5, <1>6, <1>7, <1>8 DEF Work

LEMMA ReceiveFromLocalInv ==
  ASSUME IInv, NEW c \in Channels, ReceiveFromLocal(c)
  PROVE  IInv'
<1> DEFINE w == <<c, "recv">>
<1>1. Types /\ OwnChannel /\ w \in Workers
  BY TypeParts, WorkerType DEF IInv
<1>2. Key(w) \in Keys
  BY <1>1, KeyOfWorker
<1>3. /\ chan \in [Channels -> [key : Keys, open : BOOLEAN, queue : 0..ChanSize]]
      /\ chout \in SUBSET Keys /\ due \in SUBSET Workers
  BY <1>1 DEF Types
<1>4. /\ go[w] = "select" /\ go' = [go EXCEPT ![w] = "check"]
      /\ chout' = chout \cup {Key(w)}
      /\ UNCHANGED <<table, chan, main, target, sinceCleanUp, due>>
  BY DEF ReceiveFromLocal, mainVars
<1> HIDE DEF w
<1>5. SameEntries
  BY <1>1, <1>4, NothingInTable
<1>6. WorkerStep(w, "check", {})
  BY <1>1, <1>2, <1>3, <1>4 DEF WorkerStep, Live
<1> QED
  BY <1>3, <1>4, <1>5, <1>6, WorkerStepInv

(* A goroutine of an entry finds its channel open; one of a replaced entry *)
(* may panic and is of no entry any more.                                  *)
LEMMA SendToLocalInv ==
  ASSUME IInv, NEW c \in Channels, SendToLocal(c)
  PROVE  IInv'
<1> DEFINE w == <<c, "send">>
           h == [chan[c] EXCEPT !.queue = @ - 1]
<1>1. Types /\ OwnChannel /\ PhaseInv /\ TargetInv /\ w \in Workers /\ w[1] = c
  BY TypeParts, WorkerType DEF IInv
<1>2. /\ chan \in [Channels -> [key : Keys, open : BOOLEAN, queue : 0..ChanSize]]
      /\ chout \in SUBSET Keys /\ due \in SUBSET Workers
  BY <1>1 DEF Types
<1>3. /\ go[w] = "select" /\ UNCHANGED <<table, chout, main, target, sinceCleanUp, due>>
      /\ \/ chan[c].queue > 0 /\ chan' = [chan EXCEPT ![c] = h] /\ go' = [go EXCEPT ![w] = "check"]
         \/ ~chan[c].open /\ chan' = chan /\ go' = [go EXCEPT ![w] = "panicked"]
  BY DEF SendToLocal, mainVars
<1>4. chan[c] \in [key : Keys, open : BOOLEAN, queue : 0..ChanSize] /\ ChanSize \in Nat
  BY <1>2, ChannelAssumption
<1>5. chan[c].queue > 0 => /\ h \in [key : Keys, open : BOOLEAN, queue : 0..ChanSize]
                           /\ h.key = chan[c].key /\ h.open = chan[c].open
  BY <1>4
<1> HIDE DEF w, h
<1>6. SameEntries
  BY <1>1, <1>3, NothingInTable
<1>7. CASE chan[c].queue > 0 /\ chan' = [chan EXCEPT ![c] = h] /\ go' = [go EXCEPT ![w] = "check"]
  <2>1. /\ chan' \in [Channels -> [key : Keys, open : BOOLEAN, queue : 0..ChanSize]]
        /\ \A d \in Channels : chan'[d].key = chan[d].key /\ chan'[d].open = chan[d].open
    BY <1>2, <1>5, <1>7
  <2>2. WorkerStep(w, "check", {})
    BY <1>1, <1>2, <1>3, <1>7 DEF WorkerStep, Live
  <2> QED
    BY <1>3, <1>6, <2>1, <2>2, WorkerStepInv
<1>8. CASE ~chan[c].open /\ chan' = chan /\ go' = [go EXCEPT ![w] = "panicked"]
  <2>1. \A k \in Keys : InMap(k) => table[k].ChToLocal # w[1]
    BY <1>1, <1>8 DEF OwnChannel
  <2>2. \A v \in Workers : v # w => go'[v] = go[v] /\ (v \in due' <=> v \in due)
    BY <1>1, <1>3, <1>8 DEF Types
  <2>3. PhaseInv'
    BY <1>1, <1>3, <1>6, <2>1, <2>2, WorkerMoves
  <2>4. OwnChannel'
    BY <1>1, <1>2, <1>6, <1>8, EntriesStay
  <2>5. TargetInv'
    BY <1>1, <1>3, <1>6, TargetStays
  <2>6. go' \in [Workers -> Live \cup {"done", "panicked"}]
    BY <1>1, <1>8 DEF Types
  <2>7. Types'
    BY <1>1, <1>3, <1>8, <2>6 DEF Types
  <2> QED
    BY <2>3, <2>4, <2>5, <2>7, TypeParts, PTL DEF IInv
<1> QED
  BY <1>3, <1>7, <1>8

LEMMA SendToOutsideInv ==
  ASSUME IInv, NEW k \in Keys, SendToOutside(k)
  PROVE  IInv'
<1> USE DEF SendToOutside, mainVars
<1>1. Types /\ OwnChannel /\ PhaseInv /\ TargetInv
  BY TypeParts DEF IInv
<1>2. SameEntries
  <2>1. CASE ~InMap(k)
    BY <1>1, <2>1, NothingInTable
  <2>2. CASE InMap(k)
    <3> DEFINE e == [table[k] EXCEPT !.TimePacketToOutside = 0]
    <3>1. table[k] \in UDPConnToLocal
      BY <1>1, <2>2, EntryType
    <3>2. /\ e \in UDPConnToLocal
          /\ e.ChToLocal = table[k].ChToLocal
          /\ e.RequestTermination = table[k].RequestTermination
      BY <3>1 DEF UDPConnToLocal
    <3>3. table' = [table EXCEPT ![k] = e]
      BY <2>2
    <3> HIDE DEF e
    <3>4. e # NoEntry /\ table[k] # NoEntry
      BY <2>2, <3>2, ChannelAssumption DEF InMap
    <3> QED
      BY <1>1, <3>2, <3>3, <3>4 DEF SameEntries, Types, Entry
  <2> QED
    BY <2>1, <2>2
<1>3. PhaseInv' /\ OwnChannel' /\ TargetInv'
  BY <1>1, <1>2, PhaseStays, EntriesStay, TargetStays DEF Types
<1>4. Types'
  BY <1>1, <1>2 DEF Types, SameEntries
<1> QED
  BY <1>3, <1>4, TypeParts, PTL DEF IInv

LEMMA OlderType ==
  /\ \A n \in Nat : Older(n) \in Nat
  /\ \A n \in Nat \cup {Never} : Older(n) \in Nat \cup {Never}
BY Caps, ChannelAssumption DEF Older

(* Nobody has polled for a second: by then who was to leave has left. *)
LEMMA TickInv ==
  ASSUME IInv, Tick
  PROVE  IInv'
<1> USE DEF Tick, mainVars
<1>1. Types /\ OwnChannel /\ PhaseInv /\ TargetInv
  BY TypeParts DEF IInv
<1>2. ASSUME NEW k \in Keys, InMap(k)
      PROVE  /\ table'[k] \in UDPConnToLocal /\ table'[k] # NoEntry
             /\ table'[k].ChToLocal = table[k].ChToLocal
             /\ table'[k].RequestTermination = table[k].RequestTermination
  <2> DEFINE a == Older(table[k].TimePacketToLocal)
             b == Older(table[k].TimePacketToOutside)
  <2>1. /\ table[k] \in UDPConnToLocal /\ table[k].TimePacketToLocal \in Nat
        /\ table[k].TimePacketToOutside \in Nat \cup {Never}
    BY <1>1, <1>2, EntryType
  <2>2. a \in Nat /\ b \in Nat \cup {Never}
    BY <2>1, OlderType
  <2>3. table'[k] = [table[k] EXCEPT !.TimePacketToLocal = a, !.TimePacketToOutside = b]
    BY <1>2
  <2> HIDE DEF a, b, Tick
  <2>4. /\ table'[k] \in UDPConnToLocal /\ table'[k].ChToLocal = table[k].ChToLocal
        /\ table'[k].RequestTermination = table[k].RequestTermination
    BY <2>1, <2>2, <2>3 DEF UDPConnToLocal
  <2> QED
    BY <2>4, ChannelAssumption
<1>3. \A k \in Keys : ~InMap(k) => table'[k] = NoEntry
  OBVIOUS
<1>4. table' = [k \in Keys |-> table'[k]]
  OBVIOUS
<1>5. table' \in [Keys -> Entry]
  BY <1>2, <1>3, <1>4 DEF Entry
<1>6. SameEntries
  BY <1>2, <1>3, <1>5 DEF SameEntries, InMap
<1>7. sinceCleanUp' = IF sinceCleanUp = CleanUpCap THEN CleanUpCap ELSE sinceCleanUp + 1
  OBVIOUS
<1>8. /\ sinceCleanUp \in 0..CleanUpCap /\ sinceCleanUp' \in 0..CleanUpCap
      /\ sinceCleanUp' = sinceCleanUp + 1 \/ (sinceCleanUp >= 3 /\ sinceCleanUp' = sinceCleanUp)
  <2> HIDE DEF Tick
  <2>1. sinceCleanUp \in 0..CleanUpCap
    BY <1>1 DEF Types
  <2> QED
    BY <1>7, <2>1, Caps
<1>9. PhaseInv'
  <2> SUFFICES ASSUME NEW k \in Keys, NEW w \in Workers, InMap(k)', w[1] = table'[k].ChToLocal
               PROVE  Phase(w, table[k].RequestTermination)'
    BY DEF PhaseInv
  <2>1. /\ InMap(k) /\ table'[k].ChToLocal = table[k].ChToLocal
        /\ table'[k].RequestTermination = table[k].RequestTermination
    BY <1>6 DEF SameEntries, InMap
  <2>2. Phase(w, table[k].RequestTermination)
    BY <1>1, <2>1 DEF PhaseInv
  <2>3. due = {} /\ go' = go /\ due' = {v \in Workers : go[v] \in Live}
    OBVIOUS
  <2> HIDE DEF Tick
  <2>4. CASE table[k].RequestTermination
    <3>1. go[w] \in Live \cup {"done"} /\ (w \notin due' => go[w] = "done")
      BY <2>2, <2>3, <2>4 DEF Phase
    <3>2. sinceCleanUp' >= 2 => go[w] \in {"leaving", "done"}
      BY <1>8, <2>2, <2>3, <2>4 DEF Phase
    <3>3. sinceCleanUp' >= 3 => go[w] = "done"
      BY <1>8, <2>2, <2>3, <2>4 DEF Phase
    <3> QED
      BY <2>1, <2>3, <2>4, <3>1, <3>2, <3>3 DEF Phase
  <2>5. CASE ~table[k].RequestTermination
    BY <2>1, <2>2, <2>3, <2>5 DEF Phase
  <2> QED
    BY <2>4, <2>5
<1>10. OwnChannel' /\ TargetInv'
  BY <1>1, <1>6, EntriesStay, TargetStays DEF Types
<1>11. Types'
  BY <1>1, <1>5, <1>8 DEF Types
<1> QED
  BY <1>9, <1>10, <1>11, TypeParts, PTL DEF IInv

-----------------------------------------------------------------------------
(* The theorems. *)

LEMMA InitInv == Init => IInv
<1> SUFFICES ASSUME Init PROVE IInv
  OBVIOUS
<1> USE DEF Init
<1>1. \A k \in Keys : ~InMap(k)
  BY DEF InMap
<1>2. chan \in [Channels -> [key : Keys, open : BOOLEAN, queue : 0..ChanSize]]
  <2>1. 0 \in 0..ChanSize
    BY ChannelAssumption
  <2>2. [key : Keys, open : {FALSE}, queue : {0}] \subseteq [key : Keys, open : BOOLEAN, queue : 0..ChanSize]
    BY <2>1
  <2>3. chan \in [Channels -> [key : Keys, open : {FALSE}, queue : {0}]]
    OBVIOUS
  <2> HIDE DEF Init
  <2> QED
    BY <2>2, <2>3
<1>3. Types
  BY <1>2, Caps DEF Types, Entry
<1> QED
  BY <1>1, <1>3, TypeParts DEF IInv, OwnChannel, PhaseInv, TargetInv

LEMMA NextInv == IInv /\ [Next]_vars => IInv'
<1> SUFFICES ASSUME IInv, [Next]_vars PROVE IInv'
  OBVIOUS
<1>1. CASE \E k \in Keys : Packet(k) \/ SendToOutside(k)
  BY <1>1, PacketToChannelInv, PacketToNewChannelInv, SendToOutsideInv DEF Packet
<1>2. CASE Main
  BY <1>2, NoPacketInv, DeliverInv, EndOfIterationInv DEF Main
<1>3. CASE \E w \in Workers : Work(w)
  BY <1>3, WorkInv
<1>4. CASE \E c \in Channels : SendToLocal(c) \/ ReceiveFromLocal(c)
  BY <1>4, SendToLocalInv, ReceiveFromLocalInv
<1>5. CASE Tick
  BY <1>5, TickInv
<1>6. CASE UNCHANGED vars
  BY <1>6 DEF vars, mainVars, IInv, TypeOK, PhaseInv, Phase, TargetInv, InMap
<1> QED
  BY <1>1, <1>2, <1>3, <1>4, <1>5, <1>6 DEF Next

(* Types, phases and the target of the main goroutine, in every state.     *)
THEOREM Invariance == Spec => []IInv
BY InitInv, NextInv, PTL DEF Spec

(* Types; and every entry of the map has an open channel of its own, with  *)
(* the key it is stored under.                                             *)
THEOREM TypeCorrect == Spec => []TypeOK
<1>1. IInv => TypeOK
  BY DEF IInv
<1> QED
  BY <1>1, Invariance, PTL

(* Go_in2out_receive sends a message on a channel only while the channel   *)
(* is open and its sender goroutine serves it.                             *)
THEOREM Served == Spec => []ChannelServed
<1>1. IInv => ChannelServed
  <2> SUFFICES ASSUME IInv, main = "send"
               PROVE  chan[target].open /\ go[<<target, "send">>] \in {"starting", "check", "select"}
    BY DEF ChannelServed
  <2>1. PICK k \in Keys : InMap(k) /\ ~table[k].RequestTermination /\ table[k].ChToLocal = target
    BY DEF IInv, TargetInv
  <2>2. Types /\ OwnChannel /\ PhaseInv
    BY TypeParts DEF IInv
  <2>3. <<target, "send">> \in Workers /\ <<target, "send">>[1] = target
    BY <2>1, <2>2, EntryType, WorkerType
  <2> QED
    BY <2>1, <2>2, <2>3 DEF OwnChannel, PhaseInv, Phase
<1> QED
  BY <1>1, Invariance, PTL

(* No channel is closed under a goroutine that still uses it.              *)
THEOREM RemovedOnlyWhenDone == Spec => RemovedWhenDone
<1>1. IInv /\ [Next]_vars =>
        [\A c \in Channels : chan[c].open /\ ~chan'[c].open =>
           \A w \in Workers : w[1] = c => go[w] = "done"]_vars
  <2> SUFFICES ASSUME IInv, Next, NEW c \in Channels, chan[c].open, ~chan'[c].open,
                      NEW w \in Workers, w[1] = c
               PROVE  go[w] = "done"
    OBVIOUS
  <2>1. Types /\ OwnChannel /\ PhaseInv /\ TargetInv
    BY TypeParts DEF IInv
  <2>2. CASE EndOfIteration
    <3>1. CleanUpDue /\ Cleanup
      BY <2>2 DEF EndOfIteration
    <3>2. PICK k \in Removed : table[k].ChToLocal = c
      BY <2>1, <3>1, CleanupChannels
    <3> QED
      BY <2>1, <3>1, <3>2, DoneWhenDue
  <2>3. CASE \E k \in Keys : Packet(k)
    <3>1. PICK k \in Keys, d \in Channels :
            chan' = chan \/ chan' = [chan EXCEPT ![d] = [key |-> k, open |-> TRUE, queue |-> 0]]
      BY <2>3 DEF Packet, PacketToChannel, PacketToNewChannel
    <3> QED
      BY <2>1, <3>1 DEF Types
  <2>4. CASE Deliver
    <3>1. target \in Channels
      BY <2>1, <2>4, TargetIsChannel DEF Deliver
    <3>2. chan' = [chan EXCEPT ![target] = [chan[target] EXCEPT !.queue = @ + 1]]
      BY <2>4 DEF Deliver
    <3> QED
      BY <2>1, <3>1, <3>2 DEF Types
  <2>5. CASE \E d \in Channels : SendToLocal(d)
    <3>1. PICK d \in Channels :
            chan' = chan \/ chan' = [chan EXCEPT ![d] = [chan[d] EXCEPT !.queue = @ - 1]]
      BY <2>5 DEF SendToLocal
    <3> QED
      BY <2>1, <3>1 DEF Types
  <2>6. CASE \/ \E k \in Keys : SendToOutside(k)
             \/ NoPacket \/ Tick
             \/ \E v \in Workers : Work(v)
             \/ \E d \in Channels : ReceiveFromLocal(d)
    <3>1. chan' = chan
      BY <2>6 DEF SendToOutside, NoPacket, Tick, Work, Start, Check, Leave, Idle, ReceiveFromLocal
    <3> QED
      BY <3>1
  <2> QED
    BY <2>2, <2>3, <2>4, <2>5, <2>6 DEF Next, Main
<1> QED
  BY <1>1, Invariance, PTL DEF Spec, RemovedWhenDone
=============================================================================
