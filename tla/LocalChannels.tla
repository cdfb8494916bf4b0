--------------------------- MODULE LocalChannels ---------------------------
(***************************************************************************)
(* Inside's table of local channels: app/udpbohrer/udpconnmaplocal, the    *)
(* two goroutines udpconnin2local starts for every entry, and the part of  *)
(* Go_in2out_receive that creates entries, hands messages to them and      *)
(* calls Cleanup every so often.                                           *)
(*                                                                         *)
(* The map takes a key (Id, flow) to a UDPConnToLocal.  The goroutines     *)
(* hold their channel and socket, but reach the UDPConnToLocal only by its *)
(* key, when they count themselves and when they ask whether to terminate: *)
(* once their entry was replaced they read and write the new one.  Every   *)
(* method of the table is one critical section of its mutex, and one step  *)
(* here.  Only Go_in2out_receive changes the map.                          *)
(*                                                                         *)
(* Timestamps are ages in seconds, capped where no comparison can tell     *)
(* them apart.  A channel (with its socket) is used again once nothing     *)
(* refers to it, as the garbage collector would: Channels bounds how many  *)
(* exist at the same time, ChanSize how many messages one holds (128), and *)
(* chout holds at most one message of a key (2048 of all).                 *)
(***************************************************************************)
EXTENDS Integers, FiniteSets

CONSTANTS
  Keys,             \* pairs (Id, flow) that packets of Outside carry
  Channels,         \* channels to the local system, each with its socket
  ChanSize,         \* capacity of ChToLocal
  Single,           \* initTimeoutSeconds of the Ids
  Bidirectional,    \* timeoutSeconds of the Ids
  CleanUpInterval,  \* 5: what Go_in2out_receive adds to cleanUpTimeout
  NoEntry,          \* a key that is not in the map
  Never             \* the zero timestamp

(* A map value; TimePacketToLocal is set at once and never zero again. *)
UDPConnToLocal ==
  [ChToLocal : Channels, RequestTermination : BOOLEAN, RunningGoRoutines : Int,
   TimePacketToLocal : Nat, TimePacketToOutside : Nat \cup {Never}]

ASSUME ChannelAssumption ==
  /\ IsFiniteSet(Channels)
  /\ ChanSize \in Nat \ {0}
  /\ Single \in Nat /\ Bidirectional \in Nat /\ CleanUpInterval \in Nat \ {0}
  /\ NoEntry \notin UDPConnToLocal \cup Channels
  /\ Never \notin Nat

(* Go_send_to_local and Go_receive_from_local of a channel. *)
Workers == Channels \X {"send", "recv"}

VARIABLES
  table,         \* mapLocalChannel: key -> UDPConnToLocal
  chan,          \* the channels: their key, open or closed, messages in them
  go,            \* where each goroutine is
  chout,         \* keys with a message on the way to Outside
  main,          \* where Go_in2out_receive is
  target,        \* the channel its message goes to
  sinceCleanUp,  \* seconds since the last Cleanup
  due            \* goroutines that have not polled since the clock ticked

mainVars == <<main, target>>
vars     == <<table, chan, go, chout, mainVars, sinceCleanUp, due>>

AgeCap == (IF Single > Bidirectional THEN Single ELSE Bidirectional) + 1
CleanUpCap == 2 * CleanUpInterval + 1

Live == {"starting", "check", "select", "leaving"}

InMap(k) == table[k] # NoEntry
Key(w) == chan[w[1]].key

Unused(c) ==
  /\ \A k \in Keys : InMap(k) => table[k].ChToLocal # c
  /\ go[<<c, "send">>] \notin Live /\ go[<<c, "recv">>] \notin Live

Init ==
  /\ table = [k \in Keys |-> NoEntry]
  /\ chan \in [Channels -> [key : Keys, open : {FALSE}, queue : {0}]]
  /\ go = [w \in Workers |-> "done"]
  /\ chout = {}
  /\ main = "read"
  /\ target = NoEntry
  /\ sinceCleanUp = CleanUpCap
  /\ due = {}

-----------------------------------------------------------------------------
(* Go_in2out_receive: one iteration reads a packet, hands it over, cleans. *)

(* getLocalChannel: an entry asked to terminate is as good as none. *)
InMapOnly(k) == InMap(k)

HasChannel(k) == InMap(k) /\ ~table[k].RequestTermination

PacketToChannel(k) ==
  /\ main = "read"
  /\ HasChannel(k)
  /\ table' = [table EXCEPT ![k].TimePacketToLocal = 0]
  /\ target' = table[k].ChToLocal
  /\ main' = "send"
  /\ UNCHANGED <<chan, go, chout, sinceCleanUp, due>>

(* GetLocalChannel makes a new entry, in the place of one that terminates, *)
(* and both goroutines are started.                                        *)
PacketToNewChannel(k, c) ==
  /\ main = "read"
  /\ ~HasChannel(k)
  /\ Unused(c)
  /\ table' = [table EXCEPT ![k] =
                 [ChToLocal |-> c, RequestTermination |-> FALSE, RunningGoRoutines |-> 0,
                  TimePacketToLocal |-> 0, TimePacketToOutside |-> Never]]
  /\ chan' = [chan EXCEPT ![c] = [key |-> k, open |-> TRUE, queue |-> 0]]
  /\ go' = [w \in Workers |-> IF w[1] = c THEN "starting" ELSE go[w]]
  /\ target' = c
  /\ main' = "send"
  /\ UNCHANGED <<chout, sinceCleanUp, due>>

(* No packet within a second, or one without a configured Id or a port. *)
NoPacket ==
  /\ main = "read"
  /\ main' = "clean"
  /\ UNCHANGED <<table, chan, go, chout, target, sinceCleanUp, due>>

DeliverLeavingOneFree ==
  /\ main = "send"
  /\ chan[target].queue < ChanSize - 1
  /\ chan' = [chan EXCEPT ![target].queue = @ + 1]
  /\ main' = "clean"
  /\ target' = NoEntry
  /\ UNCHANGED <<table, go, chout, sinceCleanUp, due>>

(* ch <- msg blocks while the channel is full. *)
Deliver ==
  /\ main = "send"
  /\ chan[target].queue < ChanSize
  /\ chan' = [chan EXCEPT ![target].queue = @ + 1]
  /\ main' = "clean"
  /\ target' = NoEntry
  /\ UNCHANGED <<table, go, chout, sinceCleanUp, due>>

(* The branches of Cleanup. *)
RemovableWithOneLeft(k) == table[k].RequestTermination /\ table[k].RunningGoRoutines = 1
Removable(k) == table[k].RequestTermination /\ table[k].RunningGoRoutines = 0

TimedOut(k) ==
  \/ table[k].TimePacketToOutside = Never /\ table[k].TimePacketToLocal > Single
  \/ /\ table[k].TimePacketToOutside # Never
     /\ table[k].TimePacketToOutside > Bidirectional
     /\ table[k].TimePacketToLocal > Bidirectional

CleanupWithoutDelete ==
  /\ table' = [k \in Keys |->
                 IF ~InMap(k) THEN NoEntry
                 ELSE [table[k] EXCEPT !.RequestTermination = @ \/ TimedOut(k)]]
  /\ chan' = [c \in Channels |->
                [chan[c] EXCEPT !.open = @ /\ \A k \in Keys :
                   InMap(k) /\ Removable(k) => table[k].ChToLocal # c]]

Cleanup ==
  LET removed == {k \in Keys : InMap(k) /\ Removable(k)} IN
  /\ table' = [k \in Keys |->
                 IF k \in removed \/ ~InMap(k) THEN NoEntry
                 ELSE [table[k] EXCEPT !.RequestTermination = @ \/ TimedOut(k)]]
  /\ chan' = [c \in Channels |->
                [chan[c] EXCEPT !.open = @ /\ \A k \in removed : table[k].ChToLocal # c]]

(* ut > cleanUpTimeout+5, where the last Cleanup set it to its ut+5. *)
CleanUpAlways == TRUE
CleanUpDue == sinceCleanUp > 2 * CleanUpInterval

EndOfIteration ==
  /\ main = "clean"
  /\ main' = "read"
  /\ IF CleanUpDue
     THEN Cleanup /\ sinceCleanUp' = 0
     ELSE UNCHANGED <<table, chan, sinceCleanUp>>
  /\ UNCHANGED <<target, go, chout, due>>

-----------------------------------------------------------------------------
(* The goroutines of an entry. *)

Counted(k, n) ==
  IF InMap(k) THEN [table EXCEPT ![k].RunningGoRoutines = @ + n] ELSE table

(* IncrRunningGoRoutines *)
Start(w) ==
  /\ go[w] = "starting"
  /\ table' = Counted(Key(w), 1)
  /\ go' = [go EXCEPT ![w] = "check"]
  /\ UNCHANGED <<chan, chout, mainVars, sinceCleanUp, due>>

(* CheckRequestTermination: by default terminate, if the key is not found. *)
Terminates(k) == InMap(k) => table[k].RequestTermination

Check(w) ==
  /\ go[w] = "check"
  /\ go' = [go EXCEPT ![w] = IF Terminates(Key(w)) THEN "leaving" ELSE "select"]
  /\ due' = due \ {w}
  /\ UNCHANGED <<table, chan, chout, mainVars, sinceCleanUp>>

(* The deferred DecrRunningGoRoutines *)
Leave(w) ==
  /\ go[w] = "leaving"
  /\ table' = Counted(Key(w), -1)
  /\ go' = [go EXCEPT ![w] = "done"]
  /\ due' = due \ {w}
  /\ UNCHANGED <<chan, chout, mainVars, sinceCleanUp>>

(* A message for the local system is sent on; a closed and empty channel   *)
(* yields nil, which GetSliceWithoutIDFlow dereferences.                   *)
SendToLocal(c) ==
  LET w == <<c, "send">> IN
  /\ go[w] = "select"
  /\ \/ /\ chan[c].queue > 0
        /\ chan' = [chan EXCEPT ![c].queue = @ - 1]
        /\ go' = [go EXCEPT ![w] = "check"]
     \/ /\ chan[c].queue = 0 /\ ~chan[c].open
        /\ go' = [go EXCEPT ![w] = "panicked"]
        /\ UNCHANGED chan
  /\ UNCHANGED <<table, chout, mainVars, sinceCleanUp, due>>

(* A reply of the local system goes to the channel to Outside. *)
ReceiveFromLocal(c) ==
  LET w == <<c, "recv">> IN
  /\ go[w] = "select"
  /\ chan[c].open
  /\ chout' = chout \cup {Key(w)}
  /\ go' = [go EXCEPT ![w] = "check"]
  /\ UNCHANGED <<table, chan, mainVars, sinceCleanUp, due>>

(* A second without a message, or a read error on a closed socket; select  *)
(* lets no message wait.                                                   *)
Idle(w) ==
  /\ go[w] = "select"
  /\ w[2] = "send" => chan[w[1]].open /\ chan[w[1]].queue = 0
  /\ go' = [go EXCEPT ![w] = "check"]
  /\ UNCHANGED <<table, chan, chout, mainVars, sinceCleanUp, due>>

(* Go_in2out_send forwards a message and stamps the entry of its key. *)
SendToOutside(k) ==
  /\ k \in chout
  /\ chout' = chout \ {k}
  /\ table' = IF InMap(k) THEN [table EXCEPT ![k].TimePacketToOutside = 0] ELSE table
  /\ UNCHANGED <<chan, go, mainVars, sinceCleanUp, due>>

(* A second passes.  No loop of a goroutine takes longer: by the next tick *)
(* each that was alive has polled for termination.                         *)
Older(age) == IF age = Never \/ age = AgeCap THEN age ELSE age + 1

Tick ==
  /\ due = {}
  /\ table' = [k \in Keys |->
                 IF ~InMap(k) THEN NoEntry
                 ELSE [table[k] EXCEPT !.TimePacketToLocal = Older(@),
                                       !.TimePacketToOutside = Older(@)]]
  /\ sinceCleanUp' = IF sinceCleanUp = CleanUpCap THEN CleanUpCap ELSE sinceCleanUp + 1
  /\ due' = {w \in Workers : go[w] \in Live}
  /\ UNCHANGED <<chan, go, chout, mainVars>>

Packet(k) == PacketToChannel(k) \/ \E c \in Channels : PacketToNewChannel(k, c)
Main == NoPacket \/ Deliver \/ EndOfIteration
Work(w) == Start(w) \/ Check(w) \/ Leave(w) \/ Idle(w)

Next ==
  \/ \E k \in Keys : Packet(k) \/ SendToOutside(k)
  \/ Main
  \/ \E w \in Workers : Work(w)
  \/ \E c \in Channels : SendToLocal(c) \/ ReceiveFromLocal(c)
  \/ Tick

Spec == Init /\ [][Next]_vars

(* Every goroutine that can go on does, a sender takes what is queued, and *)
(* the clock runs; packets and replies may stop at any time.               *)
Fairness ==
  /\ WF_vars(Tick)
  /\ WF_vars(Main)
  /\ \A w \in Workers : WF_vars(Work(w))
  /\ \A c \in Channels : WF_vars(SendToLocal(c))

FairSpec == Spec /\ Fairness

-----------------------------------------------------------------------------
(* Properties *)

(* Types; the count of a replaced entry's goroutines may be negative.  And *)
(* every entry of the map has its own open channel and the key it is       *)
(* stored under, however often the key's entry was replaced.               *)
TypeOK ==
  /\ table \in [Keys -> UDPConnToLocal \cup {NoEntry}]
  /\ chan \in [Channels -> [key : Keys, open : BOOLEAN, queue : 0..ChanSize]]
  /\ go \in [Workers -> Live \cup {"done", "panicked"}]
  /\ chout \in SUBSET Keys
  /\ main \in {"read", "send", "clean"}
  /\ target \in Channels \cup {NoEntry}
  /\ sinceCleanUp \in 0..CleanUpCap
  /\ due \in SUBSET Workers
  /\ \A k \in Keys : InMap(k) =>
       LET c == table[k].ChToLocal IN chan[c].open /\ chan[c].key = k

(* A message is only ever sent on a channel that is open and whose sender  *)
(* goroutine has not gone: neither a panic nor a wait without end.         *)
ChannelServed ==
  main = "send" =>
    /\ chan[target].open
    /\ go[<<target, "send">>] \in {"starting", "check", "select"}

(* Cleanup removes an entry, and closes its channel and socket, only when  *)
(* its goroutines are gone, although they may have counted themselves at   *)
(* another entry ("no running Go routines").                               *)
RemovedWhenDone ==
  [][\A c \in Channels : chan[c].open /\ ~chan'[c].open =>
       \A w \in Workers : w[1] = c => go[w] = "done"]_vars

(* Go_in2out_receive never waits for ever on a full channel. *)
ReceiverNotStuck == (main = "send") ~> (main # "send")

(* An entry with termination requested whose goroutines are gone. *)
Terminated(k, c) ==
  /\ InMap(k) /\ table[k].ChToLocal = c /\ table[k].RequestTermination
  /\ \A w \in Workers : w[1] = c => go[w] = "done"

(* Cleanup removes the entries "with termination requested and no running  *)
(* Go routines": none stays for good, unless the goroutines of an entry in *)
(* whose place it came were counted down here, too, and the count went     *)
(* below zero.                                                             *)
DoneEntryRemoved ==
  \A k \in Keys, c \in Channels :
    []<>~(Terminated(k, c) /\ table[k].RunningGoRoutines = 0)
=============================================================================
