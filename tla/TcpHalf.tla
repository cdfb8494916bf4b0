------------------------------- MODULE TcpHalf -------------------------------
(***************************************************************************)
(* A pair of half connections: two goroutines that run                     *)
(* GoHalfTransferBetweenTcpConnections (tcpforwarddata) on the same two    *)
(* TCP connections in opposite directions, and the TCPTimeout they share.  *)
(* A half reads one byte under a deadline, takes the deadline off, reads   *)
(* what else there is, and writes all of it.                               *)
(*                                                                         *)
(* Bytes are counted, MaxBytes per direction.  A read yields what arrived  *)
(* by then.  A write succeeds or fails (reset, or its deadline passed); a  *)
(* reset that discards what waits to be read is left out.  Deadlines are   *)
(* seconds left.  A read whose deadline has passed fails also when bytes   *)
(* wait.  A goroutine runs within a second: the clock may tick once while  *)
(* bytes wait for a reader, not twice, and no deadline is overtaken        *)
(* unnoticed.  TCPTimeout is stamped and asked, yet decides nothing: after *)
(* a failed read the half returns in any case.                             *)
(***************************************************************************)
EXTENDS Integers

CONSTANTS
  SecondsTimeout,  \* secondsTimeout of the Id
  MaxBytes,        \* bound: bytes each peer sends
  NoDeadline       \* the zero time.Time

ASSUME HalfAssumption ==
  /\ SecondsTimeout \in Nat \ {0} /\ MaxBytes \in Nat
  /\ NoDeadline \notin Int

Halves == {"Remote->Outside", "Outside->Remote"}

VARIABLES
  pc,        \* per half: where its goroutine is
  sent,      \* per half: bytes the peer it reads from has sent
  closed,    \* per half: that peer has closed its side
  arrived,   \* per half: bytes that wait in the socket
  buf,       \* per half: n+n2, bytes read and not written
  written,   \* per half: bytes written to the other peer
  deadline,  \* per half: seconds to the read deadline
  idle,      \* TCPTimeout: seconds since lastTransmission
  due,       \* scheduling: halves that must run before the next tick
  waiting    \* history, per half: ticks in a row that found bytes waiting

peerVars  == <<sent, closed>>
clockVars == <<due, waiting>>
halfVars  == <<pc, peerVars, arrived, buf, written, deadline, idle, clockVars>>

IdleCap == SecondsTimeout + 1
WaitingCap == 2  \* bound of waiting: two or more

HalfInit ==
  /\ pc = [h \in Halves |-> "start"]
  /\ sent = [h \in Halves |-> 0]
  /\ closed = [h \in Halves |-> FALSE]
  /\ arrived = [h \in Halves |-> 0]
  /\ buf = [h \in Halves |-> 0]
  /\ written = [h \in Halves |-> 0]
  /\ deadline = [h \in Halves |-> NoDeadline]
  /\ idle = IdleCap
  /\ due = {}
  /\ waiting = [h \in Halves |-> 0]

-----------------------------------------------------------------------------

To(h, place) == pc' = [pc EXCEPT ![h] = place]

DataReceived == idle' = 0

SetReadDeadline(h) == deadline' = [deadline EXCEPT ![h] = SecondsTimeout]

Start(h) ==
  /\ pc[h] = "start"
  /\ DataReceived
  /\ SetReadDeadline(h)
  /\ To(h, "first")
  /\ UNCHANGED <<peerVars, arrived, buf, written, clockVars>>

DeadlineKept(h) == UNCHANGED deadline
ClearReadDeadline(h) == deadline' = [deadline EXCEPT ![h] = NoDeadline]

(* cread.Read(buf[0:1]) *)
ReadFirst(h) ==
  /\ pc[h] = "first"
  /\ arrived[h] > 0
  /\ arrived' = [arrived EXCEPT ![h] = @ - 1]
  /\ buf' = [buf EXCEPT ![h] = 1]
  /\ ClearReadDeadline(h)
  /\ due' = due \ {h}
  /\ To(h, "second")
  /\ UNCHANGED <<peerVars, written, idle, waiting>>

(* The read fails, at the end of the stream or because its deadline has    *)
(* passed, whatever waits in the socket: the half returns, whatever        *)
(* IsTimeout says, and its deferred calls close its ends.                  *)
ReadFails(h) ==
  /\ pc[h] = "first"
  /\ (closed[h] /\ arrived[h] = 0) \/ deadline[h] = 0
  /\ due' = due \ {h}
  /\ To(h, "done")
  /\ UNCHANGED <<peerVars, arrived, buf, written, deadline, idle, waiting>>

(* cread.Read(buf[n:]) waits for more, or for the end of the stream. *)
MoreArrived(h) == arrived[h] > 0
MayReadSecond(h) == arrived[h] > 0 \/ closed[h]

ReadSecond(h) ==
  /\ pc[h] = "second"
  /\ MayReadSecond(h)
  /\ buf' = [buf EXCEPT ![h] = @ + arrived[h]]
  /\ arrived' = [arrived EXCEPT ![h] = 0]
  /\ To(h, "write")
  /\ UNCHANGED <<peerVars, written, deadline, idle, clockVars>>

FirstByteOnly(h) == IF buf[h] > 0 THEN 1 ELSE 0
Output(h) == buf[h]

Write(h) ==
  /\ pc[h] = "write"
  /\ written' = [written EXCEPT ![h] = @ + Output(h)]
  /\ buf' = [buf EXCEPT ![h] = 0]
  /\ DataReceived
  /\ SetReadDeadline(h)
  /\ To(h, "first")
  /\ UNCHANGED <<peerVars, arrived, clockVars>>

WriteFails(h) ==
  /\ pc[h] = "write"
  /\ To(h, "failed")
  /\ UNCHANGED <<peerVars, arrived, buf, written, deadline, idle, clockVars>>

(* The peers and the clock *)
PeerSends(h) ==
  /\ ~closed[h]
  /\ sent[h] < MaxBytes
  /\ sent' = [sent EXCEPT ![h] = @ + 1]
  /\ arrived' = IF pc[h] \in {"done", "failed"} THEN arrived
                ELSE [arrived EXCEPT ![h] = @ + 1]
  /\ UNCHANGED <<pc, closed, buf, written, deadline, idle, clockVars>>

PeerCloses(h) ==
  /\ ~closed[h]
  /\ closed' = [closed EXCEPT ![h] = TRUE]
  /\ UNCHANGED <<pc, sent, arrived, buf, written, deadline, idle, clockVars>>

HalfTick ==
  /\ \A h \in Halves : pc[h] # "start" /\ (pc[h] = "first" => deadline[h] > 0)
  /\ due = {}
  /\ due' = {h \in Halves : pc[h] = "first" /\ arrived[h] > 0}
  /\ waiting' = [h \in Halves |-> IF arrived[h] = 0 THEN 0
                                  ELSE IF waiting[h] = WaitingCap THEN WaitingCap
                                  ELSE waiting[h] + 1]
  /\ idle' = IF idle = IdleCap THEN IdleCap ELSE idle + 1
  /\ deadline' = [h \in Halves |->
                    IF deadline[h] = NoDeadline THEN NoDeadline
                    ELSE IF deadline[h] > 0 THEN deadline[h] - 1 ELSE 0]
  /\ UNCHANGED <<pc, peerVars, arrived, buf, written>>

Step(h) ==
  Start(h) \/ ReadFirst(h) \/ ReadFails(h) \/ ReadSecond(h) \/ Write(h) \/ WriteFails(h)

HalfNext ==
  \/ \E h \in Halves : Step(h) \/ PeerSends(h) \/ PeerCloses(h)
  \/ HalfTick

HalfSpec == HalfInit /\ [][HalfNext]_halfVars

(* Goroutines go on and the clock runs; the peers owe nothing. *)
HalfFairSpec == HalfSpec /\ WF_halfVars(HalfTick) /\ \A h \in Halves : WF_halfVars(Step(h))

-----------------------------------------------------------------------------
(* Properties *)

Ended(h) == pc[h] \in {"done", "failed"}

(* Types; a read deadline is set exactly while the first byte is awaited.  *)
HalfTypeOK ==
  /\ pc \in [Halves -> {"start", "first", "second", "write", "done", "failed"}]
  /\ sent \in [Halves -> 0..MaxBytes]
  /\ closed \in [Halves -> BOOLEAN]
  /\ arrived \in [Halves -> 0..MaxBytes]
  /\ buf \in [Halves -> 0..MaxBytes]
  /\ written \in [Halves -> 0..MaxBytes]
  /\ deadline \in [Halves -> 0..SecondsTimeout \cup {NoDeadline}]
  /\ idle \in 0..IdleCap
  /\ due \subseteq Halves
  /\ waiting \in [Halves -> 0..WaitingCap]
  /\ \A h \in Halves : pc[h] = "first" => deadline[h] # NoDeadline
  /\ \A h \in Halves : pc[h] \in {"second", "write"} => deadline[h] = NoDeadline

(* When a half ends without a failed write, every byte that it read has    *)
(* been written.  Bytes it leaves behind are lost to the read deadline     *)
(* alone, never to the end of the stream, and came within the last second  *)
(* before it: what waited during a long write is always forwarded, except  *)
(* with a timeout of one second, which may pass before the read begins.    *)
LosesOnlyAtDeadline ==
  [][\A h \in Halves : pc[h] # "done" /\ pc'[h] = "done" =>
       /\ written[h] + arrived[h] = sent[h]
       /\ arrived[h] > 0 => deadline[h] = 0 /\ (SecondsTimeout > 1 => waiting[h] <= 1)]_halfVars

(* When a peer closes its side, the half that reads from it ends, wherever *)
(* it is.                                                                  *)
EndsAfterPeer == \A h \in Halves : closed[h] ~> Ended(h)

(* "splits connections A and C into half connections for each directions   *)
(* and forwards data between them": a byte that was read is passed on.     *)
BytesForwarded == \A h \in Halves : buf[h] > 0 ~> (buf[h] = 0 \/ Ended(h))
=============================================================================
