----------------------------- MODULE MessagePool -----------------------------
(***************************************************************************)
(* The cache of UDPMessages and payload buffers (udpmessage) as Outside    *)
(* uses it: messages are taken by Go_out2in_receive and by the             *)
(* Go_receive_from_remote of every Id, go through channels, and are        *)
(* returned by Go_send_to_remote, by Go_out2in_send or, when a message is  *)
(* no use, by the goroutine that took it.                                  *)
(*                                                                         *)
(* Both caches are stacks behind one mutex, so every method is one step.   *)
(* An object that nothing refers to any more is garbage and may be         *)
(* allocated again: Msgs and Payloads bound how many exist at a time.      *)
(* Every message is made with the size of the configured MTU.              *)
(***************************************************************************)
EXTENDS Integers, Sequences, FiniteSets

CONSTANTS
  Msgs,             \* UDPMessage objects that exist at a time
  Payloads,         \* payload buffers that exist at a time
  Receivers,        \* goroutines that take messages and hand them on
  Senders,          \* goroutines that get them and return them
  LenMsgCache,      \* LENMSGCACHE, 2148
  LenPayloadCache,  \* LENPAYLOADCACHE, 2048
  ChanSize,         \* capacity of a sender's channel, 1024 or 2048
  NoMsg,            \* a goroutine without a message
  NoPayload         \* a nil Payload

ASSUME PoolAssumption ==
  /\ IsFiniteSet(Msgs) /\ IsFiniteSet(Payloads)
  /\ LenMsgCache \in Nat /\ LenPayloadCache \in Nat /\ ChanSize \in Nat \ {0}
  /\ NoMsg \notin Msgs /\ NoPayload \notin Payloads
  /\ Receivers \cap Senders = {}

Goroutines == Receivers \cup Senders

VARIABLES
  msgCache,      \* the messages below indexMsgInCache, the top one last
  payloadCache,  \* the payloads below indexPayloadInCache
  payload,       \* message -> Payload
  IsToRecycle,   \* message -> its flag
  hand,          \* goroutine -> the message it works at
  chan           \* sender -> messages in its channel

poolVars == <<msgCache, payloadCache, payload, IsToRecycle, hand, chan>>

Members(s) == {s[i] : i \in 1..Len(s)}
Top(s) == s[Len(s)]
Popped(s) == SubSeq(s, 1, Len(s) - 1)

InUse(m) == (\E g \in Goroutines : hand[g] = m) \/ (\E s \in Senders : m \in Members(chan[s]))

MsgGarbage(m) == m \notin Members(msgCache) /\ ~InUse(m)

PayloadGarbage(p) ==
  /\ p \notin Members(payloadCache)
  /\ \A m \in Msgs : payload[m] = p => MsgGarbage(m)

PoolInit ==
  /\ msgCache = <<>> /\ payloadCache = <<>>
  /\ payload = [m \in Msgs |-> NoPayload]
  /\ IsToRecycle = [m \in Msgs |-> FALSE]
  /\ hand = [g \in Goroutines |-> NoMsg]
  /\ chan = [s \in Senders |-> <<>>]

-----------------------------------------------------------------------------

(* getMsg and getPayload: from the top of the cache, else a new object.    *)
AfterPeek(s) == s
AfterPop(s) == IF s = <<>> THEN s ELSE Popped(s)

NextMsg(m) == IF msgCache = <<>> THEN MsgGarbage(m) ELSE m = Top(msgCache)
NextPayload(p) == IF payloadCache = <<>> THEN PayloadGarbage(p) ELSE p = Top(payloadCache)

PayloadsAfterPeek == payloadCache
PayloadsAfterPop == AfterPop(payloadCache)

NewUDPMessage(g, m, p) ==
  /\ g \in Receivers
  /\ hand[g] = NoMsg
  /\ NextMsg(m) /\ NextPayload(p)
  /\ msgCache' = AfterPop(msgCache)
  /\ payloadCache' = PayloadsAfterPop
  /\ payload' = [k \in Msgs |->
                   IF k = m THEN p
                   ELSE IF payload[k] = p THEN NoPayload  \* k is garbage
                   ELSE payload[k]]
  /\ IsToRecycle' = [IsToRecycle EXCEPT ![m] = FALSE]
  /\ hand' = [hand EXCEPT ![g] = m]
  /\ UNCHANGED chan

Pushed(s, x, cap) == IF Len(s) < cap THEN Append(s, x) ELSE s

(* ReturnMsg after IsToRecycle = true.  What does not fit into a cache is  *)
(* left to the garbage collector.                                          *)
ReturnMsg(g) ==
  LET m == hand[g] IN
  /\ m # NoMsg
  /\ IsToRecycle' = [IsToRecycle EXCEPT ![m] = TRUE]
  /\ payloadCache' = IF payload[m] = NoPayload THEN payloadCache
                     ELSE Pushed(payloadCache, payload[m], LenPayloadCache)
  /\ payload' = [payload EXCEPT ![m] = NoPayload]
  /\ msgCache' = Pushed(msgCache, m, LenMsgCache)
  /\ hand' = [hand EXCEPT ![g] = NoMsg]
  /\ UNCHANGED chan

(* A HELO that does not decode, or data without a channel: the goroutine   *)
(* goes on with its next message and does not return this one.             *)
Abandon(g) ==
  /\ g \in Receivers
  /\ hand[g] # NoMsg
  /\ hand' = [hand EXCEPT ![g] = NoMsg]
  /\ UNCHANGED <<msgCache, payloadCache, payload, IsToRecycle, chan>>

AlsoKept(g) == UNCHANGED hand
Released(g) == hand' = [hand EXCEPT ![g] = NoMsg]

HandOver(g, s) ==
  /\ g \in Receivers
  /\ hand[g] # NoMsg
  /\ Len(chan[s]) < ChanSize
  /\ chan' = [chan EXCEPT ![s] = Append(@, hand[g])]
  /\ Released(g)
  /\ UNCHANGED <<msgCache, payloadCache, payload, IsToRecycle>>

Take(s) ==
  /\ s \in Senders
  /\ hand[s] = NoMsg /\ chan[s] # <<>>
  /\ hand' = [hand EXCEPT ![s] = Head(chan[s])]
  /\ chan' = [chan EXCEPT ![s] = Tail(@)]
  /\ UNCHANGED <<msgCache, payloadCache, payload, IsToRecycle>>

PoolNext ==
  \/ \E g \in Receivers, m \in Msgs, p \in Payloads : NewUDPMessage(g, m, p)
  \/ \E g \in Goroutines : ReturnMsg(g)
  \/ \E g \in Receivers : Abandon(g) \/ \E s \in Senders : HandOver(g, s)
  \/ \E s \in Senders : Take(s)

PoolSpec == PoolInit /\ [][PoolNext]_poolVars

-----------------------------------------------------------------------------
(* Properties *)

(* Types; the caches keep within their arrays. *)
PoolTypeOK ==
  /\ msgCache \in Seq(Msgs) /\ Len(msgCache) <= LenMsgCache
  /\ payloadCache \in Seq(Payloads) /\ Len(payloadCache) <= LenPayloadCache
  /\ payload \in [Msgs -> Payloads \cup {NoPayload}]
  /\ IsToRecycle \in [Msgs -> BOOLEAN]
  /\ hand \in [Goroutines -> Msgs \cup {NoMsg}]
  /\ chan \in [Senders -> Seq(Msgs)]
  /\ \A s \in Senders : Len(chan[s]) <= ChanSize

Distinct(s) == \A i, j \in 1..Len(s) : s[i] = s[j] => i = j

(* The types hold, and a message is in one place: in the cache once, in    *)
(* one channel once, or in the hands of one goroutine.                     *)
OneOwner ==
  /\ PoolTypeOK
  /\ Distinct(msgCache)
  /\ \A s \in Senders : Distinct(chan[s]) /\ Members(chan[s]) \cap Members(msgCache) = {}
  /\ \A s, t \in Senders : s # t => Members(chan[s]) \cap Members(chan[t]) = {}
  /\ \A g \in Goroutines : hand[g] # NoMsg =>
       /\ hand[g] \notin Members(msgCache)
       /\ \A s \in Senders : hand[g] \notin Members(chan[s])
       /\ \A h \in Goroutines : hand[h] = hand[g] => h = g

(* No two messages in use share a buffer, and no buffer in use waits in    *)
(* the cache: a datagram is never overwritten on its way.                  *)
BuffersNotShared ==
  /\ Distinct(payloadCache)
  /\ \A m \in Msgs : InUse(m) =>
       /\ payload[m] \in Payloads \ Members(payloadCache)
       /\ \A n \in Msgs : InUse(n) /\ payload[n] = payload[m] => n = m
=============================================================================
