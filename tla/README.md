# UDPForward: models and proofs

TLA+ models of **udpbohrer** and **tcpbohrer**, the two Go programs of this
repository that bring UDP flows and TCP connections of remote clients to servers
behind a NAT. One process runs *Outside*, with a public address, and one
*Inside*, next to the servers; a funnel that Inside opens connects them.
`PROJECT.json` lists the components, the runs, the mutants, the code every
definition stands for, the findings and the hazards. This file explains how they
fit together.

    tlc -workers 2 -config FlowTable.cfg MCFlowTable.tla     # a run
    tlapm FlowTableProofs.tla                                # proofs

## 1. The system

### Components

| Component (code) | State | Operations | Talks to |
|---|---|---|---|
| Connection limiter (`pkg/connlimiter`) | `connCount`, `connLimit` | `RequestConn`, `ReleaseConn` | called by the flow table, the acceptors, the dispatcher, the half connections |
| UDP Outside, flow table (`udpconnout2remote`) | `FlowManagement`: a slice of free and a map of returned flow numbers; per Id the maps address -> flow and flow -> address with timestamps | `GetNewFlow`, `ReturnFlow`, `GetFlowFromAddressPort`, `GetAddressPortFromFlow`, `CleanMapAddrPort`; two goroutines per Id | limiter, message pool, channels to and from `udpconnout2in` |
| UDP Outside, funnel end (`udpconnout2in`) | address of Inside, HELO timeout | `Go_out2in_receive`, `Go_out2in_send` | Inside by UDP, one channel per Id |
| UDP Inside, funnel end (`udpconnin2out`) | time of the last HELO, `HeloRoundtrip`, HELO timeout | `Go_in2out_send`, `Go_in2out_receive` | Outside by UDP, the table of local channels |
| UDP Inside, local channels (`udpconnmaplocal`, `udpconnin2local`) | map (Id, flow) -> channel, socket, request to terminate, number of goroutines, two timestamps | `GetLocalChannel`, `Cleanup`, two goroutines per entry | the local server by UDP |
| UDP message pool (`udpmessage`) | two stacks of recycled objects | `NewUDPMessage`, `ReturnMsg` | every goroutine of udpbohrer |
| TCP Outside, acceptors and dispatcher (`tcpoutacceptor`, `tcpdispatchout`, start in `tcpconnheloout2in`) | `ConnectionsToAccept`: key -> parked connection with its time | `GoAcceptOutside`, `StoreConnection`, `GetConnection`, `cleanup`, matching an answer | limiter, port knock, Inside over the control connection |
| TCP half connections (`tcpforwarddata`) | two goroutines per pair, a shared `TCPTimeout` | `GoHalfTransferBetweenTcpConnections` | both TCP peers, limiter |
| Port knock (`manageportknock`, `portknocktls`) | name -> address -> end of the knock; `countportknock` | `Insert`, `Check`, `cleanup`, the HTTPS page | the browser, the acceptors |
| TCP control connection (`tcpconnheloin2out`, `tcpconnheloout2in`, `tcpdial`) | timeouts of the two readers, the connection taken for Inside, the channel `chToInside` | `RunInside`, `goSendHelo`, `goConnectToOutside`, `RunOutside`, `goSendToInside` | dispatcher, local servers |
| Control packets (`controlpacker`, `timehelper`) | keys | `EncodeControlPacket`, `DecodeControlPacket` with MAC and time tolerance | both funnels |
| Rate limited logging (`ratelimitedlogging`) | burst, HELO burst, the times of the last lines | `Log` | every goroutine |
| Parameters, time check, HELO file, resolver, `cmd/` | | | |

### How they interact, and what is hard

* **UDP Outside.** A packet of a remote goes through `Go_receive_from_remote` of
  its Id, which finds or creates a flow number (0..255, shared by all Ids and
  handed out in random order), to `Go_out2in_send`. An answer comes from `Go_out2in_receive` over the channel of
  its Id to `Go_send_to_remote`, whose idle branch also runs the cleanup. There
  are **three locks**: one per Id, one of the flow numbers, one of the limiter;
  a cleanup holds the first and takes the others one after the other for every
  entry. Hard: interleavings of several Ids at the shared pool and the limiter,
  the refill of the exhausted slice, what a cleanup may remove.
* **UDP Inside.** `Go_in2out_receive` alone changes the map and sends into its
  channels; two goroutines per entry poll the map once a second and reach their
  entry **by key**, not by pointer. Hard: an entry replaced under its goroutines,
  a channel closed under a sender or a receiver, the single receive goroutine
  blocked on one full channel.
* **The funnel.** HELOs cross a lossy network through a NAT that may show a new
  address at any time; both sides exit when they hear nothing and are started
  again by systemd. Hard: timeouts that race late answers, old datagrams that
  overwrite new knowledge, exits that chase one another.
* **The two tables of udpbohrer.** Outside's flows and Inside's channels are named
  by the same numbers and nothing else connects them: they time out from different
  packets, and one side loses its table in a restart while the other keeps its own.
  Hard: what a number still means to the other side when it is handed out again.
* **TCP.** One connection of a remote passes through acceptor, dispatcher,
  Inside, a second connection and two half transfers; **each stage may be the
  one that ends it, and that stage must give back the two counts** taken at the
  start. Expired connections are closed only on the way of others. Hard: who
  releases what, the race of the answer with the timeout, progress at the limit.
* **The control connection of TCP.** Outside takes the first connection it accepts
  for Inside; the ends of streams go unnoticed, so each side learns of the other's
  death by a timeout only; the answers of `RunOutside` and the announcements of the
  dispatcher meet in one bounded channel. Hard: restarts that leave dead connections
  in front of live ones, a loop that fills the channel it starts the reader of.
* **Time in packets.** 32 bits of the sender's clock, completed by the receiver's.
* **Everywhere** messages and buffers are recycled by hand.

### What makes each component correct

| Component | Correctness |
|---|---|
| Flow table | no number lost or held twice; both maps inverse; counters equal to what the maps hold; a granted connection always finds a number; only expired entries are removed; dead ones are removed |
| Local channels | no send into a closed channel or one nobody empties; no channel closed under its goroutines; the receive goroutine never stuck; terminated entries go |
| HELO link | Inside never gives up first while Outside heard it less recently; silence is answered by repetition; the link recovers |
| Acceptors, dispatcher | every connection counted as often as it will be released; an answer matched exactly when in time; stale connections closed |
| Half connections | bytes are lost to the read deadline alone, and only those of its last second; a half ends with its peer, or at its timeout |
| Port knock | the counter drifts by repeated knocks alone; an open page keeps its knock, until so many were repeated that refreshes may be refused |
| UDP tunnel | a number that rested long enough brings nothing of its former remote; Inside ends a channel only when Outside ends the flow as well, or in the cases that `SessionNotCut` names |
| Control connection | a lost peer is noticed in bounded time; the channel always has a reader; no dialling before the HELO is answered; both sides find each other again |
| Control packets | nothing stale or of the other direction is accepted, all else is; a key comes back unchanged |
| Rate limited logging | lines bounded in every stretch of time |
| Message pool | one owner per message, one message per buffer |

## 2. Modules

| Module | Models | Composes |
|---|---|---|
| `ConnLimiter` | the limiter's two methods as operators on its counter | |
| `FlowAllocator` | abstract: what all Ids together see of the flow numbers | |
| `FlowTable` | `udpconnout2remote` for all Ids | `ConnLimiter`; implements `FlowAllocator` |
| `LocalChannels` | `udpconnmaplocal`, `udpconnin2local`, the part of `Go_in2out_receive` that drives them | |
| `HeloLink` | both funnel ends of udpbohrer, the NAT, the network, init | |
| `MessagePool` | `udpmessage` with the goroutines of Outside as its callers | |
| `TcpAccept` | acceptors, limiter, dispatcher, half connections as counts, Inside as answers | `ConnLimiter` |
| `TcpHalf` | one pair of half connections, byte by byte | |
| `PortKnock` | the map of knocks, the page, `Check` | |
| `UdpTunnel` | the flow numbers of Outside, the channels of Inside, the funnel, exits and restarts | the two tables, with one step per operation |
| `TcpHelo` | the control connection with both programs' ends of it, dialling, key connections | |
| `ControlPacket` | `controlpacker`, `timehelper`, and all who encode and decode | |
| `RateLog` | the rate limited logger | |
| `FlowTableProofs`, `LocalChannelsProofs`, `HeloLinkProofs`, `UdpTunnelProofs`, `TcpAcceptProofs`, `TcpHeloProofs`, `ControlPacketProofs` | theorems about the module they are named for | |
| `SharedStateProofs` | theorems about `MessagePool`, `PortKnock`, `RateLog` and `TcpHalf`, side by side | |
| `MC...` | where a run needs them: named model values, functions and symmetry sets | the module of that name |

### Conventions

* A critical section of a mutex is one step. Where a method holds one lock and
  takes another in between (`CleanMapAddrPort`, the `cleanup` of the dispatcher),
  it is several steps and a variable says who is inside.
* A timestamp is the **age** it stands for (seconds since), or the seconds left;
  ages are capped where no comparison of the code can tell them apart. `Tick`
  passes one second. Nothing in the code compares two stored timestamps but by
  such a difference, so this loses nothing.
* A goroutine that goes round its loop at least once a second (a read deadline
  or a one second timer) is in a set `due` after each tick, and the clock waits
  until it did (`LocalChannels`, `HeloLink`; in `TcpHalf` a half that has something to
  read). This is the assumption that one
  turn of a loop takes less than a second.
* The absent value (no entry, nil, not in the map) is a model value.
* `SharedStateProofs` extends four modules at once, so their `Init`, `Next`, `Spec`,
  `TypeOK` and `Tick` carry the component's name (`KnockInit`, `PoolNext`, `LogSpec`,
  `HalfTick`).
* An operator that only a mutant uses stands directly before the definition that
  it would replace (`PoolNoRefill` before `Pool`), named for the bug it is.

### Correspondence

`FlowTable`: `flowsAvailable`, `flowsReturned`, `nFlowsActive` are the fields of
`FlowManagement`; `mToI`, `mToR` the two maps of each `MapAddrPortToFlow` with
their timestamps; `expired[id]` the list a running cleanup still has to remove,
`owed[id]` that it returned a flow and not yet the connection; `timer` is the one
second timer in the select of `Go_send_to_remote`. The order in which
the pool hands out numbers is left open. Payloads and sockets are left out.

`LocalChannels`: `table` is `mapLocalChannel`; `chan` and `go` the channels and
goroutines, which outlive the entry they were started for; `main` is the place of
`Go_in2out_receive`, `target` the channel that `GetLocalChannel` gave it.

`HeloLink`: `sender` and `reader` are the places of `Go_in2out_send` and
`Go_out2in_receive` in their loops, split where the other goroutine can come
between (write, then `HeloSent`); `Go_in2out_receive` has no such place and is one
step per turn. `net` is a set of datagrams with their age, so loss is removal,
duplication is non-removal and reordering needs nothing. `ahead` and `answered`
are history variables that only properties read. Both systems share a clock: a
difference of clocks only shifts the age at which a HELO is refused.

`TcpAccept`: `st` follows each connection from `AcceptTCP` to the end of its two
halves; `lock` and `owed` are the mutex of `ConnectionsToAccept` and the releases
that its `cleanup` still owes; `unknocked` is a history variable. Keys are as good as connections. Inside is what it
sends: an answer for an announced connection, at any time or never.

`TcpHalf`: bytes are counted. `ReadFirst`, `ReadSecond` and `Write` are the three
calls of the loop; a read takes what has arrived by then. `ReadFails` is the end of the
stream, or a passed deadline whatever waits in the socket. `due` holds the clock for a
half that waits for its first byte and has one; `waiting`, a history variable, counts
the ticks that found bytes waiting. A reset that discards bytes is left out.

`PortKnock`: `kmap` is the map of maps by (name, address); `page` is the age of
the page in the client's browser, which its `Refresh` header loads again;
`repeated` is a history variable, the knocks that were counted and already known.

`UdpTunnel`: `owner` is `mToR` with the identity of the remote, `table` is
`mapLocalChannel`; `heard[f]` are the remotes whose socket to the local system some
`Go_receive_from_local` of number `f` still reads. It is a set because such a
goroutine outlives its entry when the number is used again: it asks the map by number
whether to end, and finds the new entry. `unnoticed` are the requests to terminate
made since the last tick, which a poll may have just missed. `lost` tells
whether a datagram or a side was ever lost, `unused` and `rested` are the history of
a number. What a datagram is about (`remote`) is not in the packet: it is there for the
properties, and no guard reads it but for what the payload decides.

`TcpHelo`: `backlog` are connections that wait for the listener of Outside, of
whatever origin, `heloConn` is the one taken for Inside. A stream is a sequence of
whole messages of limited length, a full one blocks the writer (`blocked`), and a HELO
is then as old as its `Write` was blocked. A
connection that answers an announcement ends when Outside has its key; `TcpAccept`
begins there. `orphan` counts how long a side runs without its peer.

`ControlPacket`: a MAC is the direction and the block it was made from, so it cannot
be forged and blocks do not collide. The optional extension is three cells, which is
what the lengths of 10, 14 and 16 bytes tell apart. `junk` is what a recycled buffer
has behind a short HELO. `Word` is 2^32.

`RateLog`: `sinceLog` and `sinceHelo` are the seconds since the two timestamps.
`allowance` is a history variable: what an ideal token bucket would have left, in
fractions of a line. `program` chooses between the argument orders of the two `main`s.

`MessagePool`: a message or buffer that nothing refers to any more may be
allocated again, so finite sets of objects stand for the heap.

## 3. Runs

| Run | Instance | Shows |
|---|---|---|
| `flow_table` | 2 Ids, 2 remotes, 3 numbers, limit 2, fair | types, conservation of numbers, inverse maps, exact counters, no false exhaustion, only expired entries removed, refinement of `FlowAllocator`, dead flows reclaimed while Inside is silent |
| `local_channels` | 1 key, 2 channels of capacity 1, fair | every channel served, map sound, nothing closed in use, the receive goroutine never blocks for ever, a finished entry whose count is exact does not stay |
| `helo_link` | 2 addresses, timeout 3, interval 2, roundtrip 0, 2 datagrams, fair | repetition in silence, Outside exits first, the link recovers |
| `message_pool` | 2 receivers, 2 senders, 4 messages, caches of 3 and 2 | one owner, buffers not shared |
| `tcp_accept` | 2 Ids, a knock on one, 3 connections, limit 2, fair | count exact but for connections without a knock, answers matched if and only if in time, stale connections cleaned up by traffic |
| `tcp_half` | 3 bytes each way, timeout 2, fair | what was read is written, bytes are lost only to the read deadline and only those of its last second, ends after its peer |
| `tcp_half_lone_byte` | same | **violated**: bytes are passed on |
| `port_knock` | 2 names, 2 addresses, 5 knocks, timeout 5 | the counter is the entries and the repeated knocks, an open page keeps its knock until these near the limit |
| `udp_tunnel` | 2 remotes, 1 number, 3 datagrams, delay 2, timeouts 1 and 3 | a number that rested is clean, over restarts too; when Inside ends a channel that Outside has a flow for |
| `tcp_helo` | 3 connections, channel of 1, streams of 2, timeout 4, fair | a lost peer is noticed, a full channel has a reader, Inside waits for the answer to its HELO, the link recovers |
| `control_packet` | words of 16 s over two wraps, clocks 1 s apart, 5 s late, 2 packets | nothing stale accepted, failures only at the wrap, keys come back |
| `rate_log` | intervals 3, 1/2, 2/5, burst 4, HELO seconds 5, both programs | bursts of HELO lines, lines bounded in every stretch of time |

Every property of a passing run has a mutant, a plausible bug in one mapped
definition that breaks it.

### Bounds, and why they are enough

* `FlowTable`: three numbers under a limit of two make the slice run empty and be
  refilled while numbers are held; two Ids are needed for a second one to allocate
  between the two locks of a cleanup; timeouts of 1 and 2 tell the one-way from
  the two-way timeout. The proofs remove these bounds.
* `LocalChannels`: keys share only the main goroutine, and capacity 1 makes a full
  channel the normal case. Two channels let a key be replaced once while its first
  goroutines still run; a third generation needs a second timeout within one poll.
* `HeloLink`: `MaxInFlight = 2` is one HELO or answer and a stale one. The
  timeouts keep the order of the defaults (timeout > interval > roundtrip).
  `MaxTimeDifference = 1` gives late datagrams that decode and later ones that do
  not.
* `TcpAccept`: three connections for a limit of two: one must be refused; two
  acceptors meet at the last count; `ChaSize = 1` makes acceptors wait.
* `TcpHalf`: three bytes: the first, one for the second read, one behind it.
* `PortKnock`: five knocks for four clients: the limit is reached, but only after a
  repeated knock, so `OpenPageKeepsKnock` says something of the states before.
  A timeout of five reloads the page after two seconds, twice within a knock. The
  limit of the code is 1.2 times the connections.
* `UdpTunnel`: numbers do not interact but through the timer of `Cleanup`, so one
  suffices, and two remotes are a former and a new one. Three datagrams are one each
  way and an old one. `KeepTime` is what the datagram, the channel and the cleanup
  that follows may take one after the other; with a second less TLC finds a number
  that is not clean, so the bound is tight. `FlowAllocator` is about the numbers
  among each other.
* `TcpHelo`: three connections are a control connection, its successor after a restart,
  and a key. One entry in the channel and two messages in a stream make both
  full. `HeloTimeout = 4` sends more than one HELO within a timeout. The bound of
  `LossNoticed` (`Patience`) is what an old message may take plus the timeout it starts
  anew, or the first timeout if that is longer; it is tight.
* `ControlPacket`: the run starts before a wrap and ends after a second one. A packet
  lives five seconds, longer than the tolerance of two.
* `RateLog`: an interval of whole seconds, one of a whole number of lines in a second,
  and one that is neither. `MaxIdle` is long enough to fill the burst at the
  two fast intervals.
* `MessagePool`: both caches are smaller than the number of messages, the payload
  cache the smaller one as in the code (2048 and 2148).

### Fairness

Weak fairness of a goroutine's next step (the Go scheduler is fair to runnable
goroutines), of the clock, and of init's restart. A step that competes for a
mutex or with the end of a one second read gets strong fairness
(`Process` in `TcpAccept`, `OutsideReceive` in `HeloLink`); so does the answer of
`RunOutside` in `TcpHelo`, which competes with the dispatcher for room in a channel:
Go serves the goroutines that wait for a channel in turn. `Tick` of `TcpHelo` has
strong fairness because announcements, which remotes may cause at any moment, disable
it until they are sent on. Remotes, Inside's
answers, local servers, peers and the network get none. Four liveness properties are conditional on what the environment does:
`ReclaimedWhenInsideSilent` on Inside sending nothing more for the Id,
`CleanedByTraffic` on connections being stored again and again, and
`LinkRecovers` of `HeloLink` and of `TcpHelo` on `calm`. In `TcpHelo` this is that
nobody crashes any more, messages arrive within the second, and init starts a
side within a second of its exit. In `HeloLink`: from some moment on nothing is lost or later than
`MaxDelay`, the NAT keeps its address, and an exited side is up before the next
second. The services start a side after ten seconds (`RestartSec`), which is short
against `heloTimeout` (130) and taken as nothing here. The property needs room for
a delayed datagram in the margin of `2*heloRepeatInterval` between the timeouts of
the two sides and in `heloTimeout` itself: with a timeout of 3 and an interval of 2
it holds, with 2 and 1, or with an interval as long as the timeout, TLC shows the
two sides exiting in turn for ever. The defaults (130 and 30) are far from that.

## 4. Proofs

| Module | Theorem | Property |
|---|---|---|
| `FlowTableProofs` | `TypeCorrect` | `TypeOK` |
| | `FlowConservation` | `FlowsPartitioned` |
| | `MapsInverse` | `MapsAgree` |
| | `CountersExact` | `CountsAgree` |
| | `PoolSuffices` | `NoFalseExhaustion` |
| | `NoLiveFlowRemoved` | `OnlyExpiredReclaimed` |
| | `Refinement` | `ImplementsAllocator` |
| `LocalChannelsProofs` | `TypeCorrect` | `TypeOK` |
| | `Served` | `ChannelServed` |
| | `RemovedOnlyWhenDone` | `RemovedWhenDone` |
| `HeloLinkProofs` | `TypeCorrect` | `TypeOK` |
| | `SilenceEnds` | `SilenceRetriggers` |
| | `OutsideFirst` | `OutsideExitsFirst` |
| `UdpTunnelProofs` | `TypeCorrect` | `TypeOK` |
| | `RestedClean` | `RestedNumberIsClean` |
| | `SessionSafe` | `SessionNotCut` |
| `TcpAcceptProofs` | `TypeCorrect` | `TypeOK` |
| | `CountExact` | `OnlyUnknockedLeak` |
| | `MatchedInTime` | `AnswerMatchedIffInTime` |
| `TcpHeloProofs` | `TypeCorrect` | (`TypeOK`, no property of the run) |
| | `LossBounded` | `LossNoticed` |
| | `ReaderThere` | `FullChannelHasReader` |
| | `AnswerFirst` | `AnswerBeforeCalls` |
| `ControlPacketProofs` | `NoStalePacket` | `NeverStale` |
| | `OnlyWrapAroundFails` | `FailsOnlyAtWrapAround` |
| | `KeyMatches` | `KeyComesBack` |
| `SharedStateProofs` | `MessageOwned` | `OneOwner` |
| | `BufferOwned` | `BuffersNotShared` |
| | `CountExact` | `OnlyRepeatsLeak` |
| | `OpenPageServes` | `OpenPageKeepsKnock` |
| | `LogTypeCorrect` | `LogTypeOK` |
| | `LogBounded` | `LinesBounded` |
| | `HalfTypeCorrect` | `HalfTypeOK` |
| | `LossBounded` | `LosesOnlyAtDeadline` |

Each holds for any values of the constants that the `ASSUME` of the module allows.
These assumptions are what the code or its defaults guarantee: in `LocalChannels`
`CleanUpInterval` is at least 1 (the code's is 5; with 0 a `Cleanup` in the next second
would remove an entry whose goroutines still run), in `PortKnock` `timeOut` is at least 2
(`ReadConfig` makes it at least 10; with 1 the page would be loaded again in the second in
which the knock ends), in `TcpAccept` connections are
finitely many and none is one of the values that `lock` and `taken` use besides.
In every module an inductive invariant is proved (`IInv`; in `SharedStateProofs`
`PoolInv`, `KnockInv`, `LogInv` and `HalfInv`) from one lemma per action,
with one step per conjunct the action disturbs, and the theorems follow from it. Where
the invariant is more than the properties of the run, TLC confirmed it on the instance
of the run first. Facts about cardinalities come from `FiniteSetTheorems`, about
sequences from `SequenceTheorems`.

**`FlowTable`** (any finite sets of Ids, remotes and numbers, any limit and timeouts).
`IInv` joins the types, the partition of the numbers
(free, returned, in a map, each once), the agreement of the maps, the counters and
`ExpiredSound`: what a running cleanup still has to remove is expired *now*.
The last part is needed because the decision and the removal are apart; it is
inductive because the cleanup keeps the lock of its Id and time only makes entries
older. The counters need the partition (a removed entry had a number of its own)
and the maps' agreement (the number that goes is the one the map held); the
partition needs the agreement as well, because flows are removed through one map
and looked up through the other.

**`LocalChannels`** (any keys, channels, capacity and timeouts). A goroutine reaches its
entry by key, so all rests on the channel of an entry having the entry's key, part of
`TypeOK`. `PhaseInv` follows the two goroutines of an entry: before the request to
terminate they serve it; after it, each second that the clock passes takes them one step
further, and after three of them both are done. `Cleanup` comes back only after more than
twice its interval, at least three seconds, which is why it closes no channel under a
goroutine, whatever the counter of goroutines says. `TargetInv` keeps the channel
that the receive goroutine blocks on among those that are served.

**`HeloLink`** (any addresses, timeouts and number of datagrams). Both properties compare
clocks of different goroutines. Unless Outside restarted its timeout after Inside did
(`ahead`), that of Inside exceeds it by twice the interval of HELOs (`TimeoutInv`), and an
Outside whose timeout passed is still `due` to see it, so that it exits before the clock
brings Inside there. `SilenceInv` says where the
exchange stands while no answer comes, and that the sender, when it went round its loop in
this second, did what its clocks called for. Both are inductive because the clock waits
for the goroutines that are `due`.

**`UdpTunnel`** (any remotes, numbers, timeouts and delay of the network). That a
rested number is clean is about three things that may keep a remote: a datagram, a
channel and a goroutine at its socket. The invariant bounds each by the time since
the last use of the number: a datagram about a number's former remote is at least as
old as the number is unused; a channel was used at most `MaxDelay` later, so its
timestamps and the time since the last `Cleanup` say how long it still can live; and a
socket is read by goroutines that end within a second of the request. When the number
has been unused for more than `KeepTime`, nothing is left. From the moment it is
handed out, all that comes into being about it names its new owner, and when it loses
its owner it is not rested any more.

`SessionSafe` needs two facts that compare the tables. `StampsAgree`: as long as
nothing was lost, Inside's last packet of a flow is no older than Outside's, or it is
under way. `AnswersAgree`: no answer in the funnel or at Outside is younger
than the last one that Inside stamped, but for the up to `MaxDelay` seconds it was under
way; a channel without an answer counts from its last packet. So when
Inside finds the channel expired, Outside saw no packet for longer than Inside's limit and
no answer for as long but for `MaxDelay`. Whether this ends the flow at Outside
too depends on the limit that *Outside* applies. It is the same, or shorter, unless only one
side knows of an answer. That is the third case of
`SessionNotCut`, above all a flow that was revived after its channel had timed out; without
any one of the three cases TLC finds a counterexample.

**`TcpAccept`** (any finite set of connections, any limit, timeout and channel). The
counter is a sum over the places a connection can be in: one or two units at the
acceptor, two while it waits, one for each half, those that a `cleanup` still owes
and those of connections without a knock. A step moves one connection and the counter
by as many units (`CountStep`, over the cardinalities of the sets that
`Needed` adds up). That a release is for a connection that was counted needs
`PlaceInv`: a connection is in one place at a time (the queue, the dispatcher's hand,
the parked ones), a key that is announced or answered belongs to a parked or an expired
connection, and who holds the mutex has cleaned up first. `MatchedInTime` is what that last part
gives when an answer comes.

**`TcpHelo`** (any connections, timeouts, size of channel and streams). `OrderInv` follows the
first answer: nothing enters the channel before Inside was heard, what enters
first is an answer, and the first thing on the stream is the first of the channel, so
Inside calls nobody before it was answered. `OrphanInv` bounds how long a side is alone:
what it still can read is as old as that, a message older than the tolerance ends
it, and a newer one starts a timeout that adds up to `Patience`. The proof corrected the
model: the code does not bound `connectTimeout` by `heloTimeout`, so `Patience` is the
larger of two times, and an instance with a long `connectTimeout` showed that Inside
also blocks on a full stream while its connection still waits to be accepted (`Waits`).

**`ControlPacket`** (any width of the word, tolerance, offset and delay, with
`MaxAge + MaxOffset + 2 * MaxUnixTimeDiff < Word`). The invariant says what a packet
holds, by its kind, and how far its timestamp and the clock of its receiver are apart. The
completed time differs from the sent one by a multiple of `Word`; what is accepted is
near the clock, the clock is near enough to the sent time, so the multiple is zero.
This is arithmetic with a symbolic `Word`, hence the lemmas `Multiple`, `DivMod` and
`LowWord` about products.

**`PortKnock`** (any finite sets of names and addresses, any timeout of at least 2 and any
limit). The invariant is `OnlyRepeatsLeak` with `PagesKeep`: a knock has run as long as the
open page of its client is old, or the repeated knocks and the clients together reach
the limit, which stays so, because nothing gives a repeated knock back. **`MessagePool`** (any goroutines, objects and sizes): the two properties
are inductive only together, because a message that is in two places would return its
buffer twice.

**`RateLog`** (any intervals, bursts and both orders of arguments). The bound on lines is
that of an ideal token bucket, in fractions of a line. `CreditInv` says that the
ideal bucket has at least what the burst is worth and what the seconds since the
timestamp will be, or is full. This is about products of constants and variables, which
SMT decides only after lemmas about `\div` and monotony put them in linear form.
**`TcpHalf`** (any number of bytes, any timeout): `BytesInv` is that a byte is in the
socket, in the buffer or written, as long as its half runs; the buffer is empty
where the half may end. `LateInv` follows the clock: bytes that wait make their half
`due` at the first tick after the deadline was set, so two ticks find them waiting only
while the half is elsewhere.

Every safety and action property of the passing runs is thus proved for all constants
that the assumptions allow. Only model-checked are the seven liveness properties, because fairness and
ENABLED are outside the prover: `ReclaimedWhenInsideSilent`, `ReceiverNotStuck`,
`DoneEntryRemoved`, both `LinkRecovers`, `CleanedByTraffic`, `EndsAfterPeer`. The violation
in `tcp_half_lone_byte` is a counterexample, which needs no proof.

## 5. Findings

`tcp_half_lone_byte` is a run whose property states what the documentation says, and
which TLC finds violated: a byte that comes alone is held back, and the half has no
read deadline, hence no timeout, until more comes or the peer closes.

Observations made while modelling, each visible in the module or next to a property
that says what does hold:

* A local channel whose counter of goroutines ends below zero, because two
  generations counted themselves at one entry, is never removed by `Cleanup`
  (`udpconnmaplocal.go:179` compares with zero). `DoneEntryRemoved` is for exact counts.
* A connection without a knock takes one count for good (`tcpoutacceptor.go:71`);
  `OnlyUnknockedLeak` says that nothing else leaks, in any interleaving.
* Parked connections are closed on the way of others only. When they fill the limit,
  acceptors refuse before anything is stored, and only an answer cleans up
  (`tcpoutacceptor.go:54`).
* A refresh of the knock page counts as another knock (`manageportknock.go:127`), and
  nothing gives this count back: a knock that ends takes one off, however often it was
  repeated. `OnlyRepeatsLeak` says that the counter is off by exactly the repeated
  knocks, for good, and that one place is always left. Once there were enough of them,
  only one client at a time has room, and the refresh of an open page is refused.
  This is against "keep the window open for refresh" (`tcpbohrer.yaml:131-134`) and
  "must be refreshed by repeatedly loading the URL to keep the knock alive"
  (`docs/Tcpbohrer_HOWTOUse.md:56`). `OpenPageKeepsKnock` is how far they are right.
* The tables of udpbohrer agree on a flow in use but for two cases. An answer that took
  some seconds to Outside keeps the flow there as much longer. And a flow that a
  late packet of the remote revives has the longer limit at Outside,
  which remembers an answer, while Inside made a new channel that had none: if the local
  system does not answer within the shorter limit, Inside ends this channel and its socket,
  and later packets of the same flow come to the local system from another port. With
  `initTimeoutSeconds` no longer than `timeoutSeconds` ("usually shorter",
  `udpbohrer.yaml:98`; nothing enforces it) these are the only two ways; else a flow whose
  first answer is still under way has the longer limit at Outside too. `SessionNotCut`
  covers all of them.
* A read whose deadline has passed fails even when a byte has come by then, and the half
  returns (`tcpforwarddata.go:66-91`): bytes that arrive as the deadline fires are lost.
  `LosesOnlyAtDeadline` bounds this to what came in the last second. With
  `SecondsTimeout = 1` the deadline may pass before the read begins, and bytes that
  waited during a long write are lost as well.
* After a restart of Outside a number may be handed out to a new remote while Inside
  still has the channel of an earlier one. Within `KeepTime` a late answer meant for
  the one reaches the other (see `docs/Udpbohrer_Security.md:29`).
  `RestedNumberIsClean` says from when on it cannot.
* `Log` advances its timestamp by whole seconds (`ratelimitedlogging.go:62-65`). For an
  interval that is neither whole nor one over a whole number (2/5, 0.3) it is not
  charged for the fraction, and limits less or nothing; hence `Exact` in `LinesBounded`.
* `cmd/tcpbohrer/main.go:48` passes `LimitBurst` and `LimitHeloLoggingSeconds` in the
  other order than `cmd/udpbohrer/main.go:54`. Both orders are in `RateLog`; the bounds
  hold with the roles swapped. HELO lines come in runs of up to three, where a comment
  says bursts of two.
* `ReadFromTCPConnection` does not update `err` in its loop (`tcpforwarddata.go:120`),
  so the end of the control connection goes unnoticed and the timeout ends it;
  `LossNoticed` bounds how long this takes.
* `RunOutside` waits for Inside without a deadline, although its log text
  (`tcpconnheloout2in.go:47`) speaks of `Funnel:HeloTimeout`. The interval between HELOs
  of tcpbohrer is a third of `heloTimeout` in whole seconds, not a parameter:
  `heloRepeatInterval` of `tcpbohrer.yaml` is not used.
* When the second dial of `goConnectToOutside` fails, the connection to the local
  server is not closed (`tcpconnheloin2out.go:80`).
* `Go_send_to_remote` cleans up only after a second without any message of Inside
  for its Id, so a busy flow keeps the dead ones of its Id alive. This is why
  `ReclaimedWhenInsideSilent` has its condition.
* `HeloSent` comes after the write: an answer that is processed in between is
  forgotten, and one HELO more is sent. `SilenceRetriggers` is the half that holds:
  the race never suppresses a repetition.
* Inside's timeout is `heloTimeout + 2.3*heloRepeatInterval`, as `udpbohrer.yaml:65`
  says, only until the first answer; then the factor is 2. `OutsideExitsFirst`
  holds for both.
* The two requests of a connection are separate, so two acceptors that each hold
  one of the last two counts both refuse (`SecondRefused`).
* In `tcpforwarddata`, the `TCPTimeout` that both directions retrigger decides
  nothing: a half whose read deadline passed returns because `err` is set.

## 6. Not modelled, and the plan

| Next | What |
|---|---|
| proofs | refinements beside that of `FlowTable`: the limiter under `TcpAccept` as an abstract pool of counts, the pool of messages as an abstract heap |
| | steps towards liveness that are safety: a measure that no step of a stuck receive goroutine or a finished entry increases |
| | shorter proofs where lemmas of two modules say the same |

Left out for good: AES, SHA-512 and the layout of packets; the rounding of float32 in
the logger; reading the configuration (its values are the constants); sockets, buffer
sizes and log texts; `boolstorage`, and the clone and byte slice functions of
`udpmessage`, which nothing outside tests calls; the check of the system time at the
start; the load generators under `cmd/`. Not modelled but real: a sender that keeps
Inside from its timeout check with a datagram each second that looks like a HELO and
does not decode (`udpconnin2out.go:176`).
