------------------------------ MODULE TcpAccept ------------------------------
(***************************************************************************)
(* Outside of tcpbohrer, from the remote's connection to the pair of half  *)
(* connections: GoAcceptOutside for every Id (tcpoutacceptor), the         *)
(* connection limiter all of them share, and the dispatcher                *)
(* (tcpdispatchout) that parks a connection, announces it to Inside and    *)
(* hands it over when Inside comes back with the right answer.             *)
(*                                                                         *)
(* A connection counts twice at the limiter, once per direction; the two   *)
(* requests are two critical sections, and so is every release.            *)
(* StoreConnection and GetConnection hold the mutex of ConnectionsToAccept *)
(* from begin to end and both clean up first.  A key is as good as the     *)
(* connection it was made for: it has 31 random bits and a MAC.  Ages are  *)
(* seconds since TimeAccepted, capped; no mutex is held across a second.   *)
(* Inside (tcpconnheloin2out) appears as what it sends: an answer to an    *)
(* announced connection, or none.                                          *)
(***************************************************************************)
EXTENDS Integers, FiniteSets, Sequences, ConnLimiter

CONSTANTS
  Ids,                    \* flows of the configuration, one acceptor each
  KnockIds,               \* those with a port knock name
  Conns,                  \* connections of remotes that exist at a time
  MaxCurrentConnections,  \* funnel:maxCurrentConnections
  ConnectTimeout,         \* funnel:connectTimeout, seconds
  ChaSize,                \* capacity of cha, 128 in the code
  NoConn                  \* no connection

ASSUME AcceptAssumption ==
  /\ IsFiniteSet(Conns) /\ Conns \cap {NoConn, "free", "store"} = {}
  /\ KnockIds \subseteq Ids
  /\ MaxCurrentConnections \in Nat \ {0}
  /\ ConnectTimeout \in Nat /\ ChaSize \in Nat \ {0}

VARIABLES
  st,           \* per connection: how far it got
  id,           \* per connection: the Id whose port it came to
  age,          \* per connection: seconds since TimeAccepted, 0 once relayed
  connCount,    \* ConnLimiter.connCount
  cha,          \* channel of accepted connections
  dispatching,  \* the first HELO came, the dispatcher runs
  taken,        \* what goManageAcceptedConnectionFromRemote works at
  lock,         \* who is in ConnectionsToAccept: "free", "store", or the
                \* goroutine that asks for the key of a connection
  owed,         \* releases its cleanup still has to do
  announced,    \* control messages on the way to Inside, by connection
  answers,      \* connections of Inside that brought an answer
  halves,       \* per connection: half transfers that run
  unknocked     \* history: connections closed for a missing knock

acceptVars   == <<id, cha>>
dispatchVars == <<dispatching, taken, lock, owed>>
insideVars   == <<announced, answers>>
vars == <<st, age, connCount, acceptVars, dispatchVars, insideVars, halves, unknocked>>

ConnLimit == 2 * MaxCurrentConnections  \* "every TCP conection is counted twice"
AgeCap == ConnectTimeout + 1
Directions == {"Remote->Outside", "Outside->Remote"}

States == {"closed", "requested", "refused", "granted", "accepted", "queued",
           "taken", "parked", "relayed"}
In(states) == {c \in Conns : st[c] \in states}

(* Each acceptor has at most one connection in its hands. *)
Busy(i) == \E c \in In({"requested", "refused", "granted", "accepted"}) : id[c] = i

(* A name for a new connection: no key of an earlier one is about. *)
Fresh(c) == st[c] = "closed" /\ c \notin announced \cup answers /\ taken # c

Init ==
  /\ st = [c \in Conns |-> "closed"]
  /\ id \in [Conns -> Ids]
  /\ age = [c \in Conns |-> 0]
  /\ connCount = 0
  /\ cha = <<>>
  /\ dispatching = FALSE /\ taken = NoConn /\ lock = "free" /\ owed = 0
  /\ announced = {} /\ answers = {}
  /\ halves = [c \in Conns |-> {}]
  /\ unknocked = 0

-----------------------------------------------------------------------------
(* GoAcceptOutside *)

(* AcceptTCP yields a connection and the first RequestConn is granted; one *)
(* that is not granted is closed at once and nothing changes.              *)
Accept(i, c) ==
  /\ Fresh(c) /\ ~Busy(i)
  /\ RequestGranted(connCount, ConnLimit)
  /\ connCount' = AfterRequest(connCount, ConnLimit)
  /\ st' = [st EXCEPT ![c] = "requested"]
  /\ id' = [id EXCEPT ![c] = i]
  /\ age' = [age EXCEPT ![c] = 0]
  /\ UNCHANGED <<cha, dispatchVars, insideVars, halves, unknocked>>

SecondGranted(c) ==
  /\ st[c] = "requested"
  /\ RequestGranted(connCount, ConnLimit)
  /\ connCount' = AfterRequest(connCount, ConnLimit)
  /\ st' = [st EXCEPT ![c] = "granted"]
  /\ UNCHANGED <<age, acceptVars, dispatchVars, insideVars, halves, unknocked>>

SecondRefused(c) ==
  /\ st[c] = "requested"
  /\ ~RequestGranted(connCount, ConnLimit)
  /\ st' = [st EXCEPT ![c] = "refused"]
  /\ UNCHANGED <<age, connCount, acceptVars, dispatchVars, insideVars, halves, unknocked>>

(* The first request is taken back. *)
NothingTakenBack == UNCHANGED connCount
TakenBack == connCount' = AfterRelease(connCount)

ReleaseFirst(c) ==
  /\ st[c] = "refused"
  /\ TakenBack
  /\ st' = [st EXCEPT ![c] = "closed"]
  /\ UNCHANGED <<age, acceptVars, dispatchVars, insideVars, halves, unknocked>>

(* The source address did not knock: closed, and one of two released. *)
KnockMissing(c) ==
  /\ st[c] = "granted"
  /\ id[c] \in KnockIds
  /\ connCount' = AfterRelease(connCount)
  /\ st' = [st EXCEPT ![c] = "closed"]
  /\ unknocked' = unknocked + 1
  /\ UNCHANGED <<age, acceptVars, dispatchVars, insideVars, halves>>

SetTimeAccepted(c) ==
  /\ st[c] = "granted"
  /\ st' = [st EXCEPT ![c] = "accepted"]
  /\ age' = [age EXCEPT ![c] = 0]
  /\ UNCHANGED <<connCount, acceptVars, dispatchVars, insideVars, halves, unknocked>>

(* cha <- a waits while the channel is full. *)
SendToDispatcher(c) ==
  /\ st[c] = "accepted"
  /\ Len(cha) < ChaSize
  /\ cha' = Append(cha, c)
  /\ st' = [st EXCEPT ![c] = "queued"]
  /\ UNCHANGED <<age, connCount, id, dispatchVars, insideVars, halves, unknocked>>

-----------------------------------------------------------------------------
(* The dispatcher.  RunOutside starts it after the first HELO of Inside. *)

RunOutsideDispatcher ==
  /\ ~dispatching
  /\ dispatching' = TRUE
  /\ UNCHANGED <<st, age, connCount, acceptVars, taken, lock, owed, insideVars, halves, unknocked>>

TakeAccepted ==
  /\ dispatching /\ taken = NoConn
  /\ cha # <<>>
  /\ taken' = Head(cha)
  /\ cha' = Tail(cha)
  /\ st' = [st EXCEPT ![Head(cha)] = "taken"]
  /\ UNCHANGED <<age, connCount, id, dispatching, lock, owed, insideVars, halves, unknocked>>

(* cleanup closes the expired connections and owes two releases for each. *)
Expired(c) == age[c] > ConnectTimeout
ExpiredAnswered == {c \in In({"parked"}) \cap answers : Expired(c)}
ExpiredConns == {c \in In({"parked"}) : Expired(c)}

HalvesPerConnection == 2

CleanupNothing == UNCHANGED <<st, owed>>
Cleanup ==
  /\ st' = [c \in Conns |-> IF c \in ExpiredConns THEN "closed" ELSE st[c]]
  /\ owed' = HalvesPerConnection * Cardinality(ExpiredConns)

StoreConnection ==
  /\ lock = "free"
  /\ taken # NoConn /\ st[taken] = "taken"
  /\ lock' = "store"
  /\ Cleanup
  /\ UNCHANGED <<age, connCount, acceptVars, dispatching, taken, insideVars, halves, unknocked>>

CleanupForGet == Cleanup

GetConnection(k) ==
  /\ lock = "free"
  /\ k \in answers
  /\ lock' = k
  /\ CleanupForGet
  /\ UNCHANGED <<age, connCount, acceptVars, dispatching, taken, insideVars, halves, unknocked>>

CleanupRelease ==
  /\ owed > 0
  /\ owed' = owed - 1
  /\ connCount' = AfterRelease(connCount)
  /\ UNCHANGED <<st, age, acceptVars, dispatching, taken, lock, insideVars, halves, unknocked>>

Stored ==
  /\ lock = "store" /\ owed = 0
  /\ st' = [st EXCEPT ![taken] = "parked"]
  /\ lock' = "free"
  /\ UNCHANGED <<age, connCount, acceptVars, dispatching, taken, owed, insideVars, halves, unknocked>>

(* "send out message after storage" *)
MayAnnounce == st[taken] # "taken"

Announce ==
  /\ taken # NoConn
  /\ MayAnnounce
  /\ announced' = announced \cup {taken}
  /\ taken' = NoConn
  /\ UNCHANGED <<st, age, connCount, acceptVars, dispatching, lock, owed, answers, halves, unknocked>>

(* goProcessAcceptedConnection has its answer from GetConnection: two half *)
(* connections, or the connection of Inside is closed.                     *)
Matched(k) ==
  /\ lock = k /\ owed = 0
  /\ st[k] = "parked"
  /\ st' = [st EXCEPT ![k] = "relayed"]
  /\ halves' = [halves EXCEPT ![k] = Directions]
  /\ age' = [age EXCEPT ![k] = 0]
  /\ answers' = answers \ {k}
  /\ lock' = "free"
  /\ UNCHANGED <<connCount, acceptVars, dispatching, taken, owed, announced, unknocked>>

Unmatched(k) ==
  /\ lock = k /\ owed = 0
  /\ st[k] # "parked"
  /\ answers' = answers \ {k}
  /\ lock' = "free"
  /\ UNCHANGED <<st, age, connCount, acceptVars, dispatching, taken, owed, announced, halves, unknocked>>

(* A half transfer ends and releases its count (deferred). *)
HalfEnds(c, d) ==
  /\ d \in halves[c]
  /\ halves' = [halves EXCEPT ![c] = @ \ {d}]
  /\ st' = IF halves[c] = {d} THEN [st EXCEPT ![c] = "closed"] ELSE st
  /\ connCount' = AfterRelease(connCount)
  /\ UNCHANGED <<age, acceptVars, dispatchVars, insideVars, unknocked>>

-----------------------------------------------------------------------------
(* Inside, and the clock *)

AnswerOfInside(k) ==
  /\ k \in announced
  /\ announced' = announced \ {k}
  /\ answers' = answers \cup {k}
  /\ UNCHANGED <<st, age, connCount, acceptVars, dispatchVars, halves, unknocked>>

(* The local system refused, or the answer did not come complete. *)
NoAnswer(k) ==
  /\ k \in announced
  /\ announced' = announced \ {k}
  /\ UNCHANGED <<st, age, connCount, acceptVars, dispatchVars, answers, halves, unknocked>>

Waiting == In({"accepted", "queued", "taken", "parked"})

Tick ==
  /\ lock = "free"
  /\ age' = [c \in Conns |-> IF c \in Waiting /\ age[c] < AgeCap THEN age[c] + 1 ELSE age[c]]
  /\ UNCHANGED <<st, connCount, acceptVars, dispatchVars, insideVars, halves, unknocked>>

Acceptor(c) ==
  \/ SecondGranted(c) \/ SecondRefused(c) \/ ReleaseFirst(c) \/ KnockMissing(c)
  \/ SetTimeAccepted(c) \/ SendToDispatcher(c)

Manage == RunOutsideDispatcher \/ TakeAccepted \/ StoreConnection \/ Stored \/ Announce

Process(k) == GetConnection(k) \/ Matched(k) \/ Unmatched(k)

Next ==
  \/ \E c \in Conns : (\E i \in Ids : Accept(i, c)) \/ Acceptor(c) \/ Process(c)
  \/ Manage \/ CleanupRelease
  \/ \E c \in Conns, d \in Directions : HalfEnds(c, d)
  \/ \E k \in Conns : AnswerOfInside(k) \/ NoAnswer(k)
  \/ Tick

Spec == Init /\ [][Next]_vars

(* Goroutines go on and the clock runs.  Remotes and Inside owe nothing,   *)
(* and a half connection may last for ever.                                *)
Fairness ==
  /\ WF_vars(Tick)
  /\ WF_vars(Manage) /\ WF_vars(CleanupRelease)
  /\ \A c \in Conns : WF_vars(Acceptor(c)) /\ SF_vars(Process(c))

FairSpec == Spec /\ Fairness

-----------------------------------------------------------------------------
(* Properties *)

(* Types; the limiter counts at most two per allowed connection. *)
TypeOK ==
  /\ st \in [Conns -> States]
  /\ id \in [Conns -> Ids]
  /\ age \in [Conns -> 0..AgeCap]
  /\ connCount \in 0..ConnLimit
  /\ cha \in Seq(Conns) /\ Len(cha) <= ChaSize
  /\ dispatching \in BOOLEAN
  /\ taken \in Conns \cup {NoConn}
  /\ lock \in {"free", "store"} \cup Conns
  /\ owed \in 0..ConnLimit
  /\ announced \in SUBSET Conns /\ answers \in SUBSET Conns
  /\ halves \in [Conns -> SUBSET Directions]
  /\ unknocked \in 0..ConnLimit

(* What the connections that exist need at the limiter. *)
FullyCounted == In({"granted", "accepted", "queued", "taken", "parked"})
HalvesOf(d) == {c \in Conns : d \in halves[c]}

Needed ==
  Cardinality(In({"requested", "refused"})) + 2 * Cardinality(FullyCounted)
    + Cardinality(HalvesOf("Remote->Outside")) + Cardinality(HalvesOf("Outside->Remote"))

(* The limiter counts each connection as often as it will be released,     *)
(* whoever of acceptor, cleanup and half connections releases it; whatever *)
(* races at the limit, the only counts that are never given back are those *)
(* of connections without a knock, one each.                               *)
OnlyUnknockedLeak == connCount = Needed + owed + unknocked

(* An answer of Inside gets its connection if and only if it came in time: *)
(* it never finds it not yet stored, and never one that expired.           *)
AnswerMatchedIffInTime ==
  [][\A k \in Conns : lock = k /\ lock' = "free" =>
       (st'[k] = "relayed" <=> age[k] <= ConnectTimeout)]_vars

Stale(c) == st[c] = "parked" /\ Expired(c)

(* As long as connections are accepted again and again, none stays parked  *)
(* for ever after its timeout: the next to be stored cleans it up.         *)
CleanedByTraffic ==
  \A c \in Conns : ([]<><<StoreConnection>>_vars) => (Stale(c) ~> ~Stale(c))
=============================================================================
