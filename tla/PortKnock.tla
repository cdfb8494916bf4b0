------------------------------ MODULE PortKnock ------------------------------
(***************************************************************************)
(* Port knocking of tcpbohrer: ManagePortKnock (pkg/manageportknock), the  *)
(* HTTPS handler that inserts a knock (pkg/portknocktls), the acceptors    *)
(* that check it, and the browser that keeps the handler's page open and   *)
(* loads it again every RefreshSeconds.                                    *)
(*                                                                         *)
(* Every method is one critical section of the mutex.  The time a knock    *)
(* ends is kept as the seconds left; below -1 no comparison differs.       *)
(***************************************************************************)
EXTENDS Integers, FiniteSets

CONSTANTS
  Names,         \* port knock names of the configuration
  Addrs,         \* source addresses
  timeOut,       \* seconds a knock lasts
  maxportknock,  \* how many knocks there may be
  NoKnock,       \* an address that is not in the map of a name
  NoPage         \* a page that is not open

ASSUME KnockAssumption ==
  /\ IsFiniteSet(Names) /\ IsFiniteSet(Addrs)
  /\ timeOut \in Nat \ {0, 1}  \* ReadConfig: at least 10
  /\ maxportknock \in Nat \ {0}
  /\ NoKnock \notin Int /\ NoPage \notin Int

Clients == Names \X Addrs

VARIABLES
  kmap,            \* client -> seconds its knock still lasts
  countportknock,  \* the counter of knocks
  page,            \* client -> seconds since the browser loaded the page
  repeated         \* history: knocks that were counted and already known

knockVars == <<kmap, countportknock, page, repeated>>

Known(knocks, c) == knocks[c] # NoKnock

KnockInit ==
  /\ kmap = [c \in Clients |-> NoKnock]
  /\ countportknock = 0
  /\ page = [c \in Clients |-> NoPage]
  /\ repeated = 0

NotBelowZero(n) == IF n < 0 THEN 0 ELSE n

-----------------------------------------------------------------------------

(* cleanup, the first half of Insert: a knock whose time is over goes. *)
Over(c) == Known(kmap, c) /\ kmap[c] < 0
Cleaned == [c \in Clients |-> IF Over(c) THEN NoKnock ELSE kmap[c]]
CountLessEnding ==
  NotBelowZero(countportknock - Cardinality({c \in Clients : Known(kmap, c) /\ kmap[c] <= 0}))
CountAfterCleanup ==
  NotBelowZero(countportknock - Cardinality({c \in Clients : Over(c)}))

(* Insert counts every knock, a repeated one too. *)
Room == maxportknock - CountAfterCleanup > 0

Insert(c) ==
  /\ kmap' = IF Room THEN [Cleaned EXCEPT ![c] = timeOut] ELSE Cleaned
  /\ countportknock' = IF Room THEN CountAfterCleanup + 1 ELSE CountAfterCleanup
  /\ repeated' = IF Room /\ Known(Cleaned, c) THEN repeated + 1 ELSE repeated

(* decodeAndWriteResponse: the page is loaded, by hand or by its refresh. *)
Load(c) ==
  /\ Insert(c)
  /\ page' = [page EXCEPT ![c] = 0]

ClosePage(c) ==
  /\ page[c] # NoPage
  /\ page' = [page EXCEPT ![c] = NoPage]
  /\ UNCHANGED <<kmap, countportknock, repeated>>

(* Check of an acceptor: an expired knock is removed on the way. *)
CheckPasses(c) == Known(kmap, c) /\ kmap[c] > 0

CheckFails(c) ==
  /\ Known(kmap, c)
  /\ kmap[c] <= 0
  /\ kmap' = [kmap EXCEPT ![c] = NoKnock]
  /\ countportknock' = NotBelowZero(countportknock - 1)
  /\ UNCHANGED <<page, repeated>>

RefreshAtEnd == timeOut
(* int(timeout / 2.2), at least one second *)
RefreshSeconds == IF (10 * timeOut) \div 22 < 1 THEN 1 ELSE (10 * timeOut) \div 22

(* A second passes; an open page has been loaded again when it was due. *)
KnockTick ==
  /\ \A c \in Clients : page[c] # NoPage => page[c] < RefreshSeconds
  /\ kmap' = [c \in Clients |->
                IF Known(kmap, c) /\ kmap[c] >= 0 THEN kmap[c] - 1 ELSE kmap[c]]
  /\ page' = [c \in Clients |-> IF page[c] = NoPage THEN NoPage ELSE page[c] + 1]
  /\ UNCHANGED <<countportknock, repeated>>

KnockNext ==
  \/ \E c \in Clients : Load(c) \/ ClosePage(c) \/ CheckFails(c)
  \/ KnockTick

KnockSpec == KnockInit /\ [][KnockNext]_knockVars

-----------------------------------------------------------------------------
(* Properties *)

(* Types; no knock lasts longer than timeOut. *)
KnockTypeOK ==
  /\ kmap \in [Clients -> -1..timeOut \cup {NoKnock}]
  /\ countportknock \in 0..maxportknock
  /\ page \in [Clients -> 0..RefreshSeconds \cup {NoPage}]
  /\ repeated \in 0..maxportknock

Entries == {c \in Clients : Known(kmap, c)}

(* The types hold, and the counter that enforces the limit, which Insert,  *)
(* its cleanup and Check change each in its own way, is the number of      *)
(* entries and of the repeated knocks: nothing else makes it drift, no     *)
(* clamp at zero hides anything, and what it never gives back always       *)
(* leaves one place.                                                       *)
OnlyRepeatsLeak ==
  /\ KnockTypeOK
  /\ countportknock = Cardinality(Entries) + repeated
  /\ repeated < maxportknock

(* "keep the window open for refresh": a client whose page is open passes  *)
(* the check at any time, for the page is loaded again before its knock    *)
(* ends.  This ends when so many repeated knocks were counted that they    *)
(* and the clients reach the limit: then refreshes may be refused.         *)
OpenPageKeepsKnock ==
  \A c \in Clients : page[c] # NoPage /\ ~CheckPasses(c) =>
    repeated + Cardinality(Clients) >= maxportknock
=============================================================================
