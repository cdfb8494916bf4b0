------------------------------- MODULE RateLog -------------------------------
(***************************************************************************)
(* The rate limited logger: Log of ratelimitedlogging, called by all       *)
(* goroutines of a program under its lock, and NewRateLimitedLogger with   *)
(* the arguments that the two programs pass.  Log refills its burst from   *)
(* the seconds since lastLogTime and advances lastLogTime only by what the *)
(* refill was worth, in whole seconds.  Lines with HELO in them have a     *)
(* second, smaller burst.                                                  *)
(*                                                                         *)
(* intervalSeconds is a fraction <<seconds, lines>>.  The rounding of      *)
(* float32 is left out, the conversions to whole numbers are not.          *)
(***************************************************************************)
EXTENDS Integers

CONSTANTS
  Intervals,                \* values of log:intervalSeconds, as fractions
  LimitBurst,               \* log:limitBurst
  LimitHeloLoggingSeconds,  \* log:limitHeloLoggingSeconds
  MaxIdle                   \* bound: seconds without a line to log

ASSUME RateLogAssumption ==
  /\ Intervals \subseteq (Nat \ {0}) \X (Nat \ {0})
  /\ LimitBurst \in Nat /\ LimitHeloLoggingSeconds \in Nat /\ MaxIdle \in Nat

VARIABLES
  program,    \* who made the logger
  interval,   \* interval
  sinceLog,   \* now - lastLogTime
  burst,      \* lines that may be logged now
  sinceHelo,  \* now - lastHeloLogTime
  heloBurst,  \* HELO lines that may be logged now
  \* history
  allowance,  \* what an ideal limiter has left, in parts of a line
  heloRun     \* HELO lines since one came more than intervalHeloLogging
              \* after the one before

logVars == <<program, interval, sinceLog, burst, sinceHelo, heloBurst, allowance, heloRun>>

Programs == {"udpbohrer", "tcpbohrer"}

(* NewRateLimitedLogger(interval, intervalHeloLogging, maxBurst).  The     *)
(* second and third argument of tcpbohrer are the other way round.         *)
AtLeastOne(n) == IF n <= 1 THEN 1 ELSE n
maxBurst == AtLeastOne(IF program = "udpbohrer" THEN LimitBurst ELSE LimitHeloLoggingSeconds)
intervalHeloLogging == IF program = "udpbohrer" THEN LimitHeloLoggingSeconds ELSE LimitBurst

Seconds == interval[1]
Lines == interval[2]
LessOf(m, n) == IF m < n THEN m ELSE n

(* Of an ideal limiter that refills at every second and has room for one   *)
(* line more than maxBurst, for a refill may be due when the burst is full. *)
Full == Seconds * (maxBurst + 1)
Overdrawn == -1
RunCap == 4  \* a run that is too long counts no further

LogInit ==
  /\ program \in Programs /\ interval \in Intervals
  /\ sinceLog = 0 /\ burst = maxBurst
  /\ sinceHelo = intervalHeloLogging + 1 /\ heloBurst = 0
  /\ allowance = Full /\ heloRun = 0

-----------------------------------------------------------------------------
(* Log *)

Refill == (sinceLog * Lines) \div Seconds

SinceLogKept == sinceLog
SinceLogAfterRefill == sinceLog - (Refill * Seconds) \div Lines

Refilled == LessOf(burst + Refill, maxBurst)

HeloBurstUncapped == heloBurst + IF sinceHelo > intervalHeloLogging THEN 2 ELSE 0
NewHeloBurst == LessOf(heloBurst + IF sinceHelo > intervalHeloLogging THEN 2 ELSE 0, 3)

LogLine ==
  /\ burst' = Refilled - 1
  /\ allowance' = IF allowance < Seconds THEN Overdrawn ELSE allowance - Seconds

Suppress ==
  /\ burst' = Refilled
  /\ UNCHANGED allowance

LogOther ==
  /\ sinceLog' = SinceLogAfterRefill
  /\ IF Refilled > 0 THEN LogLine ELSE Suppress
  /\ UNCHANGED <<program, interval, sinceHelo, heloBurst, heloRun>>

LogHelo ==
  /\ intervalHeloLogging > 0
  /\ NewHeloBurst > 0
  /\ sinceLog' = SinceLogAfterRefill
  /\ IF Refilled > 0
     THEN /\ LogLine
          /\ heloBurst' = NewHeloBurst - 1
          /\ sinceHelo' = 0
          /\ heloRun' = IF sinceHelo > intervalHeloLogging THEN 1 ELSE LessOf(heloRun + 1, RunCap)
     ELSE /\ Suppress
          /\ heloBurst' = NewHeloBurst
          /\ UNCHANGED <<sinceHelo, heloRun>>
  /\ UNCHANGED <<program, interval>>

LogTick ==
  /\ sinceLog < MaxIdle
  /\ sinceLog' = sinceLog + 1
  /\ sinceHelo' = LessOf(sinceHelo + 1, intervalHeloLogging + 1)
  /\ allowance' = IF allowance = Overdrawn THEN Overdrawn ELSE LessOf(allowance + Lines, Full)
  /\ UNCHANGED <<program, interval, burst, heloBurst, heloRun>>

LogNext == LogOther \/ LogHelo \/ LogTick

LogSpec == LogInit /\ [][LogNext]_logVars

-----------------------------------------------------------------------------
(* Properties *)

(* Types and bounds; and "limits logging of HELO packets to time interval  *)
(* (bursts of 2)": as long as HELO lines come without a pause of the       *)
(* interval there are three at most, two and one that was left before.     *)
LogTypeOK ==
  /\ program \in Programs /\ interval \in Intervals
  /\ sinceLog \in 0..MaxIdle /\ burst \in 0..maxBurst
  /\ sinceHelo \in 0..(intervalHeloLogging + 1) /\ heloBurst \in 0..3
  /\ allowance \in Overdrawn..Full /\ heloRun \in 0..3

(* A refill is worth whole seconds, or a second whole lines. *)
Exact == Seconds = 1 \/ Lines = 1

(* "Mean time interval between logging entries", "up to limitBurst entries *)
(* are logged in burst": in no stretch of time more lines are logged than  *)
(* the interval earns in it and maxBurst and one more, although seconds    *)
(* that earn no whole line are carried over and a full burst is cut.  For  *)
(* tcpbohrer the burst is limitHeloLoggingSeconds.  An interval that is    *)
(* neither whole nor one over a whole number limits less, or nothing: a    *)
(* refill is not charged the fraction of a second that it was worth.       *)
LinesBounded == Exact => allowance # Overdrawn
=============================================================================
