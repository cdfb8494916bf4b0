---------------------------- MODULE ConnLimiter ----------------------------
(***************************************************************************)
(* pkg/connlimiter: a counter with a limit behind one mutex.  Both         *)
(* programs share one limiter between many goroutines: the UDP Outside     *)
(* between the flow tables of all Ids, the TCP Outside between acceptors,  *)
(* the dispatcher and the half connections.  Every method runs under the   *)
(* mutex from its first line to its last, so each is one atomic operator   *)
(* on the counter; the modules that own a limiter keep the counter as a    *)
(* variable.  The counter is a uint32 in Go; it never leaves 0..connLimit, *)
(* so its width does not matter.                                           *)
(***************************************************************************)
EXTENDS Naturals

(* RequestConn answers true: without a limit always, else while one more fits. *)
GrantedPastLimit(connCount, connLimit) ==
  connLimit = 0 \/ connCount <= connLimit

RequestGranted(connCount, connLimit) ==
  connLimit = 0 \/ connCount + 1 <= connLimit

(* The counter after a granted RequestConn; without a limit nothing is counted. *)
AfterRequest(connCount, connLimit) ==
  IF connLimit = 0 THEN connCount ELSE connCount + 1

(* The counter after ReleaseConn, which never goes below zero. *)
ReleasedDownToOne(connCount) == IF connCount > 1 THEN connCount - 1 ELSE connCount

AfterRelease(connCount) == IF connCount > 0 THEN connCount - 1 ELSE 0
=============================================================================
