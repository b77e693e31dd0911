---------------------------- MODULE CircuitBreaker ----------------------------
(* The per-backend circuit breaker, as operators on its record, in the two    *)
(* versions the health checker may use: the Python class and the Rust class   *)
(* of _circuit_breaker_rs, which replaces it when the extension is installed. *)
(* Time is reduced to "cooled": at least cooldown_seconds have passed since   *)
(* the last recorded failure.  The cooldown is positive, so a failure that    *)
(* has just been recorded is never cooled.  Only an open circuit looks at the *)
(* time, and it opens by recording a failure: a closed one keeps FALSE.       *)
EXTENDS Naturals

CONSTANTS
    Threshold,          \* failure_threshold
    MaxFailures         \* bound: failures are counted up to here

(* Only "at least Threshold" is ever asked of the count, so a count that      *)
(* stops at MaxFailures answers as the unbounded one does.                    *)
ASSUME ThresholdAssumption ==
    Threshold \in Nat \ {0} /\ MaxFailures \in Nat /\ MaxFailures >= Threshold

CircuitStates == {"CLOSED", "OPEN", "HALF_OPEN"}

Breakers == [state : CircuitStates, failures : 0 .. MaxFailures, cooled : BOOLEAN]

FreshBreaker == [state |-> "CLOSED", failures |-> 0, cooled |-> FALSE]

(* A breaker whose state is never re-evaluated. *)
NeverHalfOpens(c) == c

(* The state property: reading it moves a cooled OPEN circuit to HALF_OPEN. *)
ReadState(c) ==
    IF c.state = "OPEN" /\ c.cooled THEN [c EXCEPT !.state = "HALF_OPEN"] ELSE c

(* consecutive_failures += 1 *)
OneMore(n) == IF n < MaxFailures THEN n + 1 ELSE n

AllowsRequest(c) == ReadState(c).state # "OPEN"

RecordSuccess(c) == [state |-> "CLOSED", failures |-> 0, cooled |-> FALSE]

(* A breaker that does not reopen when the half-open probe fails. *)
TripsOnlyWhenClosed(c) ==
    [state    |-> IF c.state = "CLOSED" /\ OneMore(c.failures) >= Threshold
                  THEN "OPEN" ELSE c.state,
     failures |-> OneMore(c.failures),
     cooled   |-> FALSE]

(* record_failure *)
RecordFailure(c) ==
    [state    |-> IF /\ c.state \in {"CLOSED", "HALF_OPEN"}
                     /\ OneMore(c.failures) >= Threshold
                  THEN "OPEN" ELSE c.state,
     failures |-> OneMore(c.failures),
     cooled   |-> FALSE]

(* The Rust class: check_transition, record_success and record_failure. *)
RustCheckTransition(c) ==
    IF c.state = "OPEN" /\ c.cooled THEN [c EXCEPT !.state = "HALF_OPEN"] ELSE c

RustRecordSuccess(c) ==
    [state |-> "CLOSED", failures |-> 0, cooled |-> FALSE]

RustRecordFailure(c) ==
    [state    |-> IF \/ c.state = "HALF_OPEN"
                     \/ c.state = "CLOSED" /\ OneMore(c.failures) >= Threshold
                  THEN "OPEN" ELSE c.state,
     failures |-> OneMore(c.failures),
     cooled   |-> FALSE]

(* cooldown_seconds pass without another failure. *)
CoolDown(c) == [c EXCEPT !.cooled = TRUE]

(* What makes the two versions interchangeable: a circuit that is not closed  *)
(* has counted at least Threshold consecutive failures.                       *)
Tripped(c) == c.state # "CLOSED" => c.failures >= Threshold
=============================================================================
