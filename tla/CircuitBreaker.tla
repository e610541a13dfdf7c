--------------------------- MODULE CircuitBreaker ---------------------------
(***************************************************************************)
(* The circuit breaker of core/circuit_breaker.py, as a record and what    *)
(* the methods make of it.  A call runs up to its await in one step and    *)
(* comes back in another; the breaker may have changed state in between.   *)
(***************************************************************************)
EXTENDS Integers

CONSTANTS Threshold, \* failure_threshold: 3 by default
          Recovery,  \* recovery_timeout: 60 seconds
          Trials     \* half_open_max_requests: 2

BreakerAssumption == {Threshold, Trials} \subseteq Nat \ {0} /\ Recovery \in Nat

Breaker == [state : {"closed", "open", "half_open"}, failures : Nat, successes : Nat,
            requests : Nat, age : 0..Recovery]

\* age is the time since last_failure_time, which is read only while the breaker is open
\* and matters only up to Recovery.
NewBreaker == [state |-> "closed", failures |-> 0, successes |-> 0, requests |-> 0, age |-> 0]

\* _try_reset
TryReset(b) ==
    IF b.state = "open" /\ b.age >= Recovery
    THEN [b EXCEPT !.state = "half_open", !.requests = 0, !.age = 0]
    ELSE b

Admits(b) == b.state = "closed" \/ (b.state = "half_open" /\ b.requests < Trials)

\* fault: a trial is not counted
FaultyAdmitted(b) == b

\* What call does to the breaker before it awaits the function.
Admitted(b) == [b EXCEPT !.requests = IF b.state = "half_open" THEN @ + 1 ELSE @]

\* _on_success, in whatever state the answer finds the breaker
OnSuccess(b) ==
    IF b.state # "half_open" THEN [b EXCEPT !.failures = 0]
    ELSE IF b.successes + 1 >= Trials
    THEN [b EXCEPT !.failures = 0, !.state = "closed", !.successes = 0]
    ELSE [b EXCEPT !.failures = 0, !.successes = @ + 1]

\* _on_failure
OnFailure(b) ==
    LET failed == [b EXCEPT !.failures = @ + 1, !.age = 0]
    IN  CASE b.state = "half_open" -> [failed EXCEPT !.state = "open", !.failures = Threshold]
          [] b.state = "closed" /\ failed.failures >= Threshold -> [failed EXCEPT !.state = "open"]
          [] OTHER -> failed

Aged(b) == [b EXCEPT !.age = IF b.state = "open" /\ @ < Recovery THEN @ + 1 ELSE @]
=============================================================================
