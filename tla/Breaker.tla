------------------------------ MODULE Breaker ------------------------------
(***************************************************************************)
(* One circuit breaker as a value: app/firewall/circuit_breaker.py.        *)
(*                                                                         *)
(* Every method of CircuitBreaker holds the breaker's lock from its first  *)
(* line to its last, so a method is one indivisible function of the        *)
(* breaker's fields and the clock.  The modules that own breakers          *)
(* (BreakerCalls, Gateway) apply these functions inside their actions.     *)
(***************************************************************************)
EXTENDS Integers

CONSTANTS
    Threshold,  \* failure_threshold: consecutive failures that open it
    Cooldown    \* cooldown_seconds: how long it stays open, in clock ticks

\* The constructor refuses any other policy (circuit_breaker.py:31-32).
ASSUME BreakerPolicy == /\ Threshold \in Nat \ {0}
                        /\ Cooldown  \in Nat \ {0}

BreakerState == {"closed", "open", "half_open"}

\* The fields _state, _failures, _opened_at and _probe_in_flight.  The clock
\* is monotonic and starts at 0 here, as _opened_at does in the constructor.
BreakerRecord == [state : BreakerState, failures : Nat,
                  openedAt : Nat, probe : BOOLEAN]

NewBreaker == [state |-> "closed", failures |-> 0,
               openedAt |-> 0, probe |-> FALSE]

Cooled(b, t) == t - b.openedAt >= Cooldown

\* Mistake: allow() forgets to look at _probe_in_flight.
AllowsAnyProbe(b, t) == \/ b.state \in {"closed", "half_open"}
                        \/ b.state = "open" /\ Cooled(b, t)

\* What allow() answers at time t ...
Allows(b, t) == \/ b.state = "closed"
                \/ b.state = "open" /\ Cooled(b, t)
                \/ b.state = "half_open" /\ ~b.probe

\* ... and whether the call it lets through is a probe.
IsProbe(b) == b.state # "closed"

\* The breaker after an allow() that answered TRUE; one that answered FALSE
\* changes nothing.
Allow(b) == IF b.state = "closed" THEN b
            ELSE [b EXCEPT !.state = "half_open", !.probe = TRUE]

\* retry_after(): 0 unless the breaker is open.
RetryAfter(b, t) ==
    IF b.state = "open" /\ b.openedAt + Cooldown > t
    THEN b.openedAt + Cooldown - t
    ELSE 0

\* Mistake: record_success() does not reset the count.
SucceedKeepsCount(b) == [b EXCEPT !.state = "closed", !.probe = FALSE]

\* Mistake: a success takes one failure back.
SucceedForgivesOne(b) == [b EXCEPT !.state = "closed", !.failures = @ - 1,
                                   !.probe = FALSE]

\* record_success()
Succeed(b) == [b EXCEPT !.state = "closed", !.failures = 0, !.probe = FALSE]

\* _trip()
Trip(t) == [state |-> "open", failures |-> 0, openedAt |-> t, probe |-> FALSE]

\* Mistake: a failed probe re-opens the breaker on its old cooldown.
FailOldCooldown(b, t) ==
    IF b.state = "half_open" THEN [b EXCEPT !.state = "open", !.probe = FALSE]
    ELSE IF b.failures + 1 >= Threshold THEN Trip(t)
    ELSE [b EXCEPT !.failures = @ + 1]

\* record_failure().  The count runs on in state "open" too, so enough late
\* failures of calls admitted earlier re-open the breaker and restart its
\* cooldown.
Fail(b, t) == IF b.state = "half_open" \/ b.failures + 1 >= Threshold
              THEN Trip(t)
              ELSE [b EXCEPT !.failures = @ + 1]
=============================================================================
