---------------------------- MODULE BreakerCalls ----------------------------
(***************************************************************************)
(* One circuit breaker and the upstream calls it admits.                   *)
(*                                                                         *)
(* The gateway asks allow() before it forwards a call, awaits the call     *)
(* under wait_for(upstream_timeout_seconds), and records one outcome       *)
(* (gateway.py:176-202).  Between the two, any other request may run on    *)
(* the same event loop: calls admitted while the breaker was closed finish *)
(* in every order, also after it has opened, while it is half open, or     *)
(* after it has closed again.                                              *)
(*                                                                         *)
(* Time is an integer clock.  A call ends no later than its timeout, so    *)
(* the clock does not pass a call's deadline: Timeout stands for the       *)
(* configured timeout plus whatever the event loop is late.                *)
(***************************************************************************)
EXTENDS Breaker

CONSTANTS
    Call,       \* the tasks that may have a call forwarded at the same time
    Timeout,    \* the longest a forwarded call lasts, in clock ticks
    MaxTime,    \* bound of the model: the clock stops here
    NoCall      \* no call is the probe

ASSUME CallsAssumption == /\ Timeout \in Nat \ {0}
                          /\ MaxTime \in Nat
                          /\ NoCall \notin Call

VARIABLES
    now,        \* the monotonic clock
    breaker,    \* the breaker of the tool
    inFlight,   \* the calls that are being awaited
    since,      \* when each call in flight was admitted (0 for the others)
    \* The remaining variables are history: no action reads them.
    streak,     \* failures recorded since the last success, up to Threshold
    owner,      \* the call last admitted as a probe, until the breaker closes
    lastProbe   \* when it was, or -1 if the breaker has closed since

vars == <<now, breaker, inFlight, since, streak, owner, lastProbe>>

Init == /\ now = 0
        /\ breaker = NewBreaker
        /\ inFlight = {}
        /\ since = [c \in Call |-> 0]
        /\ streak = 0
        /\ owner = NoCall
        /\ lastProbe = -1
-----------------------------------------------------------------------------
\* allow() answers TRUE and the call is forwarded.  (The last conjunct keeps
\* the deadline of every call inside the bounded clock.)
Admit(c) ==
    /\ c \notin inFlight
    /\ Allows(breaker, now)
    /\ now + Timeout =< MaxTime
    /\ breaker' = Allow(breaker)
    /\ inFlight' = inFlight \cup {c}
    /\ since' = [since EXCEPT ![c] = now]
    /\ owner' = IF IsProbe(breaker) THEN c ELSE owner
    /\ lastProbe' = IF IsProbe(breaker) THEN now ELSE lastProbe
    /\ UNCHANGED <<now, streak>>

\* record_success(): the upstream answered without an error.
Succeeds(c) ==
    /\ c \in inFlight
    /\ breaker' = Succeed(breaker)
    /\ inFlight' = inFlight \ {c}
    /\ since' = [since EXCEPT ![c] = 0]
    /\ streak' = 0
    /\ owner' = NoCall
    /\ lastProbe' = -1
    /\ UNCHANGED now

\* Mistake: a cancelled request leaves without record_failure().
CancelsUnrecorded(c) ==
    /\ c \in inFlight
    /\ breaker' \in {breaker, Fail(breaker, now)}
    /\ inFlight' = inFlight \ {c}
    /\ since' = [since EXCEPT ![c] = 0]
    /\ streak' = IF streak < Threshold THEN streak + 1 ELSE streak
    /\ UNCHANGED <<now, owner, lastProbe>>

\* record_failure(): an error result, an exception, a timeout, or the
\* cancellation of the request that awaits the call.
Fails(c) ==
    /\ c \in inFlight
    /\ breaker' = Fail(breaker, now)
    /\ inFlight' = inFlight \ {c}
    /\ since' = [since EXCEPT ![c] = 0]
    /\ streak' = IF streak < Threshold THEN streak + 1 ELSE streak
    /\ UNCHANGED <<now, owner, lastProbe>>

\* The clock advances, but never past the deadline of a call in flight.
Tick == /\ now < MaxTime
        /\ \A c \in inFlight : now < since[c] + Timeout
        /\ now' = now + 1
        /\ UNCHANGED <<breaker, inFlight, since, streak, owner, lastProbe>>

\* The clock has reached its bound and every call is answered.
Finished == now = MaxTime /\ inFlight = {} /\ UNCHANGED vars

Next == \/ \E c \in Call : Admit(c) \/ Succeeds(c) \/ Fails(c)
        \/ Tick
        \/ Finished

\* wait_for() gives a call up when its time is over: time passes, and a call
\* at its deadline fails unless it is answered in that very instant.
Fairness == /\ WF_vars(Tick)
            /\ \A c \in Call : WF_vars(now = since[c] + Timeout /\ Fails(c))

Spec == Init /\ [][Next]_vars /\ Fairness
-----------------------------------------------------------------------------
TypeOK == /\ now \in 0..MaxTime
          /\ breaker \in BreakerRecord
          /\ inFlight \in SUBSET Call
          /\ since \in [Call -> 0..MaxTime]
          /\ streak \in 0..Threshold
          /\ owner \in Call \cup {NoCall}
          /\ lastProbe \in -1..MaxTime

\* "CLOSED --(N consecutive failures)--> OPEN": the breaker lets ordinary
\* traffic through exactly while fewer than Threshold failures have been
\* recorded since the last success, however the outcomes of overlapping calls
\* interleave and whatever the breaker forgot when it tripped.
ClosedIffHealthy == breaker.state = "closed" <=> streak < Threshold

\* The contract of allow() (circuit_breaker.py:6-7, gateway.py:176-177): a
\* half-open breaker always has its probe's outcome still to come, so it can
\* not wait for ever.
ProbeAccounted ==
    breaker.state = "half_open" => breaker.probe /\ owner \in inFlight

\* A tool that keeps failing is not hammered: with no success in between, two
\* probes are at least a cooldown apart, even when late failures of older
\* calls re-open the breaker under a probe.
ProbesSpaced ==
    [][lastProbe' > lastProbe /\ lastProbe >= 0
          => lastProbe' >= lastProbe + Cooldown]_vars

\* A half-open breaker is decided, by its probe's timeout at the latest.
HalfOpenResolves == breaker.state = "half_open" ~> breaker.state # "half_open"

\* "HALF_OPEN lets exactly one probe through" (circuit_breaker.py:4): whatever
\* else is still running then is a straggler, admitted a cooldown or more before
\* the probe.  This holds of every policy, however long calls last, and
\* however often late outcomes have opened or closed the breaker meanwhile.
OnlyStragglersBeside ==
    breaker.state = "half_open" =>
        \A c \in inFlight \ {owner} : since[c] + Cooldown =< since[owner]

\* The probe ends, or a call that is older than it by a cooldown or more.
ProbeOrStragglerEnds ==
    \E c \in inFlight \ inFlight' :
       c = owner \/ since[c] + Cooldown =< since[owner]

\* Half_open ends with the outcome of the probe or of such a straggler: never
\* with that of a second probe, nor by itself.
ProbeOrStragglerDecides ==
    [][breaker.state = "half_open" /\ breaker'.state # "half_open"
          => ProbeOrStragglerEnds]_vars

\* When every call is given up sooner than a cooldown lasts, there are no such
\* stragglers: a probe runs alone.
ProbeAlone == breaker.state = "half_open" => inFlight = {owner}

\* And then it is as the diagram has it, "success -> CLOSED, failure -> OPEN
\* again" (circuit_breaker.py:4): only the end of the probe moves the breaker
\* out of half_open.
ProbeDecides ==
    [][breaker.state = "half_open" /\ breaker'.state # "half_open"
          => owner \in inFlight /\ owner \notin inFlight']_vars

\* "OPEN --(cooldown elapsed)--> HALF_OPEN" (circuit_breaker.py:3) is the only
\* way the diagram gives out of OPEN: an open breaker does not close.
OpenOnlyHalfOpens == [][breaker.state = "open" => breaker'.state # "closed"]_vars
=============================================================================
