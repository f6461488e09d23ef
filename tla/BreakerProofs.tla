---------------------------- MODULE BreakerProofs ----------------------------
(***************************************************************************)
(* Proofs about BreakerCalls, for every threshold, cooldown, timeout and   *)
(* set of calls: the type invariant, the state invariants, the spacing of  *)
(* probes, and, when the timeout is below the cooldown, that a probe runs  *)
(* alone and is what decides the half-open breaker.                        *)
(***************************************************************************)
EXTENDS BreakerCalls, TLAPS

(***************************************************************************)
(* What the operations of one breaker return.                              *)
(***************************************************************************)

\* retry_after() is exact: an open breaker lets a call through d ticks later
\* if and only if d is no less than what it told the refused client.
THEOREM RetryAfterExact ==
    ASSUME NEW b \in BreakerRecord, NEW t \in Nat, NEW d \in Nat,
           b.state = "open"
    PROVE  Allows(b, t + d) <=> d >= RetryAfter(b, t)
BY BreakerPolicy DEF BreakerRecord, BreakerState, Allows, Cooled, RetryAfter

LEMMA BreakerTypes ==
    ASSUME NEW b \in BreakerRecord, NEW t \in Nat
    PROVE  /\ Allow(b)   \in BreakerRecord
           /\ Succeed(b) \in BreakerRecord
           /\ Fail(b, t) \in BreakerRecord
<1>1. Allow(b) \in BreakerRecord
  BY DEF BreakerRecord, BreakerState, Allow
<1>2. Succeed(b) \in BreakerRecord
  BY DEF BreakerRecord, BreakerState, Succeed
<1>3. Trip(t) \in BreakerRecord
  BY DEF BreakerRecord, BreakerState, Trip
<1>4. [b EXCEPT !.failures = @ + 1] \in BreakerRecord
  BY DEF BreakerRecord
<1>5. Fail(b, t) \in BreakerRecord
  BY <1>3, <1>4 DEF Fail
<1>6. QED
  BY <1>1, <1>2, <1>5

LEMMA InitBreakerType == NewBreaker \in BreakerRecord
BY DEF NewBreaker, BreakerRecord, BreakerState
-----------------------------------------------------------------------------
(***************************************************************************)
(* The type invariant.                                                     *)
(***************************************************************************)
LEMMA TypeInit == Init => TypeOK
BY BreakerPolicy, CallsAssumption, InitBreakerType DEF Init, TypeOK

LEMMA TypeStep == TypeOK /\ [Next]_vars => TypeOK'
<1> SUFFICES ASSUME TypeOK, [Next]_vars PROVE TypeOK'
  OBVIOUS
<1> USE BreakerPolicy, CallsAssumption
<1>1. ASSUME NEW c \in Call, Admit(c) PROVE TypeOK'
  BY <1>1, BreakerTypes DEF TypeOK, Admit
<1>2. ASSUME NEW c \in Call, Succeeds(c) PROVE TypeOK'
  BY <1>2, BreakerTypes DEF TypeOK, Succeeds
<1>3. ASSUME NEW c \in Call, Fails(c) PROVE TypeOK'
  BY <1>3, BreakerTypes DEF TypeOK, Fails
<1>4. CASE Tick
  BY <1>4 DEF TypeOK, Tick
<1>5. CASE UNCHANGED vars
  BY <1>5 DEF TypeOK, vars
<1>6. QED
  BY <1>1, <1>2, <1>3, <1>4, <1>5 DEF Next, Finished

\* The fields of the breaker and of the bookkeeping keep their types.
THEOREM TypeCorrect == Spec => []TypeOK
BY TypeInit, TypeStep, PTL DEF Spec
-----------------------------------------------------------------------------
(***************************************************************************)
(* The inductive invariant.  In state "closed" the count of the breaker is *)
(* the history's streak; the probe flag and state "half_open" are the same *)
(* thing; no probe is younger than the opening that followed it.           *)
(***************************************************************************)
CountIsStreak ==
    /\ breaker.state = "closed" => /\ breaker.failures = streak
                                   /\ streak < Threshold
    /\ breaker.state # "closed" => streak = Threshold

ProbeHeld == /\ breaker.state = "half_open" <=> breaker.probe
             /\ breaker.state = "half_open" => owner \in inFlight

ProbeBeforeOpening ==
    /\ breaker.openedAt =< now
    /\ lastProbe =< now
    /\ lastProbe >= 0 => breaker.state # "closed"
    /\ lastProbe >= 0 /\ breaker.state = "open" => lastProbe =< breaker.openedAt

IInv == TypeOK /\ CountIsStreak /\ ProbeHeld /\ ProbeBeforeOpening

LEMMA IInvInit == Init => IInv
BY TypeInit, BreakerPolicy
   DEF Init, NewBreaker, IInv, CountIsStreak, ProbeHeld, ProbeBeforeOpening

LEMMA AdmitKeepsIInv ==
    ASSUME IInv, NEW c \in Call, Admit(c)
    PROVE  CountIsStreak' /\ ProbeHeld' /\ ProbeBeforeOpening'
BY BreakerPolicy, CallsAssumption
   DEF IInv, TypeOK, CountIsStreak, ProbeHeld, ProbeBeforeOpening,
       BreakerRecord, BreakerState, Admit, Allow, Allows, IsProbe

LEMMA SucceedsKeepsIInv ==
    ASSUME IInv, NEW c \in Call, Succeeds(c)
    PROVE  CountIsStreak' /\ ProbeHeld' /\ ProbeBeforeOpening'
BY BreakerPolicy
   DEF IInv, TypeOK, CountIsStreak, ProbeHeld, ProbeBeforeOpening,
       BreakerRecord, BreakerState, Succeeds, Succeed

LEMMA FailsKeepsIInv ==
    ASSUME IInv, NEW c \in Call, Fails(c)
    PROVE  CountIsStreak' /\ ProbeHeld' /\ ProbeBeforeOpening'
BY BreakerPolicy
   DEF IInv, TypeOK, CountIsStreak, ProbeHeld, ProbeBeforeOpening,
       BreakerRecord, BreakerState, Fails, Fail, Trip

LEMMA IInvStep == IInv /\ [Next]_vars => IInv'
<1> SUFFICES ASSUME IInv, [Next]_vars PROVE IInv'
  OBVIOUS
<1>1. TypeOK'
  BY TypeStep DEF IInv
<1>2. CountIsStreak' /\ ProbeHeld' /\ ProbeBeforeOpening'
  <2>1. CASE \E c \in Call : Admit(c) \/ Succeeds(c) \/ Fails(c)
    BY <2>1, AdmitKeepsIInv, SucceedsKeepsIInv, FailsKeepsIInv
  <2>2. CASE Tick
    BY <2>2 DEF Tick, IInv, TypeOK, CountIsStreak, ProbeHeld,
                ProbeBeforeOpening, BreakerRecord
  <2>3. CASE UNCHANGED vars
    BY <2>3 DEF vars, IInv, CountIsStreak, ProbeHeld, ProbeBeforeOpening
  <2>4. QED
    BY <2>1, <2>2, <2>3 DEF Next, Finished
<1>3. QED
  BY <1>1, <1>2 DEF IInv

LEMMA IInvHolds == Spec => []IInv
BY IInvInit, IInvStep, PTL DEF Spec

\* The breaker is closed exactly while fewer than Threshold failures have
\* been recorded since the last success, in whatever order overlapping calls
\* end.
THEOREM ClosedIffHealthyHolds == Spec => []ClosedIffHealthy
<1>1. IInv => ClosedIffHealthy
  BY DEF IInv, CountIsStreak, ClosedIffHealthy, TypeOK
<1>2. QED
  BY <1>1, IInvHolds, PTL

\* A half-open breaker always has its probe in flight, so its outcome is
\* still to be recorded.
THEOREM ProbeAccountedHolds == Spec => []ProbeAccounted
<1>1. IInv => ProbeAccounted
  BY DEF IInv, ProbeHeld, ProbeAccounted
<1>2. QED
  BY <1>1, IInvHolds, PTL

LEMMA SpacedStep ==
    ASSUME IInv, [Next]_vars, lastProbe' > lastProbe, lastProbe >= 0
    PROVE  lastProbe' >= lastProbe + Cooldown
<1>1. ASSUME NEW c \in Call, Admit(c) PROVE lastProbe' >= lastProbe + Cooldown
  BY <1>1, BreakerPolicy
     DEF IInv, TypeOK, ProbeHeld, ProbeBeforeOpening, BreakerRecord,
         BreakerState, Admit, Allows, IsProbe, Cooled
<1>2. ASSUME NEW c \in Call, Succeeds(c) \/ Fails(c) PROVE FALSE
  BY <1>2 DEF IInv, TypeOK, Succeeds, Fails
<1>3. CASE Tick \/ UNCHANGED vars
  BY <1>3 DEF IInv, TypeOK, Tick, vars
<1>4. QED
  BY <1>1, <1>2, <1>3 DEF Next, Finished

\* With no success between them, two probes are at least a cooldown apart.
THEOREM ProbesSpacedHolds == Spec => ProbesSpaced
<1>1. IInv /\ [Next]_vars
          => [lastProbe' > lastProbe /\ lastProbe >= 0
                 => lastProbe' >= lastProbe + Cooldown]_vars
  BY SpacedStep
<1>2. QED
  BY <1>1, IInvHolds, PTL DEF Spec, ProbesSpaced
-----------------------------------------------------------------------------
(***************************************************************************)
(* What runs beside a probe.  Every call in flight when the breaker opens  *)
(* was admitted before that, and none is admitted until the cooldown has   *)
(* passed: so what is left then is older than the probe by a cooldown.     *)
(***************************************************************************)
OlderThanOpening ==
    breaker.state = "open" => \A c \in inFlight : since[c] =< breaker.openedAt

ProbeInv == /\ IInv /\ OlderThanOpening /\ OnlyStragglersBeside
            /\ \A c \in inFlight : since[c] =< now

LEMMA ProbeInvInit == Init => ProbeInv
<1> SUFFICES ASSUME Init PROVE ProbeInv
  OBVIOUS
<1>1. IInv
  BY IInvInit
<1>2. OlderThanOpening /\ OnlyStragglersBeside /\ inFlight = {}
  BY DEF Init, NewBreaker, OlderThanOpening, OnlyStragglersBeside
<1>3. QED
  BY <1>1, <1>2 DEF ProbeInv

LEMMA ProbeInvStep == ProbeInv /\ [Next]_vars => ProbeInv'
<1> SUFFICES ASSUME ProbeInv, [Next]_vars PROVE ProbeInv'
  OBVIOUS
<1> USE BreakerPolicy, CallsAssumption
<1> DEFINE Goal == /\ OlderThanOpening' /\ OnlyStragglersBeside'
                   /\ \A c \in inFlight' : since'[c] =< now'
<1>1. IInv'
  BY IInvStep DEF ProbeInv
<1>2. ASSUME NEW c \in Call, Admit(c) PROVE Goal
  <2>1. CASE breaker.state = "closed"
    BY <1>2, <2>1 DEF ProbeInv, IInv, TypeOK, OlderThanOpening,
         OnlyStragglersBeside, BreakerRecord, Admit, Allow
  <2>2. CASE breaker.state = "open"
    <3>1. breaker.openedAt + Cooldown =< now
      BY <1>2, <2>2 DEF Admit, Allows, Cooled, ProbeInv, IInv, TypeOK, BreakerRecord
    <3>2. \A k \in inFlight : since[k] + Cooldown =< now
      BY <2>2, <3>1 DEF ProbeInv, IInv, TypeOK, BreakerRecord, OlderThanOpening
    <3>3. owner' = c /\ since'[c] = now /\ now' = now
      BY <1>2, <2>2 DEF Admit, IsProbe, ProbeInv, IInv, TypeOK
    <3>4. OnlyStragglersBeside'
      BY <1>2, <3>2, <3>3 DEF Admit, OnlyStragglersBeside, ProbeInv, IInv, TypeOK
    <3>5. breaker'.state = "half_open"
      BY <1>2, <2>2 DEF Admit, Allow, ProbeInv, IInv, TypeOK, BreakerRecord
    <3>6. QED
      BY <1>2, <3>3, <3>4, <3>5 DEF Admit, OlderThanOpening, ProbeInv, IInv, TypeOK
  <2>3. CASE breaker.state = "half_open"
    BY <1>2, <2>3 DEF ProbeInv, IInv, ProbeHeld, Admit, Allows
  <2>4. QED
    BY <2>1, <2>2, <2>3 DEF ProbeInv, IInv, TypeOK, BreakerRecord, BreakerState
<1>3. ASSUME NEW c \in Call, Succeeds(c) PROVE Goal
  BY <1>3 DEF ProbeInv, IInv, TypeOK, BreakerRecord, OlderThanOpening,
       OnlyStragglersBeside, Succeeds, Succeed
<1>4. ASSUME NEW c \in Call, Fails(c) PROVE Goal
  BY <1>4 DEF ProbeInv, IInv, TypeOK, BreakerRecord, ProbeHeld, OlderThanOpening,
       OnlyStragglersBeside, Fails, Fail, Trip
<1>5. ASSUME Tick PROVE Goal
  BY <1>5 DEF ProbeInv, IInv, TypeOK, OlderThanOpening, OnlyStragglersBeside, Tick
<1>6. ASSUME UNCHANGED vars PROVE Goal
  BY <1>6 DEF ProbeInv, OlderThanOpening, OnlyStragglersBeside, vars
<1>7. QED
  BY <1>1, <1>2, <1>3, <1>4, <1>5, <1>6 DEF ProbeInv, Next, Finished

LEMMA ProbeInvHolds == Spec => []ProbeInv
BY ProbeInvInit, ProbeInvStep, PTL DEF Spec

\* Under every policy, all that runs beside a probe was admitted a cooldown or
\* more before it.
THEOREM OnlyStragglersBesideHolds == Spec => []OnlyStragglersBeside
<1>1. ProbeInv => OnlyStragglersBeside
  BY DEF ProbeInv
<1>2. QED
  BY <1>1, ProbeInvHolds, PTL

LEMMA DecidesStep ==
    ASSUME ProbeInv, [Next]_vars, breaker.state = "half_open",
           breaker'.state # "half_open"
    PROVE  ProbeOrStragglerEnds
<1>1. ASSUME NEW c \in Call, Admit(c) PROVE FALSE
  BY <1>1 DEF ProbeInv, IInv, ProbeHeld, Admit, Allows
<1>2. ASSUME NEW c \in Call, Succeeds(c) \/ Fails(c)
      PROVE  c \in inFlight \ inFlight'
  BY <1>2 DEF Succeeds, Fails
<1>3. CASE Tick \/ UNCHANGED vars
  BY <1>3 DEF Tick, vars
<1>4. QED
  BY <1>1, <1>2, <1>3 DEF Next, Finished, ProbeInv, OnlyStragglersBeside,
     ProbeOrStragglerEnds

\* Under every policy, half_open ends with the outcome of the probe or of a
\* call that is older than the probe by a cooldown or more.
THEOREM ProbeOrStragglerDecidesHolds == Spec => ProbeOrStragglerDecides
<1>1. ProbeInv /\ [Next]_vars
          => [breaker.state = "half_open" /\ breaker'.state # "half_open"
                 => ProbeOrStragglerEnds]_vars
  BY DecidesStep
<1>2. QED
  BY <1>1, ProbeInvHolds, PTL DEF Spec, ProbeOrStragglerDecides
-----------------------------------------------------------------------------
(***************************************************************************)
(* What that comes to when calls are given up sooner than a cooldown lasts *)
(* (which the shipped policy does not ensure): no straggler is left.       *)
(***************************************************************************)
WithinDeadline == \A c \in inFlight : now =< since[c] + Timeout

LEMMA WithinDeadlineHolds == Spec => []WithinDeadline
<1>1. Init => WithinDeadline
  BY DEF Init, WithinDeadline
<1>2. TypeOK /\ WithinDeadline /\ [Next]_vars => WithinDeadline'
  BY CallsAssumption
     DEF TypeOK, WithinDeadline, Next, Admit, Succeeds, Fails, Tick, Finished, vars
<1>3. QED
  BY <1>1, <1>2, TypeCorrect, PTL DEF Spec

LEMMA NoStragglers ==
    ASSUME Timeout < Cooldown, ProbeInv, WithinDeadline
    PROVE  ProbeAlone
BY BreakerPolicy, CallsAssumption
   DEF ProbeInv, IInv, TypeOK, ProbeHeld, OnlyStragglersBeside, WithinDeadline,
       ProbeAlone

\* With a timeout below the cooldown, a probe runs alone.
LEMMA ProbeAloneWhenShort ==
    ASSUME Timeout < Cooldown
    PROVE  Spec => []ProbeAlone
<1>1. ProbeInv /\ WithinDeadline => ProbeAlone
  BY NoStragglers
<1>2. QED
  BY <1>1, ProbeInvHolds, WithinDeadlineHolds, PTL

\* With a timeout below the cooldown, only the probe decides.
LEMMA ProbeDecidesWhenShort ==
    ASSUME Timeout < Cooldown
    PROVE  Spec => ProbeDecides
<1>1. ProbeInv /\ WithinDeadline /\ [Next]_vars
          => [breaker.state = "half_open" /\ breaker'.state # "half_open"
                 => owner \in inFlight /\ owner \notin inFlight']_vars
  <2> SUFFICES ASSUME ProbeInv, WithinDeadline, [Next]_vars,
                      breaker.state = "half_open", breaker'.state # "half_open"
               PROVE  owner \in inFlight /\ owner \notin inFlight'
    OBVIOUS
  <2>1. inFlight = {owner}
    BY NoStragglers DEF ProbeAlone
  <2>2. QED
    BY <2>1, DecidesStep DEF ProbeOrStragglerEnds
<1>2. QED
  BY <1>1, ProbeInvHolds, WithinDeadlineHolds, PTL DEF Spec, ProbeDecides
=============================================================================
