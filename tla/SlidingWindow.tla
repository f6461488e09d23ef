--------------------------- MODULE SlidingWindow ---------------------------
(***************************************************************************)
(* The hits of one key of the sliding-window limiter, as a value:          *)
(* app/firewall/rate_limiter.py.  A deque of clock readings is a sequence  *)
(* of times, oldest first.                                                 *)
(***************************************************************************)
EXTENDS Integers, Sequences

CONSTANTS
    MaxRequests,    \* max_requests: admissions per window
    Window          \* window_seconds, in clock ticks

\* The constructor refuses any other policy (rate_limiter.py:39-40).
ASSUME WindowPolicy == /\ MaxRequests \in Nat \ {0}
                       /\ Window \in Nat \ {0}

Cutoff(t) == t - Window

\* Mistake: a hit is dropped only when it is older than the window.
ExpiredLate(s, cutoff) ==
    CHOOSE n \in 0..Len(s) : /\ \A j \in 1..n : s[j] < cutoff
                             /\ n < Len(s) => s[n + 1] >= cutoff

\* How many hits the loop "while hits and hits[0] <= cutoff" takes from the
\* front: it stops at the first one inside the window.
Expired(s, cutoff) ==
    CHOOSE n \in 0..Len(s) : /\ \A j \in 1..n : s[j] =< cutoff
                             /\ n < Len(s) => s[n + 1] > cutoff

Live(s, t) == SubSeq(s, Expired(s, Cutoff(t)) + 1, Len(s))

\* Mistake: one request too many.
HasRoomForOneMore(live) == Len(live) =< MaxRequests

\* The test of check() on the hits that are still in the window.
HasRoom(live) == Len(live) < MaxRequests

\* Mistake: the wait until the newest hit leaves the window.
WaitForNewest(live, t) == live[Len(live)] + Window - t

\* The wait a refusal announces: until the oldest hit leaves the window.
Wait(live, t) == live[1] + Window - t

\* Mistake: the rejected request is counted too.
AfterCountingAll(live, t) == Append(live, t)

\* The hits check() leaves behind: a refused request is not recorded.
After(live, t) == IF HasRoom(live) THEN Append(live, t) ELSE live

\* Mistake: the oldest hit decides.
StaleByOldest(s, cutoff) == s = <<>> \/ s[1] =< cutoff

\* What _sweep() deletes: keys whose newest hit has left the window.
Stale(s, cutoff) == s = <<>> \/ s[Len(s)] =< cutoff
=============================================================================
