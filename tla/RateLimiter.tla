---------------------------- MODULE RateLimiter ----------------------------
(***************************************************************************)
(* The whole sliding-window limiter: app/firewall/rate_limiter.py.  The    *)
(* dictionary _hits is the set tracked of its keys and the function hits.  *)
(* check() holds the lock throughout, so it is one action; any caller may  *)
(* be the next to take the lock.                                           *)
(***************************************************************************)
EXTENDS SlidingWindow, FiniteSets

CONSTANTS
    Key,                \* user ids, or client addresses at login
    SweepThreshold,     \* _SWEEP_THRESHOLD: keys before stale ones are swept
    MaxTime             \* bound of the model: the clock stops here

ASSUME LimiterAssumption == SweepThreshold \in Nat /\ MaxTime \in Nat

VARIABLES
    now,        \* the monotonic clock
    tracked,    \* the keys of _hits
    hits,       \* _hits[k] for a tracked key, << >> for any other
    \* The remaining variables are history: no action reads them.
    admitted,   \* every admission of each key, never forgotten
    answer,     \* the last answer of check()
    promise     \* when the last refusal of a key said there would be room
                \* again; -1 if the key was admitted since

vars == <<now, tracked, hits, admitted, answer, promise>>

Init == /\ now = 0
        /\ tracked = {}
        /\ hits = [k \in Key |-> <<>>]
        /\ admitted = [k \in Key |-> <<>>]
        /\ answer = [kind |-> "none"]
        /\ promise = [k \in Key |-> -1]
-----------------------------------------------------------------------------
\* Mistake: the sweep never runs.
NeverSwept == {}

\* The keys _sweep() deletes, once there are too many keys.
Swept == IF Cardinality(tracked) > SweepThreshold
         THEN {k \in tracked : Stale(hits[k], Cutoff(now))}
         ELSE {}

HitsSwept == [k \in Key |-> IF k \in Swept THEN <<>> ELSE hits[k]]

\* The hits of the calling key after its expired ones are dropped.
LiveHits(k) == Live(HitsSwept[k], now)

\* The part both answers share: sweep, track the key, keep its live hits and
\* append this one if there is room.
Recorded(k) == /\ tracked' = (tracked \ Swept) \cup {k}
               /\ hits' = [HitsSwept EXCEPT ![k] = After(LiveHits(k), now)]
               /\ UNCHANGED now

\* check() answers RateLimitResult(True).
Allowed(k) == /\ HasRoom(LiveHits(k))
              /\ Recorded(k)
              /\ admitted' = [admitted EXCEPT ![k] = Append(@, now)]
              /\ answer' = [kind |-> "allowed", key |-> k, at |-> now]
              /\ promise' = [promise EXCEPT ![k] = -1]

\* check() answers RateLimitResult(False, retry_after).
Refused(k) == LET wait == Wait(LiveHits(k), now) IN
              /\ ~HasRoom(LiveHits(k))
              /\ Recorded(k)
              /\ answer' = [kind |-> "refused", key |-> k, at |-> now,
                            wait |-> wait]
              /\ promise' = [promise EXCEPT ![k] = now + wait]
              /\ UNCHANGED admitted

Tick == /\ now < MaxTime
        /\ now' = now + 1
        /\ UNCHANGED <<tracked, hits, admitted, answer, promise>>

Next == (\E k \in Key : Allowed(k) \/ Refused(k)) \/ Tick

Spec == Init /\ [][Next]_vars
-----------------------------------------------------------------------------
Answer == [kind : {"none"}]
            \cup [kind : {"allowed"}, key : Key, at : Nat]
            \cup [kind : {"refused"}, key : Key, at : Nat, wait : Nat \ {0}]

Time == 0..MaxTime

TypeOK == /\ now \in Time
          /\ tracked \in SUBSET Key
          /\ hits \in [Key -> Seq(Time)]
          /\ admitted \in [Key -> Seq(Time)]
          /\ answer \in Answer
          /\ promise \in [Key -> Int]

\* "At most max_requests per window_seconds per key" (rate_limiter.py:24), at
\* the exact edge of the window and whatever the sweep deleted in between:
\* the admission MaxRequests places later comes at least a window later.
QuotaPerWindow ==
    \A k \in Key : \A i \in DOMAIN admitted[k] :
        i + MaxRequests \in DOMAIN admitted[k]
            => admitted[k][i + MaxRequests] >= admitted[k][i] + Window

\* "an attacker who keeps hammering does not extend their own lockout"
\* (rate_limiter.py:26-27): a key that was refused has room from the announced
\* instant on, and not before, no matter how often it asks in between.
PromiseKept ==
    \A k \in Key : promise[k] # -1 =>
        (HasRoom(LiveHits(k)) <=> now >= promise[k])

\* The dictionary stays small: when it holds more than one key above the
\* threshold, every key but the one just checked still had a hit in the
\* window at that check.
OnlyLiveKeysAboveThreshold ==
    Cardinality(tracked) > SweepThreshold + 1 =>
        \A k \in tracked \ {answer.key} :
            /\ hits[k] # <<>>
            /\ hits[k][Len(hits[k])] > Cutoff(answer.at)

Quota == INSTANCE WindowQuota

\* The limiter with its popped deques and swept keys gives exactly the answers
\* of one that remembers every admission for ever.
ImplementsQuota == Quota!QuotaSpec
=============================================================================
