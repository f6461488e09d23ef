---------------------------- MODULE WindowQuota ----------------------------
(***************************************************************************)
(* What a sliding-window limiter promises, with no trace of how it is      *)
(* done: the limiter remembers every admission for ever, admits a request  *)
(* if and only if fewer than MaxRequests of its key's admissions lie in    *)
(* the window that ends now, and tells a refused client the shortest wait  *)
(* after which the key has room again.  (The class comment,                *)
(* rate_limiter.py:24-28.)                                                 *)
(***************************************************************************)
EXTENDS Integers, Sequences, FiniteSets

CONSTANTS Key, MaxRequests, Window

VARIABLES
    now,
    admitted,   \* for each key, the times of its admissions, oldest first
    answer      \* the last answer given

quotaVars == <<now, admitted, answer>>

\* The admissions of log that lie in the window (t - Window, t].
InWindow(log, t) == {i \in DOMAIN log : log[i] > t - Window}

Room(log, t) == Cardinality(InWindow(log, t)) < MaxRequests

QuotaInit == /\ now = 0
             /\ admitted = [k \in Key |-> <<>>]
             /\ answer = [kind |-> "none"]

Admits(k) ==
    /\ Room(admitted[k], now)
    /\ admitted' = [admitted EXCEPT ![k] = Append(@, now)]
    /\ answer' = [kind |-> "allowed", key |-> k, at |-> now]
    /\ UNCHANGED now

\* The key has room after waiting, and not a tick earlier.
Refuses(k) ==
    \E wait \in 1..Window :
        /\ Room(admitted[k], now + wait)
        /\ \A d \in 0..wait - 1 : ~Room(admitted[k], now + d)
        /\ answer' = [kind |-> "refused", key |-> k, at |-> now, wait |-> wait]
        /\ UNCHANGED <<now, admitted>>

Passes == now' = now + 1 /\ UNCHANGED <<admitted, answer>>

QuotaNext == (\E k \in Key : Admits(k) \/ Refuses(k)) \/ Passes

QuotaSpec == QuotaInit /\ [][QuotaNext]_quotaVars
=============================================================================
