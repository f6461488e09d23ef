------------------------- MODULE RateLimiterProofs -------------------------
(***************************************************************************)
(* Proofs about RateLimiter, for every quota, window, set of keys and      *)
(* sweep threshold: the type invariant, the quota at the edge of the       *)
(* window, and that the limiter implements WindowQuota.                    *)
(***************************************************************************)
EXTENDS RateLimiter, SlidingWindowProofs, FiniteSetTheorems

LEMMA TimeIsNat == Time \subseteq Nat
BY LimiterAssumption DEF Time

LEMMA TimeSeq ==
    ASSUME NEW s \in Seq(Time)
    PROVE  /\ Len(s) \in Nat
           /\ DOMAIN s = 1..Len(s)
           /\ \A i \in 1..Len(s) : s[i] \in Time /\ s[i] \in Nat
BY NatSeq, TimeIsNat
-----------------------------------------------------------------------------
(***************************************************************************)
(* The inductive invariant.  The deque of a key is a suffix of its         *)
(* admissions, and everything it has forgotten is outside the window; that *)
(* is why deciding from the deque is deciding from the whole history.      *)
(***************************************************************************)
Remembers(h, log, t) ==
    /\ Len(h) =< Len(log)
    /\ \A i \in 1..Len(h) : h[i] = log[i + (Len(log) - Len(h))]
    /\ \A j \in 1..Len(log) - Len(h) : log[j] =< Cutoff(t)

Sorted(log, t) ==
    /\ \A i, j \in DOMAIN log : i =< j => log[i] =< log[j]
    /\ \A i \in DOMAIN log : log[i] =< t

\* Fewer than MaxRequests admissions are inside the window that ends at t.
Free(log, t) == \/ Len(log) < MaxRequests
                \/ log[Len(log) + 1 - MaxRequests] =< Cutoff(t)

History == \A k \in Key : /\ Sorted(admitted[k], now)
                          /\ Remembers(hits[k], admitted[k], now)
                          /\ Len(hits[k]) =< MaxRequests

PromiseIsOldest ==
    \A k \in Key : promise[k] # -1 =>
        LET n == Len(admitted[k]) IN
        /\ n >= MaxRequests
        /\ promise[k] = admitted[k][n + 1 - MaxRequests] + Window

IInv == TypeOK /\ History /\ QuotaPerWindow /\ PromiseIsOldest

LEMMA LiveRemembers ==
    ASSUME NEW s \in Seq(Time), NEW log \in Seq(Time),
           NEW t \in Time, Remembers(s, log, t)
    PROVE  /\ Live(s, t) \in Seq(Time)
           /\ Remembers(Live(s, t), log, t)
           /\ Len(Live(s, t)) =< Len(s)
           /\ Len(Live(s, t)) > 0 => Live(s, t)[1] > Cutoff(t)
<1>1. PICK n \in 0..Len(s) :
              /\ Live(s, t) \in Seq(Time)
              /\ Len(Live(s, t)) = Len(s) - n
              /\ \A i \in 1..Len(s) - n : Live(s, t)[i] = s[i + n]
              /\ \A j \in 1..n : s[j] =< Cutoff(t)
              /\ n < Len(s) => s[n + 1] > Cutoff(t)
  BY LiveIsSuffix, TimeIsNat
<1> DEFINE live == Live(s, t)
           gone == Len(log) - Len(s)
<1> HIDE DEF live
<1>2. gone \in Nat /\ Len(log) - Len(live) = gone + n /\ n \in Nat
  BY <1>1 DEF Remembers, live
<1>3. ASSUME NEW i \in 1..Len(live) PROVE live[i] = log[i + (Len(log) - Len(live))]
  <2>1. live[i] = s[i + n] /\ i + n \in 1..Len(s)
    BY <1>1 DEF live
  <2>2. s[i + n] = log[(i + n) + gone]
    BY <2>1 DEF Remembers
  <2>3. QED
    BY <1>2, <2>1, <2>2
<1>4. ASSUME NEW j \in 1..Len(log) - Len(live) PROVE log[j] =< Cutoff(t)
  <2>1. CASE j =< gone
    BY <2>1, <1>2 DEF Remembers
  <2>2. CASE j > gone
    <3>1. j - gone \in 1..n /\ n =< Len(s)
      BY <2>2, <1>2
    <3>2. s[j - gone] =< Cutoff(t)
      BY <3>1, <1>1
    <3>3. s[j - gone] = log[(j - gone) + gone]
      BY <3>1 DEF Remembers
    <3>4. QED
      BY <3>2, <3>3, <1>2
  <2>3. QED
    BY <2>1, <2>2, <1>2
<1>5. QED
  BY <1>1, <1>2, <1>3, <1>4 DEF Remembers, live
-----------------------------------------------------------------------------
(***************************************************************************)
(* The type invariant.                                                     *)
(***************************************************************************)
LEMMA SweptType == TypeOK => HitsSwept \in [Key -> Seq(Time)]
BY EmptySeq DEF TypeOK, HitsSwept

LEMMA LiveHitsType ==
    ASSUME TypeOK, NEW k \in Key
    PROVE  /\ LiveHits(k) \in Seq(Time)
           /\ Len(LiveHits(k)) > 0 => LiveHits(k)[1] > Cutoff(now)
<1>1. HitsSwept[k] \in Seq(Time)
  BY SweptType
<1>2. Remembers(HitsSwept[k], HitsSwept[k], now)
  BY <1>1 DEF Remembers
<1>3. QED
  BY <1>1, <1>2, LiveRemembers DEF LiveHits, TypeOK

LEMMA RecordedType ==
    ASSUME TypeOK, NEW k \in Key, Recorded(k)
    PROVE  /\ now' = now
           /\ tracked' \in SUBSET Key
           /\ hits' \in [Key -> Seq(Time)]
<1>1. After(LiveHits(k), now) \in Seq(Time)
  BY LiveHitsType DEF After, TypeOK
<1>2. QED
  BY <1>1, SweptType DEF Recorded, TypeOK

LEMMA WaitType ==
    ASSUME TypeOK, NEW k \in Key, ~HasRoom(LiveHits(k))
    PROVE  Wait(LiveHits(k), now) \in Nat \ {0}
<1>1. Len(LiveHits(k)) > 0
  BY LiveHitsType, WindowPolicy DEF HasRoom
<1>2. LiveHits(k)[1] \in Time /\ LiveHits(k)[1] > now - Window
  BY <1>1, LiveHitsType, TimeIsNat DEF Cutoff
<1>3. LiveHits(k)[1] \in Nat /\ now \in Nat
  BY <1>2, TimeIsNat DEF TypeOK
<1>4. QED
  BY <1>2, <1>3, WindowPolicy DEF Wait

LEMMA TypeInit == Init => TypeOK
BY LimiterAssumption, EmptySeq DEF Init, TypeOK, Answer, Time

LEMMA TypeStep == TypeOK /\ [Next]_vars => TypeOK'
<1> SUFFICES ASSUME TypeOK, [Next]_vars PROVE TypeOK'
  OBVIOUS
<1>1. now \in Nat
  BY TimeIsNat DEF TypeOK
<1>2. ASSUME NEW k \in Key, Allowed(k) PROVE TypeOK'
  <2>1. admitted' \in [Key -> Seq(Time)]
    BY <1>2 DEF Allowed, TypeOK
  <2>2. answer' \in Answer
    BY <1>1, <1>2 DEF Allowed, Answer
  <2>3. promise' \in [Key -> Int]
    BY <1>2 DEF Allowed, TypeOK
  <2>4. QED
    BY <1>2, <2>1, <2>2, <2>3, RecordedType DEF Allowed, TypeOK
<1>3. ASSUME NEW k \in Key, Refused(k) PROVE TypeOK'
  <2> DEFINE wait == Wait(LiveHits(k), now)
  <2>1. wait \in Nat \ {0}
    BY <1>3, WaitType DEF Refused
  <2> HIDE DEF wait
  <2>2. answer' \in Answer
    <3>1. answer' = [kind |-> "refused", key |-> k, at |-> now, wait |-> wait]
      BY <1>3 DEF Refused, wait
    <3>2. QED
      BY <1>1, <2>1, <3>1 DEF Answer
  <2>3. promise' \in [Key -> Int]
    <3>1. promise' = [promise EXCEPT ![k] = now + wait]
      BY <1>3 DEF Refused, wait
    <3>2. QED
      BY <1>1, <2>1, <3>1 DEF TypeOK
  <2>4. admitted' \in [Key -> Seq(Time)]
    BY <1>3 DEF Refused, TypeOK
  <2>5. QED
    BY <1>3, <2>2, <2>3, <2>4, RecordedType DEF Refused, TypeOK
<1>4. CASE Tick
  BY <1>4, LimiterAssumption DEF Tick, TypeOK, Time
<1>5. CASE UNCHANGED vars
  BY <1>5 DEF vars, TypeOK
<1>6. QED
  BY <1>2, <1>3, <1>4, <1>5 DEF Next

\* The dictionary and the history of the limiter keep their types; a refusal
\* never announces a wait of zero.
THEOREM TypeCorrect == Spec => []TypeOK
BY TypeInit, TypeStep, PTL DEF Spec
-----------------------------------------------------------------------------
(***************************************************************************)
(* Deciding from the deque is deciding from the history.                   *)
(***************************************************************************)
LEMMA SweepRemembers ==
    ASSUME TypeOK, History, NEW k \in Key
    PROVE  /\ HitsSwept[k] \in Seq(Time)
           /\ Remembers(HitsSwept[k], admitted[k], now)
           /\ Len(HitsSwept[k]) =< MaxRequests
<1> DEFINE log == admitted[k]
           n == Len(log)
<1>1. hits[k] \in Seq(Time) /\ log \in Seq(Time)
  BY DEF TypeOK
<1>2. /\ Sorted(log, now)
      /\ Remembers(hits[k], log, now)
      /\ Len(hits[k]) =< MaxRequests
  BY DEF History
<1>3. now \in Nat /\ Cutoff(now) \in Int
  BY WindowPolicy, TimeIsNat DEF TypeOK, Cutoff
<1>4. CASE k \notin Swept \/ hits[k] = <<>>
  <2>1. HitsSwept[k] = hits[k]
    BY <1>4 DEF HitsSwept
  <2>2. QED
    BY <1>1, <1>2, <2>1
<1>5. CASE k \in Swept /\ hits[k] # <<>>
  <2>1. HitsSwept[k] = <<>>
    BY <1>5 DEF HitsSwept
  <2>2. Len(hits[k]) >= 1 /\ hits[k][Len(hits[k])] =< Cutoff(now)
    BY <1>1, <1>5, TimeSeq, EmptySeq DEF Swept, Stale
  <2>3. log[n] =< Cutoff(now) /\ n >= 1
    <3>1. /\ Len(hits[k]) \in 1..Len(hits[k])
          /\ Len(hits[k]) + (n - Len(hits[k])) = n
          /\ n >= 1
      BY <1>1, <1>2, <2>2, TimeSeq DEF Remembers
    <3>2. hits[k][Len(hits[k])] = log[n]
      BY <1>2, <3>1 DEF Remembers
    <3>3. QED
      BY <2>2, <3>1, <3>2
  <2>4. ASSUME NEW j \in 1..n PROVE log[j] =< Cutoff(now)
    <3>1. log[j] =< log[n]
      BY <1>1, <1>2, <2>3, TimeSeq DEF Sorted
    <3>2. log[j] \in Nat /\ log[n] \in Nat
      BY <1>1, <2>3, TimeSeq
    <3>3. QED
      BY <1>3, <2>3, <3>1, <3>2
  <2>5. <<>> \in Seq(Time) /\ Len(<<>>) = 0
    BY EmptySeq
  <2>6. n \in Nat
    BY <1>1, TimeSeq
  <2>7. QED
    BY <2>1, <2>4, <2>5, <2>6, WindowPolicy DEF Remembers
<1>6. QED
  BY <1>4, <1>5

LEMMA LiveHitsRemember ==
    ASSUME TypeOK, History, NEW k \in Key
    PROVE  /\ Remembers(LiveHits(k), admitted[k], now)
           /\ Len(LiveHits(k)) =< MaxRequests
<1>1. admitted[k] \in Seq(Time) /\ now \in Time
  BY DEF TypeOK
<1>2. /\ HitsSwept[k] \in Seq(Time)
      /\ Remembers(HitsSwept[k], admitted[k], now)
      /\ Len(HitsSwept[k]) =< MaxRequests
  BY SweepRemembers
<1>3. /\ LiveHits(k) \in Seq(Time)
      /\ Remembers(LiveHits(k), admitted[k], now)
      /\ Len(LiveHits(k)) =< Len(HitsSwept[k])
  BY <1>1, <1>2, LiveRemembers DEF LiveHits
<1>4. QED
  BY <1>2, <1>3, TimeSeq, WindowPolicy

\* check() has room exactly if fewer than MaxRequests of all the key's
\* admissions are inside the window.
LEMMA HasRoomIffFree ==
    ASSUME TypeOK, History, NEW k \in Key
    PROVE  HasRoom(LiveHits(k)) <=> Free(admitted[k], now)
<1> DEFINE log == admitted[k]
           live == LiveHits(k)
<1>1. log \in Seq(Time) /\ live \in Seq(Time)
  BY LiveHitsType DEF TypeOK
<1>2. Len(log) \in Nat /\ Len(live) \in Nat
  BY <1>1, TimeSeq
<1>3. /\ Remembers(live, log, now)
      /\ Len(live) =< MaxRequests
      /\ Len(live) > 0 => live[1] > Cutoff(now)
  BY LiveHitsRemember, LiveHitsType
<1> HIDE DEF log, live
<1>4. ASSUME HasRoom(live) PROVE Free(log, now)
  <2>1. Len(live) < MaxRequests
    BY <1>4 DEF HasRoom
  <2>2. Len(log) >= MaxRequests
           => Len(log) + 1 - MaxRequests \in 1..Len(log) - Len(live)
    BY <1>2, <2>1, WindowPolicy
  <2>3. QED
    BY <1>2, <1>3, <2>2, WindowPolicy DEF Free, Remembers
<1>5. ASSUME ~HasRoom(live) PROVE ~Free(log, now)
  <2>1. Len(live) = MaxRequests /\ Len(live) > 0 /\ Len(log) >= MaxRequests
    BY <1>2, <1>3, <1>5, WindowPolicy DEF HasRoom, Remembers
  <2>2. live[1] = log[Len(log) + 1 - MaxRequests]
    <3>1. 1 \in 1..Len(live)
          /\ 1 + (Len(log) - Len(live)) = Len(log) + 1 - MaxRequests
      BY <1>2, <2>1
    <3>2. QED
      BY <1>3, <3>1 DEF Remembers
  <2>3. live[1] > Cutoff(now) /\ live[1] \in Nat
    BY <1>1, <1>3, <2>1, TimeSeq
  <2>4. Cutoff(now) \in Int
    BY WindowPolicy, TimeIsNat DEF TypeOK, Cutoff
  <2>5. QED
    BY <1>2, <2>1, <2>2, <2>3, <2>4, WindowPolicy DEF Free
<1>6. QED
  BY <1>4, <1>5 DEF log, live

\* What a refusal announces: the admission MaxRequests places back leaves the
\* window then.
LEMMA WaitIsOldest ==
    ASSUME TypeOK, History, NEW k \in Key, ~HasRoom(LiveHits(k))
    PROVE  LET n == Len(admitted[k]) IN
           /\ n >= MaxRequests
           /\ Wait(LiveHits(k), now) =
                 admitted[k][n + 1 - MaxRequests] + Window - now
<1>1. admitted[k] \in Seq(Time) /\ LiveHits(k) \in Seq(Time)
  BY LiveHitsType DEF TypeOK
<1>2. Len(admitted[k]) \in Nat /\ Len(LiveHits(k)) \in Nat
  BY <1>1, TimeSeq
<1>3. /\ Len(LiveHits(k)) = MaxRequests
      /\ Remembers(LiveHits(k), admitted[k], now)
  BY <1>2, LiveHitsRemember, WindowPolicy DEF HasRoom
<1>4. LiveHits(k)[1] = admitted[k][Len(admitted[k]) + 1 - MaxRequests]
  <2>1. 1 \in 1..Len(LiveHits(k))
        /\ 1 + (Len(admitted[k]) - Len(LiveHits(k)))
               = Len(admitted[k]) + 1 - MaxRequests
    BY <1>2, <1>3, WindowPolicy
  <2>2. QED
    BY <1>3, <2>1 DEF Remembers
<1>5. QED
  BY <1>2, <1>3, <1>4 DEF Remembers, Wait
-----------------------------------------------------------------------------
(***************************************************************************)
(* Every step keeps the inductive invariant.                               *)
(***************************************************************************)
LEMMA IInvInit == Init => IInv
<1> SUFFICES ASSUME Init PROVE IInv
  OBVIOUS
<1>1. TypeOK
  BY TypeInit
<1>2. /\ now = 0
      /\ \A k \in Key : hits[k] = <<>> /\ admitted[k] = <<>> /\ promise[k] = -1
  BY DEF Init
<1>3. Len(<<>>) = 0 /\ DOMAIN <<>> = {}
  OBVIOUS
<1>4. History
  <2>1. Sorted(<<>>, 0)
    BY <1>3 DEF Sorted
  <2>2. Remembers(<<>>, <<>>, 0)
    BY <1>3 DEF Remembers
  <2>3. QED
    BY <1>2, <1>3, <2>1, <2>2, WindowPolicy DEF History
<1>5. QuotaPerWindow /\ PromiseIsOldest
  BY <1>2, <1>3 DEF QuotaPerWindow, PromiseIsOldest
<1>6. QED
  BY <1>1, <1>4, <1>5 DEF IInv

\* The window slides: what was outside it stays outside.
LEMMA Slides ==
    ASSUME NEW h \in Seq(Time), NEW log \in Seq(Time), NEW t \in Nat,
           Remembers(h, log, t), Sorted(log, t)
    PROVE  Remembers(h, log, t + 1) /\ Sorted(log, t + 1)
<1>1. Len(log) \in Nat /\ Len(h) \in Nat /\ DOMAIN log = 1..Len(log)
  BY TimeSeq
<1>2. \A i \in 1..Len(log) : log[i] \in Nat
  BY TimeSeq
<1>3. \A j \in 1..Len(log) - Len(h) : log[j] =< Cutoff(t + 1)
  <2>1. \A j \in 1..Len(log) - Len(h) : log[j] =< Cutoff(t) /\ log[j] \in Nat
    BY <1>1, <1>2 DEF Remembers
  <2>2. QED
    BY <2>1, WindowPolicy DEF Cutoff
<1>4. QED
  BY <1>1, <1>2, <1>3 DEF Remembers, Sorted

\* An admission lengthens the deque and the history alike.
LEMMA Grows ==
    ASSUME NEW h \in Seq(Time), NEW log \in Seq(Time), NEW t \in Time,
           Remembers(h, log, t), Sorted(log, t)
    PROVE  Remembers(Append(h, t), Append(log, t), t) /\ Sorted(Append(log, t), t)
<1>1. Len(log) \in Nat /\ Len(h) \in Nat /\ t \in Nat /\ Len(h) =< Len(log)
  BY TimeSeq, TimeIsNat DEF Remembers
<1> DEFINE log2 == Append(log, t)
           h2 == Append(h, t)
           gone == Len(log) - Len(h)
<1>2. /\ Len(log2) = Len(log) + 1
      /\ Len(h2) = Len(h) + 1
      /\ DOMAIN log2 = 1..Len(log) + 1
      /\ \A i \in 1..Len(log) : log2[i] = log[i]
      /\ log2[Len(log) + 1] = t
      /\ \A i \in 1..Len(h) : h2[i] = h[i]
      /\ h2[Len(h) + 1] = t
  OBVIOUS
<1>3. /\ DOMAIN log = 1..Len(log)
      /\ \A i \in 1..Len(log) : log[i] \in Nat /\ log[i] =< t
  BY TimeSeq DEF Sorted
<1> HIDE DEF log2, h2
<1>4. ASSUME NEW i \in 1..Len(h2) PROVE h2[i] = log2[i + (Len(log2) - Len(h2))]
  <2>1. Len(log2) - Len(h2) = gone
    BY <1>1, <1>2
  <2>2. CASE i \in 1..Len(h)
    <3>1. i + gone \in 1..Len(log)
      BY <1>1, <2>2
    <3>2. h2[i] = h[i] /\ log2[i + gone] = log[i + gone]
      BY <1>2, <2>2, <3>1
    <3>3. h[i] = log[i + gone]
      BY <2>2 DEF Remembers
    <3>4. QED
      BY <2>1, <3>2, <3>3
  <2>3. CASE i = Len(h) + 1
    BY <1>1, <1>2, <2>1, <2>3
  <2>4. QED
    BY <1>1, <1>2, <2>2, <2>3
<1>5. ASSUME NEW j \in 1..Len(log2) - Len(h2) PROVE log2[j] =< Cutoff(t)
  <2>1. j \in 1..gone /\ j \in 1..Len(log)
    BY <1>1, <1>2
  <2>2. QED
    BY <1>2, <2>1 DEF Remembers
<1>6. Remembers(h2, log2, t)
  BY <1>1, <1>2, <1>4, <1>5 DEF Remembers
<1>7. Sorted(log2, t)
  <2>1. \A i, j \in 1..Len(log) : i =< j => log[i] =< log[j]
    BY <1>3 DEF Sorted
  <2>2. \A i \in 1..Len(log) + 1 : log2[i] \in Nat /\ log2[i] =< t
    BY <1>1, <1>2, <1>3
  <2>3. ASSUME NEW i \in 1..Len(log) + 1, NEW j \in 1..Len(log) + 1, i =< j
        PROVE  log2[i] =< log2[j]
    <3>1. CASE j = Len(log) + 1
      BY <1>2, <2>2, <3>1
    <3>2. CASE j \in 1..Len(log)
      BY <1>1, <1>2, <2>1, <2>3, <3>2
    <3>3. QED
      BY <1>1, <3>1, <3>2
  <2>4. QED
    BY <1>2, <2>2, <2>3 DEF Sorted
<1>8. QED
  BY <1>6, <1>7 DEF log2, h2

\* After an answer, the hits of every key still remember its admissions.
LEMMA AllowedKeepsHistory ==
    ASSUME TypeOK, History, NEW k \in Key, Allowed(k)
    PROVE  History'
<1>1. ASSUME NEW j \in Key
      PROVE  /\ Sorted(admitted[j], now)'
             /\ Remembers(hits[j], admitted[j], now)'
             /\ (Len(hits[j]) =< MaxRequests)'
  <2>1. now' = now /\ now \in Time
    BY DEF Allowed, Recorded, TypeOK
  <2>2. CASE j = k
    <3>1. /\ admitted'[k] = Append(admitted[k], now)
          /\ hits'[k] = Append(LiveHits(k), now)
      BY SweptType DEF Allowed, Recorded, After, TypeOK
    <3>2. /\ LiveHits(k) \in Seq(Time)
          /\ admitted[k] \in Seq(Time)
          /\ Remembers(LiveHits(k), admitted[k], now)
          /\ Sorted(admitted[k], now)
      BY LiveHitsType, LiveHitsRemember DEF TypeOK, History
    <3>3. Len(Append(LiveHits(k), now)) = Len(LiveHits(k)) + 1
      BY <3>2
    <3>4. Len(LiveHits(k)) < MaxRequests /\ Len(LiveHits(k)) \in Nat
      BY <3>2, TimeSeq DEF Allowed, HasRoom
    <3>5. /\ Remembers(Append(LiveHits(k), now), Append(admitted[k], now), now)
          /\ Sorted(Append(admitted[k], now), now)
      BY <2>1, <3>2, Grows
    <3>6. QED
      BY <2>1, <2>2, <3>1, <3>3, <3>4, <3>5, WindowPolicy
  <2>3. CASE j # k
    <3>1. admitted'[j] = admitted[j] /\ hits'[j] = HitsSwept[j]
      BY <2>3, SweptType DEF Allowed, Recorded, TypeOK
    <3>2. QED
      BY <2>1, <3>1, SweepRemembers DEF History
  <2>4. QED
    BY <2>2, <2>3
<1>2. QED
  BY <1>1 DEF History

LEMMA RefusedKeepsHistory ==
    ASSUME TypeOK, History, NEW k \in Key, Refused(k)
    PROVE  History'
<1>1. ASSUME NEW j \in Key
      PROVE  /\ Sorted(admitted[j], now)'
             /\ Remembers(hits[j], admitted[j], now)'
             /\ (Len(hits[j]) =< MaxRequests)'
  <2>1. now' = now /\ admitted'[j] = admitted[j]
    BY DEF Refused, Recorded
  <2>2. CASE j = k
    <3>1. hits'[k] = LiveHits(k)
      BY SweptType DEF Refused, Recorded, After
    <3>2. QED
      BY <2>1, <2>2, <3>1, LiveHitsRemember DEF History
  <2>3. CASE j # k
    <3>1. hits'[j] = HitsSwept[j]
      BY <2>3, SweptType DEF Refused, Recorded
    <3>2. QED
      BY <2>1, <3>1, SweepRemembers DEF History
  <2>4. QED
    BY <2>2, <2>3
<1>2. QED
  BY <1>1 DEF History

LEMMA AllowedKeepsQuota ==
    ASSUME IInv, NEW k \in Key, Allowed(k)
    PROVE  QuotaPerWindow' /\ PromiseIsOldest'
<1> DEFINE log == admitted[k]
           log2 == Append(log, now)
<1>1. log \in Seq(Time) /\ now \in Nat /\ Len(log) \in Nat
  BY TimeSeq, TimeIsNat DEF IInv, TypeOK
<1>2. admitted' = [admitted EXCEPT ![k] = log2] /\ admitted'[k] = log2
  BY DEF Allowed, IInv, TypeOK
<1>3. /\ DOMAIN log2 = 1..Len(log) + 1
      /\ \A i \in 1..Len(log) : log2[i] = log[i] /\ log[i] \in Nat
      /\ log2[Len(log) + 1] = now
      /\ DOMAIN log = 1..Len(log)
  BY <1>1, TimeSeq
<1>4. Free(log, now)
  BY HasRoomIffFree DEF Allowed, IInv
<1> HIDE DEF log, log2
<1>5. ASSUME NEW i \in 1..Len(log) + 1, i + MaxRequests \in 1..Len(log) + 1
      PROVE  log2[i + MaxRequests] >= log2[i] + Window
  <2>1. CASE i + MaxRequests \in 1..Len(log)
    <3>1. i \in 1..Len(log)
      BY <1>1, <2>1, WindowPolicy
    <3>2. log[i + MaxRequests] >= log[i] + Window
      BY <1>3, <2>1, <3>1 DEF IInv, QuotaPerWindow, log
    <3>3. QED
      BY <1>3, <2>1, <3>1, <3>2
  <2>2. CASE i + MaxRequests = Len(log) + 1
    <3>1. /\ i = Len(log) + 1 - MaxRequests
          /\ i \in 1..Len(log)
          /\ ~(Len(log) < MaxRequests)
      BY <1>1, <2>2, WindowPolicy
    <3>2. log[i] =< now - Window
      BY <1>4, <3>1 DEF Free, Cutoff
    <3>3. QED
      BY <1>1, <1>3, <2>2, <3>1, <3>2, WindowPolicy
  <2>3. QED
    BY <1>1, <1>5, <2>1, <2>2, WindowPolicy
<1>6. QuotaPerWindow'
  <2>1. ASSUME NEW j \in Key, NEW i \in DOMAIN admitted'[j],
               i + MaxRequests \in DOMAIN admitted'[j]
        PROVE  admitted'[j][i + MaxRequests] >= admitted'[j][i] + Window
    <3>1. CASE j = k
      BY <1>2, <1>3, <1>5, <2>1, <3>1
    <3>2. CASE j # k
      BY <1>2, <2>1, <3>2 DEF IInv, TypeOK, QuotaPerWindow
    <3>3. QED
      BY <3>1, <3>2
  <2>2. QED
    BY <2>1 DEF QuotaPerWindow
<1>7. PromiseIsOldest'
  BY <1>2 DEF Allowed, IInv, TypeOK, PromiseIsOldest
<1>8. QED
  BY <1>6, <1>7

LEMMA RefusedKeepsPromise ==
    ASSUME IInv, NEW k \in Key, Refused(k)
    PROVE  PromiseIsOldest'
<1> DEFINE n == Len(admitted[k])
<1>1. /\ n >= MaxRequests
      /\ Wait(LiveHits(k), now) = admitted[k][n + 1 - MaxRequests] + Window - now
  BY WaitIsOldest DEF Refused, IInv
<1>2. admitted[k] \in Seq(Time) /\ n \in Nat /\ now \in Nat
  BY TimeSeq, TimeIsNat DEF IInv, TypeOK
<1>3. admitted[k][n + 1 - MaxRequests] \in Nat
  BY <1>1, <1>2, TimeSeq, WindowPolicy
<1>4. promise'[k] = admitted[k][n + 1 - MaxRequests] + Window
  BY <1>1, <1>2, <1>3, WindowPolicy DEF Refused, IInv, TypeOK
<1>5. \A j \in Key : j # k => promise'[j] = promise[j]
  BY DEF Refused, IInv, TypeOK
<1>6. admitted' = admitted
  BY DEF Refused
<1>7. QED
  BY <1>1, <1>4, <1>5, <1>6 DEF IInv, PromiseIsOldest

LEMMA IInvStep == IInv /\ [Next]_vars => IInv'
<1> SUFFICES ASSUME IInv, [Next]_vars PROVE IInv'
  OBVIOUS
<1>1. TypeOK'
  BY TypeStep DEF IInv
<1>2. ASSUME NEW k \in Key, Allowed(k)
      PROVE  History' /\ QuotaPerWindow' /\ PromiseIsOldest'
  BY <1>2, AllowedKeepsHistory, AllowedKeepsQuota DEF IInv
<1>3. ASSUME NEW k \in Key, Refused(k)
      PROVE  History' /\ QuotaPerWindow' /\ PromiseIsOldest'
  <2>1. History' /\ PromiseIsOldest'
    BY <1>3, RefusedKeepsHistory, RefusedKeepsPromise DEF IInv
  <2>2. QuotaPerWindow'
    BY <1>3 DEF Refused, IInv, QuotaPerWindow
  <2>3. QED
    BY <2>1, <2>2
<1>4. ASSUME Tick PROVE History' /\ QuotaPerWindow' /\ PromiseIsOldest'
  <2>1. /\ now' = now + 1
        /\ UNCHANGED <<hits, admitted, promise>>
    BY <1>4 DEF Tick
  <2>2. ASSUME NEW k \in Key
        PROVE  /\ Remembers(hits[k], admitted[k], now + 1)
               /\ Sorted(admitted[k], now + 1)
    BY Slides, TimeIsNat DEF IInv, TypeOK, History
  <2>3. History'
    BY <2>1, <2>2 DEF IInv, History
  <2>4. QuotaPerWindow' /\ PromiseIsOldest'
    BY <2>1 DEF IInv, QuotaPerWindow, PromiseIsOldest
  <2>5. QED
    BY <2>3, <2>4
<1>5. ASSUME UNCHANGED vars PROVE History' /\ QuotaPerWindow' /\ PromiseIsOldest'
  BY <1>5 DEF vars, IInv, History, QuotaPerWindow, PromiseIsOldest
<1>6. QED
  BY <1>1, <1>2, <1>3, <1>4, <1>5 DEF Next, IInv

LEMMA IInvHolds == Spec => []IInv
BY IInvInit, IInvStep, PTL DEF Spec

\* No half-open window of length Window ever holds more than MaxRequests
\* admissions of one key, whatever was popped or swept.
THEOREM QuotaHolds == Spec => []QuotaPerWindow
<1>1. IInv => QuotaPerWindow
  BY DEF IInv
<1>2. QED
  BY <1>1, IInvHolds, PTL

\* A refused key has room exactly from the announced instant on.
THEOREM PromiseHolds == Spec => []PromiseKept
<1>1. IInv => PromiseKept
  <2> SUFFICES ASSUME IInv, NEW k \in Key, promise[k] # -1
               PROVE  HasRoom(LiveHits(k)) <=> now >= promise[k]
    BY DEF PromiseKept
  <2> DEFINE n == Len(admitted[k])
             oldest == admitted[k][n + 1 - MaxRequests]
  <2>1. n >= MaxRequests /\ promise[k] = oldest + Window
    BY DEF IInv, PromiseIsOldest
  <2>2. admitted[k] \in Seq(Time) /\ now \in Nat /\ n \in Nat
    BY TimeSeq, TimeIsNat DEF IInv, TypeOK
  <2>3. oldest \in Nat
    BY <2>1, <2>2, TimeSeq, WindowPolicy
  <2>4. HasRoom(LiveHits(k)) <=> Free(admitted[k], now)
    BY HasRoomIffFree DEF IInv
  <2>5. Free(admitted[k], now) <=> oldest =< now - Window
    BY <2>1, <2>2, WindowPolicy DEF Free, Cutoff
  <2>6. QED
    BY <2>1, <2>2, <2>3, <2>4, <2>5, WindowPolicy
<1>2. QED
  BY <1>1, IInvHolds, PTL
-----------------------------------------------------------------------------
(***************************************************************************)
(* What the sweep leaves in the dictionary.                                *)
(***************************************************************************)

\* check() adds at most one key, so it ends above the threshold only if it
\* began there: then the sweep ran, and what it left is live.
LEMMA RecordedSweeps ==
    ASSUME TypeOK, IsFiniteSet(tracked), NEW k \in Key, Recorded(k),
           answer'.key = k, answer'.at = now
    PROVE  IsFiniteSet(tracked') /\ OnlyLiveKeysAboveThreshold'
<1>1. tracked' = (tracked \ Swept) \cup {k}
  BY DEF Recorded
<1>2. IsFiniteSet(tracked \ Swept) /\ Cardinality(tracked \ Swept) =< Cardinality(tracked)
  BY FS_Subset
<1>3. /\ IsFiniteSet(tracked')
      /\ Cardinality(tracked') =< Cardinality(tracked \ Swept) + 1
  <2>1. Cardinality(tracked \ Swept) \in Nat
    BY <1>2, FS_CardinalityType
  <2>2. QED
    BY <1>1, <1>2, <2>1, FS_AddElement
<1>4. ASSUME Cardinality(tracked') > SweepThreshold + 1, NEW j \in tracked' \ {k}
      PROVE  hits'[j] # <<>> /\ hits'[j][Len(hits'[j])] > Cutoff(now)
  <2>1. Cardinality(tracked) > SweepThreshold
    <3>1. /\ Cardinality(tracked) \in Nat /\ Cardinality(tracked') \in Nat
          /\ Cardinality(tracked \ Swept) \in Nat
      BY <1>2, <1>3, FS_CardinalityType
    <3>2. QED
      BY <1>2, <1>3, <1>4, <3>1, LimiterAssumption
  <2>2. j \in tracked /\ j \in Key /\ j \notin Swept /\ j # k
    BY <1>1, <1>4 DEF TypeOK
  <2>3. ~Stale(hits[j], Cutoff(now))
    BY <2>1, <2>2 DEF Swept
  <2>4. hits'[j] = hits[j]
    BY <2>2, SweptType DEF Recorded, HitsSwept
  <2>5. hits[j] \in Seq(Time) /\ now \in Nat
    BY <2>2, TimeIsNat DEF TypeOK
  <2>6. hits[j] # <<>> /\ ~(hits[j][Len(hits[j])] =< Cutoff(now))
    BY <2>3 DEF Stale
  <2>7. Len(hits[j]) \in 1..Len(hits[j])
    BY <2>5, <2>6, EmptySeq, TimeSeq
  <2>8. hits[j][Len(hits[j])] \in Nat /\ Cutoff(now) \in Int
    BY <2>5, <2>7, TimeSeq, WindowPolicy DEF Cutoff
  <2>9. QED
    BY <2>4, <2>6, <2>8
<1>5. QED
  BY <1>3, <1>4 DEF OnlyLiveKeysAboveThreshold

\* The dictionary holds more than one key above the threshold only while every
\* key but the one just checked had a hit inside the window at that check:
\* clients that stay away cannot make it grow.
THEOREM OnlyLiveKeysHolds == Spec => []OnlyLiveKeysAboveThreshold
<1> DEFINE Inv == IsFiniteSet(tracked) /\ OnlyLiveKeysAboveThreshold
<1>1. Init => Inv
  BY FS_EmptySet, LimiterAssumption DEF Init, OnlyLiveKeysAboveThreshold
<1>2. TypeOK /\ Inv /\ [Next]_vars => Inv'
  <2> SUFFICES ASSUME TypeOK, Inv, [Next]_vars PROVE Inv'
    OBVIOUS
  <2>1. ASSUME NEW k \in Key, Allowed(k) \/ Refused(k)
        PROVE  Inv'
    <3>1. Recorded(k) /\ answer'.key = k /\ answer'.at = now
      BY <2>1 DEF Allowed, Refused
    <3>2. QED
      BY <3>1, RecordedSweeps
  <2>2. CASE Tick \/ UNCHANGED vars
    BY <2>2 DEF Tick, vars, OnlyLiveKeysAboveThreshold
  <2>3. QED
    BY <2>1, <2>2 DEF Next
<1>3. QED
  BY <1>1, <1>2, TypeCorrect, PTL DEF Spec
-----------------------------------------------------------------------------
(***************************************************************************)
(* The limiter implements WindowQuota, under the identity mapping.         *)
(***************************************************************************)

\* WindowQuota has a FiniteSets of its own, with the same Cardinality.
LEMMA QuotaCardinality == \A S : Quota!Cardinality(S) = Cardinality(S)
BY DEF Quota!Cardinality, Cardinality

\* Counting the admissions inside the window is looking at the one
\* MaxRequests places from the end of the history.
LEMMA RoomIffFree ==
    ASSUME NEW log \in Seq(Time), NEW t \in Nat, NEW u, Sorted(log, u)
    PROVE  Quota!Room(log, t) <=> Free(log, t)
<1> DEFINE n == Len(log)
           inside == Quota!InWindow(log, t)
           first == n + 1 - MaxRequests
<1>1. n \in Nat /\ DOMAIN log = 1..n /\ \A i \in 1..n : log[i] \in Nat
  BY TimeSeq
<1>2. inside = {i \in 1..n : log[i] > t - Window}
  BY <1>1 DEF Quota!InWindow
<1>3. \A i, j \in 1..n : i =< j => log[i] =< log[j]
  BY <1>1 DEF Sorted
<1> HIDE DEF n, inside
<1>4. /\ IsFiniteSet(1..n)
      /\ Cardinality(1..n) = n
      /\ IsFiniteSet(inside)
      /\ Cardinality(inside) \in Nat
      /\ Cardinality(inside) =< n
  <2>1. IsFiniteSet(1..n) /\ Cardinality(1..n) = n
    BY <1>1, FS_Interval
  <2>2. inside \subseteq 1..n
    BY <1>2
  <2>3. QED
    BY <2>1, <2>2, FS_Subset, FS_CardinalityType
<1>5. CASE n < MaxRequests
  BY <1>1, <1>4, <1>5, WindowPolicy, QuotaCardinality
     DEF Quota!Room, Free, n, inside
<1>6. CASE n >= MaxRequests /\ log[first] =< t - Window
  <2>1. first \in 1..n
    BY <1>1, <1>6, WindowPolicy
  <2>2. inside \subseteq first + 1 .. n
    <3>1. ASSUME NEW i \in inside PROVE i \in first + 1 .. n
      <4>1. i \in 1..n /\ ~(log[i] =< t - Window)
        BY <1>1, <1>2, <3>1, WindowPolicy
      <4>2. ~(i =< first)
        BY <1>1, <1>3, <1>6, <2>1, <4>1, WindowPolicy
      <4>3. QED
        BY <1>1, <2>1, <4>1, <4>2
    <3>2. QED
      BY <3>1
  <2>3. /\ IsFiniteSet(first + 1 .. n)
        /\ Cardinality(first + 1 .. n) = MaxRequests - 1
    <3>1. first + 1 \in Int /\ n \in Int
      BY <1>1, <2>1
    <3>2. QED
      BY <1>1, <1>6, <3>1, FS_Interval, WindowPolicy
  <2>4. Cardinality(inside) =< MaxRequests - 1
    BY <2>2, <2>3, FS_Subset
  <2>5. Quota!Room(log, t)
    BY <1>4, <2>4, WindowPolicy, QuotaCardinality DEF Quota!Room, inside
  <2>6. QED
    BY <1>6, <2>5 DEF Free, Cutoff, n
<1>7. CASE n >= MaxRequests /\ ~(log[first] =< t - Window)
  <2>1. first \in 1..n
    BY <1>1, <1>7, WindowPolicy
  <2>2. first..n \subseteq inside
    <3>1. ASSUME NEW i \in first..n PROVE i \in inside
      <4>1. i \in 1..n /\ log[first] =< log[i]
        BY <1>3, <2>1
      <4>2. QED
        BY <1>1, <1>2, <1>7, <2>1, <4>1, WindowPolicy
    <3>2. QED
      BY <3>1
  <2>3. Cardinality(first..n) = MaxRequests
    <3>1. first \in Int /\ n \in Int
      BY <1>1, <2>1
    <3>2. QED
      BY <1>1, <1>7, <3>1, FS_Interval, WindowPolicy
  <2>4. MaxRequests =< Cardinality(inside)
    <3>1. Cardinality(first..n) =< Cardinality(inside)
      BY <1>4, <2>2, FS_Subset
    <3>2. QED
      BY <2>3, <3>1
  <2>5. ~Quota!Room(log, t)
    BY <1>4, <2>4, WindowPolicy, QuotaCardinality DEF Quota!Room, inside
  <2>6. QED
    BY <1>1, <1>7, <2>5, WindowPolicy DEF Free, Cutoff, n
<1>8. QED
  BY <1>1, <1>5, <1>6, <1>7, WindowPolicy

LEMMA AllowedIsAdmits ==
    ASSUME IInv, NEW k \in Key, Allowed(k)
    PROVE  Quota!Admits(k)
<1>1. admitted[k] \in Seq(Time) /\ now \in Nat /\ Sorted(admitted[k], now)
  BY TimeIsNat DEF IInv, TypeOK, History
<1>2. Free(admitted[k], now)
  BY HasRoomIffFree DEF IInv, Allowed
<1>3. Quota!Room(admitted[k], now)
  BY <1>1, <1>2, RoomIffFree
<1>4. QED
  BY <1>3 DEF Allowed, Recorded, Quota!Admits

LEMMA RefusedIsRefuses ==
    ASSUME IInv, NEW k \in Key, Refused(k)
    PROVE  Quota!Refuses(k)
<1> DEFINE log == admitted[k]
           n == Len(log)
           oldest == log[n + 1 - MaxRequests]
           wait == Wait(LiveHits(k), now)
<1>1. log \in Seq(Time) /\ now \in Nat /\ Sorted(log, now) /\ n \in Nat
  BY TimeSeq, TimeIsNat DEF IInv, TypeOK, History
<1>2. n >= MaxRequests /\ wait = oldest + Window - now
  BY WaitIsOldest DEF Refused, IInv
<1>3. oldest \in Nat /\ oldest =< now
  <2>1. n + 1 - MaxRequests \in 1..n
    BY <1>1, <1>2, WindowPolicy
  <2>2. QED
    BY <1>1, <2>1, TimeSeq DEF Sorted
<1>4. wait \in Nat \ {0}
  BY WaitType DEF Refused, IInv
<1>5. answer' = [kind |-> "refused", key |-> k, at |-> now, wait |-> wait]
      /\ UNCHANGED <<now, admitted>>
  BY DEF Refused, Recorded
<1>6. ASSUME NEW d \in Nat PROVE Quota!Room(log, now + d) <=> d >= wait
  <2>1. Quota!Room(log, now + d) <=> Free(log, now + d)
    BY <1>1, RoomIffFree
  <2>2. Free(log, now + d) <=> oldest =< now + d - Window
    BY <1>1, <1>2, WindowPolicy DEF Free, Cutoff
  <2> HIDE DEF wait, log, n
  <2>3. QED
    BY <1>1, <1>2, <1>3, <1>4, <2>1, <2>2, WindowPolicy
<1> HIDE DEF wait, log, n
<1>7. wait \in 1..Window
  BY <1>1, <1>2, <1>3, <1>4, WindowPolicy
<1>8. /\ Quota!Room(log, now + wait)
      /\ \A d \in 0..wait - 1 : ~Quota!Room(log, now + d)
  BY <1>4, <1>6
<1>9. QED
  BY <1>5, <1>7, <1>8 DEF Quota!Refuses, log

\* Whatever the deques have dropped and the sweep has deleted, the limiter
\* answers as one that remembers every admission: it admits exactly when
\* fewer than MaxRequests are inside the window, and announces the least
\* wait after which the key has room.
THEOREM Implementation == Spec => ImplementsQuota
<1>1. Init => Quota!QuotaInit
  BY DEF Init, Quota!QuotaInit
<1>2. ASSUME IInv, [Next]_vars PROVE [Quota!QuotaNext]_Quota!quotaVars
  <2>1. ASSUME NEW k \in Key, Allowed(k) PROVE Quota!QuotaNext
    BY <1>2, <2>1, AllowedIsAdmits DEF Quota!QuotaNext
  <2>2. ASSUME NEW k \in Key, Refused(k) PROVE Quota!QuotaNext
    BY <1>2, <2>2, RefusedIsRefuses DEF Quota!QuotaNext
  <2>3. CASE Tick
    BY <2>3 DEF Tick, Quota!QuotaNext, Quota!Passes
  <2>4. CASE UNCHANGED vars
    BY <2>4 DEF vars, Quota!quotaVars
  <2>5. QED
    BY <1>2, <2>1, <2>2, <2>3, <2>4 DEF Next
<1>3. QED
  BY <1>1, <1>2, IInvHolds, PTL DEF Spec, ImplementsQuota, Quota!QuotaSpec
=============================================================================
