------------------------ MODULE SlidingWindowProofs ------------------------
(***************************************************************************)
(* What the operators of SlidingWindow return, for every quota and window. *)
(***************************************************************************)
EXTENDS SlidingWindow, SequenceTheorems, WellFoundedInduction, TLAPS

\* A sequence of times.
LEMMA NatSeq ==
    ASSUME NEW T \in SUBSET Nat, NEW s \in Seq(T)
    PROVE  /\ Len(s) \in Nat
           /\ DOMAIN s = 1..Len(s)
           /\ \A i \in 1..Len(s) : s[i] \in T /\ s[i] \in Nat
<1>1. Len(s) \in Nat /\ DOMAIN s = 1..Len(s)
  BY LenProperties
<1>2. ASSUME NEW i \in 1..Len(s) PROVE s[i] \in T
  BY ElementOfSeq
<1>3. QED
  BY <1>1, <1>2

(***************************************************************************)
(* What dropping expired hits returns.  The CHOOSE in Expired names the    *)
(* least index whose successor is inside the window; there is one because  *)
(* < is well founded on Nat.                                               *)
(***************************************************************************)
IsExpired(s, cutoff, n) == /\ \A j \in 1..n : s[j] =< cutoff
                           /\ n < Len(s) => s[n + 1] > cutoff

LEMMA ExpiredExists ==
    ASSUME NEW T \in SUBSET Nat, NEW s \in Seq(T), NEW cutoff \in Int
    PROVE  \E n \in 0..Len(s) : IsExpired(s, cutoff, n)
<1> DEFINE Stops == {n \in 0..Len(s) : n < Len(s) => s[n + 1] > cutoff}
           Less == OpToRel(<, Nat)
<1>1. Stops \subseteq Nat /\ Stops # {}
  BY Len(s) \in Stops
<1>2. IsWellFoundedOn(Less, Nat)
  BY NatLessThanWellFounded
<1>3. PICK n \in Stops : \A m \in Stops : <<m, n>> \notin Less
  <2> HIDE DEF Stops, Less
  <2>1. QED
    BY <1>1, <1>2, WFMin
<1>4. \A m \in Stops : ~ (m < n)
  BY <1>1, <1>3 DEF OpToRel
<1>5. ASSUME NEW j \in 1..n PROVE s[j] =< cutoff
  <2>1. j - 1 \in 0..Len(s) /\ j - 1 < n
    <3>1. n \in 0..Len(s)
      OBVIOUS
    <3>2. QED
      BY <3>1
  <2>2. j - 1 \notin Stops
    BY <2>1, <1>4
  <2>3. j - 1 < Len(s) /\ ~ (s[j] > cutoff)
    BY <2>1, <2>2
  <2>4. j \in 1..Len(s) /\ s[j] \in Nat
    BY <2>1, NatSeq
  <2>5. QED
    BY <2>3, <2>4
<1>6. QED
  BY <1>3, <1>5 DEF IsExpired

\* The hits that stay: a suffix of the deque whose first hit, if there is one,
\* is inside the window, every hit before it being outside.
LEMMA LiveIsSuffix ==
    ASSUME NEW T \in SUBSET Nat, NEW s \in Seq(T), NEW t \in Nat
    PROVE  \E n \in 0..Len(s) :
              /\ Live(s, t) \in Seq(T)
              /\ Len(Live(s, t)) = Len(s) - n
              /\ \A i \in 1..Len(s) - n : Live(s, t)[i] = s[i + n]
              /\ \A j \in 1..n : s[j] =< Cutoff(t)
              /\ n < Len(s) => s[n + 1] > Cutoff(t)
<1> DEFINE n == Expired(s, Cutoff(t))
<1>1. Cutoff(t) \in Int
  BY WindowPolicy DEF Cutoff
<1>2. \E m \in 0..Len(s) : IsExpired(s, Cutoff(t), m)
  BY <1>1, ExpiredExists
<1>3. n \in 0..Len(s) /\ IsExpired(s, Cutoff(t), n)
  BY <1>2 DEF Expired, IsExpired
<1> HIDE DEF n
<1>4. Live(s, t) = SubSeq(s, n + 1, Len(s))
  BY DEF Live, n
<1>5. /\ Live(s, t) \in Seq(T)
      /\ Len(Live(s, t)) = Len(s) - n
      /\ \A i \in 1..Len(s) - n : Live(s, t)[i] = s[i + n]
  <2>1. n + 1 \in Int /\ Len(s) \in Int /\ n \in 0..Len(s)
    BY <1>3
  <2>2. ASSUME NEW i \in n + 1 .. Len(s) PROVE s[i] \in T
    <3>1. i \in 1..Len(s)
      BY <2>1
    <3>2. QED
      BY <3>1, ElementOfSeq
  <2>3. /\ SubSeq(s, n + 1, Len(s)) \in Seq(T)
        /\ Len(SubSeq(s, n + 1, Len(s))) =
              IF n + 1 <= Len(s) THEN Len(s) - (n + 1) + 1 ELSE 0
    BY <2>1, <2>2, SubSeqProperties, Zenon
  <2>4. \A i \in 1..Len(s) - n : SubSeq(s, n + 1, Len(s))[i] = s[i + n]
    BY <2>1
  <2>5. QED
    BY <1>4, <2>1, <2>3, <2>4
<1>6. QED
  BY <1>3, <1>5 DEF IsExpired
=============================================================================
