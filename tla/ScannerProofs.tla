--------------------------- MODULE ScannerProofs ---------------------------
(***************************************************************************)
(* The walk of module Scanner blocks what it should, for values of any     *)
(* size and shape, any budget and any depth.                               *)
(*                                                                         *)
(* The walk passes the parts of a value in document order.  While no limit *)
(* is met, all that was seen and charged is what it has passed; from then  *)
(* on nothing is seen any more.                                            *)
(***************************************************************************)
EXTENDS Scanner, FiniteSetTheorems, SequenceTheorems, WellFoundedInduction, TLAPS

Place == Seq(Nat \ {0})

\* p is q or lies below it.
Under(p, q) == Len(q) =< Len(p) /\ \A j \in 1..Len(q) : p[j] = q[j]

\* The parts of v that a walk at q has passed: what comes before q and, once
\* it leaves q, what is below q.
Passed(v, q, entering) ==
    {p \in DOMAIN v : Precedes(p, q) \/ (~entering /\ Under(p, q))}

SumOf(v, places) == MapThenSumSet(LAMBDA p : Cost(v[p]), places)

\* The findings of the first n are those of the dirty places among the seen.
Tells(n, seen) ==
    /\ n \in 0..Len(findings)
    /\ \A i \in 1..n : findings[i].rule = "rule"
    /\ {findings[i].at : i \in 1..n} = {p \in seen : value[p].dirty}

InOrder == \A i, j \in DOMAIN findings :
               i < j => Precedes(findings[i].at, findings[j].at)

Rule == {"rule", "oversized_payload", "excessive_nesting"}

Types == /\ value \in Values /\ at \in DOMAIN value
         /\ phase \in {"entering", "leaving", "done"}
         /\ phase = "done" => at = <<>>
         /\ budget \in Int /\ stop \in BOOLEAN
         /\ findings \in Seq([rule : Rule, at : DOMAIN value])
         /\ matched \subseteq Texts
         /\ stop => phase # "entering"
         /\ Len(at) =< MaxDepth + 1

Going == 
    LET passed == Passed(value, at, phase = "entering")
    IN /\ matched = passed \cap Texts
       /\ budget = MaxChars - TotalCost(matched) /\ budget >= 0
       /\ Tells(Len(findings), matched)
       /\ \A p \in passed : value[p].kind # "key" => Len(p) =< MaxDepth

\* The last finding is the limit.
Stopped ==
    /\ findings # <<>>
    /\ LET limit == findings[Len(findings)]
       IN /\ matched = {p \in Texts : Precedes(p, limit.at)}
          /\ \/ /\ limit.rule = "oversized_payload" /\ limit.at \in Texts
                /\ TotalCost(matched \cup {limit.at}) > MaxChars
             \/ /\ limit.rule = "excessive_nesting"
                /\ value[limit.at].kind # "key" /\ Len(limit.at) = MaxDepth + 1
    /\ Tells(Len(findings) - 1, matched)
    /\ TotalCost(matched) =< MaxChars

IInv == Types /\ InOrder /\ (IF stop THEN Stopped ELSE Going)
-----------------------------------------------------------------------------
(***************************************************************************)
(* The sum over a finite set, which the library defines by recursion, is   *)
(* the measure that gives each set the cost of its members.                *)
(***************************************************************************)
IsMeasure(f, c, D) ==
    /\ f \in [SUBSET D -> Nat] /\ f[{}] = 0
    /\ \A S \in SUBSET D : \A x \in D \ S : f[S \cup {x}] = f[S] + c[x]

\* A set of finite sets that is not empty has a member of the least size.
LEMMA LeastSet ==
    ASSUME NEW D, IsFiniteSet(D), NEW X \in SUBSET (SUBSET D), X # {}
    PROVE  \E S \in X : \A T \in X : Cardinality(S) =< Cardinality(T)
<1> DEFINE Sizes == {Cardinality(S) : S \in X}
           Less == OpToRel(<, Nat)
<1>1. \A S \in X : Cardinality(S) \in Nat
  BY FS_Subset, FS_CardinalityType
<1>2. Sizes \subseteq Nat /\ Sizes # {}
  BY <1>1
<1>3. IsWellFoundedOn(Less, Nat)
  BY NatLessThanWellFounded
<1>4. PICK n \in Sizes : \A m \in Sizes : <<m, n>> \notin Less
  <2> HIDE DEF Sizes, Less
  <2>1. QED
    BY <1>2, <1>3, WFMin
<1>5. PICK S \in X : n = Cardinality(S)
  BY <1>4
<1>6. \A T \in X : ~ (Cardinality(T) < n)
  BY <1>1, <1>4, <1>5 DEF OpToRel
<1>7. QED
  BY <1>1, <1>5, <1>6

LEMMA MeasureExists ==
    ASSUME NEW D, IsFiniteSet(D), NEW c \in [D -> Nat]
    PROVE  \E f : IsMeasure(f, c, D)
<1> DEFINE Without == {T \in SUBSET D : ~ \E f : IsMeasure(f, c, T)}
<1>1. SUFFICES Without = {}
  OBVIOUS
<1>2. SUFFICES ASSUME Without # {}
               PROVE  FALSE
  OBVIOUS
<1>3. PICK T \in Without : \A U \in Without : Cardinality(T) =< Cardinality(U)
  <2>1. Without \in SUBSET (SUBSET D)
    OBVIOUS
  <2> HIDE DEF Without
  <2>2. QED
    BY <1>2, <2>1, LeastSet
<1>4. T \in SUBSET D /\ IsFiniteSet(T)
  BY <1>3, FS_Subset
<1>5. T # {}
  <2>1. IsMeasure([S \in SUBSET {} |-> 0], c, {})
    BY DEF IsMeasure
  <2>2. QED
    BY <1>3, <2>1
<1>6. PICK x \in T : TRUE
  BY <1>5
<1> DEFINE U == T \ {x}
<1>7. IsFiniteSet(U) /\ Cardinality(U) = Cardinality(T) - 1
  BY <1>4, <1>6, FS_RemoveElement
<1>8. U \notin Without
  BY <1>3, <1>4, <1>7, FS_CardinalityType
<1>9. PICK g : IsMeasure(g, c, U)
  BY <1>4, <1>8
<1> DEFINE f == [S \in SUBSET T |-> g[S \ {x}] + (IF x \in S THEN c[x] ELSE 0)]
<1>10. c[x] \in Nat
  BY <1>4, <1>6
<1>11. \A S \in SUBSET T : S \ {x} \in SUBSET U /\ g[S \ {x}] \in Nat
  BY <1>9 DEF IsMeasure
<1>12. f \in [SUBSET T -> Nat]
  BY <1>10, <1>11
<1>13. f[{}] = 0
  <2>1. {} \ {x} = {} /\ {} \in SUBSET T
    OBVIOUS
  <2>2. g[{}] = 0
    BY <1>9 DEF IsMeasure
  <2>3. QED
    BY <2>1, <2>2
<1>14. ASSUME NEW S \in SUBSET T, NEW y \in T \ S
       PROVE  f[S \cup {y}] = f[S] + c[y]
  <2>1. S \cup {y} \in SUBSET T /\ S \ {x} \in SUBSET U /\ c[y] \in Nat
    BY <1>4
  <2>2. /\ f[S] = g[S \ {x}] + (IF x \in S THEN c[x] ELSE 0)
        /\ f[S \cup {y}] = g[(S \cup {y}) \ {x}]
                               + (IF x \in S \cup {y} THEN c[x] ELSE 0)
    BY <2>1
  <2>3. g[S \ {x}] \in Nat
    BY <1>11
  <2> HIDE DEF f
  <2>4. CASE y = x
    <3>1. (S \cup {y}) \ {x} = S \ {x} /\ x \notin S /\ x \in S \cup {y}
      BY <2>4
    <3>2. QED
      BY <2>2, <2>3, <2>4, <3>1, <1>10
  <2>5. CASE y # x
    <3>1. (S \cup {y}) \ {x} = (S \ {x}) \cup {y} /\ (x \in S \cup {y} <=> x \in S)
      BY <2>5
    <3>2. y \in U \ (S \ {x})
      BY <2>5
    <3>3. g[(S \ {x}) \cup {y}] = g[S \ {x}] + c[y]
      BY <1>9, <2>1, <3>2 DEF IsMeasure
    <3> DEFINE k == IF x \in S THEN c[x] ELSE 0
    <3>4. f[S] = g[S \ {x}] + k /\ f[S \cup {y}] = (g[S \ {x}] + c[y]) + k
      BY <2>2, <3>1, <3>3, Zenon
    <3>5. k \in Nat
      BY <1>10
    <3> HIDE DEF k
    <3>6. QED
      BY <2>1, <2>3, <3>4, <3>5
  <2>6. QED
    BY <2>4, <2>5
<1>15. IsMeasure(f, c, T)
  BY <1>12, <1>13, <1>14 DEF IsMeasure
<1>16. QED
  BY <1>3, <1>15

\* A measure is a sum, whatever members the recursion takes first.
LEMMA SumIsMeasure ==
    ASSUME NEW v, NEW D, IsFiniteSet(D), \A p \in D : v[p] \in Part,
           NEW f, IsMeasure(f, [p \in D |-> Cost(v[p])], D),
           NEW S \in SUBSET D
    PROVE  SumOf(v, S) = f[S]
<1> DEFINE Sums(h) == h = [s \in SUBSET S |->
                             IF s = {} THEN 0
                             ELSE Cost(v[CHOOSE x \in s : TRUE])
                                      + h[s \ {CHOOSE x \in s : TRUE}]]
           h == CHOOSE h : Sums(h)
<1>1. SumOf(v, S) = h[S]
  BY DEF SumOf, MapThenSumSet, MapThenFoldSet
<1>2. ASSUME NEW s \in SUBSET S, s # {}
      PROVE  LET x == CHOOSE x \in s : TRUE
             IN  x \in s /\ s \ {x} \in SUBSET S /\ f[s] = Cost(v[x]) + f[s \ {x}]
  <2> DEFINE x == CHOOSE x \in s : TRUE
             t == s \ {x}
  <2>1. x \in s
    BY <1>2
  <2> HIDE DEF x
  <2>2. t \in SUBSET D /\ x \in D \ t /\ t \cup {x} = s
    BY <2>1
  <2> HIDE DEF t
  <2>3. f[s] = f[t] + Cost(v[x])
    BY <2>2 DEF IsMeasure
  <2>4. f[t] \in Nat /\ Cost(v[x]) \in Nat
    BY <2>2 DEF IsMeasure, Cost, Part
  <2>5. f[s] = Cost(v[x]) + f[t]
    BY <2>3, <2>4
  <2>6. QED
    BY <2>1, <2>2, <2>5 DEF t, x
<1>3. Sums([s \in SUBSET S |-> f[s]])
  <2> DEFINE g == [s \in SUBSET S |-> f[s]]
  <2>1. ASSUME NEW s \in SUBSET S
        PROVE  g[s] = IF s = {} THEN 0
                      ELSE Cost(v[CHOOSE x \in s : TRUE])
                               + g[s \ {CHOOSE x \in s : TRUE}]
    <3>1. CASE s = {}
      BY <3>1 DEF IsMeasure
    <3>2. CASE s # {}
      BY <3>2, <1>2
    <3>3. QED
      BY <3>1, <3>2
  <2>2. QED
    BY <2>1
<1>4. Sums(h)
  <2> HIDE DEF Sums
  <2>1. QED
    BY <1>3
<1> HIDE DEF h
<1> DEFINE Wrong == {s \in SUBSET S : h[s] # f[s]}
<1>5. Wrong = {}
  <2>1. SUFFICES ASSUME Wrong # {}
                 PROVE  FALSE
    OBVIOUS
  <2>2. PICK s \in Wrong : \A t \in Wrong : Cardinality(s) =< Cardinality(t)
    <3>1. Wrong \in SUBSET (SUBSET D)
      OBVIOUS
    <3> HIDE DEF Wrong
    <3>2. QED
      BY <2>1, <3>1, LeastSet
  <2>3. s \in SUBSET S /\ h[s] # f[s]
    BY <2>2
  <2>4. h[s] = IF s = {} THEN 0
               ELSE Cost(v[CHOOSE x \in s : TRUE])
                        + h[s \ {CHOOSE x \in s : TRUE}]
    BY <2>3, <1>4
  <2>5. s # {}
    BY <2>3, <2>4 DEF IsMeasure
  <2> DEFINE x == CHOOSE x \in s : TRUE
  <2>6. x \in s /\ s \ {x} \in SUBSET S /\ f[s] = Cost(v[x]) + f[s \ {x}]
    BY <2>3, <2>5, <1>2
  <2>7. h[s] = Cost(v[x]) + h[s \ {x}]
    BY <2>4, <2>5
  <2> HIDE DEF x
  <2>8. s \ {x} \in Wrong
    BY <2>3, <2>6, <2>7
  <2>9. IsFiniteSet(s)
    BY <2>3, FS_Subset
  <2>10. Cardinality(s \ {x}) = Cardinality(s) - 1 /\ Cardinality(s) \in Nat
    BY <2>6, <2>9, FS_RemoveElement, FS_CardinalityType
  <2>11. Cardinality(s) =< Cardinality(s \ {x})
    BY <2>2, <2>8
  <2>12. QED
    BY <2>10, <2>11
<1>6. QED
  BY <1>1, <1>5

\* What is charged for the places of a value: a natural number, nothing for
\* none, more for more of them, and for one more place its own cost.
LEMMA SumProperties ==
    ASSUME NEW v, IsTree(v)
    PROVE  /\ SumOf(v, {}) = 0
           /\ \A S \in SUBSET DOMAIN v :
                 /\ SumOf(v, S) \in Nat
                 /\ \A p \in DOMAIN v \ S :
                       SumOf(v, S \cup {p}) = SumOf(v, S) + Cost(v[p])
           /\ \A T \in SUBSET DOMAIN v : \A S \in SUBSET T :
                 SumOf(v, S) =< SumOf(v, T)
<1> DEFINE D == DOMAIN v
           c == [p \in D |-> Cost(v[p])]
<1>1. IsFiniteSet(D) /\ \A p \in D : v[p] \in Part /\ Cost(v[p]) \in Nat
  BY DEF IsTree, Part, Cost
<1>2. c \in [D -> Nat]
  BY <1>1
<1>3. PICK f : IsMeasure(f, c, D)
  <2> HIDE DEF D, c
  <2>1. QED
    BY <1>1, <1>2, MeasureExists
<1>4. \A S \in SUBSET D : SumOf(v, S) = f[S]
  BY <1>1, <1>3, SumIsMeasure
<1>5. /\ \A S \in SUBSET D : f[S] \in Nat
      /\ f[{}] = 0
      /\ \A S \in SUBSET D : \A p \in D \ S : f[S \cup {p}] = f[S] + Cost(v[p])
  BY <1>3 DEF IsMeasure
<1>6. ASSUME NEW T \in SUBSET D, NEW S \in SUBSET T PROVE f[S] =< f[T]
  <2> DEFINE More == {U \in SUBSET T : S \subseteq U /\ f[S] =< f[U]}
             Left == {T \ U : U \in More}
  <2>1. S \in More
    <3>1. f[S] \in Nat
      BY <1>5
    <3>2. QED
      BY <3>1
  <2>2. PICK L \in Left : \A M \in Left : Cardinality(L) =< Cardinality(M)
    <3>1. Left \in SUBSET (SUBSET D) /\ Left # {}
      BY <2>1
    <3> HIDE DEF Left
    <3>2. QED
      BY <1>1, <3>1, LeastSet
  <2>3. PICK U \in More : L = T \ U
    BY <2>2
  <2>4. L = {}
    <3>1. SUFFICES ASSUME L # {}
                   PROVE  FALSE
      OBVIOUS
    <3>2. PICK p \in L : TRUE
      BY <3>1
    <3>3. U \in SUBSET D /\ p \in D \ U
      BY <2>3, <3>2
    <3>4. f[U \cup {p}] = f[U] + Cost(v[p])
      BY <1>5, <3>3
    <3>5. f[S] \in Nat /\ f[U] \in Nat /\ Cost(v[p]) \in Nat /\ f[S] =< f[U]
      BY <1>1, <1>5, <2>3, <3>3
    <3>6. f[S] =< f[U \cup {p}]
      BY <3>4, <3>5
    <3>7. U \cup {p} \in More
      BY <2>3, <3>2, <3>6
    <3>8. L \ {p} = T \ (U \cup {p})
      BY <2>3
    <3>9. L \ {p} \in Left
      BY <3>7, <3>8
    <3>10. Cardinality(L) =< Cardinality(L \ {p})
      BY <2>2, <3>9
    <3>11. IsFiniteSet(L)
      BY <1>1, <2>3, FS_Subset
    <3> HIDE DEF More, Left
    <3>12. Cardinality(L \ {p}) = Cardinality(L) - 1
      BY <3>2, <3>11, FS_RemoveElement
    <3>13. Cardinality(L) \in Nat
      BY <3>11, FS_CardinalityType
    <3>14. QED
      BY <3>10, <3>12, <3>13
  <2>5. U = T
    BY <2>3, <2>4
  <2>6. QED
    BY <2>3, <2>5
<1>7. QED
  BY <1>4, <1>5, <1>6
-----------------------------------------------------------------------------
(***************************************************************************)
(* Document order.                                                         *)
(***************************************************************************)
LEMMA PlaceOfChild ==
    ASSUME NEW q \in Place, NEW i \in Nat \ {0}
    PROVE  /\ Append(q, i) \in Place
           /\ Len(q) \in Nat /\ Len(Append(q, i)) = Len(q) + 1
           /\ \A j \in 1..Len(q) : Append(q, i)[j] = q[j]
           /\ Append(q, i)[Len(q) + 1] = i
BY AppendProperties DEF Place

\* A place other than the root is a child of the place above it.
LEMMA PlaceOfParent ==
    ASSUME NEW q \in Place, q # <<>>
    PROVE  /\ Front(q) \in Place /\ Last(q) \in Nat \ {0}
           /\ Len(q) \in Nat \ {0} /\ Len(Front(q)) = Len(q) - 1
           /\ q = Append(Front(q), Last(q))
<1>1. Len(q) \in Nat \ {0} /\ \A j \in 1..Len(q) : q[j] \in Nat \ {0}
  BY EmptySeq, ElementOfSeq DEF Place
<1>2. Front(q) = [j \in 1..Len(q) - 1 |-> q[j]]
  BY <1>1 DEF Front, Place
<1>3. Front(q) \in Place /\ Len(Front(q)) = Len(q) - 1
  BY <1>1, <1>2 DEF Place
<1>4. Last(q) \in Nat \ {0}
  BY <1>1 DEF Last
<1>5. /\ Append(Front(q), Last(q)) \in Place
      /\ Len(Append(Front(q), Last(q))) = Len(q)
      /\ \A j \in 1..Len(q) : Append(Front(q), Last(q))[j] = q[j]
  <2> DEFINE f == Front(q)
             r == Append(f, Last(q))
  <2>1. /\ f \in Place /\ Len(f) = Len(q) - 1 /\ Last(q) = q[Len(q)]
        /\ \A j \in 1..Len(q) - 1 : f[j] = q[j]
    BY <1>1, <1>2, <1>3 DEF Last
  <2> HIDE DEF f
  <2>2. /\ r \in Place /\ Len(f) \in Nat /\ Len(r) = Len(f) + 1
        /\ \A j \in 1..Len(f) : r[j] = f[j]
        /\ r[Len(f) + 1] = Last(q)
    BY <1>4, <2>1, PlaceOfChild
  <2> HIDE DEF r
  <2>3. r \in Place /\ Len(r) = Len(q) /\ \A j \in 1..Len(q) : r[j] = q[j]
    BY <1>1, <2>1, <2>2
  <2>4. QED
    BY <2>3 DEF r, f
<1>6. q = Append(Front(q), Last(q))
  BY <1>5, SeqEqual DEF Place
<1>7. QED
  BY <1>1, <1>3, <1>4, <1>6

LEMMA UnderEqual ==
    ASSUME NEW p \in Place, NEW q \in Place
    PROVE  p = q <=> Under(p, q) /\ Len(p) = Len(q)
<1>1. ASSUME Under(p, q), Len(p) = Len(q)
      PROVE  p = q
  BY <1>1, SeqEqual DEF Under, Place
<1>2. QED
  BY <1>1 DEF Under, Place

\* What is below a child is below its parent, in that child.
LEMMA UnderChild ==
    ASSUME NEW p \in Place, NEW q \in Place, NEW i \in Nat \ {0}
    PROVE  Under(p, Append(q, i)) <=>
              Under(p, q) /\ Len(q) < Len(p) /\ p[Len(q) + 1] = i
<1> DEFINE r == Append(q, i)
<1>1. /\ Len(p) \in Nat /\ Len(q) \in Nat /\ Len(r) = Len(q) + 1
      /\ \A j \in 1..Len(q) : r[j] = q[j]
      /\ r[Len(q) + 1] = i
  BY PlaceOfChild DEF Place
<1> HIDE DEF r
<1>2. Under(p, r) <=> Under(p, q) /\ Len(q) < Len(p) /\ p[Len(q) + 1] = i
  BY <1>1 DEF Under
<1>3. QED
  BY <1>2 DEF r

\* What comes before a child: what comes before its parent, the parent itself
\* and what is below the children before this one.
LEMMA PrecedesChild ==
    ASSUME NEW p \in Place, NEW q \in Place, NEW i \in Nat \ {0}
    PROVE  Precedes(p, Append(q, i)) <=>
              \/ Precedes(p, q)
              \/ Under(p, q) /\ (Len(p) = Len(q) \/ p[Len(q) + 1] < i)
<1> DEFINE r == Append(q, i)
<1>1. /\ Len(p) \in Nat /\ Len(q) \in Nat /\ Len(r) = Len(q) + 1
      /\ \A j \in 1..Len(q) : r[j] = q[j]
      /\ r[Len(q) + 1] = i
  BY PlaceOfChild DEF Place
<1> HIDE DEF r
<1>2. ASSUME Precedes(p, r)
      PROVE  \/ Precedes(p, q)
             \/ Under(p, q) /\ (Len(p) = Len(q) \/ p[Len(q) + 1] < i)
  <2>1. PICK k \in 0..Len(p) :
            /\ k < Len(r) /\ \A j \in 1..k : p[j] = r[j]
            /\ k = Len(p) \/ p[k + 1] < r[k + 1]
    BY <1>2 DEF Precedes
  <2>2. CASE k < Len(q)
    <3>1. \A j \in 1..k : p[j] = q[j]
      BY <1>1, <2>1, <2>2
    <3>2. r[k + 1] = q[k + 1]
      BY <1>1, <2>1, <2>2
    <3>3. Precedes(p, q)
      BY <2>1, <2>2, <3>1, <3>2 DEF Precedes
    <3>4. QED
      BY <3>3
  <2>3. CASE k = Len(q)
    <3>1. Under(p, q)
      BY <1>1, <2>1, <2>3 DEF Under
    <3>2. Len(p) = Len(q) \/ p[Len(q) + 1] < i
      BY <1>1, <2>1, <2>3
    <3>3. QED
      BY <3>1, <3>2
  <2>4. QED
    BY <1>1, <2>1, <2>2, <2>3
<1>3. ASSUME Precedes(p, q)
      PROVE  Precedes(p, r)
  <2>1. PICK k \in 0..Len(p) :
            /\ k < Len(q) /\ \A j \in 1..k : p[j] = q[j]
            /\ k = Len(p) \/ p[k + 1] < q[k + 1]
    BY <1>3 DEF Precedes
  <2>2. k < Len(r) /\ r[k + 1] = q[k + 1] /\ \A j \in 1..k : p[j] = r[j]
    BY <1>1, <2>1
  <2>3. QED
    BY <2>1, <2>2 DEF Precedes
<1>4. ASSUME Under(p, q), Len(p) = Len(q) \/ p[Len(q) + 1] < i
      PROVE  Precedes(p, r)
  <2>1. /\ Len(q) \in 0..Len(p) /\ Len(q) < Len(r)
        /\ \A j \in 1..Len(q) : p[j] = r[j]
        /\ Len(q) = Len(p) \/ p[Len(q) + 1] < r[Len(q) + 1]
    BY <1>1, <1>4 DEF Under
  <2>2. QED
    BY <2>1 DEF Precedes
<1>5. QED
  BY <1>2, <1>3, <1>4 DEF r

LEMMA NotBeforeItself == \A q \in Place : ~ Precedes(q, q)
<1> SUFFICES ASSUME NEW q \in Place
             PROVE  ~ Precedes(q, q)
  OBVIOUS
<1>1. Len(q) \in Nat /\ \A j \in 1..Len(q) : q[j] \in Nat
  BY ElementOfSeq DEF Place
<1>2. QED
  BY <1>1 DEF Precedes

\* In a tree what lies below q is q itself or in one of its children, and q
\* has so many.
LEMMA TreePlaces ==
    ASSUME NEW v, IsTree(v), NEW p \in DOMAIN v
    PROVE  /\ p \in Place /\ v[p] \in Part /\ Len(p) \in Nat
           /\ v[p].kind # "container" => v[p].width = 0
           /\ \A i \in 1..v[p].width : Append(p, i) \in DOMAIN v
           /\ p # <<>> => /\ Front(p) \in DOMAIN v
                          /\ Last(p) =< v[Front(p)].width
           /\ \A q \in Place :
                 Under(p, q) /\ Len(p) > Len(q)
                     => q \in DOMAIN v /\ p[Len(q) + 1] \in 1..v[q].width
<1>1. /\ p \in Place /\ v[p] \in Part
      /\ v[p].kind # "container" => v[p].width = 0
      /\ \A i \in 1..v[p].width : Append(p, i) \in DOMAIN v
      /\ \A k \in 1..Len(p) : /\ SubSeq(p, 1, k - 1) \in DOMAIN v
                              /\ p[k] =< v[SubSeq(p, 1, k - 1)].width
  BY DEF IsTree, Place
<1>2. Len(p) \in Nat /\ \A k \in 1..Len(p) : p[k] \in Nat \ {0}
  BY <1>1, ElementOfSeq DEF Place
<1>3. p # <<>> => /\ Front(p) \in DOMAIN v /\ Last(p) =< v[Front(p)].width
  <2>1. SUFFICES ASSUME p # <<>>
                 PROVE  Front(p) \in DOMAIN v /\ Last(p) =< v[Front(p)].width
    OBVIOUS
  <2>2. Len(p) \in 1..Len(p)
    BY <1>1, <2>1, PlaceOfParent
  <2>3. QED
    BY <1>1, <2>2 DEF Front, Last
<1>4. ASSUME NEW q \in Place, Under(p, q), Len(p) > Len(q)
      PROVE  q \in DOMAIN v /\ p[Len(q) + 1] \in 1..v[q].width
  <2>1. Len(q) \in Nat /\ Len(q) + 1 \in 1..Len(p)
    BY <1>2, <1>4 DEF Place
  <2>2. SubSeq(p, 1, Len(q)) = q
    <3>1. /\ SubSeq(p, 1, Len(q)) \in Place
          /\ Len(SubSeq(p, 1, Len(q))) = Len(q)
          /\ \A j \in 1..Len(q) : SubSeq(p, 1, Len(q))[j] = p[j]
      <4>1. SubSeq(p, 1, Len(q)) = [j \in 1..Len(q) |-> p[j]]
        BY <1>1, <2>1 DEF Place
      <4>2. \A j \in 1..Len(q) : p[j] \in Nat \ {0}
        BY <1>2, <2>1
      <4>3. QED
        BY <2>1, <4>1, <4>2 DEF Place
    <3>2. QED
      BY <1>4, <3>1, UnderEqual, SeqEqual DEF Under, Place
  <2>3. (Len(q) + 1) - 1 = Len(q)
    BY <2>1
  <2>4. q \in DOMAIN v /\ p[Len(q) + 1] =< v[q].width
    BY <1>1, <2>1, <2>2, <2>3
  <2>5. v[q].width \in Nat
    BY <2>4 DEF IsTree, Part
  <2>6. QED
    BY <1>2, <2>1, <2>4, <2>5
<1>5. QED
  BY <1>1, <1>2, <1>3, <1>4
-----------------------------------------------------------------------------
(***************************************************************************)
(* What the walk passes with each of its steps.                            *)
(***************************************************************************)

\* At the beginning nothing, at the end everything.
LEMMA PassedBegins == \A v : Passed(v, <<>>, TRUE) = {}
BY DEF Passed, Precedes

LEMMA PassedEnds == ASSUME NEW v, IsTree(v) PROVE Passed(v, <<>>, FALSE) = DOMAIN v
<1>1. \A p \in DOMAIN v : Under(p, <<>>)
  BY TreePlaces DEF Under
<1>2. QED
  BY <1>1 DEF Passed

\* A part is passed when the walk goes into it, or returns from it if it has
\* no children.
LEMMA PassedOpens ==
    ASSUME NEW v, IsTree(v), NEW q \in DOMAIN v
    PROVE  Passed(v, Append(q, 1), TRUE) = Passed(v, q, TRUE) \cup {q}
<1>1. ASSUME NEW p \in DOMAIN v
      PROVE  Precedes(p, Append(q, 1)) <=> Precedes(p, q) \/ p = q
  <2>1. p \in Place /\ q \in Place /\ Len(p) \in Nat /\ Len(q) \in Nat
    BY TreePlaces
  <2>2. ASSUME Under(p, q), Len(p) # Len(q) PROVE ~ p[Len(q) + 1] < 1
    <3>1. Len(p) > Len(q)
      BY <2>1, <2>2 DEF Under
    <3>2. p[Len(q) + 1] \in 1..v[q].width /\ v[q].width \in Nat
      BY <2>1, <2>2, <3>1, TreePlaces DEF Part
    <3>3. QED
      BY <3>2
  <2>3. QED
    BY <2>1, <2>2, PrecedesChild, UnderEqual
<1>2. QED
  BY <1>1 DEF Passed

LEMMA PassedReturns ==
    ASSUME NEW v, IsTree(v), NEW q \in DOMAIN v, v[q].width = 0
    PROVE  Passed(v, q, FALSE) = Passed(v, q, TRUE) \cup {q}
<1>1. ASSUME NEW p \in DOMAIN v
      PROVE  Under(p, q) <=> p = q
  <2>1. p \in Place /\ q \in Place /\ Len(p) \in Nat /\ Len(q) \in Nat
    BY TreePlaces
  <2>2. Under(p, q) => ~ Len(p) > Len(q)
    BY <2>1, TreePlaces
  <2>3. QED
    BY <2>1, <2>2, UnderEqual DEF Under
<1>2. QED
  BY <1>1 DEF Passed

\* From one child to the next, and from the last one to its parent, nothing
\* is passed.
LEMMA PassedGoesOn ==
    ASSUME NEW v, IsTree(v), NEW q \in DOMAIN v, q # <<>>
    PROVE  Passed(v, Append(Front(q), Last(q) + 1), TRUE) = Passed(v, q, FALSE)
<1> DEFINE f == Front(q)
           i == Last(q)
<1>1. q \in Place
  BY TreePlaces
<1>2. f \in Place /\ i \in Nat \ {0} /\ q = Append(f, i)
  BY <1>1, PlaceOfParent
<1> HIDE DEF f, i
<1>3. ASSUME NEW p \in DOMAIN v
      PROVE  Precedes(p, Append(f, i + 1)) <=> Precedes(p, q) \/ Under(p, q)
  <2>1. p \in Place /\ Len(p) \in Nat /\ Len(f) \in Nat
    BY <1>2, TreePlaces DEF Place
  <2>2. Precedes(p, q) <=>
            \/ Precedes(p, f)
            \/ Under(p, f) /\ (Len(p) = Len(f) \/ p[Len(f) + 1] < i)
    BY <1>2, <2>1, PrecedesChild
  <2>3. Under(p, q) <=> Under(p, f) /\ Len(f) < Len(p) /\ p[Len(f) + 1] = i
    BY <1>2, <2>1, UnderChild
  <2>4. Precedes(p, Append(f, i + 1)) <=>
            \/ Precedes(p, f)
            \/ Under(p, f) /\ (Len(p) = Len(f) \/ p[Len(f) + 1] < i + 1)
    BY <1>2, <2>1, PrecedesChild
  <2>5. Under(p, f) /\ Len(p) # Len(f) =>
            Len(f) < Len(p) /\ p[Len(f) + 1] \in Nat
    <3>1. SUFFICES ASSUME Under(p, f), Len(p) # Len(f)
                   PROVE  Len(f) < Len(p) /\ p[Len(f) + 1] \in Nat
      OBVIOUS
    <3>2. Len(f) < Len(p)
      BY <2>1, <3>1 DEF Under
    <3>3. Len(f) + 1 \in 1..Len(p)
      BY <2>1, <3>2
    <3>4. QED
      BY <2>1, <3>2, <3>3, ElementOfSeq DEF Place
  <2>6. \A k \in Nat : k < i + 1 <=> k < i \/ k = i
    BY <1>2
  <2>7. QED
    BY <2>2, <2>3, <2>4, <2>5, <2>6, Zenon
<1>4. QED
  BY <1>3 DEF Passed, f, i

LEMMA PassedCloses ==
    ASSUME NEW v, IsTree(v), NEW q \in DOMAIN v, q # <<>>,
           Last(q) >= v[Front(q)].width
    PROVE  Passed(v, Front(q), FALSE) = Passed(v, q, FALSE)
<1> DEFINE f == Front(q)
           i == Last(q)
<1>1. q \in Place
  BY TreePlaces
<1>2. /\ f \in Place /\ i \in Nat \ {0} /\ q = Append(f, i)
      /\ i >= v[f].width /\ f \in DOMAIN v
  BY <1>1, PlaceOfParent, TreePlaces
<1> HIDE DEF f, i
<1>3. ASSUME NEW p \in DOMAIN v
      PROVE  Precedes(p, f) \/ Under(p, f) <=> Precedes(p, q) \/ Under(p, q)
  <2>1. p \in Place /\ Len(p) \in Nat /\ Len(f) \in Nat
    BY <1>2, TreePlaces DEF Place
  <2>2. Precedes(p, q) <=>
            \/ Precedes(p, f)
            \/ Under(p, f) /\ (Len(p) = Len(f) \/ p[Len(f) + 1] < i)
    BY <1>2, <2>1, PrecedesChild
  <2>3. Under(p, q) <=> Under(p, f) /\ Len(f) < Len(p) /\ p[Len(f) + 1] = i
    BY <1>2, <2>1, UnderChild
  <2>4. Under(p, f) /\ Len(p) # Len(f) =>
            Len(f) < Len(p) /\ (p[Len(f) + 1] < i \/ p[Len(f) + 1] = i)
    <3>1. SUFFICES ASSUME Under(p, f), Len(p) # Len(f)
                   PROVE  Len(f) < Len(p) /\ (p[Len(f) + 1] < i \/ p[Len(f) + 1] = i)
      OBVIOUS
    <3>2. Len(f) < Len(p)
      BY <2>1, <3>1 DEF Under
    <3>3. p[Len(f) + 1] \in 1..v[f].width /\ v[f].width \in Nat
      BY <1>2, <3>1, <3>2, TreePlaces DEF Part
    <3>4. QED
      BY <1>2, <3>2, <3>3
  <2>5. QED
    BY <2>2, <2>3, <2>4, Zenon
<1>4. QED
  BY <1>3 DEF Passed, f
-----------------------------------------------------------------------------
(***************************************************************************)
(* The steps of the walk.                                                  *)
(***************************************************************************)
LEMMA TotalIsSum ==
    /\ \A S : TotalCost(S) = SumOf(value, S)
    /\ UNCHANGED value => \A S : TotalCost(S)' = SumOf(value, S)
BY DEF TotalCost, SumOf, MapThenSumSet, MapThenFoldSet, Cost

\* Where the walk is, and the tree around it.
LEMMA PartHere ==
    ASSUME Types
    PROVE  /\ IsTree(value) /\ at \in Place /\ Len(at) \in Nat
           /\ Here \in Part
           /\ Here.kind # "container" => Here.width = 0
           /\ \A i \in 1..Here.width : Append(at, i) \in DOMAIN value
           /\ at # <<>> => /\ Front(at) \in DOMAIN value
                           /\ Last(at) =< value[Front(at)].width
<1>1. IsTree(value) /\ at \in DOMAIN value
  BY ScannerAssumption DEF Types
<1>2. QED
  BY <1>1, TreePlaces DEF Here

\* What the walk has passed when it comes to a part lies before that part, and
\* so does what was reported.
LEMMA ReportedBefore ==
    ASSUME Types, Going, phase = "entering"
    PROVE  /\ \A i \in DOMAIN findings : Precedes(findings[i].at, at)
           /\ at \notin Passed(value, at, TRUE)
           /\ matched = {p \in Texts : Precedes(p, at)}
<1>1. matched = Passed(value, at, TRUE) \cap Texts
  BY DEF Going
<1>2. \A p \in Passed(value, at, TRUE) : Precedes(p, at)
  BY DEF Passed
<1>3. \A i \in DOMAIN findings : findings[i].at \in matched
  <2>1. DOMAIN findings = 1..Len(findings)
    BY DEF Types
  <2>2. QED
    BY <2>1 DEF Going, Tells
<1>4. at \notin Passed(value, at, TRUE)
  BY <1>2, NotBeforeItself, PartHere
<1>5. matched = {p \in Texts : Precedes(p, at)}
  BY <1>1 DEF Passed, Texts
<1>6. QED
  BY <1>1, <1>2, <1>3, <1>4, <1>5

\* A finding that is added.
LEMMA Reported ==
    ASSUME Types, InOrder, Going, phase = "entering", UNCHANGED value,
           NEW rule \in Rule, Report(rule)
    PROVE  /\ findings' \in Seq([rule : Rule, at : DOMAIN value'])
           /\ Len(findings') = Len(findings) + 1 /\ Len(findings) \in Nat
           /\ \A i \in 1..Len(findings) : findings'[i] = findings[i]
           /\ findings'[Len(findings')] = [rule |-> rule, at |-> at]
           /\ InOrder'
<1> DEFINE f == [rule |-> rule, at |-> at]
           R == [rule : Rule, at : DOMAIN value]
<1>1. findings \in Seq(R) /\ f \in R /\ findings' = Append(findings, f)
  BY DEF Types, Report
<1> HIDE DEF f, R
<1>2. /\ findings' \in Seq(R) /\ Len(findings) \in Nat
      /\ Len(findings') = Len(findings) + 1
      /\ \A i \in 1..Len(findings) : findings'[i] = findings[i]
      /\ findings'[Len(findings) + 1] = f
  BY <1>1, AppendProperties
<1>3. /\ DOMAIN findings = 1..Len(findings)
      /\ DOMAIN findings' = 1..Len(findings) + 1
  BY <1>1, <1>2
<1>4. ASSUME NEW i \in DOMAIN findings', NEW j \in DOMAIN findings', i < j
      PROVE  Precedes(findings'[i].at, findings'[j].at)
  <2>1. i \in DOMAIN findings /\ findings'[i] = findings[i]
    BY <1>2, <1>3, <1>4
  <2>2. CASE j \in DOMAIN findings
    BY <1>2, <1>3, <1>4, <2>1, <2>2 DEF InOrder
  <2>3. CASE j = Len(findings) + 1
    BY <1>2, <2>1, <2>3, ReportedBefore DEF f
  <2>4. QED
    BY <1>2, <1>3, <2>2, <2>3
<1>5. InOrder'
  BY <1>4 DEF InOrder
<1>6. QED
  BY <1>2, <1>5 DEF f, R

\* A limit is the last finding.
LEMMA LimitStops ==
    ASSUME IInv, phase = "entering", Returns,
           NEW rule \in {"oversized_payload", "excessive_nesting"},
           Limit(rule), UNCHANGED matched, budget' \in Int,
           \/ /\ rule = "oversized_payload" /\ at \in Texts
              /\ TotalCost(matched \cup {at}) > MaxChars
           \/ /\ rule = "excessive_nesting"
              /\ Here.kind # "key" /\ Len(at) = MaxDepth + 1
    PROVE  IInv'
<1>1. Types /\ InOrder /\ Going /\ ~stop
  BY DEF IInv, Types
<1>2. Report(rule) /\ stop' /\ stop' \in BOOLEAN /\ phase' = "leaving"
      /\ UNCHANGED <<value, at, matched>>
  BY DEF Limit, Returns
<1>3. Texts' = Texts
  BY <1>2 DEF Texts
<1>4. /\ findings' \in Seq([rule : Rule, at : DOMAIN value'])
      /\ Len(findings') = Len(findings) + 1 /\ Len(findings) \in Nat
      /\ \A i \in 1..Len(findings) : findings'[i] = findings[i]
      /\ findings'[Len(findings')] = [rule |-> rule, at |-> at]
      /\ InOrder'
  <2>1. rule \in Rule /\ UNCHANGED value
    BY <1>2 DEF Rule
  <2>2. QED
    BY <1>1, <1>2, <2>1, Reported
<1>5. Types'
  BY <1>1, <1>2, <1>3, <1>4 DEF Types
<1>6. Tells(Len(findings) - 1, matched)'
  <2>1. Tells(Len(findings), matched)
    BY <1>1 DEF Going
  <2>2. Len(findings') - 1 = Len(findings) /\ Len(findings) \in 0..Len(findings')
    BY <1>4
  <2>3. \A i \in 1..Len(findings) : findings'[i] = findings[i]
    BY <1>4
  <2>4. /\ Len(findings') - 1 \in 0..Len(findings')
        /\ \A i \in 1..Len(findings') - 1 : findings'[i].rule = "rule"
        /\ {findings'[i].at : i \in 1..Len(findings') - 1}
              = {findings[i].at : i \in 1..Len(findings)}
    BY <2>1, <2>2, <2>3 DEF Tells
  <2>5. {p \in matched' : value'[p].dirty} = {p \in matched : value[p].dirty}
    BY <1>2
  <2>6. {findings'[i].at : i \in 1..Len(findings') - 1}
            = {p \in matched' : value'[p].dirty}
    BY <2>1, <2>4, <2>5 DEF Tells
  <2>7. QED
    BY <2>4, <2>6 DEF Tells
<1>7. TotalCost(matched)' =< MaxChars
  <2>1. TotalCost(matched)' = TotalCost(matched)
    BY <1>2, TotalIsSum
  <2>2. IsTree(value) /\ matched \subseteq DOMAIN value
    BY <1>1, PartHere DEF Types, Texts
  <2>3. TotalCost(matched) \in Nat
    BY <2>2, SumProperties, TotalIsSum
  <2>4. QED
    BY <1>1, <2>1, <2>3, ScannerAssumption DEF Going
<1>8. matched' = {p \in Texts : Precedes(p, at)}
  BY <1>1, <1>2, ReportedBefore
<1>9. TotalCost(matched \cup {at})' = TotalCost(matched \cup {at})
  BY <1>2, TotalIsSum
<1>10. Stopped'
  <2>1. findings' # <<>>
    BY <1>4
  <2>2. findings'[Len(findings')].rule = rule /\ findings'[Len(findings')].at = at
    BY <1>4
  <2>3. QED
    <3>1. matched' = {p \in Texts' : Precedes(p, findings'[Len(findings')].at)}
      BY <1>2, <1>3, <1>8, <2>2
    <3>2. rule = "oversized_payload" =>
              at \in Texts' /\ TotalCost(matched \cup {findings[Len(findings)].at})' > MaxChars
      <4>1. matched' \cup {findings'[Len(findings')].at} = matched' \cup {at'}
        BY <1>2, <2>2
      <4>2. TotalCost(matched \cup {findings[Len(findings)].at})'
                = TotalCost(matched \cup {at})
        BY <1>9, <4>1, <1>2, TotalIsSum
      <4>3. QED
        BY <1>3, <4>2
    <3>3. rule = "excessive_nesting" =>
              value'[at].kind # "key" /\ Len(at) = MaxDepth + 1
      BY <1>2 DEF Here
    <3>4. \/ rule = "oversized_payload" /\ rule # "excessive_nesting"
          \/ rule = "excessive_nesting" /\ rule # "oversized_payload"
      OBVIOUS
    <3>5. QED
      BY <1>6, <1>7, <2>1, <2>2, <3>1, <3>2, <3>3, <3>4 DEF Stopped
<1>11. QED
  BY <1>2, <1>4, <1>5, <1>10 DEF IInv

\* A text that is scanned: it is the next one, and is charged for.
LEMMA TextScanned ==
    ASSUME IInv, phase = "entering", Returns, ScanString,
           Here.kind \in {"text", "key"},
           Here.kind # "key" => Len(at) =< MaxDepth
    PROVE  IInv'
<1>1. Types /\ InOrder /\ Going /\ ~stop
  BY DEF IInv, Types
<1>2. phase' = "leaving" /\ UNCHANGED <<value, at>>
  BY DEF Returns
<1>3. /\ IsTree(value) /\ at \in DOMAIN value /\ at \in Texts
      /\ Here \in Part /\ Here.width = 0 /\ Cost(Here) \in Nat
  <2>1. IsTree(value) /\ Here \in Part /\ Here.width = 0
    BY <1>1, PartHere
  <2>2. at \in DOMAIN value /\ at \in Texts
    BY <1>1 DEF Types, Texts, Here
  <2>3. QED
    BY <2>1, <2>2 DEF Part, Cost
<1>4. /\ matched \subseteq Texts /\ matched \subseteq DOMAIN value /\ at \notin matched
      /\ matched = Passed(value, at, TRUE) \cap Texts
  <2>1. at \notin Passed(value, at, TRUE)
    BY <1>1, ReportedBefore
  <2>2. matched = Passed(value, at, TRUE) \cap Texts
    BY <1>1 DEF Going
  <2>3. QED
    BY <2>1, <2>2 DEF Texts
<1>5. /\ TotalCost(matched) \in Nat
      /\ TotalCost(matched \cup {at}) = TotalCost(matched) + Cost(Here)
      /\ budget' = MaxChars - TotalCost(matched \cup {at}) /\ budget' \in Int
  <2>1. TotalCost(matched) \in Nat
    BY <1>3, <1>4, SumProperties, TotalIsSum
  <2>2. TotalCost(matched \cup {at}) = TotalCost(matched) + Cost(Here)
    BY <1>3, <1>4, SumProperties, TotalIsSum DEF Here
  <2>3. budget' = budget - Cost(Here)
    BY DEF ScanString
  <2>4. budget = MaxChars - TotalCost(matched)
    BY <1>1 DEF Going
  <2>5. QED
    BY <1>3, <2>1, <2>2, <2>3, <2>4, ScannerAssumption
<1>6. CASE budget' < 0
  <2>1. Limit("oversized_payload") /\ UNCHANGED matched
    BY <1>5, <1>6 DEF ScanString
  <2>2. TotalCost(matched \cup {at}) > MaxChars
    BY <1>3, <1>5, <1>6, ScannerAssumption
  <2>3. QED
    BY <1>3, <1>5, <2>1, <2>2, LimitStops
<1>7. CASE budget' >= 0
  <2>1. ScanText /\ UNCHANGED stop /\ matched' = matched \cup {at}
    BY <1>5, <1>7 DEF ScanString, ScanText
  <2>2. /\ findings' \in Seq([rule : Rule, at : DOMAIN value']) /\ InOrder'
        /\ Tells(Len(findings), matched)'
    <3>1. Tells(Len(findings), matched) /\ Len(findings) \in Nat
      BY <1>1 DEF Going, Types
    <3>2. CASE Here.dirty
      <4>1. Report("rule") /\ "rule" \in Rule /\ UNCHANGED value
        BY <1>2, <2>1, <3>2 DEF ScanText, Rule
      <4>2. /\ findings' \in Seq([rule : Rule, at : DOMAIN value'])
            /\ Len(findings') = Len(findings) + 1
            /\ \A i \in 1..Len(findings) : findings'[i] = findings[i]
            /\ findings'[Len(findings')] = [rule |-> "rule", at |-> at]
            /\ InOrder'
        BY <1>1, <4>1, Reported
      <4>3. \A i \in 1..Len(findings') : i \in 1..Len(findings) \/ i = Len(findings')
        BY <3>1, <4>2
      <4>4. \A i \in 1..Len(findings') : findings'[i].rule = "rule"
        BY <3>1, <4>2, <4>3 DEF Tells
      <4>5. {findings'[i].at : i \in 1..Len(findings')}
                = {findings[i].at : i \in 1..Len(findings)} \cup {at}
        <5>1. 1..Len(findings') = 1..Len(findings) \cup {Len(findings')}
          BY <3>1, <4>2
        <5>2. findings'[Len(findings')].at = at
          BY <4>2
        <5>3. QED
          BY <4>2, <5>1, <5>2
      <4>6. {p \in matched' : value'[p].dirty} = {p \in matched : value[p].dirty} \cup {at}
        BY <1>2, <2>1, <3>2 DEF Here
      <4>7. {findings'[i].at : i \in 1..Len(findings')} = {p \in matched' : value'[p].dirty}
        BY <3>1, <4>5, <4>6 DEF Tells
      <4>8. Len(findings') \in 0..Len(findings')
        BY <3>1, <4>2
      <4>9. QED
        BY <4>2, <4>4, <4>7, <4>8 DEF Tells
    <3>3. CASE ~ Here.dirty
      <4>1. UNCHANGED findings
        BY <2>1, <3>3 DEF ScanText
      <4>2. {p \in matched' : value'[p].dirty} = {p \in matched : value[p].dirty}
        BY <1>2, <2>1, <3>3 DEF Here
      <4>3. Tells(Len(findings), matched)'
        BY <3>1, <4>1, <4>2 DEF Tells
      <4>4. QED
        BY <1>1, <1>2, <4>1, <4>3 DEF Types, InOrder
    <3>4. QED
      BY <3>2, <3>3
  <2>3. Texts' = Texts
    BY <1>2 DEF Texts
  <2>4. Types'
    BY <1>1, <1>2, <1>3, <1>5, <2>1, <2>2, <2>3 DEF Types
  <2>5. /\ Passed(value, at, phase = "entering")' = Passed(value, at, TRUE) \cup {at}
        /\ \A p \in Passed(value, at, TRUE) : value[p].kind # "key" => Len(p) =< MaxDepth
    <3>1. Passed(value, at, phase = "entering")' = Passed(value, at, FALSE)
      BY <1>2 DEF Passed
    <3>2. Passed(value, at, FALSE) = Passed(value, at, TRUE) \cup {at}
      BY <1>3, PassedReturns DEF Here
    <3>3. QED
      BY <1>1, <3>1, <3>2 DEF Going
  <2>6. matched' = Passed(value, at, phase = "entering")' \cap Texts'
    BY <1>3, <1>4, <2>1, <2>3, <2>5
  <2>7. budget' = MaxChars - TotalCost(matched)'
    <3>1. TotalCost(matched)' = TotalCost(matched \cup {at})
      BY <1>2, <2>1, TotalIsSum
    <3>2. QED
      BY <1>5, <3>1
  <2>8. \A p \in Passed(value, at, phase = "entering")' :
            value'[p].kind # "key" => Len(p) =< MaxDepth
    BY <1>2, <2>5 DEF Here
  <2>9. Going'
    BY <1>7, <2>2, <2>6, <2>7, <2>8 DEF Going
  <2>10. QED
    BY <1>1, <2>1, <2>2, <2>4, <2>9 DEF IInv
<1>8. QED
  BY <1>5, <1>6, <1>7

\* A step of the loop, or into or out of a part without a text: it passes
\* nothing, or that part.
LEMMA LoopGoesOn ==
    ASSUME IInv, ~ stop, Types',
           UNCHANGED <<value, budget, findings, stop, matched>>,
           NEW passed \in SUBSET {at},
           at \in passed =>
               Here.kind \notin {"text", "key"} /\ Len(at) =< MaxDepth,
           Passed(value', at', phase' = "entering")
               = Passed(value, at, phase = "entering") \cup passed
    PROVE  IInv'
<1>1. Going /\ InOrder
  BY DEF IInv
<1>2. Texts' = Texts /\ passed \cap Texts = {}
  BY DEF Texts, Here
<1>3. matched' = Passed(value', at', phase' = "entering") \cap Texts'
  BY <1>1, <1>2 DEF Going
<1>4. budget' = MaxChars - TotalCost(matched)' /\ budget' >= 0
  <2>1. TotalCost(matched)' = TotalCost(matched)
    BY TotalIsSum
  <2>2. QED
    BY <1>1, <2>1 DEF Going
<1>5. Tells(Len(findings), matched)'
  BY <1>1 DEF Going, Tells
<1>6. \A p \in Passed(value', at', phase' = "entering") :
          value'[p].kind # "key" => Len(p) =< MaxDepth
  BY <1>1 DEF Going
<1>7. Going'
  BY <1>3, <1>4, <1>5, <1>6 DEF Going
<1>8. QED
  BY <1>1, <1>7 DEF IInv, InOrder

\* Once the walk has stopped it only returns.
LEMMA LoopStopped ==
    ASSUME IInv, stop, Types', UNCHANGED <<value, findings, stop, matched>>
    PROVE  IInv'
<1>1. Stopped /\ InOrder /\ Texts' = Texts
  BY DEF IInv, Texts
<1>2. Tells(Len(findings) - 1, matched)'
  BY <1>1 DEF Stopped, Tells
<1>3. /\ TotalCost(matched)' = TotalCost(matched)
      /\ TotalCost(matched \cup {findings[Len(findings)].at})'
             = TotalCost(matched \cup {findings[Len(findings)].at})
  BY TotalIsSum
<1>4. Stopped'
  BY <1>1, <1>2, <1>3 DEF Stopped
<1>5. QED
  BY <1>1, <1>4 DEF IInv, InOrder
-----------------------------------------------------------------------------
LEMMA WalkBegins == Init => IInv
<1> SUFFICES ASSUME Init
             PROVE  IInv
  OBVIOUS
<1>1. /\ value \in Values /\ at = <<>> /\ phase = "entering" /\ budget = MaxChars
      /\ findings = <<>> /\ stop = FALSE /\ matched = {}
  BY DEF Init
<1>2. IsTree(value)
  BY <1>1, ScannerAssumption
<1>3. at \in DOMAIN value
  BY <1>1, <1>2 DEF IsTree
<1>4. Types
  <2>1. Len(at) = 0 /\ findings \in Seq([rule : Rule, at : DOMAIN value])
    BY <1>1, EmptySeq
  <2>2. budget \in Int /\ Len(at) =< MaxDepth + 1
    BY <1>1, <2>1, ScannerAssumption
  <2>3. matched \subseteq Texts
    BY <1>1
  <2>4. QED
    BY <1>1, <1>3, <2>1, <2>2, <2>3 DEF Types
<1>5. TotalCost(matched) = 0
  BY <1>1, <1>2, SumProperties, TotalIsSum
<1>6. Passed(value, at, phase = "entering") = {}
  BY <1>1, PassedBegins DEF Passed
<1>7. Going
  BY <1>1, <1>5, <1>6, ScannerAssumption DEF Going, Tells
<1>8. InOrder
  BY <1>1 DEF InOrder
<1>9. QED
  BY <1>1, <1>4, <1>7, <1>8 DEF IInv

LEMMA WalkSteps == IInv /\ [Next]_vars => IInv'
<1> SUFFICES ASSUME IInv, [Next]_vars
             PROVE  IInv'
  OBVIOUS
<1>1. /\ Types /\ IsTree(value) /\ at \in DOMAIN value
      /\ Here \in Part /\ (Here.kind # "container" => Here.width = 0)
      /\ at \in Place /\ Len(at) \in Nat
  BY PartHere DEF IInv, Types
<1>2. CASE ScansKey
  BY <1>2, TextScanned DEF ScansKey
<1>3. CASE WalksTooDeep
  <2>1. /\ phase = "entering" /\ Here.kind # "key" /\ Len(at) = MaxDepth + 1
        /\ Limit("excessive_nesting") /\ Returns /\ UNCHANGED matched
        /\ budget' \in Int
    BY <1>1, <1>3, ScannerAssumption DEF WalksTooDeep, Walks, Types
  <2>2. QED
    BY <2>1, LimitStops
<1>4. CASE WalksText
  BY <1>4, TextScanned DEF WalksText, Walks
<1>5. CASE WalksNothing
  <2>1. /\ phase = "entering" /\ phase' = "leaving" /\ ~ stop
        /\ Here.kind \notin {"text", "key"} /\ Here.width = 0 /\ Len(at) =< MaxDepth
        /\ UNCHANGED <<value, at, budget, findings, stop, matched>>
    BY <1>1, <1>5 DEF WalksNothing, Walks, Returns, Types
  <2>2. Types'
    BY <1>1, <2>1 DEF Types, Texts
  <2>3. Passed(value', at', phase' = "entering")
            = Passed(value, at, phase = "entering") \cup {at}
    <3>1. /\ Passed(value', at', phase' = "entering") = Passed(value, at, FALSE)
          /\ Passed(value, at, phase = "entering") = Passed(value, at, TRUE)
      BY <2>1 DEF Passed
    <3>2. QED
      BY <1>1, <2>1, <3>1, PassedReturns DEF Here
  <2>4. QED
    BY <2>1, <2>2, <2>3, LoopGoesOn
<1>6. CASE Opens
  <2>1. /\ phase = "entering" /\ ~ stop /\ at' = Append(at, 1)
        /\ Here.kind \notin {"text", "key"} /\ Here.width > 0 /\ Len(at) =< MaxDepth
        /\ UNCHANGED <<value, phase, budget, findings, stop, matched>>
    BY <1>1, <1>6 DEF Opens, Walks, Types
  <2>2. at' \in DOMAIN value
    <3>1. 1 \in 1..Here.width
      BY <1>1, <2>1 DEF Part
    <3>2. QED
      BY <1>1, <2>1, <3>1, TreePlaces DEF Here
  <2>3. Len(at') = Len(at) + 1
    BY <1>1, <2>1, PlaceOfChild
  <2>4. Types'
    BY <1>1, <2>1, <2>2, <2>3, ScannerAssumption DEF Types, Texts
  <2>5. Passed(value', at', phase' = "entering")
            = Passed(value, at, phase = "entering") \cup {at}
    <3>1. /\ Passed(value', at', phase' = "entering") = Passed(value, Append(at, 1), TRUE)
          /\ Passed(value, at, phase = "entering") = Passed(value, at, TRUE)
      BY <2>1 DEF Passed
    <3>2. QED
      <4>1. Passed(value, Append(at, 1), TRUE) = Passed(value, at, TRUE) \cup {at}
        BY <1>1, PassedOpens
      <4>2. QED
        BY <3>1, <4>1
  <2>6. QED
    BY <2>1, <2>4, <2>5, LoopGoesOn
<1>7. CASE GoesOn
  <2>1. /\ phase = "leaving" /\ phase' = "entering" /\ at # <<>> /\ ~ stop
        /\ at' = Append(Front(at), Last(at) + 1)
        /\ Last(at) < value[Front(at)].width
        /\ UNCHANGED <<value, budget, findings, stop, matched>>
    BY <1>7 DEF GoesOn
  <2>2. /\ Front(at) \in DOMAIN value /\ value[Front(at)].width \in Nat
        /\ Front(at) \in Place /\ Last(at) \in Nat \ {0}
        /\ Len(Front(at)) = Len(at) - 1
    BY <1>1, <2>1, TreePlaces, PlaceOfParent DEF Part
  <2>3. at' \in DOMAIN value
    <3>1. Last(at) + 1 \in 1..value[Front(at)].width
      BY <2>1, <2>2
    <3>2. QED
      BY <1>1, <2>1, <2>2, <3>1, TreePlaces
  <2>4. Len(at') = Len(at)
    <3>1. Last(at) + 1 \in Nat \ {0}
      BY <2>2
    <3>2. Len(at') = Len(Front(at)) + 1
      BY <2>1, <2>2, <3>1, PlaceOfChild
    <3>3. QED
      BY <1>1, <2>2, <3>2
  <2>5. Types'
    BY <1>1, <2>1, <2>3, <2>4 DEF Types, Texts
  <2>6. Passed(value', at', phase' = "entering") = Passed(value, at, phase = "entering")
    <3>1. /\ Passed(value', at', phase' = "entering")
                = Passed(value, Append(Front(at), Last(at) + 1), TRUE)
          /\ Passed(value, at, phase = "entering") = Passed(value, at, FALSE)
      BY <2>1 DEF Passed
    <3>2. QED
      BY <1>1, <2>1, <3>1, PassedGoesOn
  <2>7. Passed(value', at', phase' = "entering")
            = Passed(value, at, phase = "entering") \cup {} /\ {} \in SUBSET {at}
    BY <2>6
  <2>8. QED
    BY <2>1, <2>5, <2>7, LoopGoesOn
<1>8. CASE Closes
  <2>1. /\ phase = "leaving" /\ phase' = "leaving" /\ at # <<>> /\ at' = Front(at)
        /\ stop \/ Last(at) >= value[Front(at)].width
        /\ UNCHANGED <<value, phase, budget, findings, stop, matched>>
    BY <1>8 DEF Closes
  <2>2. Front(at) \in DOMAIN value /\ Len(Front(at)) = Len(at) - 1
    BY <1>1, <2>1, TreePlaces, PlaceOfParent
  <2>3. Types'
    BY <1>1, <2>1, <2>2, ScannerAssumption DEF Types, Texts
  <2>4. CASE stop
    BY <2>1, <2>3, <2>4, LoopStopped
  <2>5. CASE ~ stop
    <3>1. /\ Passed(value', at', phase' = "entering") = Passed(value, Front(at), FALSE)
          /\ Passed(value, at, phase = "entering") = Passed(value, at, FALSE)
      BY <2>1 DEF Passed
    <3>2. Passed(value', at', phase' = "entering")
              = Passed(value, at, phase = "entering") \cup {} /\ {} \in SUBSET {at}
      BY <1>1, <2>1, <2>5, <3>1, PassedCloses
    <3>3. QED
      BY <2>1, <2>3, <2>5, <3>2, LoopGoesOn
  <2>6. QED
    BY <2>4, <2>5
<1>9. CASE Ends
  <2>1. /\ phase = "leaving" /\ phase' = "done" /\ at = <<>>
        /\ UNCHANGED <<value, at, budget, findings, stop, matched>>
    BY <1>9 DEF Ends
  <2>2. Types'
    BY <1>1, <2>1 DEF Types, Texts
  <2>3. CASE stop
    BY <2>1, <2>2, <2>3, LoopStopped
  <2>4. CASE ~ stop
    <3>1. Passed(value', at', phase' = "entering")
              = Passed(value, at, phase = "entering") \cup {} /\ {} \in SUBSET {at}
      BY <2>1 DEF Passed
    <3>2. QED
      BY <2>1, <2>2, <2>4, <3>1, LoopGoesOn
  <2>5. QED
    BY <2>3, <2>4
<1>10. CASE UNCHANGED vars
  <2>1. UNCHANGED <<value, at, phase, budget, findings, stop, matched>>
    BY <1>10 DEF vars
  <2>2. Types'
    BY <1>1, <2>1 DEF Types, Texts
  <2>3. CASE stop
    BY <2>1, <2>2, <2>3, LoopStopped
  <2>4. CASE ~ stop
    <3>1. Passed(value', at', phase' = "entering")
              = Passed(value, at, phase = "entering") \cup {} /\ {} \in SUBSET {at}
      BY <2>1 DEF Passed
    <3>2. QED
      BY <2>1, <2>2, <2>4, <3>1, LoopGoesOn
  <2>5. QED
    BY <2>3, <2>4
<1>11. QED
  BY <1>2, <1>3, <1>4, <1>5, <1>6, <1>7, <1>8, <1>9, <1>10 DEF Next, Finished

LEMMA WalkInv == Spec => []IInv
BY WalkBegins, WalkSteps, PTL DEF Spec
-----------------------------------------------------------------------------
LEMMA FindingsThere ==
    ASSUME Types
    PROVE  /\ DOMAIN findings = 1..Len(findings) /\ Len(findings) \in Nat
           /\ \A i \in DOMAIN findings : findings[i].at \in DOMAIN value
<1> DEFINE R == [rule : Rule, at : DOMAIN value]
<1>1. findings \in Seq(R) /\ \A f \in R : f.at \in DOMAIN value
  BY DEF Types
<1> HIDE DEF R
<1>2. /\ DOMAIN findings = 1..Len(findings) /\ Len(findings) \in Nat
      /\ \A i \in 1..Len(findings) : findings[i] \in R
  BY <1>1, ElementOfSeq
<1>3. QED
  BY <1>1, <1>2

\* A walk that ends without a limit has passed everything.
LEMMA AllPassed ==
    ASSUME IInv, phase = "done", ~ stop
    PROVE  /\ matched = Texts /\ TotalCost(Texts) =< MaxChars
           /\ Tells(Len(findings), Texts)
           /\ \A p \in DOMAIN value : value[p].kind # "key" => Len(p) =< MaxDepth
<1>1. Types /\ Going /\ at = <<>> /\ IsTree(value)
  BY PartHere DEF IInv, Types
<1>2. Passed(value, at, phase = "entering") = DOMAIN value
  <2>1. Passed(value, at, phase = "entering") = Passed(value, <<>>, FALSE)
    BY <1>1 DEF Passed
  <2>2. QED
    BY <1>1, <2>1, PassedEnds
<1>3. matched = Texts
  BY <1>1, <1>2 DEF Going, Texts
<1>4. TotalCost(Texts) \in Nat
  BY <1>1, SumProperties, TotalIsSum DEF Texts
<1>5. TotalCost(Texts) =< MaxChars
  <2>1. budget = MaxChars - TotalCost(Texts) /\ budget >= 0
    BY <1>1, <1>3 DEF Going
  <2>2. QED
    BY <1>4, <2>1, ScannerAssumption
<1>6. /\ Tells(Len(findings), matched)
      /\ \A p \in Passed(value, at, phase = "entering") :
             value[p].kind # "key" => Len(p) =< MaxDepth
  BY <1>1 DEF Going
<1>7. QED
  BY <1>2, <1>3, <1>5, <1>6

\* The walk of any value, with any budget and depth, reports something if and
\* only if a text of the value is dirty, the texts do not fit the budget or a
\* part lies too deep.
THEOREM BlockedExactlyHolds == Spec => []BlockedExactly
<1>1. IInv => BlockedExactly
  <2> SUFFICES ASSUME IInv, phase = "done"
               PROVE  (findings # <<>>) <=>
                        \/ \E p \in Texts : value[p].dirty
                        \/ TotalCost(Texts) > MaxChars
                        \/ \E p \in DOMAIN value : /\ value[p].kind # "key"
                                                   /\ Len(p) > MaxDepth
    BY DEF BlockedExactly
  <2>1. /\ Types /\ DOMAIN findings = 1..Len(findings) /\ Len(findings) \in Nat
        /\ \A i \in DOMAIN findings : findings[i].at \in DOMAIN value
    BY FindingsThere DEF IInv
  <2>2. \A p \in DOMAIN value : Len(p) \in Nat
    BY <2>1, PartHere, TreePlaces
  <2>3. CASE ~ stop
    <3>1. /\ matched = Texts /\ TotalCost(Texts) =< MaxChars
          /\ Tells(Len(findings), Texts)
          /\ \A p \in DOMAIN value : value[p].kind # "key" => Len(p) =< MaxDepth
      BY <2>3, AllPassed
    <3>2. TotalCost(Texts) \in Nat
      BY <2>1, PartHere, SumProperties, TotalIsSum DEF Texts
    <3>3. ~ TotalCost(Texts) > MaxChars
      BY <3>1, <3>2, ScannerAssumption
    <3>4. ~ \E p \in DOMAIN value : value[p].kind # "key" /\ Len(p) > MaxDepth
      BY <2>2, <3>1, ScannerAssumption
    <3>5. (findings # <<>>) <=> \E p \in Texts : value[p].dirty
      <4>1. findings # <<>> <=> 1..Len(findings) # {}
        BY <2>1, EmptySeq DEF Types
      <4>2. 1..Len(findings) # {} <=> {findings[i].at : i \in 1..Len(findings)} # {}
        OBVIOUS
      <4>3. QED
        BY <3>1, <4>1, <4>2 DEF Tells
    <3>6. QED
      BY <3>3, <3>4, <3>5
  <2>4. CASE stop
    <3> DEFINE limit == findings[Len(findings)]
    <3>1. /\ findings # <<>> /\ matched \subseteq Texts
          /\ \/ /\ limit.at \in Texts
                /\ TotalCost(matched \cup {limit.at}) > MaxChars
             \/ value[limit.at].kind # "key" /\ Len(limit.at) = MaxDepth + 1
      BY <2>4 DEF IInv, Stopped
    <3>2. limit.at \in DOMAIN value
      <4>1. Len(findings) \in DOMAIN findings
        BY <2>1, <3>1, EmptySeq DEF Types
      <4>2. QED
        BY <2>1, <4>1
    <3> HIDE DEF limit
    <3>3. CASE limit.at \in Texts /\ TotalCost(matched \cup {limit.at}) > MaxChars
      <4> DEFINE seen == matched \cup {limit.at}
      <4>1. seen \subseteq Texts /\ Texts \subseteq DOMAIN value /\ seen \subseteq DOMAIN value
        BY <3>1, <3>3 DEF Texts
      <4>2. /\ TotalCost(seen) =< TotalCost(Texts)
            /\ TotalCost(seen) \in Nat /\ TotalCost(Texts) \in Nat
        <5> HIDE DEF seen
        <5>1. IsTree(value)
          BY <2>1, PartHere
        <5>2. QED
          BY <4>1, <5>1, SumProperties, TotalIsSum
      <4>3. TotalCost(seen) > MaxChars
        BY <3>3
      <4> HIDE DEF seen
      <4>4. TotalCost(Texts) > MaxChars
        BY <4>2, <4>3, ScannerAssumption
      <4>5. QED
        BY <3>1, <4>4
    <3>4. CASE value[limit.at].kind # "key" /\ Len(limit.at) = MaxDepth + 1
      <4>1. Len(limit.at) > MaxDepth
        BY <3>4, ScannerAssumption
      <4>2. QED
        BY <3>1, <3>2, <3>4, <4>1
    <3>5. QED
      BY <3>1, <3>3, <3>4
  <2>5. QED
    BY <2>3, <2>4
<1>2. QED
  BY <1>1, WalkInv, PTL

\* The findings of any walk are those of the dirty texts up to the first
\* limit, in document order, and then that limit; the rules saw just those
\* texts.
THEOREM FindingsExactHolds == Spec => []FindingsExact
<1>1. IInv => FindingsExact
  <2> SUFFICES ASSUME IInv, phase = "done"
               PROVE  FindingsExact
    BY DEF FindingsExact
  <2> DEFINE n == Len(findings)
             limit == findings[n]
  <2>1. /\ Types /\ InOrder /\ DOMAIN findings = 1..n /\ n \in Nat
        /\ \A i \in DOMAIN findings : findings[i].at \in DOMAIN value
    BY FindingsThere DEF IInv
  <2>2. CASE ~ stop
    <3>1. matched = Texts /\ Tells(n, Texts)
      BY <2>2, AllPassed
    <3>2. Limits = {}
      BY <2>1, <3>1 DEF Limits, Tells
    <3>3. Before = Texts
      BY <3>2 DEF Before
    <3>4. {findings[i].at : i \in DOMAIN findings \ Limits}
              = {p \in Before : value[p].dirty}
      <4>1. DOMAIN findings \ Limits = 1..n
        BY <2>1, <3>2
      <4>2. {findings[i].at : i \in DOMAIN findings \ Limits} = {findings[i].at : i \in 1..n}
        BY <4>1
      <4>3. QED
        BY <3>1, <3>3, <4>2 DEF Tells
    <3>5. QED
      BY <2>1, <3>1, <3>2, <3>3, <3>4 DEF FindingsExact, InOrder
  <2>3. CASE stop
    <3>1. /\ findings # <<>> /\ matched = {p \in Texts : Precedes(p, limit.at)}
          /\ \/ /\ limit.rule = "oversized_payload" /\ limit.at \in Texts
                /\ TotalCost(matched \cup {limit.at}) > MaxChars
             \/ /\ limit.rule = "excessive_nesting"
                /\ value[limit.at].kind # "key" /\ Len(limit.at) = MaxDepth + 1
          /\ Tells(n - 1, matched)
      BY <2>3 DEF IInv, Stopped
    <3>2. n \in DOMAIN findings /\ limit.rule # "rule"
      <4>1. n # 0
        BY <2>1, <3>1, EmptySeq DEF Types
      <4>2. QED
        BY <2>1, <3>1, <4>1
    <3>3. DOMAIN findings = (1..n - 1) \cup {n}
      BY <2>1, <3>2
    <3>4. Limits = {n}
      BY <3>1, <3>2, <3>3 DEF Limits, Tells
    <3> HIDE DEF n, limit
    <3>5. Before = matched
      BY <3>1, <3>4 DEF Before, limit
    <3>6. {findings[i].at : i \in DOMAIN findings \ Limits}
              = {p \in Before : value[p].dirty}
      <4>1. DOMAIN findings \ Limits = 1..n - 1
        BY <2>1, <3>3, <3>4
      <4>2. {findings[i].at : i \in DOMAIN findings \ Limits}
                = {findings[i].at : i \in 1..n - 1}
        BY <4>1
      <4>3. QED
        BY <3>1, <3>5, <4>2 DEF Tells
    <3>7. \A i, j \in DOMAIN findings :
              i < j => i \notin Limits /\ Precedes(findings[i].at, findings[j].at)
      <4>1. \A i, j \in DOMAIN findings : i < j => i # n
        BY <2>1
      <4>2. QED
        BY <2>1, <3>4, <4>1 DEF InOrder
    <3>8. ASSUME NEW i \in Limits
          PROVE  LET f == findings[i]
                 IN \/ /\ f.rule = "oversized_payload" /\ f.at \in Texts
                       /\ TotalCost(Before \cup {f.at}) > MaxChars
                    \/ f.rule = "excessive_nesting" /\ Len(f.at) = MaxDepth + 1
      <4>1. findings[i] = limit
        BY <3>4 DEF limit
      <4>2. QED
        BY <3>1, <3>5, <4>1
    <3>9. QED
      BY <3>5, <3>6, <3>7, <3>8 DEF FindingsExact
  <2>4. QED
    BY <2>2, <2>3
<1>2. QED
  BY <1>1, WalkInv, PTL

\* At every step of a walk, the texts the rules have run over fit the budget.
THEOREM WorkBoundedHolds == Spec => []WorkBounded
<1>1. IInv => WorkBounded
  <2> SUFFICES ASSUME IInv
               PROVE  TotalCost(matched) =< MaxChars
    BY DEF WorkBounded
  <2>1. CASE stop
    BY <2>1 DEF IInv, Stopped
  <2>2. CASE ~ stop
    <3>1. Types /\ IsTree(value) /\ matched \subseteq DOMAIN value
      BY PartHere DEF IInv, Types, Texts
    <3>2. TotalCost(matched) \in Nat
      BY <3>1, SumProperties, TotalIsSum
    <3>3. QED
      BY <2>2, <3>2, ScannerAssumption DEF IInv, Going
  <2>3. QED
    BY <2>1, <2>2
<1>2. QED
  BY <1>1, WalkInv, PTL
=============================================================================
