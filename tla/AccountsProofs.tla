--------------------------- MODULE AccountsProofs ---------------------------
(***************************************************************************)
(* Proofs about Accounts, for any users, keys, clients, login limit and    *)
(* number of restarts.                                                     *)
(***************************************************************************)
EXTENDS Accounts, SlidingWindowProofs, FiniteSetTheorems

Time == 0..MaxTime

\* What the login limiter leaves behind for a client, whatever it answers.
LEMMA AfterLive ==
    ASSUME NEW s \in Seq(Time), NEW t \in Time
    PROVE  After(Live(s, t), t) \in Seq(Time) /\ Append(s, t) \in Seq(Time)
<1>1. Time \in SUBSET Nat /\ t \in Nat
  BY AccountsAssumption DEF Time
<1>2. Live(s, t) \in Seq(Time)
  BY <1>1, LiveIsSuffix
<1>3. QED
  BY <1>2, AppendProperties DEF After

\* One login of a client: the deque and the history stay sequences of times.
LEMMA GuessTypes ==
    ASSUME TypeOK, NEW c \in Client
    PROVE  /\ Attempts(c) => attempts' \in [Client -> Seq(Time)]
           /\ guesses' = [guesses EXCEPT ![c] = Append(@, mono)]
                 => guesses' \in [Client -> Seq(Time)]
<1>1. mono \in Time /\ attempts[c] \in Seq(Time) /\ guesses[c] \in Seq(Time)
  BY DEF TypeOK, Time
<1>2. /\ After(Live(attempts[c], mono), mono) \in Seq(Time)
      /\ Append(guesses[c], mono) \in Seq(Time)
  BY <1>1, AfterLive
<1>3. QED
  BY <1>2 DEF TypeOK, Time, Attempts, LiveAttempts, LimiterClock

\* The record of an audited answer.
Answer == [op : {"none", "login", "request", "endpoint"},
           row : {"written", "lost", "none"}]

LEMMA AuditsTypes ==
    ASSUME NEW op \in {"login", "request"}, Audits(op)
    PROVE  last' \in Answer
BY DEF Audits, Answer

\* A new session belongs to a registered user.
LEMMA OpensTypes ==
    ASSUME TypeOK, NEW s \in Session, NEW u \in User, Opens(s, u), keys[u] # None
    PROVE  /\ sessions' \in [Session -> SessionRow \cup {None}]
           /\ \A r \in Session :
                 sessions'[r] # None => keys[sessions'[r].user] # None
<1>1. wall + Lifetime \in Nat
  BY AccountsAssumption DEF TypeOK
<1>2. [user |-> u, expires |-> wall + Lifetime, revoked |-> FALSE] \in SessionRow
  BY <1>1 DEF SessionRow
<1>3. QED
  BY <1>2 DEF TypeOK, Opens

\* Whatever operators, callers, both clocks and restarts do, the state keeps
\* its shape and every session is that of a registered user: sessions are
\* opened only for accounts that exist, and accounts are never removed.
THEOREM AccountsTypeCorrect == Spec => []TypeOK
<1> USE AccountsAssumption DEF Time
<1>1. Init => TypeOK
  BY DEF Init, TypeOK
<1>2. TypeOK /\ [Next]_vars => TypeOK'
  <2> SUFFICES ASSUME TypeOK, [Next]_vars
               PROVE  TypeOK'
    OBVIOUS
  <2>1. ASSUME NEW u \in User, NEW k \in Key, CreatesUser(u, k)
        PROVE  TypeOK'
    <3>1. CASE keys[u] = None
      <4>1. /\ keys' = [keys EXCEPT ![u] = k]
            /\ printed' \in SUBSET (User \X Key)
            /\ UNCHANGED <<mono, wall, sessions, attempts, guesses, boots, last>>
        BY <2>1, <3>1 DEF CreatesUser, StoresKey, TypeOK
      <4>2. \A s \in Session : sessions[s] # None => keys'[sessions[s].user] # None
        BY <4>1 DEF TypeOK, SessionRow
      <4>3. QED
        BY <4>1, <4>2 DEF TypeOK
    <3>2. CASE keys[u] # None
      BY <2>1, <3>2 DEF CreatesUser, StoresKey, TypeOK
    <3>3. QED
      BY <3>1, <3>2
  <2>2. ASSUME NEW c \in Client, LoginRefused(c)
        PROVE  TypeOK'
    BY <2>2, GuessTypes, AuditsTypes DEF LoginRefused, TypeOK, Answer
  <2>3. ASSUME NEW c \in Client, NEW u \in User, NEW k \in Key, LoginFails(c, u, k)
        PROVE  TypeOK'
    BY <2>3, GuessTypes, AuditsTypes DEF LoginFails, Guess, TypeOK, Answer
  <2>4. ASSUME NEW c \in Client, NEW u \in User, NEW k \in Key, LoginBreaks(c, u, k)
        PROVE  TypeOK'
    BY <2>4, GuessTypes DEF LoginBreaks, Guess, TypeOK
  <2>5. ASSUME NEW c \in Client, NEW u \in User, NEW k \in Key, NEW s \in Session,
               LoginSucceeds(c, u, k, s)
        PROVE  TypeOK'
    <3>1. keys[u] # None
      BY <2>5 DEF LoginSucceeds, Matches
    <3>2. /\ sessions' \in [Session -> SessionRow \cup {None}]
          /\ \A r \in Session :
                sessions'[r] # None => keys[sessions'[r].user] # None
      BY <2>5, <3>1, OpensTypes DEF LoginSucceeds
    <3>3. last' \in Answer
      BY <2>5, AuditsTypes DEF LoginSucceeds
    <3>4. /\ attempts' \in [Client -> Seq(Time)]
          /\ guesses' \in [Client -> Seq(Time)]
          /\ UNCHANGED <<mono, wall, keys, printed, boots>>
      BY <2>5, GuessTypes DEF LoginSucceeds, Guess
    <3>5. QED
      BY <3>2, <3>3, <3>4 DEF TypeOK, Answer
  <2>6. ASSUME NEW s \in Session, RequestRejected(s) \/ EndpointRejected(s)
        PROVE  TypeOK'
    BY <2>6 DEF RequestRejected, EndpointRejected, Audits, TypeOK
  <2>7. ASSUME NEW s \in Session, Revokes(s)
        PROVE  TypeOK'
    <3>1. sessions[s] \in SessionRow
      BY <2>7 DEF Revokes, TypeOK
    <3>2. [sessions[s] EXCEPT !.revoked = TRUE] \in SessionRow
      BY <3>1 DEF SessionRow
    <3>3. [sessions[s] EXCEPT !.revoked = TRUE].user = sessions[s].user
      BY <3>1 DEF SessionRow
    <3>4. QED
      BY <2>7, <3>2, <3>3 DEF Revokes, TypeOK
  <2>8. ASSUME Restarts
        PROVE  TypeOK'
    <3>1. /\ attempts' \in [Client -> Seq(Time)]
          /\ boots' \in Seq(Time)
      BY <2>8, AppendProperties DEF Restarts, TypeOK
    <3>2. CASE UNCHANGED <<sessions, guesses>>
      BY <2>8, <3>1, <3>2 DEF Restarts, TypeOK
    <3>3. ASSUME NEW c \in Client, NEW s \in Session, NEW u \in User, NEW k \in Key,
                 Matches(u, k), Opens(s, u),
                 guesses' = [guesses EXCEPT ![c] = Append(@, mono)]
          PROVE  TypeOK'
      <4>1. keys[u] # None
        BY <3>3 DEF Matches
      <4>2. guesses' \in [Client -> Seq(Time)]
        BY <3>3, GuessTypes
      <4>3. QED
        BY <2>8, <3>1, <3>3, <4>1, <4>2, OpensTypes DEF Restarts, TypeOK
    <3>4. QED
      BY <2>8, <3>2, <3>3 DEF Restarts
  <2>9. CASE Tick
    BY <2>9 DEF Tick, TypeOK
  <2>10. CASE ClockSet
    BY <2>10 DEF ClockSet, TypeOK
  <2>11. CASE UNCHANGED vars
    BY <2>11 DEF vars, TypeOK
  <2>12. QED
    BY <2>1, <2>2, <2>3, <2>4, <2>5, <2>6, <2>7, <2>8, <2>9, <2>10, <2>11
    DEF Next, Login
<1>3. QED
  BY <1>1, <1>2, PTL DEF Spec
-----------------------------------------------------------------------------
\* A key once shown to an operator works for ever: registering the same user
\* again, from any number of processes, neither replaces it nor prints another.
THEOREM PrintedKeysWorkHolds == Spec => []PrintedKeysWork
<1>1. Init => PrintedKeysWork
  BY DEF Init, PrintedKeysWork
<1>2. PrintedKeysWork /\ TypeOK /\ [Next]_vars => PrintedKeysWork'
  <2> SUFFICES ASSUME PrintedKeysWork, TypeOK, [Next]_vars
               PROVE  PrintedKeysWork'
    OBVIOUS
  <2>1. ASSUME NEW u \in User, NEW k \in Key, CreatesUser(u, k)
        PROVE  PrintedKeysWork'
    <3>1. CASE keys[u] = None
      <4>1. k # None
        BY AccountsAssumption
      <4>2. keys' = [keys EXCEPT ![u] = k] /\ printed' = printed \cup {<<u, k>>}
        BY <2>1, <3>1 DEF CreatesUser, StoresKey
      <4>3. \A p \in printed : p[1] # u /\ p[1] \in User
        BY <3>1 DEF PrintedKeysWork, Matches, TypeOK
      <4>4. QED
        BY <4>1, <4>2, <4>3 DEF PrintedKeysWork, Matches, TypeOK
    <3>2. CASE keys[u] # None
      BY <2>1, <3>2 DEF CreatesUser, StoresKey, PrintedKeysWork, Matches
    <3>3. QED
      BY <3>1, <3>2
  <2>2. CASE UNCHANGED <<keys, printed>>
    BY <2>2 DEF PrintedKeysWork, Matches
  <2>3. QED
    BY <2>1, <2>2 DEF Next, Login, LoginRefused, LoginFails, LoginBreaks,
       LoginSucceeds, RequestRejected, EndpointRejected, Revokes, Restarts, Tick,
       ClockSet, vars
<1>3. QED
  BY <1>1, <1>2, AccountsTypeCorrect, PTL DEF Spec
-----------------------------------------------------------------------------
(***************************************************************************)
(* The bound on guesses, for any number of restarts.                       *)
(*                                                                         *)
(* After a time t, a client had at most MaxRequests keys compared by each  *)
(* process that ended after t, and by the running one as many as its       *)
(* deque holds.  That is inductive for every t the deque still covers; the *)
(* property is the instance where t is the start of the window.            *)
(***************************************************************************)
Count(s, t) == Cardinality({i \in DOMAIN s : s[i] > t})

Budgeted ==
    \A c \in Client :
        /\ Len(attempts[c]) =< MaxRequests
        /\ \A i \in DOMAIN guesses[c] : guesses[c][i] =< mono
        /\ \A t \in Int : t >= Cutoff(mono) =>
              Count(guesses[c], t)
                  =< MaxRequests * Count(boots, t) + Count(attempts[c], t)

\* Counting the late elements of a sequence of times.
LEMMA CountBounds ==
    ASSUME NEW s \in Seq(Time), NEW t \in Int
    PROVE  /\ IsFiniteSet({i \in DOMAIN s : s[i] > t})
           /\ Count(s, t) \in Nat
           /\ Count(s, t) =< Len(s)
<1>1. Len(s) \in Nat /\ DOMAIN s = 1..Len(s)
  BY LenProperties
<1>2. IsFiniteSet(1..Len(s)) /\ Cardinality(1..Len(s)) = Len(s)
  BY <1>1, FS_Interval
<1>3. {i \in DOMAIN s : s[i] > t} \in SUBSET (1..Len(s))
  BY <1>1
<1>4. QED
  BY <1>2, <1>3, FS_Subset, FS_CardinalityType DEF Count

LEMMA CountNone ==
    ASSUME NEW s \in Seq(Time), NEW t \in Int, \A i \in DOMAIN s : s[i] =< t
    PROVE  Count(s, t) = 0
<1>1. ASSUME NEW i \in DOMAIN s PROVE ~(s[i] > t)
  <2>1. s[i] \in Time
    BY ElementOfSeq, LenProperties
  <2>2. QED
    BY <2>1, AccountsAssumption DEF Time
<1>2. {i \in DOMAIN s : s[i] > t} = {}
  BY <1>1
<1>3. QED
  BY <1>2, FS_EmptySet DEF Count

LEMMA CountAppend ==
    ASSUME NEW s \in Seq(Time), NEW x \in Time, NEW t \in Int
    PROVE  Count(Append(s, x), t) = Count(s, t) + (IF x > t THEN 1 ELSE 0)
<1> DEFINE late == {i \in DOMAIN s : s[i] > t}
           n == Len(s) + 1
<1>1. Len(s) \in Nat /\ DOMAIN s = 1..Len(s)
  BY LenProperties
<1>2. /\ DOMAIN Append(s, x) = 1..n
      /\ Append(s, x)[n] = x
      /\ \A i \in 1..Len(s) : Append(s, x)[i] = s[i]
  BY <1>1, AppendProperties, LenProperties
<1>3. IsFiniteSet(late) /\ n \notin late
  BY <1>1, CountBounds
<1>4. {i \in DOMAIN Append(s, x) : Append(s, x)[i] > t}
        = IF x > t THEN late \cup {n} ELSE late
  BY <1>1, <1>2
<1>5. Cardinality(late \cup {n}) = Cardinality(late) + 1
  BY <1>3, FS_AddElement
<1>6. Cardinality(late) \in Nat
  BY <1>3, FS_CardinalityType
<1>7. Count(s, t) = Cardinality(late)
  BY DEF Count
<1>8. Count(Append(s, x), t) = Cardinality(IF x > t THEN late \cup {n} ELSE late)
  BY <1>4 DEF Count
<1> HIDE DEF late, n
<1>9. QED
  BY <1>5, <1>6, <1>7, <1>8

\* Dropping the expired hits loses none that a window still open counts.
LEMMA CountLive ==
    ASSUME NEW s \in Seq(Time), NEW now \in Time,
           NEW t \in Int, t >= Cutoff(now)
    PROVE  /\ Live(s, now) \in Seq(Time)
           /\ Len(Live(s, now)) =< Len(s)
           /\ Count(s, t) =< Count(Live(s, now), t)
<1>1. Time \in SUBSET Nat /\ now \in Nat /\ Cutoff(now) \in Int
  BY AccountsAssumption, WindowPolicy DEF Time, Cutoff
<1>2. PICK n \in 0..Len(s) :
              /\ Live(s, now) \in Seq(Time)
              /\ Len(Live(s, now)) = Len(s) - n
              /\ \A i \in 1..Len(s) - n : Live(s, now)[i] = s[i + n]
              /\ \A j \in 1..n : s[j] =< Cutoff(now)
  BY <1>1, LiveIsSuffix
<1> DEFINE live == Live(s, now)
           old == {i \in DOMAIN s : s[i] > t}
           new == {i \in DOMAIN live : live[i] > t}
           shift == [i \in old |-> i - n]
<1> HIDE DEF live
<1>3. /\ Len(s) \in Nat /\ DOMAIN s = 1..Len(s)
      /\ live \in Seq(Time) /\ DOMAIN live = 1..Len(s) - n
      /\ n \in Nat
  BY <1>2, LenProperties DEF live
<1>4. ASSUME NEW i \in old PROVE i - n \in new
  <2>1. i \in 1..Len(s) /\ s[i] \in Nat /\ s[i] > t
    BY <1>1, <1>3, ElementOfSeq
  <2>2. ~(i =< n)
    BY <1>1, <1>2, <2>1
  <2>3. i - n \in 1..Len(s) - n /\ (i - n) + n = i
    BY <1>3, <2>1, <2>2
  <2>4. live[i - n] = s[i]
    BY <1>2, <2>3 DEF live
  <2>5. QED
    BY <1>3, <2>1, <2>3, <2>4
<1>5. \A i, j \in old : i - n = j - n => i = j
  BY <1>3
<1>6. shift \in Injection(old, new)
  BY <1>4, <1>5 DEF Injection, IsInjective
<1>7. IsFiniteSet(new)
  BY <1>3, CountBounds
<1>8. Cardinality(old) =< Cardinality(new)
  BY <1>6, <1>7, FS_Injection
<1>9. QED
  BY <1>2, <1>3, <1>8 DEF Count, live

\* One more process, each with its MaxRequests.
LEMMA OneMore == \A n \in Nat : /\ MaxRequests * n \in Nat
                                /\ MaxRequests * (n + 1) = MaxRequests * n + MaxRequests
BY WindowPolicy

LEMMA BudgetedInit == Init => Budgeted
<1> SUFFICES ASSUME Init, NEW c \in Client, NEW t \in Int
             PROVE  /\ Len(<<>>) = 0 /\ DOMAIN <<>> = {}
                    /\ Count(<<>>, t) =< MaxRequests * Count(<<>>, t) + Count(<<>>, t)
  BY WindowPolicy DEF Init, Budgeted
<1>1. Count(<<>>, t) = 0
  BY FS_EmptySet DEF Count
<1>2. QED
  BY <1>1, WindowPolicy

\* A login whose key is compared: the deque and the history gain the same hit.
LEMMA GuessKeepsBudget ==
    ASSUME Budgeted, TypeOK, NEW c \in Client, Guess(c), UNCHANGED <<mono, boots>>
    PROVE  Budgeted'
<1>1. /\ mono \in Time /\ mono \in Nat /\ Cutoff(mono) \in Int
      /\ attempts[c] \in Seq(Time) /\ guesses[c] \in Seq(Time) /\ boots \in Seq(Time)
  BY AccountsAssumption, WindowPolicy DEF TypeOK, Time, Cutoff
<1> DEFINE live == Live(attempts[c], mono)
<1>2. /\ live \in Seq(Time) /\ Len(live) < MaxRequests
      /\ attempts' = [attempts EXCEPT ![c] = Append(live, mono)]
      /\ guesses' = [guesses EXCEPT ![c] = Append(guesses[c], mono)]
  BY <1>1, CountLive DEF Guess, Attempts, LiveAttempts, LimiterClock, HasRoom, After
<1> HIDE DEF live
<1>3. SUFFICES ASSUME NEW d \in Client
               PROVE  /\ Len(attempts'[d]) =< MaxRequests
                      /\ \A i \in DOMAIN guesses'[d] : guesses'[d][i] =< mono
                      /\ \A t \in Int : t >= Cutoff(mono) =>
                            Count(guesses'[d], t)
                               =< MaxRequests * Count(boots, t) + Count(attempts'[d], t)
  BY DEF Budgeted
<1>4. CASE d # c
  BY <1>2, <1>4 DEF Budgeted, TypeOK
<1>5. CASE d = c
  <2>1. attempts'[d] = Append(live, mono) /\ guesses'[d] = Append(guesses[c], mono)
    BY <1>2, <1>5 DEF TypeOK
  <2>2. Len(Append(live, mono)) = Len(live) + 1 /\ Len(live) \in Nat
    BY <1>1, <1>2, AppendProperties, LenProperties
  <2>3. ASSUME NEW i \in DOMAIN Append(guesses[c], mono)
        PROVE  Append(guesses[c], mono)[i] =< mono
    <3>1. Len(guesses[c]) \in Nat /\ DOMAIN guesses[c] = 1..Len(guesses[c])
      BY <1>1, LenProperties
    <3>2. i \in 1..Len(guesses[c]) + 1
      BY <1>1, <3>1, AppendProperties, LenProperties
    <3>3. CASE i = Len(guesses[c]) + 1
      BY <1>1, <3>3, AppendProperties
    <3>4. CASE i \in 1..Len(guesses[c])
      BY <1>1, <3>1, <3>4, AppendProperties DEF Budgeted
    <3>5. QED
      BY <3>1, <3>2, <3>3, <3>4
  <2>4. ASSUME NEW t \in Int, t >= Cutoff(mono)
        PROVE  Count(Append(guesses[c], mono), t)
                  =< MaxRequests * Count(boots, t) + Count(Append(live, mono), t)
    <3>1. Count(guesses[c], t) =< MaxRequests * Count(boots, t) + Count(attempts[c], t)
      BY <2>4 DEF Budgeted
    <3>2. Count(attempts[c], t) =< Count(live, t)
      BY <1>1, <2>4, CountLive DEF live
    <3>3. /\ Count(guesses[c], t) \in Nat /\ Count(attempts[c], t) \in Nat
          /\ Count(live, t) \in Nat /\ MaxRequests * Count(boots, t) \in Nat
      BY <1>1, <1>2, CountBounds, OneMore
    <3>4. /\ Count(Append(guesses[c], mono), t)
                = Count(guesses[c], t) + (IF mono > t THEN 1 ELSE 0)
          /\ Count(Append(live, mono), t)
                = Count(live, t) + (IF mono > t THEN 1 ELSE 0)
      BY <1>1, <1>2, CountAppend
    <3>5. QED
      BY <3>1, <3>2, <3>3, <3>4
  <2>5. Len(attempts'[d]) =< MaxRequests
    BY <1>2, <2>1, <2>2, WindowPolicy
  <2>6. \A i \in DOMAIN guesses'[d] : guesses'[d][i] =< mono
    BY <2>1, <2>3
  <2>7. \A t \in Int : t >= Cutoff(mono) =>
            Count(guesses'[d], t)
               =< MaxRequests * Count(boots, t) + Count(attempts'[d], t)
    BY <2>1, <2>4
  <2>8. QED
    BY <2>5, <2>6, <2>7
<1>6. QED
  BY <1>4, <1>5

\* A refused login records nothing.
LEMMA RefusedKeepsBudget ==
    ASSUME Budgeted, TypeOK, NEW c \in Client, LoginRefused(c)
    PROVE  Budgeted'
<1>1. /\ mono \in Time /\ Cutoff(mono) \in Int
      /\ \A d \in Client : attempts[d] \in Seq(Time) /\ guesses[d] \in Seq(Time)
      /\ boots \in Seq(Time)
  BY AccountsAssumption, WindowPolicy DEF TypeOK, Time, Cutoff
<1>2. attempts' = [attempts EXCEPT ![c] = Live(attempts[c], mono)]
  BY DEF LoginRefused, Attempts, LiveAttempts, LimiterClock, After
<1>3. SUFFICES ASSUME NEW d \in Client
               PROVE  /\ Len(attempts'[d]) =< Len(attempts[d])
                      /\ Len(attempts'[d]) \in Nat /\ Len(attempts[d]) \in Nat
                      /\ \A t \in Int : t >= Cutoff(mono) =>
                            /\ Count(attempts[d], t) =< Count(attempts'[d], t)
                            /\ Count(attempts[d], t) \in Nat
                            /\ Count(attempts'[d], t) \in Nat
  <2>1. \A t \in Int : \A d \in Client :
            Count(guesses[d], t) \in Nat /\ MaxRequests * Count(boots, t) \in Nat
    BY <1>1, CountBounds, OneMore
  <2>2. UNCHANGED <<mono, guesses, boots>>
    BY DEF LoginRefused
  <2>3. \A d \in Client : Len(attempts'[d]) =< MaxRequests
    <3>1. ASSUME NEW d \in Client
          PROVE  Len(attempts'[d]) =< MaxRequests
      <4>1. Len(attempts[d]) =< MaxRequests
        BY DEF Budgeted
      <4>2. QED
        BY <1>3, <4>1, WindowPolicy
    <3>2. QED
      BY <3>1
  <2>4. \A d \in Client : \A t \in Int : t >= Cutoff(mono) =>
            Count(guesses[d], t)
               =< MaxRequests * Count(boots, t) + Count(attempts'[d], t)
    <3>1. ASSUME NEW d \in Client, NEW t \in Int, t >= Cutoff(mono)
          PROVE  Count(guesses[d], t)
                    =< MaxRequests * Count(boots, t) + Count(attempts'[d], t)
      <4>1. Count(guesses[d], t) =< MaxRequests * Count(boots, t) + Count(attempts[d], t)
        BY <3>1 DEF Budgeted
      <4>2. /\ Count(attempts[d], t) =< Count(attempts'[d], t)
            /\ Count(attempts[d], t) \in Nat /\ Count(attempts'[d], t) \in Nat
        BY <1>3, <3>1
      <4>3. Count(guesses[d], t) \in Nat /\ MaxRequests * Count(boots, t) \in Nat
        BY <2>1
      <4>4. QED
        BY <4>1, <4>2, <4>3
    <3>2. QED
      BY <3>1
  <2>5. QED
    BY <2>2, <2>3, <2>4 DEF Budgeted
<1>4. attempts'[d] = (IF d = c THEN Live(attempts[d], mono) ELSE attempts[d])
  BY <1>2 DEF TypeOK
<1>5. Cutoff(mono) >= Cutoff(mono)
  BY <1>1
<1>6. Live(attempts[d], mono) \in Seq(Time)
      /\ Len(Live(attempts[d], mono)) =< Len(attempts[d])
  BY <1>1, <1>5, CountLive
<1>7. \A t \in Int : t >= Cutoff(mono) =>
          Count(attempts[d], t) =< Count(Live(attempts[d], mono), t)
  BY <1>1, CountLive
<1>8. attempts'[d] \in Seq(Time) /\ attempts[d] \in Seq(Time)
  BY <1>1, <1>4, <1>6
<1>9. Len(attempts'[d]) \in Nat /\ Len(attempts[d]) \in Nat
  BY <1>8, LenProperties
<1>10. Len(attempts'[d]) =< Len(attempts[d])
  BY <1>4, <1>6, <1>9
<1>11. ASSUME NEW t \in Int, t >= Cutoff(mono)
       PROVE  /\ Count(attempts[d], t) \in Nat
              /\ Count(attempts'[d], t) \in Nat
              /\ Count(attempts[d], t) =< Count(attempts'[d], t)
  <2>1. Count(attempts[d], t) \in Nat /\ Count(attempts'[d], t) \in Nat
    BY <1>8, CountBounds
  <2>2. QED
    BY <1>4, <1>7, <1>11, <2>1
<1>12. QED
  BY <1>9, <1>10, <1>11

\* A restart empties the deques, and begins another process's budget.
LEMMA RestartKeepsBudget ==
    ASSUME Budgeted, TypeOK, Restarts
    PROVE  Budgeted'
<1>1. /\ mono \in Time /\ mono \in Nat /\ Cutoff(mono) \in Int
      /\ \A c \in Client : attempts[c] \in Seq(Time) /\ guesses[c] \in Seq(Time)
      /\ boots \in Seq(Time)
      /\ boots' = Append(boots, mono)
      /\ mono' = mono
      /\ attempts' = [c \in Client |-> <<>>]
  BY AccountsAssumption, WindowPolicy DEF TypeOK, Time, Cutoff, Restarts
<1>2. SUFFICES ASSUME NEW c \in Client
               PROVE  /\ \A i \in DOMAIN guesses'[c] : guesses'[c][i] =< mono
                      /\ \A t \in Int : t >= Cutoff(mono) =>
                            Count(guesses'[c], t) =< MaxRequests * Count(boots', t)
  <2>1. \A t \in Int : Count(<<>>, t) = 0
    BY FS_EmptySet DEF Count
  <2>2. boots' \in Seq(Time)
    BY <1>1, AfterLive
  <2>3. ASSUME NEW c \in Client, NEW t \in Int, t >= Cutoff(mono)
        PROVE  Count(guesses'[c], t)
                  =< MaxRequests * Count(boots', t) + Count(attempts'[c], t)
    <3>1. Count(attempts'[c], t) = 0
      BY <1>1, <2>1
    <3>2. MaxRequests * Count(boots', t) \in Nat
      BY <2>2, CountBounds, OneMore
    <3>3. Count(guesses'[c], t) =< MaxRequests * Count(boots', t)
      BY <1>2, <2>3
    <3>4. QED
      BY <3>1, <3>2, <3>3
  <2>4. \A c \in Client : Len(attempts'[c]) =< MaxRequests
    BY <1>1, WindowPolicy
  <2>5. QED
    BY <1>1, <1>2, <2>3, <2>4 DEF Budgeted
<1>3. \/ guesses'[c] = guesses[c]
      \/ guesses'[c] = Append(guesses[c], mono) /\ HasRoom(LiveAttempts(c))
  BY DEF Restarts, TypeOK
<1>4. guesses'[c] \in Seq(Time)
  BY <1>1, <1>3, AfterLive
<1>5. ASSUME NEW i \in DOMAIN guesses'[c]
      PROVE  guesses'[c][i] =< mono
  <2>1. CASE guesses'[c] = guesses[c]
    BY <2>1, <1>5 DEF Budgeted
  <2>2. CASE guesses'[c] = Append(guesses[c], mono)
    <3>1. Len(guesses[c]) \in Nat /\ DOMAIN guesses[c] = 1..Len(guesses[c])
      BY <1>1, LenProperties
    <3>2. i \in 1..Len(guesses[c]) + 1
      BY <1>1, <1>5, <2>2, <3>1, AppendProperties, LenProperties
    <3>3. CASE i = Len(guesses[c]) + 1
      BY <1>1, <2>2, <3>3, AppendProperties
    <3>4. CASE i \in 1..Len(guesses[c])
      BY <1>1, <2>2, <3>1, <3>4, AppendProperties DEF Budgeted
    <3>5. QED
      BY <3>1, <3>2, <3>3, <3>4
  <2>3. QED
    BY <1>3, <2>1, <2>2
<1>6. ASSUME NEW t \in Int, t >= Cutoff(mono)
      PROVE  Count(guesses'[c], t) =< MaxRequests * Count(boots', t)
  <2>1. /\ Count(boots', t) = Count(boots, t) + (IF mono > t THEN 1 ELSE 0)
        /\ Count(boots, t) \in Nat
    BY <1>1, CountAppend, CountBounds
  <2>2. CASE mono > t
    <3>1. /\ MaxRequests * Count(boots', t)
                = MaxRequests * Count(boots, t) + MaxRequests
          /\ MaxRequests * Count(boots, t) \in Nat
      BY <2>1, <2>2, OneMore
    <3>2. Count(guesses[c], t) =< MaxRequests * Count(boots, t) + Count(attempts[c], t)
      BY <1>6 DEF Budgeted
    <3>3. /\ Count(attempts[c], t) =< Len(attempts[c]) /\ Len(attempts[c]) =< MaxRequests
          /\ Count(attempts[c], t) \in Nat /\ Count(guesses[c], t) \in Nat
          /\ Len(attempts[c]) \in Nat
      BY <1>1, CountBounds, LenProperties DEF Budgeted
    <3>4. CASE guesses'[c] = guesses[c]
      BY <3>1, <3>2, <3>3, <3>4, WindowPolicy
    <3>5. CASE guesses'[c] = Append(guesses[c], mono) /\ HasRoom(LiveAttempts(c))
      <4>1. Count(guesses'[c], t) = Count(guesses[c], t) + 1
        BY <1>1, <2>2, <3>5, CountAppend
      <4>2. /\ Count(attempts[c], t) =< Count(Live(attempts[c], mono), t)
            /\ Live(attempts[c], mono) \in Seq(Time)
        BY <1>1, <1>6, CountLive
      <4>3. /\ Count(Live(attempts[c], mono), t) =< Len(Live(attempts[c], mono))
            /\ Count(Live(attempts[c], mono), t) \in Nat
            /\ Len(Live(attempts[c], mono)) \in Nat
        BY <4>2, CountBounds, LenProperties
      <4>4. Len(Live(attempts[c], mono)) < MaxRequests
        BY <3>5 DEF HasRoom, LiveAttempts, LimiterClock
      <4>5. QED
        BY <3>1, <3>2, <3>3, <4>1, <4>2, <4>3, <4>4, WindowPolicy
    <3>6. QED
      BY <1>3, <3>4, <3>5
  <2>3. CASE ~(mono > t)
    <3>1. \A i \in DOMAIN guesses'[c] : guesses'[c][i] =< t
      <4>1. ASSUME NEW i \in DOMAIN guesses'[c]
            PROVE  guesses'[c][i] =< t
        <5>1. guesses'[c][i] \in Nat
          BY <1>4, <4>1, ElementOfSeq, LenProperties, AccountsAssumption DEF Time
        <5>2. QED
          BY <1>1, <1>5, <2>3, <5>1
      <4>2. QED
        BY <4>1
    <3>2. Count(guesses'[c], t) = 0
      BY <1>4, <3>1, CountNone
    <3>3. Count(boots', t) = Count(boots, t)
      BY <2>1, <2>3
    <3>4. QED
      BY <2>1, <3>2, <3>3, OneMore
  <2>4. QED
    BY <2>2, <2>3
<1>7. QED
  BY <1>5, <1>6

LEMMA BudgetedStep == Budgeted /\ TypeOK /\ [Next]_vars => Budgeted'
<1> SUFFICES ASSUME Budgeted, TypeOK, [Next]_vars
             PROVE  Budgeted'
  OBVIOUS
<1>1. ASSUME NEW c \in Client, LoginRefused(c)
      PROVE  Budgeted'
  BY <1>1, RefusedKeepsBudget
<1>2. ASSUME NEW c \in Client, NEW u \in User, NEW k \in Key,
             \/ LoginFails(c, u, k)
             \/ LoginBreaks(c, u, k)
             \/ \E s \in Session : LoginSucceeds(c, u, k, s)
      PROVE  Budgeted'
  <2>1. Guess(c) /\ UNCHANGED <<mono, boots>>
    BY <1>2 DEF LoginFails, LoginBreaks, LoginSucceeds
  <2>2. QED
    BY <2>1, GuessKeepsBudget
<1>3. CASE Restarts
  BY <1>3, RestartKeepsBudget
<1>4. CASE Tick
  <2>1. mono \in Nat /\ mono' = mono + 1 /\ Cutoff(mono) \in Int /\ Cutoff(mono') \in Int
    BY <1>4, AccountsAssumption, WindowPolicy DEF Tick, TypeOK, Cutoff
  <2>2. \A t \in Int : t >= Cutoff(mono') => t >= Cutoff(mono)
    BY <2>1, WindowPolicy DEF Cutoff
  <2>3. \A c \in Client : \A i \in DOMAIN guesses[c] : guesses[c][i] =< mono'
    <3>1. ASSUME NEW c \in Client, NEW i \in DOMAIN guesses[c]
          PROVE  guesses[c][i] =< mono'
      <4>1. guesses[c] \in Seq(Time)
        BY DEF TypeOK, Time
      <4>2. guesses[c][i] \in Nat
        BY <4>1, ElementOfSeq, LenProperties, AccountsAssumption DEF Time
      <4>3. QED
        BY <2>1, <4>2 DEF Budgeted
    <3>2. QED
      BY <3>1
  <2>4. UNCHANGED <<attempts, guesses, boots>>
    BY <1>4 DEF Tick
  <2>5. QED
    BY <2>2, <2>3, <2>4 DEF Budgeted
<1>5. CASE UNCHANGED <<mono, attempts, guesses, boots>>
  BY <1>5 DEF Budgeted
<1>6. QED
  BY <1>1, <1>2, <1>3, <1>4, <1>5 DEF Next, Login, CreatesUser, RequestRejected,
     EndpointRejected, Revokes, ClockSet, vars

\* However callers, both clocks and restarts interleave, a client has at most
\* MaxRequests keys compared in any window for each process that served in it.
THEOREM GuessesBoundedHolds == Spec => []GuessesBounded
<1>1. Budgeted /\ TypeOK => GuessesBounded
  <2> SUFFICES ASSUME Budgeted, TypeOK, NEW c \in Client
               PROVE  Count(guesses[c], mono - Window)
                         =< MaxRequests * (1 + Count(boots, mono - Window))
    BY DEF GuessesBounded, InWindow, Count
  <2> DEFINE t == Cutoff(mono)
  <2>1. /\ t \in Int /\ t >= Cutoff(mono) /\ t = mono - Window
        /\ attempts[c] \in Seq(Time) /\ guesses[c] \in Seq(Time) /\ boots \in Seq(Time)
    BY AccountsAssumption, WindowPolicy DEF TypeOK, Time, Cutoff
  <2> HIDE DEF t
  <2>2. Count(guesses[c], t) =< MaxRequests * Count(boots, t) + Count(attempts[c], t)
    BY <2>1 DEF Budgeted
  <2>3. /\ Count(attempts[c], t) =< Len(attempts[c]) /\ Len(attempts[c]) =< MaxRequests
        /\ Count(attempts[c], t) \in Nat /\ Count(guesses[c], t) \in Nat
        /\ Len(attempts[c]) \in Nat /\ Count(boots, t) \in Nat
    BY <2>1, CountBounds, LenProperties DEF Budgeted
  <2>4. /\ MaxRequests * Count(boots, t) \in Nat
        /\ MaxRequests * (Count(boots, t) + 1) = MaxRequests * Count(boots, t) + MaxRequests
    BY <2>3, OneMore
  <2>5. Count(guesses[c], t) =< MaxRequests * (Count(boots, t) + 1)
    BY <2>2, <2>3, <2>4, WindowPolicy
  <2>6. Count(boots, t) + 1 = 1 + Count(boots, t)
    BY <2>3
  <2>7. QED
    BY <2>1, <2>5, <2>6
<1>2. QED
  BY <1>1, BudgetedInit, BudgetedStep, AccountsTypeCorrect, PTL DEF Spec
=============================================================================
