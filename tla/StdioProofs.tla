----------------------------- MODULE StdioProofs -----------------------------
(***************************************************************************)
(* Proofs about StdioUpstream, for any number of handlers, any set of      *)
(* definitions, every way of paging them and every cap.                    *)
(***************************************************************************)
EXTENDS StdioUpstream, FiniteSetTheorems, TLAPS

HandlerState == [pc : {"idle", "paging", "listed", "calling"}, cursor : Nat,
                 left : 0..PageCap, got : [Definition -> 0..2]]

\* What the server declares at the moment.
Offered == UNION {layout[i] : i \in DOMAIN layout}

LEMMA LayoutType ==
    ASSUME NEW l \in Layouts
    PROVE  /\ Len(l) \in Nat \ {0}
           /\ DOMAIN l = 1..Len(l)
           /\ \A i \in 1..Len(l) : l[i] \subseteq Definition
           /\ UNION {l[i] : i \in DOMAIN l} \subseteq Definition
<1>1. l \in Seq(SUBSET Definition) /\ l # <<>>
  BY StdioAssumption
<1>2. Len(l) \in Nat \ {0} /\ DOMAIN l = 1..Len(l)
  BY <1>1
<1>3. \A i \in 1..Len(l) : l[i] \subseteq Definition
  BY <1>1
<1>4. QED
  BY <1>2, <1>3

LEMMA IdleType ==
    /\ Idle \in HandlerState
    /\ \A pc \in {"paging", "calling"} : [Idle EXCEPT !.pc = pc] \in HandlerState
BY StdioAssumption DEF Idle, Empty, HandlerState

\* The two ways a page can leave a fetch: done, or one page further.
Turned(h, next, left, got) ==
    IF IsLast(next, left)
    THEN [handlers[h] EXCEPT !.pc = "listed", !.got = got]
    ELSE [handlers[h] EXCEPT !.cursor = next, !.left = left, !.got = got]

Added(h) == [d \in Definition |-> IF d \in PageItems(handlers[h].cursor)
                                  THEN AtMostTwo(handlers[h].got[d] + 1)
                                  ELSE handlers[h].got[d]]

LEMMA PageTurns ==
    ASSUME TypeOK, NEW h \in Handler, PageArrives(h)
    PROVE  handlers' = [handlers EXCEPT ![h] =
               Turned(h, PageCursor(handlers[h].cursor),
                      Remaining(handlers[h].left), Added(h))]
BY DEF PageArrives, Turned, Added
-----------------------------------------------------------------------------
(***************************************************************************)
(* The type invariant.  It needs to know that the loop still has a page to *)
(* fetch while it runs.                                                    *)
(***************************************************************************)
Going == \A h \in Handler : handlers[h].pc = "paging" => handlers[h].left > 0

LEMMA AddedType ==
    ASSUME TypeOK, NEW h \in Handler
    PROVE  Added(h) \in [Definition -> 0..2]
<1>1. handlers[h].got \in [Definition -> 0..2]
  BY DEF TypeOK
<1>2. QED
  BY <1>1 DEF Added, AtMostTwo

LEMMA PageTurnsType ==
    ASSUME TypeOK, Going, NEW h \in Handler, PageArrives(h)
    PROVE  /\ handlers' \in [Handler -> HandlerState]
           /\ handlers'[h].pc = "paging" => handlers'[h].left > 0
<1> DEFINE k == handlers[h]
           next == PageCursor(k.cursor)
           left == Remaining(k.left)
           got == Added(h)
<1>1. k \in HandlerState /\ k.pc = "paging" /\ k.left > 0
  BY DEF TypeOK, HandlerState, PageArrives, Going
<1>2. left \in 0..PageCap
  BY <1>1, StdioAssumption DEF Remaining, HandlerState
<1>3. next # NoCursor => next \in Nat
  BY <1>1, LayoutType DEF PageCursor, HandlerState, TypeOK
<1>4. got \in [Definition -> 0..2]
  BY AddedType
<1>5. handlers' = [handlers EXCEPT ![h] = Turned(h, next, left, got)]
  BY PageTurns
<1> HIDE DEF next, left, got
<1>6. /\ Turned(h, next, left, got) \in HandlerState
      /\ Turned(h, next, left, got).pc = "paging"
             => Turned(h, next, left, got).left > 0
  <2>1. CASE IsLast(next, left)
    BY <1>1, <1>4, <2>1 DEF Turned, HandlerState
  <2>2. CASE ~IsLast(next, left)
    <3>1. next \in Nat /\ left > 0
      BY <1>2, <1>3, <2>2 DEF IsLast
    <3>2. QED
      BY <1>1, <1>2, <1>4, <2>2, <3>1 DEF Turned, HandlerState
  <2>3. QED
    BY <2>1, <2>2
<1>7. QED
  BY <1>5, <1>6 DEF TypeOK, HandlerState

\* The steps of the connector and of the server's process.
Lifecycle == Starts \/ Spawns \/ Initialized \/ StartFails \/ Stops \/ Unwound
                \/ ServerDies

\* The steps that put a handler into a state that is no fetch.
Leaves(h) == BeginsCall(h) \/ CallReturns(h) \/ Raises(h)

LEMMA LifecycleLeavesHandlers ==
    Lifecycle => UNCHANGED <<handlers, layout, endless, declared, quiet>>
BY DEF Lifecycle, Starts, Spawns, Initialized, StartFails, Stops, Unwound,
       ServerDies, server, history

LEMMA LeavesToIdle ==
    ASSUME NEW h \in Handler, Leaves(h), TypeOK
    PROVE  /\ UNCHANGED <<life, child, layout, endless, declared, quiet>>
           /\ \E pc \in {"idle", "calling"} :
                 handlers' = [handlers EXCEPT ![h] = [Idle EXCEPT !.pc = pc]]
<1>1. Idle = [Idle EXCEPT !.pc = "idle"]
  BY DEF Idle
<1>2. QED
  BY <1>1 DEF Leaves, BeginsCall, CallReturns, Raises, server, history

\* Every step is one of these.
LEMMA StepCases ==
    [Next]_vars => \/ Lifecycle
                   \/ \E h \in Handler : BeginsList(h) \/ PageArrives(h) \/ Leaves(h)
                   \/ \E l \in Layouts, e \in BOOLEAN : ServerChanges(l, e)
                   \/ UNCHANGED vars
BY DEF Next, Lifecycle, Leaves, Finished

LEMMA TypeInit == Init => TypeOK /\ Going
<1> SUFFICES ASSUME Init PROVE TypeOK /\ Going
  OBVIOUS
<1>1. handlers \in [Handler -> HandlerState]
  BY IdleType DEF Init
<1>2. Going
  BY DEF Init, Going, Idle
<1>3. QED
  BY <1>1, <1>2 DEF Init, TypeOK, HandlerState

LEMMA TypeStep == TypeOK /\ Going /\ [Next]_vars => TypeOK' /\ Going'
<1> SUFFICES ASSUME TypeOK, Going, [Next]_vars PROVE TypeOK' /\ Going'
  OBVIOUS
<1>1. CASE Lifecycle
  <2>1. /\ life' \in {"new", "starting", "open", "unwinding", "stopped"}
        /\ child' \in {"none", "running", "exited"}
    BY <1>1 DEF TypeOK, Lifecycle, Starts, Spawns, Initialized, StartFails,
                AfterFailedStart, Stops, Unwound, ServerDies
  <2>2. QED
    BY <1>1, <2>1, LifecycleLeavesHandlers DEF TypeOK, Going
<1>2. ASSUME NEW h \in Handler, BeginsList(h)
      PROVE  TypeOK' /\ Going'
  <2>1. handlers' = [handlers EXCEPT ![h] = [Idle EXCEPT !.pc = "paging"]]
    BY <1>2 DEF BeginsList, Fetch
  <2>2. handlers' \in [Handler -> HandlerState]
    BY <2>1, IdleType DEF TypeOK, HandlerState
  <2>3. Going'
    BY <2>1, StdioAssumption DEF Going, Idle, TypeOK
  <2>4. declared' \in [Handler -> SUBSET Definition]
    BY <1>2, LayoutType DEF BeginsList, TypeOK
  <2>5. QED
    BY <1>2, <2>2, <2>3, <2>4 DEF BeginsList, TypeOK, HandlerState, server
<1>3. ASSUME NEW h \in Handler, PageArrives(h)
      PROVE  TypeOK' /\ Going'
  <2>1. /\ handlers' \in [Handler -> HandlerState]
        /\ handlers'[h].pc = "paging" => handlers'[h].left > 0
    BY <1>3, PageTurnsType
  <2>2. \A other \in Handler \ {h} : handlers'[other] = handlers[other]
    BY <1>3, PageTurns DEF TypeOK
  <2>3. Going'
    BY <2>1, <2>2 DEF Going
  <2>4. QED
    BY <1>3, <2>1, <2>3 DEF PageArrives, TypeOK, HandlerState, server, history
<1>4. ASSUME NEW h \in Handler, Leaves(h)
      PROVE  TypeOK' /\ Going'
  <2>1. PICK pc \in {"idle", "calling"} :
            handlers' = [handlers EXCEPT ![h] = [Idle EXCEPT !.pc = pc]]
    BY <1>4, LeavesToIdle
  <2>2. [Idle EXCEPT !.pc = pc] \in HandlerState
    BY IdleType DEF HandlerState, Idle
  <2>3. handlers' \in [Handler -> HandlerState] /\ Going'
    BY <2>1, <2>2 DEF TypeOK, HandlerState, Going, Idle
  <2>4. QED
    BY <1>4, <2>3, LeavesToIdle DEF TypeOK, HandlerState
<1>5. ASSUME NEW l \in Layouts, NEW e \in BOOLEAN, ServerChanges(l, e)
      PROVE  TypeOK' /\ Going'
  <2>1. declared' \in [Handler -> SUBSET Definition]
    BY <1>5, LayoutType DEF ServerChanges, TypeOK
  <2>2. QED
    BY <1>5, <2>1 DEF ServerChanges, TypeOK, Going
<1>6. CASE UNCHANGED vars
  BY <1>6 DEF vars, TypeOK, Going
<1>7. QED
  BY <1>1, <1>2, <1>3, <1>4, <1>5, <1>6, StepCases

\* The connector, its handlers and what they hold keep their types; no fetch
\* runs on when its pages are used up.
THEOREM TypeCorrect == Spec => []TypeOK
BY TypeInit, TypeStep, PTL DEF Spec
-----------------------------------------------------------------------------
\* Once start() has failed or stop() has returned, no server process is left,
\* wherever in start() it failed.
THEOREM NoOrphansHolds == Spec => []NoOrphans
<1>1. Init => NoOrphans
  BY DEF Init, NoOrphans
<1>2. TypeOK /\ NoOrphans /\ [Next]_vars => NoOrphans'
  <2> SUFFICES ASSUME TypeOK, NoOrphans, [Next]_vars PROVE NoOrphans'
    OBVIOUS
  <2>1. CASE Lifecycle
    BY <2>1 DEF TypeOK, NoOrphans, Lifecycle, Starts, Spawns, Initialized,
                StartFails, AfterFailedStart, Stops, Unwound, ServerDies
  <2>2. ASSUME NEW h \in Handler, BeginsList(h) \/ PageArrives(h) \/ Leaves(h)
        PROVE  UNCHANGED <<life, child>>
    BY <2>2, LeavesToIdle DEF BeginsList, PageArrives
  <2>3. ASSUME NEW l \in Layouts, NEW e \in BOOLEAN, ServerChanges(l, e)
        PROVE  UNCHANGED <<life, child>>
    BY <2>3 DEF ServerChanges
  <2>4. QED
    BY <2>1, <2>2, <2>3, StepCases DEF NoOrphans, vars
<1>3. QED
  BY <1>1, <1>2, TypeCorrect, PTL DEF Spec
-----------------------------------------------------------------------------
(***************************************************************************)
(* Every list is recent.                                                   *)
(***************************************************************************)
Held(h) == {d \in Definition : handlers[h].got[d] > 0}

Recent == \A h \in Handler :
    /\ handlers[h].pc \in {"paging", "listed"} => Held(h) \subseteq declared[h]
    /\ handlers[h].pc = "paging" => Offered \subseteq declared[h]

LEMMA PageKeepsRecent ==
    ASSUME TypeOK, Recent, NEW h \in Handler, PageArrives(h)
    PROVE  Recent'
<1> DEFINE next == PageCursor(handlers[h].cursor)
           left == Remaining(handlers[h].left)
           got == Added(h)
<1>1. /\ handlers' = [handlers EXCEPT ![h] = Turned(h, next, left, got)]
      /\ UNCHANGED <<layout, declared>>
  BY PageTurns DEF PageArrives, server, history
<1>2. /\ handlers[h] \in HandlerState /\ handlers[h].pc = "paging"
      /\ Held(h) \subseteq declared[h] /\ Offered \subseteq declared[h]
  BY DEF TypeOK, HandlerState, PageArrives, Recent
<1>3. PageItems(handlers[h].cursor) \subseteq declared[h]
  BY <1>2 DEF PageItems, Offered
<1>4. ASSUME NEW d \in Definition, got[d] > 0
      PROVE  d \in declared[h]
  <2>1. CASE d \in PageItems(handlers[h].cursor)
    BY <1>3, <2>1
  <2>2. CASE d \notin PageItems(handlers[h].cursor)
    BY <1>2, <1>4, <2>2 DEF Added, Held
  <2>3. QED
    BY <2>1, <2>2
<1> HIDE DEF next, left, got
<1>5. handlers'[h].got = got
  BY <1>1, <1>2 DEF TypeOK, Turned, HandlerState
<1>6. Held(h)' \subseteq declared'[h] /\ Offered' \subseteq declared'[h]
  BY <1>1, <1>2, <1>4, <1>5 DEF Held, Offered
<1>7. \A other \in Handler \ {h} : handlers'[other] = handlers[other]
  BY <1>1 DEF TypeOK
<1>8. QED
  BY <1>1, <1>6, <1>7 DEF Recent, Held, Offered

LEMMA RecentStep == TypeOK /\ Recent /\ [Next]_vars => Recent'
<1> SUFFICES ASSUME TypeOK, Recent, [Next]_vars PROVE Recent'
  OBVIOUS
<1>1. CASE UNCHANGED <<handlers, layout, declared>>
  BY <1>1 DEF Recent, Held, Offered
<1>2. ASSUME NEW h \in Handler, BeginsList(h)
      PROVE  Recent'
  <2>1. /\ handlers' = [handlers EXCEPT ![h] = [Idle EXCEPT !.pc = "paging"]]
        /\ declared' = [declared EXCEPT ![h] = Offered]
        /\ layout' = layout
    BY <1>2 DEF BeginsList, Fetch, Offered, server
  <2>2. Held(h)' = {}
    BY <2>1 DEF Held, Idle, Empty, TypeOK
  <2>3. QED
    BY <2>1, <2>2 DEF Recent, Held, Offered, TypeOK
<1>3. ASSUME NEW h \in Handler, Leaves(h)
      PROVE  Recent'
  <2>1. /\ UNCHANGED <<layout, declared>>
        /\ handlers'[h].pc \in {"idle", "calling"}
        /\ \A other \in Handler \ {h} : handlers'[other] = handlers[other]
    BY <1>3, LeavesToIdle DEF TypeOK, Idle
  <2>2. QED
    BY <2>1 DEF Recent, Held, Offered
<1>4. ASSUME NEW l \in Layouts, NEW e \in BOOLEAN, ServerChanges(l, e)
      PROVE  Recent'
  <2>1. /\ handlers' = handlers
        /\ \A h \in Handler : declared'[h] = declared[h] \cup Offered'
    BY <1>4 DEF ServerChanges, Offered
  <2>2. QED
    BY <2>1 DEF Recent, Held
<1>5. QED
  BY <1>1, <1>2, <1>3, <1>4, PageKeepsRecent, StepCases, LifecycleLeavesHandlers
     DEF vars

\* A list never has a definition that the server had already withdrawn when
\* the list was asked for, however its pages and its changes interleave.
THEOREM ListsAreRecentHolds == Spec => []ListsAreRecent
<1>1. Init => Recent
  BY DEF Init, Recent, Idle
<1>2. Recent => ListsAreRecent
  BY DEF Recent, ListsAreRecent, Held
<1>3. QED
  BY <1>1, <1>2, RecentStep, TypeCorrect, PTL DEF Spec
-----------------------------------------------------------------------------
(***************************************************************************)
(* A list from a server that keeps still is whole.  While the fetch runs   *)
(* it holds what the first n pages list, and its cursor is at the next.    *)
(***************************************************************************)
Times(d, n) == Cardinality({i \in 1..n : d \in Page(i)})

Fetched(h) == PageCap - handlers[h].left

InStepAt(h, n) ==
    /\ n + 1 =< Len(layout) \/ endless
    /\ handlers[h].cursor = IF n + 1 > Len(layout) THEN Len(layout) ELSE n + 1
    /\ handlers[h].got = [d \in Definition |-> AtMostTwo(Times(d, n))]

InStep == \A h \in Handler : handlers[h].pc = "paging" /\ quiet[h]
                                 => InStepAt(h, Fetched(h))

Whole == CompleteWhenQuiet /\ InStep

LEMMA TimesGrows ==
    ASSUME NEW d, NEW n \in Nat
    PROVE  /\ Times(d, n) \in Nat
           /\ Times(d, n + 1) = IF d \in Page(n + 1) THEN Times(d, n) + 1
                                                     ELSE Times(d, n)
<1> DEFINE On(m) == {i \in 1..m : d \in Page(i)}
<1>1. IsFiniteSet(1..n)
  BY FS_Interval
<1>2. IsFiniteSet(On(n))
  BY <1>1, FS_Subset
<1>3. n + 1 \notin On(n)
  OBVIOUS
<1>4. CASE d \in Page(n + 1)
  <2>1. On(n + 1) = On(n) \cup {n + 1}
    BY <1>4
  <2>2. QED
    BY <1>2, <1>3, <1>4, <2>1, FS_AddElement, FS_CardinalityType DEF Times
<1>5. CASE d \notin Page(n + 1)
  <2>1. On(n + 1) = On(n)
    BY <1>5
  <2>2. QED
    BY <1>2, <1>5, <2>1, FS_CardinalityType DEF Times
<1>6. QED
  BY <1>4, <1>5

LEMMA TimesNone == ASSUME NEW d PROVE Times(d, 0) = 0
<1>1. {i \in 1..0 : d \in Page(i)} = {}
  OBVIOUS
<1>2. QED
  BY <1>1, FS_EmptySet DEF Times

\* A fetch begins in step with the server.
LEMMA BeginsInStep ==
    ASSUME TypeOK, NEW h \in Handler, BeginsList(h)
    PROVE  InStepAt(h, Fetched(h))'
<1>1. /\ handlers'[h] = [Idle EXCEPT !.pc = "paging"]
      /\ layout' = layout
  BY DEF BeginsList, Fetch, TypeOK, server
<1>2. Fetched(h)' = 0
  BY <1>1, StdioAssumption DEF Fetched, Idle
<1>3. \A d \in Definition : Times(d, 0)' = 0
  <2>1. \A d : Times(d, 0) = 0
    BY TimesNone
  <2>2. QED
    BY <1>1, <2>1 DEF Times, Page
<1>4. handlers'[h].cursor = 1 /\ handlers'[h].got = Empty
  BY <1>1 DEF Idle
<1>5. Len(layout) >= 1
  BY LayoutType DEF TypeOK
<1>6. Empty = [d \in Definition |-> AtMostTwo(0)]
  BY DEF Empty, AtMostTwo
<1>7. QED
  BY <1>1, <1>2, <1>3, <1>4, <1>5, <1>6 DEF InStepAt

\* A page keeps it in step, and the last one makes the list whole.
LEMMA PageKeepsWhole ==
    ASSUME TypeOK, Going, Whole, NEW h \in Handler, PageArrives(h), quiet[h]
    PROVE  /\ handlers'[h].pc = "paging" => InStepAt(h, Fetched(h))'
           /\ handlers'[h].pc = "listed" =>
                 handlers'[h].got = [d \in Definition |->
                     AtMostTwo(Cardinality({i \in Pages : d \in Page(i)}))]
<1> DEFINE k == handlers[h]
           next == PageCursor(k.cursor)
           left == Remaining(k.left)
           got == Added(h)
<1>0. PICK n \in Nat : n = Fetched(h)
  BY StdioAssumption DEF Fetched, TypeOK
<1>1. /\ k \in HandlerState /\ k.pc = "paging" /\ k.left > 0
      /\ InStepAt(h, n)
  BY <1>0 DEF TypeOK, HandlerState, PageArrives, Going, Whole, InStep
<1>2. /\ handlers'[h] = Turned(h, next, left, got)
      /\ UNCHANGED <<layout, endless, quiet>>
  BY PageTurns DEF PageArrives, server, history, TypeOK
<1>3. /\ PageCap \in Nat /\ k.left \in 1..PageCap /\ left = k.left - 1
      /\ n = PageCap - k.left /\ PageCap - left = n + 1
  BY <1>0, <1>1, StdioAssumption DEF HandlerState, Remaining, Fetched
<1>4. Len(layout) \in Nat \ {0} /\ DOMAIN layout = 1..Len(layout)
  BY LayoutType DEF TypeOK
<1>5. PageItems(k.cursor) = Page(n + 1)
  BY <1>1, <1>3, <1>4 DEF InStepAt, PageItems, Page
<1>6. got = [d \in Definition |-> AtMostTwo(Times(d, n + 1))]
  <2>1. ASSUME NEW d \in Definition
        PROVE  got[d] = AtMostTwo(Times(d, n + 1))
    <3>1. k.got[d] = AtMostTwo(Times(d, n))
      BY <1>1 DEF InStepAt
    <3>2. Times(d, n) \in Nat
      BY <1>3, TimesGrows
    <3>3. CASE d \in Page(n + 1)
      <4>1. Times(d, n + 1) = Times(d, n) + 1
        BY <1>3, <3>3, TimesGrows
      <4>2. got[d] = AtMostTwo(AtMostTwo(Times(d, n)) + 1)
        BY <1>5, <3>1, <3>3 DEF Added
      <4>3. QED
        BY <3>2, <4>1, <4>2 DEF AtMostTwo
    <3>4. CASE d \notin Page(n + 1)
      <4>1. Times(d, n + 1) = Times(d, n)
        BY <1>3, <3>4, TimesGrows
      <4>2. QED
        BY <1>5, <3>1, <3>4, <4>1 DEF Added
    <3>5. QED
      BY <3>3, <3>4
  <2>2. QED
    BY <2>1 DEF Added
<1>7. /\ next = NoCursor <=> (n + 1 >= Len(layout) /\ ~endless)
      /\ next # NoCursor => next = IF n + 2 > Len(layout) THEN Len(layout) ELSE n + 2
      /\ next # NoCursor => n + 2 =< Len(layout) \/ endless
  <2>1. endless = TRUE \/ endless = FALSE
    BY DEF TypeOK
  <2>2. k.cursor = IF n + 1 > Len(layout) THEN Len(layout) ELSE n + 1
    BY <1>1 DEF InStepAt
  <2>3. NoCursor \notin Nat
    BY StdioAssumption
  <2>4. CASE n + 1 < Len(layout)
    <3>1. k.cursor = n + 1 /\ next = n + 2
      BY <1>4, <2>2, <2>4 DEF PageCursor
    <3>2. QED
      BY <1>4, <2>3, <2>4, <3>1
  <2>5. CASE ~(n + 1 < Len(layout)) /\ endless = TRUE
    <3>1. k.cursor = Len(layout) /\ next = Len(layout)
      <4>1. k.cursor = Len(layout)
        <5>1. ~(n + 1 < Len(layout))
          BY <2>5, Zenon
        <5>2. QED
          BY <1>0, <1>4, <2>2, <5>1
      <4>2. ~(k.cursor < Len(layout))
        BY <1>4, <4>1
      <4>3. QED
        BY <2>5, <4>1, <4>2, Zenon DEF PageCursor
    <3>2. QED
      BY <1>4, <2>3, <2>5, <3>1
  <2>6. CASE ~(n + 1 < Len(layout)) /\ endless = FALSE
    <3>1. k.cursor = Len(layout) /\ next = NoCursor
      <4>1. k.cursor = Len(layout)
        <5>1. ~(n + 1 < Len(layout))
          BY <2>6, Zenon
        <5>2. QED
          BY <1>0, <1>4, <2>2, <5>1
      <4>2. ~(k.cursor < Len(layout))
        BY <1>4, <4>1
      <4>3. QED
        BY <2>6, <4>1, <4>2, Zenon DEF PageCursor
    <3>2. QED
      BY <1>4, <2>6, <3>1
  <2>7. QED
    BY <2>1, <2>4, <2>5, <2>6
<1> HIDE DEF next, left, got
<1>8. CASE IsLast(next, left)
  <2>1. handlers'[h].pc = "listed" /\ handlers'[h].got = got
    BY <1>1, <1>2, <1>8 DEF Turned, HandlerState
  <2>2. Pages = 1..n + 1
    <3>1. n + 1 =< PageCap /\ (n + 1 =< Len(layout) \/ endless)
      BY <1>1, <1>3 DEF InStepAt
    <3>2. CASE left = 0
      <4>1. ASSUME NEW i \in 1..PageCap PROVE i =< Len(layout) \/ endless
        <5>1. i =< n + 1
          BY <1>3, <3>2, <4>1
        <5>2. n + 1 =< Len(layout) => i =< Len(layout)
          BY <1>4, <5>1
        <5>3. QED
          BY <3>1, <5>2, Zenon
      <4>2. Pages = 1..PageCap
        BY <4>1, Zenon DEF Pages
      <4>3. QED
        BY <1>3, <3>2, <4>2
    <3>3. CASE next = NoCursor
      <4>1. ~endless /\ Len(layout) = n + 1
        <5>1. ~endless
          BY <1>7, <3>3, Zenon
        <5>2. n + 1 >= Len(layout) /\ n + 1 =< Len(layout)
          BY <1>7, <3>1, <3>3, <5>1, Zenon
        <5>3. Len(layout) = n + 1
          BY <1>0, <1>4, <5>2
        <5>4. QED
          BY <5>1, <5>3, Zenon
      <4>2. Pages = {i \in 1..PageCap : i =< n + 1}
        BY <4>1, Zenon DEF Pages
      <4>3. QED
        BY <1>3, <3>1, <4>2
    <3>4. QED
      BY <1>8, <3>2, <3>3 DEF IsLast
  <2>3. QED
    BY <1>6, <2>1, <2>2 DEF Times
<1>9. CASE ~IsLast(next, left)
  <2>1. /\ handlers'[h].pc = "paging" /\ handlers'[h].cursor = next
        /\ handlers'[h].left = left /\ handlers'[h].got = got
    BY <1>1, <1>2, <1>9 DEF Turned, HandlerState
  <2>2. Fetched(h)' = n + 1
    BY <1>3, <2>1 DEF Fetched
  <2>3. \A d \in Definition : Times(d, n + 1)' = Times(d, n + 1)
    BY <1>2, <1>3 DEF Times, Page
  <2>4. InStepAt(h, Fetched(h))'
    <3>1. next # NoCursor
      BY <1>9, Zenon DEF IsLast
    <3>2. /\ n + 2 =< Len(layout) \/ endless
          /\ next = IF n + 2 > Len(layout) THEN Len(layout) ELSE n + 2
      BY <1>7, <3>1, Zenon
    <3>3. (n + 1) + 1 = n + 2
      OBVIOUS
    <3>4. (n + 1) + 1 =< Len(layout)' \/ endless'
      BY <1>2, <3>2, <3>3
    <3>5. handlers'[h].cursor = IF (n + 1) + 1 > Len(layout)' THEN Len(layout)'
                                ELSE (n + 1) + 1
      BY <1>2, <2>1, <3>2, <3>3
    <3>6. handlers'[h].got = [d \in Definition |-> AtMostTwo(Times(d, n + 1)')]
      BY <1>6, <2>1, <2>3
    <3>7. QED
      BY <2>2, <3>4, <3>5, <3>6, Zenon DEF InStepAt
  <2>5. QED
    BY <2>1, <2>4
<1>10. QED
  BY <1>8, <1>9

\* A handler that did not move, whose server did not either.
LEMMA StaysWhole ==
    ASSUME Whole, NEW h \in Handler, handlers'[h] = handlers[h], quiet'[h] = quiet[h],
           UNCHANGED <<layout, endless>>
    PROVE  /\ handlers'[h].pc = "paging" /\ quiet'[h] => InStepAt(h, Fetched(h))'
           /\ handlers'[h].pc = "listed" /\ quiet'[h] =>
                 handlers'[h].got = [d \in Definition |->
                     AtMostTwo(Cardinality({i \in Pages : d \in Page(i)}))]
BY DEF Whole, CompleteWhenQuiet, InStep, InStepAt, Fetched, Times, Page

LEMMA WholeStep == TypeOK /\ Going /\ Whole /\ [Next]_vars => Whole'
<1> SUFFICES ASSUME TypeOK, Going, Whole, [Next]_vars PROVE Whole'
  OBVIOUS
<1> DEFINE WholeAt(h) ==
        /\ handlers'[h].pc = "paging" /\ quiet'[h] => InStepAt(h, Fetched(h))'
        /\ handlers'[h].pc = "listed" /\ quiet'[h] =>
              handlers'[h].got = [d \in Definition |->
                  AtMostTwo(Cardinality({i \in Pages : d \in Page(i)}))]
<1>1. ASSUME UNCHANGED <<layout, endless>>, \A h \in Handler : WholeAt(h)
      PROVE  Whole'
  <2>1. Pages' = Pages /\ \A i : Page(i)' = Page(i)
    BY <1>1 DEF Pages, Page
  <2>2. \A d \in Definition :
            Cardinality({i \in Pages : d \in Page(i)})'
                = Cardinality({i \in Pages : d \in Page(i)})
    BY <2>1
  <2>3. CompleteWhenQuiet'
    BY <1>1, <2>2 DEF CompleteWhenQuiet
  <2>4. InStep'
    BY <1>1 DEF InStep
  <2>5. QED
    BY <2>3, <2>4 DEF Whole
<1>2. ASSUME NEW h \in Handler, UNCHANGED <<layout, endless>>, WholeAt(h),
             \A other \in Handler \ {h} : /\ handlers'[other] = handlers[other]
                                          /\ quiet'[other] = quiet[other]
      PROVE  Whole'
  <2>1. ASSUME NEW other \in Handler \ {h} PROVE WholeAt(other)
    BY <1>2, StaysWhole
  <2> HIDE DEF WholeAt
  <2>2. QED
    BY <1>1, <1>2, <2>1
<1>3. CASE UNCHANGED <<handlers, layout, endless, quiet>>
  BY <1>1, <1>3, StaysWhole
<1>4. ASSUME NEW h \in Handler, BeginsList(h)
      PROVE  Whole'
  <2>1. handlers'[h].pc = "paging"
    BY <1>4 DEF BeginsList, Fetch, Idle, TypeOK
  <2>2. WholeAt(h)
    BY <1>4, <2>1, BeginsInStep
  <2>3. /\ UNCHANGED <<layout, endless>>
        /\ \A other \in Handler \ {h} : /\ handlers'[other] = handlers[other]
                                        /\ quiet'[other] = quiet[other]
    BY <1>4 DEF BeginsList, server, TypeOK
  <2> HIDE DEF WholeAt
  <2>4. QED
    BY <1>2, <2>2, <2>3
<1>5. ASSUME NEW h \in Handler, PageArrives(h)
      PROVE  Whole'
  <2>1. /\ UNCHANGED <<layout, endless, quiet>>
        /\ \A other \in Handler \ {h} : handlers'[other] = handlers[other]
    BY <1>5, PageTurns DEF PageArrives, server, history, TypeOK
  <2>2. WholeAt(h)
    BY <1>5, <2>1, PageKeepsWhole
  <2> HIDE DEF WholeAt
  <2>3. QED
    BY <1>2, <2>1, <2>2
<1>6. ASSUME NEW h \in Handler, Leaves(h)
      PROVE  Whole'
  <2>1. /\ UNCHANGED <<layout, endless, quiet>>
        /\ handlers'[h].pc \in {"idle", "calling"}
        /\ \A other \in Handler \ {h} : handlers'[other] = handlers[other]
    BY <1>6, LeavesToIdle DEF TypeOK, Idle
  <2>2. WholeAt(h)
    BY <2>1
  <2> HIDE DEF WholeAt
  <2>3. QED
    BY <1>2, <2>1, <2>2
<1>7. ASSUME NEW l \in Layouts, NEW e \in BOOLEAN, ServerChanges(l, e)
      PROVE  Whole'
  BY <1>7 DEF ServerChanges, Whole, CompleteWhenQuiet, InStep
<1>8. QED
  BY <1>3, <1>4, <1>5, <1>6, <1>7, StepCases, LifecycleLeavesHandlers DEF vars

\* A list from a server that changed nothing meanwhile has every definition as
\* often as the server's pages up to the cap list it, whatever the cap, the
\* layout and the other handlers.
THEOREM CompleteWhenQuietHolds == Spec => []CompleteWhenQuiet
<1>1. Init => Whole
  BY DEF Init, Whole, CompleteWhenQuiet, InStep, Idle
<1>2. Whole => CompleteWhenQuiet
  BY DEF Whole
<1>3. QED
  BY <1>1, <1>2, WholeStep, TypeInit, TypeStep, PTL DEF Spec
=============================================================================
