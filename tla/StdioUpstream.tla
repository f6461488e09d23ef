---------------------------- MODULE StdioUpstream ----------------------------
(***************************************************************************)
(* The connector to a real MCP server: class StdioMCPUpstream of           *)
(* app/mcp/client.py.  It spawns the server as a child process, keeps one  *)
(* session with it, and fetches the list of tools page by page, while the  *)
(* server changes what it declares, hands out cursors for ever, or dies.   *)
(*                                                                         *)
(* start() and stop() run in the lifespan of the app, once each; handlers  *)
(* run in between, and some are still waiting when stop() begins.          *)
(*                                                                         *)
(* The server and the SDK are external.  A cursor is the number of a page; *)
(* a wait of a handler may always end with an exception: the SDK's, or the *)
(* timeout and cancellation of the gateway, which no code here adds to.    *)
(***************************************************************************)
EXTENDS Naturals, Sequences, FiniteSets

CONSTANTS
    Handler,        \* list_tools() and call_tool() at the same time
    Definition,     \* tools as the server declares them
    Layouts,        \* how it may page them: sequences of sets of definitions
    PageCap,        \* 100 in the code
    NoCursor        \* nextCursor is missing or empty

ASSUME StdioAssumption == /\ PageCap \in Nat \ {0}
                          /\ Layouts \subseteq Seq(SUBSET Definition) \ {<<>>}
                          /\ NoCursor \notin Nat

VARIABLES
    life,       \* of the connector; it holds a session when "open"
    child,      \* the server process
    handlers,   \* the local variables of each handler
    \* What the server declares.
    layout, endless,
    \* History: no action reads these.
    declared,   \* what it has declared since each handler began to list
    quiet       \* and whether it has changed nothing since

vars == <<life, child, handlers, layout, endless, declared, quiet>>

\* How often a list has each definition; 2 stands for more.  The gateway
\* tells apart a tool that is missing, one that is listed, and duplicates.
Empty == [d \in Definition |-> 0]

AtMostTwo(n) == IF n < 2 THEN n ELSE 2

Idle == [pc |-> "idle", cursor |-> 1, left |-> PageCap, got |-> Empty]

Init == /\ life = "new"
        /\ child = "none"
        /\ handlers = [h \in Handler |-> Idle]
        /\ layout \in Layouts
        /\ endless \in BOOLEAN
        /\ declared = [h \in Handler |-> {}]
        /\ quiet = [h \in Handler |-> FALSE]

server == <<layout, endless>>
history == <<declared, quiet>>
-----------------------------------------------------------------------------
(***************************************************************************)
(* start() and stop().                                                     *)
(***************************************************************************)

\* Mistake: the exception is raised without closing what was opened.
RaisesAtOnce == "stopped"

\* "except BaseException": the exit stack is unwound first.
AfterFailedStart == "unwinding"

Starts == /\ life = "new"
          /\ life' = "starting"
          /\ UNCHANGED <<child, handlers, server, history>>

Spawns == /\ life = "starting" /\ child = "none"
          /\ child' = "running"
          /\ UNCHANGED <<life, handlers, server, history>>

Initialized == /\ life = "starting" /\ child = "running"
               /\ life' = "open"
               /\ UNCHANGED <<child, handlers, server, history>>

\* The spawn, the handshake or the wait for them fails or is cancelled.
StartFails == /\ life = "starting"
              /\ life' = AfterFailedStart
              /\ UNCHANGED <<child, handlers, server, history>>

\* stop() forgets the session, then awaits aclose().
Stops == /\ life = "open"
         /\ life' = "unwinding"
         /\ UNCHANGED <<child, handlers, server, history>>

\* aclose() returns: the process has been made to exit.
Unwound == /\ life = "unwinding"
           /\ life' = "stopped"
           /\ child' = IF child = "running" THEN "exited" ELSE child
           /\ UNCHANGED <<handlers, server, history>>
-----------------------------------------------------------------------------
(***************************************************************************)
(* list_tools() and call_tool().                                           *)
(***************************************************************************)

Waiting(h) == handlers[h].pc \in {"paging", "calling"}

\* Mistake: pages are added to a list that outlives the fetch.
SharedList(h) == [handlers[h] EXCEPT !.pc = "paging", !.cursor = 1,
                                     !.left = PageCap]

Fetch(h) == [Idle EXCEPT !.pc = "paging"]

\* _require_session() raises without a session.
BeginsList(h) == /\ life = "open" /\ ~Waiting(h)
                 /\ handlers' = [handlers EXCEPT ![h] = Fetch(h)]
                 /\ declared' = [declared EXCEPT ![h] = UNION {layout[i] :
                                                          i \in DOMAIN layout}]
                 /\ quiet' = [quiet EXCEPT ![h] = TRUE]
                 /\ UNCHANGED <<life, child, server>>

\* The server's side of a page: what it holds now, and where to go on.  A
\* cursor may be older than the layout; an endless server repeats itself.
PageItems(cursor) == IF cursor \in DOMAIN layout THEN layout[cursor] ELSE {}

PageCursor(cursor) == IF cursor < Len(layout) THEN cursor + 1
                      ELSE IF endless         THEN Len(layout)
                      ELSE                         NoCursor

\* Mistake: "while True".
NoCap(left) == left

\* Mistake: the cap counts requests and replies.
CountsTwice(left) == left - 2

\* "for _ in range(100)"
Remaining(left) == left - 1

\* Mistake: the loop stops one page early.
LastButOne(next, left) == next = NoCursor \/ left =< 1

\* "if not cursor: break", or the loop has run out.
IsLast(next, left) == next = NoCursor \/ left = 0

\* Of stop() it matters here only that it takes the child away.
PageArrives(h) ==
    LET k == handlers[h]
        next == PageCursor(k.cursor)
        left == Remaining(k.left)
        got == [d \in Definition |-> IF d \in PageItems(k.cursor)
                                     THEN AtMostTwo(k.got[d] + 1) ELSE k.got[d]]
    IN /\ k.pc = "paging" /\ child = "running"
       /\ handlers' = [handlers EXCEPT ![h] =
              IF IsLast(next, left)
              THEN [k EXCEPT !.pc = "listed", !.got = got]
              ELSE [k EXCEPT !.cursor = next, !.left = left, !.got = got]]
       /\ UNCHANGED <<life, child, server, history>>

BeginsCall(h) == /\ life = "open" /\ ~Waiting(h)
                 /\ handlers' = [handlers EXCEPT ![h] = [Idle EXCEPT !.pc = "calling"]]
                 /\ UNCHANGED <<life, child, server, history>>

CallReturns(h) == /\ handlers[h].pc = "calling" /\ child = "running"
                  /\ handlers' = [handlers EXCEPT ![h] = Idle]
                  /\ UNCHANGED <<life, child, server, history>>

\* The wait ends with an exception, and what was fetched is dropped.
Raises(h) == /\ Waiting(h)
             /\ handlers' = [handlers EXCEPT ![h] = Idle]
             /\ UNCHANGED <<life, child, server, history>>
-----------------------------------------------------------------------------
ServerChanges(l, e) ==
    /\ <<l, e>> # server
    /\ layout' = l /\ endless' = e
    /\ declared' = [h \in Handler |-> declared[h] \cup UNION {l[i] : i \in DOMAIN l}]
    /\ quiet' = [h \in Handler |-> FALSE]
    /\ UNCHANGED <<life, child, handlers>>

\* The session is kept: nothing looks after the process or reconnects.
ServerDies == /\ child = "running"
              /\ child' = "exited"
              /\ UNCHANGED <<life, handlers, server, history>>

Finished == life = "stopped" /\ (\A h \in Handler : ~Waiting(h)) /\ UNCHANGED vars

Next == \/ Starts \/ Spawns \/ Initialized \/ StartFails \/ Stops \/ Unwound
        \/ \E h \in Handler : \/ BeginsList(h)
                              \/ PageArrives(h)
                              \/ BeginsCall(h)
                              \/ CallReturns(h)
                              \/ Raises(h)
        \/ \E l \in Layouts, e \in BOOLEAN : ServerChanges(l, e)
        \/ ServerDies
        \/ Finished

\* A server that runs answers requests for pages, and a wait for one that
\* does not ends; nobody limits how long a server may go on answering.
Fairness == \A h \in Handler : /\ WF_vars(PageArrives(h))
                               /\ WF_vars(child # "running" /\ Raises(h))

Spec == Init /\ [][Next]_vars /\ Fairness
-----------------------------------------------------------------------------
TypeOK == /\ life \in {"new", "starting", "open", "unwinding", "stopped"}
          /\ child \in {"none", "running", "exited"}
          /\ handlers \in [Handler ->
                 [pc : {"idle", "paging", "listed", "calling"},
                  cursor : Nat, left : 0..PageCap, got : [Definition -> 0..2]]]
          /\ layout \in Layouts
          /\ endless \in BOOLEAN
          /\ declared \in [Handler -> SUBSET Definition]
          /\ quiet \in [Handler -> BOOLEAN]

\* No server process outlives its connector, wherever start() fails and
\* whatever stop() finds.
NoOrphans == life = "stopped" => child # "running"

\* However pages and changes interleave, every definition in a list was
\* declared by the server after the fetch began: so what the gateway verifies
\* and then calls, or pins, is no older than its own request.
ListsAreRecent == \A h \in Handler : handlers[h].pc = "listed" =>
                      {d \in Definition : handlers[h].got[d] > 0} \subseteq declared[h]

\* The pages of the present layout, as a reader of all of them would turn
\* them, up to the cap.
Page(i) == layout[IF i > Len(layout) THEN Len(layout) ELSE i]

Pages == {i \in 1..PageCap : i =< Len(layout) \/ endless}

\* From a server that keeps still, the list has every definition as often as
\* the server lists it on its first PageCap pages: none is dropped, none is
\* doubled, and a list of just that many pages is whole.
CompleteWhenQuiet ==
    \A h \in Handler : handlers[h].pc = "listed" /\ quiet[h] =>
        handlers[h].got = [d \in Definition |->
                               AtMostTwo(Cardinality({i \in Pages : d \in Page(i)}))]

\* A fetch ends by itself, though the server never stops handing out cursors.
PagingEnds == \A h \in Handler : handlers[h].pc = "paging" ~> handlers[h].pc # "paging"
=============================================================================
