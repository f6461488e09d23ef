------------------------------ MODULE Gateway ------------------------------
(***************************************************************************)
(* The gateway between agents and one MCP server: app/firewall/gateway.py  *)
(* with the parts it calls (authentication, authorization, integrity, rate *)
(* limiter, circuit breakers) and the tables they read.                    *)
(*                                                                         *)
(* FastAPI runs every handler on one event loop.  A handler gives way only *)
(* where it awaits the upstream server: once for the list of tools, and,   *)
(* in handle(), once for the forwarded call.  So each operation is up to   *)
(* three atomic steps,                                                     *)
(*                                                                         *)
(*    idle --(checks)--> listing --(upstream's reply)--> listed            *)
(*    listed --(integrity, scan, breaker)--> calling --(outcome)--> idle   *)
(*                                                                         *)
(* between which other tasks run, managers approve tools, sessions are     *)
(* revoked, the server changes its definitions and the process crashes.    *)
(* Both awaits are under wait_for(upstream_timeout_seconds).               *)
(*                                                                         *)
(* A tool definition is a model value; two are equal if and only if their  *)
(* fingerprints are (SHA-256 of the canonical form).  The scanner's        *)
(* verdict on a definition is the constant Poisoned; its verdict on the    *)
(* arguments of a request is nondeterministic.                             *)
(***************************************************************************)
EXTENDS Policy, Breaker, SlidingWindow, FiniteSets

CONSTANTS
    Task,           \* the handlers that run at the same time
    None,           \* no task, no session, no role, no reply
    User,
    Session,        \* rows of the sessions table
    SessionUser,    \* the user each session belongs to
    Expiry,         \* expires_at of each session
    Definition,     \* tool definitions, by fingerprint
    Poisoned,       \* the definitions the description scanner blocks
    Unpinned,       \* no approved fingerprint
    Offers,         \* what the server may list under one name: sequences of
                    \* definitions, empty (missing) or longer than one
                    \* (duplicates) ones among them
    Timeout,        \* upstream_timeout_seconds
    InitialRole,    \* the role each user was registered with
    Reassigned,     \* the roles an operator may give to users
    MaxTime         \* bound of the model: the clock stops here

ASSUME GatewayAssumption ==
    /\ None \notin Task
    /\ SessionUser \in [Session -> User]
    /\ Expiry \in [Session -> Nat]
    /\ Poisoned \subseteq Definition
    /\ Unpinned \notin Definition
    /\ Offers \subseteq Seq(Definition)
    /\ Timeout \in Nat \ {0}
    /\ InitialRole \in [User -> StoredRole]
    /\ Reassigned \subseteq StoredRole
    /\ MaxTime \in Nat

VARIABLES
    now,        \* the clock (the wall clock and the monotonic one)
    \* The database: it survives a restart.
    role,       \* users.role
    revoked,    \* the sessions with revoked = 1
    pinned,     \* tool_fingerprints
    \* The process: a restart begins with fresh ones.
    hits,       \* the limiter's deque of each user
    breakers,   \* the breaker of each tool
    tasks,      \* where each handler is
    \* The MCP server.
    exposed,    \* the definitions it lists under each name
    \* History: no action reads these.
    revokedAt,  \* when each session was revoked, or -1
    roleSetAt,  \* when each user was last given another role, or -1
    repinnedAt, \* when the pin of each tool last changed, or -1
    probes      \* per tool: failures since the last success (streak), the
                \* call last admitted as a probe (owner) and when (at)

vars == <<now, role, revoked, pinned, hits, breakers, tasks, exposed,
          revokedAt, roleSetAt, repinnedAt, probes>>

Listing == [Tool -> Offers]

\* What one handler holds in its local variables across an await: the
\* session it validated, the role it read then, and the list it was sent.
Idle == [pc |-> "idle", op |-> "none", sid |-> None, role |-> None,
         wanted |-> {}, since |-> 0, reply |-> None]

Busy(t) == tasks[t].pc # "idle"

\* The task has a call to this tool forwarded and not yet answered.
Calling(t, tool) == tasks[t].pc = "calling" /\ tool \in tasks[t].wanted

NoProbes == [streak |-> 0, owner |-> None, at |-> -1]

Init == /\ now = 0
        /\ role = InitialRole
        /\ revoked = {}
        /\ pinned = [tool \in Tool |-> Unpinned]
        /\ hits = [u \in User |-> <<>>]
        /\ breakers = [tool \in Tool |-> NewBreaker]
        /\ tasks = [t \in Task |-> Idle]
        /\ exposed \in Listing
        /\ revokedAt = [s \in Session |-> -1]
        /\ roleSetAt = [u \in User |-> -1]
        /\ repinnedAt = [tool \in Tool |-> -1]
        /\ probes = [tool \in Tool |-> NoProbes]
-----------------------------------------------------------------------------
(***************************************************************************)
(* Before the first await.  A request whose session is not valid is denied *)
(* on the spot and changes nothing.                                        *)
(***************************************************************************)

\* Mistake: a session is still good in the instant it expires.
ValidAtExpiry(s) == s \notin revoked /\ now =< Expiry[s]

\* Authenticator.validate()
Valid(s) == s \notin revoked /\ now < Expiry[s]

\* The limiter's answer for a user, and the hit it records.
HasQuota(u) == HasRoom(Live(hits[u], now))
Charge(u) == hits' = [hits EXCEPT ![u] = After(Live(@, now), now)]

\* The handler asks the server for its tools.  (The model starts nothing
\* whose two deadlines are not inside the bounded clock.)
Await(t, s, op, wanted) ==
    /\ now + 2 * Timeout =< MaxTime
    /\ tasks' = [tasks EXCEPT ![t] =
           [pc |-> "listing", op |-> op, sid |-> s, role |-> role[SessionUser[s]],
            wanted |-> wanted, since |-> now, reply |-> None]]

\* Any operation: the session is validated, the call is charged to its user
\* and, if there is quota and the role may do it, the handler awaits the list.
Begins(t, s, op, wanted, may) ==
    LET u == SessionUser[s] IN
    /\ ~Busy(t)
    /\ Valid(s)
    /\ Charge(u)
    /\ IF HasQuota(u) /\ may THEN Await(t, s, op, wanted) ELSE UNCHANGED tasks
    /\ UNCHANGED <<now, role, revoked, pinned, breakers, exposed, revokedAt,
                   roleSetAt, repinnedAt, probes>>

\* handle(): POST /api/request
Request(t, s, tool) ==
    Begins(t, s, "request", {tool}, Permits(role[SessionUser[s]], tool))

\* list_tools(): GET /api/tools, open to every role
ListTools(t, s) == Begins(t, s, "list", {}, TRUE)

\* require_manager() and approve_tools(): POST /api/tools/approve.  Without a
\* list of names it approves all of them.
ApproveTools(t, s, names) ==
    Begins(t, s, "approve", names, CanManage(role[SessionUser[s]]))

\* require_manager() alone: GET /api/logs and GET /api/policies.
ReadsAdmin(s) ==
    /\ Valid(s)
    /\ Charge(SessionUser[s])
    /\ UNCHANGED <<now, role, revoked, pinned, breakers, tasks, exposed,
                   revokedAt, roleSetAt, repinnedAt, probes>>
-----------------------------------------------------------------------------
(***************************************************************************)
(* The list of tools, and what is decided from it.                         *)
(***************************************************************************)

\* The server answers with what it exposes at that moment; the handler
\* resumes some time later.
UpstreamReplies(t) ==
    /\ tasks[t].pc = "listing"
    /\ tasks' = [tasks EXCEPT ![t].pc = "listed", ![t].reply = exposed]
    /\ UNCHANGED <<now, role, revoked, pinned, hits, breakers, exposed,
                   revokedAt, roleSetAt, repinnedAt, probes>>

\* The task is answered, or dies.
Ends(t) == tasks' = [tasks EXCEPT ![t] = Idle]

\* Mistake: the wait for the list has no timeout.
NeverGivesUp(t) == /\ tasks[t].pc = "listed"
                   /\ Ends(t)
                   /\ UNCHANGED <<now, role, revoked, pinned, hits, breakers,
                                  exposed, revokedAt, roleSetAt, repinnedAt,
                                  probes>>

\* The wait for the list times out or fails, or the request is cancelled.
GivesUp(t) == /\ tasks[t].pc \in {"listing", "listed"}
              /\ Ends(t)
              /\ UNCHANGED <<now, role, revoked, pinned, hits, breakers,
                             exposed, revokedAt, roleSetAt, repinnedAt,
                             probes>>

\* Mistake: any of several definitions may be the approved one.
VerifiesAny(t, tool) ==
    \E i \in DOMAIN tasks[t].reply[tool] : tasks[t].reply[tool][i] = pinned[tool]

\* The list names the tool once, with the fingerprint that is pinned now.
Verifies(t, tool) == tasks[t].reply[tool] = <<pinned[tool]>>

\* Integrity, input scan and allow() all pass: the call is forwarded.
Forwards(t, tool) ==
    LET b == breakers[tool] IN
    /\ tasks[t].pc = "listed" /\ tasks[t].op = "request"
    /\ tool \in tasks[t].wanted
    /\ Verifies(t, tool)
    /\ Allows(b, now)
    /\ breakers' = [breakers EXCEPT ![tool] = Allow(b)]
    /\ tasks' = [tasks EXCEPT ![t].pc = "calling", ![t].since = now]
    /\ probes' = IF IsProbe(b)
                 THEN [probes EXCEPT ![tool].owner = t, ![tool].at = now]
                 ELSE probes
    /\ UNCHANGED <<now, role, revoked, pinned, hits, exposed, revokedAt,
                   roleSetAt, repinnedAt>>

\* Mistake: the breaker is asked before the arguments are scanned.
DeniesAfterAllow(t) ==
    /\ tasks[t].pc = "listed" /\ tasks[t].op = "request"
    /\ breakers' = [tool \in Tool |->
                       IF tool \in tasks[t].wanted /\ Allows(breakers[tool], now)
                       THEN Allow(breakers[tool]) ELSE breakers[tool]]
    /\ Ends(t)
    /\ UNCHANGED <<now, role, revoked, pinned, hits, exposed, revokedAt,
                   roleSetAt, repinnedAt, probes>>

\* Integrity, the input scan or the breaker denies the request.
Denies(t) == /\ tasks[t].pc = "listed" /\ tasks[t].op = "request"
             /\ Ends(t)
             /\ UNCHANGED <<now, role, revoked, pinned, hits, breakers,
                            exposed, revokedAt, roleSetAt, repinnedAt, probes>>

\* The definitions list_tools() returns to the caller: all of them to a
\* manager, the approved, unchanged and permitted ones to anyone else.
Shown(t) ==
    LET visible(tool, d) == \/ CanManage(tasks[t].role)
                            \/ d = pinned[tool] /\ Permits(tasks[t].role, tool)
    IN {d \in Definition : \E tool \in Tool :
           /\ \E i \in DOMAIN tasks[t].reply[tool] : tasks[t].reply[tool][i] = d
           /\ visible(tool, d)}

ReturnsList(t) == /\ tasks[t].pc = "listed" /\ tasks[t].op = "list"
                  /\ Ends(t)
                  /\ UNCHANGED <<now, role, revoked, pinned, hits, breakers,
                                 exposed, revokedAt, roleSetAt, repinnedAt,
                                 probes>>

\* Mistake: the definition is pinned without looking at it.
AcceptsAny(offer) == Len(offer) = 1

\* _approve_one() accepts a single definition that the scanner lets pass.
Accepts(offer) == Len(offer) = 1 /\ offer[1] \notin Poisoned

\* The loop of approve_tools(), without an await: it pins the acceptable ones
\* of the names it gets to.  An exception while a pin or its audit row is
\* written ends the loop early, and what is pinned by then stays pinned.
Approves(t, done) ==
    /\ tasks[t].pc = "listed" /\ tasks[t].op = "approve"
    /\ pinned' = [tool \in Tool |->
                     IF tool \in done /\ Accepts(tasks[t].reply[tool])
                     THEN tasks[t].reply[tool][1] ELSE pinned[tool]]
    /\ repinnedAt' = [tool \in Tool |-> IF pinned'[tool] = pinned[tool]
                                        THEN repinnedAt[tool] ELSE now]
    /\ Ends(t)
    /\ UNCHANGED <<now, role, revoked, hits, breakers, exposed, revokedAt,
                   roleSetAt, probes>>
-----------------------------------------------------------------------------
(***************************************************************************)
(* The outcome of a forwarded call.                                        *)
(***************************************************************************)

\* The server answers without an error; the output scan that follows only
\* decides what the agent is shown.
Succeeds(t, tool) ==
    /\ Calling(t, tool)
    /\ breakers' = [breakers EXCEPT ![tool] = Succeed(@)]
    /\ probes' = [probes EXCEPT ![tool] = NoProbes]
    /\ Ends(t)
    /\ UNCHANGED <<now, role, revoked, pinned, hits, exposed, revokedAt,
                   roleSetAt, repinnedAt>>

\* The call returns an error, raises, times out, or its request is cancelled.
Fails(t, tool) ==
    /\ Calling(t, tool)
    /\ breakers' = [breakers EXCEPT ![tool] = Fail(@, now)]
    /\ probes' = IF probes[tool].streak < Threshold
                 THEN [probes EXCEPT ![tool].streak = @ + 1]
                 ELSE probes
    /\ Ends(t)
    /\ UNCHANGED <<now, role, revoked, pinned, hits, exposed, revokedAt,
                   roleSetAt, repinnedAt>>
-----------------------------------------------------------------------------
(***************************************************************************)
(* Operators, the server, the process and time.                            *)
(***************************************************************************)

\* Authenticator.revoke()
Revokes(s) == /\ s \notin revoked
              /\ revoked' = revoked \cup {s}
              /\ revokedAt' = [revokedAt EXCEPT ![s] = now]
              /\ UNCHANGED <<now, role, pinned, hits, breakers, tasks, exposed,
                             roleSetAt, repinnedAt, probes>>

\* An operator edits the users table; the next validation reads the new role.
SetsRole(u, r) ==
    /\ role' = [role EXCEPT ![u] = r]
    /\ roleSetAt' = IF r = role[u] THEN roleSetAt
                                   ELSE [roleSetAt EXCEPT ![u] = now]
    /\ UNCHANGED <<now, revoked, pinned, hits, breakers, tasks, exposed,
                   revokedAt, repinnedAt, probes>>

\* The server changes what it declares about a tool.
ServerChanges(tool, offer) ==
    /\ exposed' = [exposed EXCEPT ![tool] = offer]
    /\ UNCHANGED <<now, role, revoked, pinned, hits, breakers, tasks,
                   revokedAt, roleSetAt, repinnedAt, probes>>

\* The process dies at any point and a new one opens the same database.
Restarts == /\ hits' = [u \in User |-> <<>>]
            /\ breakers' = [tool \in Tool |-> NewBreaker]
            /\ tasks' = [t \in Task |-> Idle]
            /\ probes' = [tool \in Tool |-> NoProbes]
            /\ UNCHANGED <<now, role, revoked, pinned, exposed, revokedAt,
                           roleSetAt, repinnedAt>>

\* The clock advances, but not past the deadline of an awaiting handler.
Tick == /\ now < MaxTime
        /\ \A t \in Task : Busy(t) => now < tasks[t].since + Timeout
        /\ now' = now + 1
        /\ UNCHANGED <<role, revoked, pinned, hits, breakers, tasks, exposed,
                       revokedAt, roleSetAt, repinnedAt, probes>>

Finished == now = MaxTime /\ UNCHANGED vars

Begin == \E s \in Session :
            \/ ReadsAdmin(s)
            \/ \E t \in Task : \/ ListTools(t, s)
                             \/ \E tool \in Tool : Request(t, s, tool)
                             \/ \E names \in SUBSET Tool \ {{}} :
                                    ApproveTools(t, s, names)

Resume(t) == \/ UpstreamReplies(t)
             \/ GivesUp(t)
             \/ Denies(t)
             \/ ReturnsList(t)
             \/ \E done \in SUBSET tasks[t].wanted : Approves(t, done)
             \/ \E tool \in Tool : \/ Forwards(t, tool)
                                  \/ Succeeds(t, tool)
                                  \/ Fails(t, tool)

Environment == \/ \E s \in Session : Revokes(s)
               \/ \E u \in User, r \in Reassigned : SetsRole(u, r)
               \/ \E tool \in Tool, offer \in Offers : ServerChanges(tool, offer)
               \/ Restarts
               \/ Tick
               \/ Finished

Next == Begin \/ (\E t \in Task : Resume(t)) \/ Environment

\* At its deadline wait_for() ends the wait, in one way or another.
TimesOut(t) == /\ now = tasks[t].since + Timeout
               /\ GivesUp(t) \/ \E tool \in Tool : Fails(t, tool)

\* Time passes and deadlines are met; nothing else is owed to anyone.
Fairness == WF_vars(Tick) /\ \A t \in Task : WF_vars(TimesOut(t))

Spec == Init /\ [][Next]_vars /\ Fairness
-----------------------------------------------------------------------------
Time == 0..MaxTime

TaskRecord == [pc : {"idle", "listing", "listed", "calling"},
               op : {"none", "request", "list", "approve"},
               sid : Session \cup {None}, role : StoredRole \cup {None},
               wanted : SUBSET Tool, since : Time,
               reply : Listing \cup {None}]

\* A busy task holds a session, a request names one tool, and a task that has
\* been sent the list holds it until it ends.
TaskState == {k \in TaskRecord :
                  /\ k.pc # "idle" => k.sid \in Session
                  /\ k.op = "request" => \E tool \in Tool : k.wanted = {tool}
                  /\ k.pc \in {"listed", "calling"} => k.reply \in Listing}

ProbeHistory == [streak : 0..Threshold, owner : Task \cup {None},
                 at : -1..MaxTime]

TypeOK == /\ now \in Time
          /\ role \in [User -> StoredRole]
          /\ revoked \in SUBSET Session
          /\ pinned \in [Tool -> Definition \cup {Unpinned}]
          /\ hits \in [User -> Seq(Time)]
          /\ breakers \in [Tool -> BreakerRecord]
          /\ tasks \in [Task -> TaskState]
          /\ exposed \in Listing
          /\ revokedAt \in [Session -> -1..MaxTime]
          /\ roleSetAt \in [User -> -1..MaxTime]
          /\ repinnedAt \in [Tool -> -1..MaxTime]
          /\ probes \in [Tool -> ProbeHistory]

\* Authority is read before the first await and used after it, so a session
\* that is revoked or has expired, and a role that was taken from its user,
\* still have work in flight; but not for long, and not across a restart: what
\* they started ends within two timeouts, what was not forwarded within one.
AuthorityDrains ==
    \A t \in Task : Busy(t) =>
        LET s == tasks[t].sid
            u == SessionUser[s]
            grace == IF tasks[t].pc = "calling" THEN 2 * Timeout ELSE Timeout
        IN /\ now < Expiry[s] + grace
           /\ revokedAt[s] >= 0 => now =< revokedAt[s] + grace
           /\ tasks[t].role # role[u] => /\ roleSetAt[u] >= 0
                                         /\ now =< roleSetAt[u] + grace

\* Why: every deadline is met, and no wait began without authority.  (The
\* inductive form of AuthorityDrains.)
Deadlines ==
    /\ \A s \in Session \ revoked : revokedAt[s] = -1
    /\ \A t \in Task : Busy(t) =>
           LET k == tasks[t]
               u == SessionUser[k.sid]
               grace == IF k.pc = "calling" THEN Timeout ELSE 0
           IN /\ k.since =< now /\ now =< k.since + Timeout
              /\ k.since < Expiry[k.sid] + grace
              /\ revokedAt[k.sid] >= 0 => k.since =< revokedAt[k.sid] + grace
              /\ k.role # role[u] => /\ roleSetAt[u] >= 0
                                     /\ k.since =< roleSetAt[u] + grace

\* Nothing counts the handlers of a user that wait on the server; what bounds
\* them is the rate limiter, which has seen each begin.  A handler runs for two
\* timeouts at most, and the windows that begin in that time admit as many
\* requests each: with the shipped 60 and 2 * 30 seconds, twice the limit.
InFlightBounded ==
    \A u \in User :
        Cardinality({t \in Task : Busy(t) /\ SessionUser[tasks[t].sid] = u})
            =< MaxRequests * (1 + (2 * Timeout) \div Window)

\* A definition that hides instructions is never trusted: whatever the server
\* swapped in between listing, approval and use, no pin is poisoned and no
\* list on its way to a caller without a manager's role shows one.
PoisonNeverTrusted ==
    /\ \A tool \in Tool : pinned[tool] \notin Poisoned
    /\ \A t \in Task : /\ tasks[t].pc = "listed" /\ tasks[t].op = "list"
                       /\ ~CanManage(tasks[t].role)
                       => Shown(t) \cap Poisoned = {}

\* The pin is read after the list has arrived and not again before the answer,
\* so a manager can replace it under a call: the call goes on with the
\* definition it was checked against.  It is gone one timeout after the pin
\* was, and then every call in flight is of the definition that is pinned.
OldPinsDrain ==
    \A t \in Task, tool \in Tool :
        Calling(t, tool) /\ tasks[t].reply[tool] # <<pinned[tool]>>
            => /\ repinnedAt[tool] >= 0
               /\ now =< repinnedAt[tool] + Timeout

\* The handlers use the breaker of each tool as BreakerCalls lays down, for
\* as long as the process lives: every call that allow() let through records
\* its outcome, on every path.  So what is proved there holds here.
Calls(tool) == INSTANCE BreakerCalls WITH
    Call      <- Task,
    NoCall    <- None,
    breaker   <- breakers[tool],
    inFlight  <- {t \in Task : Calling(t, tool)},
    since     <- [t \in Task |-> IF Calling(t, tool) THEN tasks[t].since ELSE 0],
    streak    <- probes[tool].streak,
    owner     <- probes[tool].owner,
    lastProbe <- probes[tool].at

BreakersObeyed ==
    /\ \A tool \in Tool : Calls(tool)!Init
    /\ [][\A tool \in Tool : \/ Calls(tool)!Next
                             \/ UNCHANGED Calls(tool)!vars
                             \/ Restarts]_vars

\* Every request is answered or given up.
Responds == \A t \in Task : Busy(t) ~> ~Busy(t)
=============================================================================
