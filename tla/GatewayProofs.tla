---------------------------- MODULE GatewayProofs ----------------------------
(***************************************************************************)
(* Proofs about Gateway, for every policy, every set of tasks, users,      *)
(* sessions, tools and definitions, and every timeout.                     *)
(***************************************************************************)
EXTENDS Gateway, SlidingWindowProofs, FiniteSetTheorems

\* The name of a tool holds a word that classify() knows.
Known(found) == \/ found \cap {"critical", "high", "medium", "low"} # {}
                \/ {"launch", "code"} \subseteq found

\* "The most dangerous match wins" (risk.py:9): further words never make a
\* name that has a known one look less dangerous.  (A name without one is
\* MEDIUM, and a LOW word makes it LOW.)
THEOREM MostDangerousWins ==
    ASSUME NEW found \in SUBSET WordList, Known(found),
           NEW more \in SUBSET WordList
    PROVE  ByName(found) =< ByName(found \cup more)
BY DEF Known, ByName, WordList, LOW, MEDIUM, HIGH, CRITICAL

LEMMA TimeIsNat == Time \subseteq Nat
BY GatewayAssumption DEF Time

LEMMA BreakerTypes ==
    ASSUME NEW b \in BreakerRecord, NEW t \in Nat
    PROVE  /\ Allow(b)   \in BreakerRecord
           /\ Succeed(b) \in BreakerRecord
           /\ Fail(b, t) \in BreakerRecord
<1>1. Allow(b) \in BreakerRecord
  BY DEF BreakerRecord, BreakerState, Allow
<1>2. Succeed(b) \in BreakerRecord
  BY DEF BreakerRecord, BreakerState, Succeed
<1>3. Trip(t) \in BreakerRecord
  BY DEF BreakerRecord, BreakerState, Trip
<1>4. [b EXCEPT !.failures = @ + 1] \in BreakerRecord
  BY DEF BreakerRecord
<1>5. Fail(b, t) \in BreakerRecord
  BY <1>3, <1>4 DEF Fail
<1>6. QED
  BY <1>1, <1>2, <1>5

LEMMA NewBreakerType == NewBreaker \in BreakerRecord
BY DEF NewBreaker, BreakerRecord, BreakerState

LEMMA IdleType == Idle \in TaskState
BY GatewayAssumption DEF Idle, TaskState, TaskRecord, Time

LEMMA NoProbesType == NoProbes \in ProbeHistory
BY GatewayAssumption, BreakerPolicy DEF NoProbes, ProbeHistory

LEMMA ChargeType ==
    ASSUME TypeOK, NEW u \in User, Charge(u)
    PROVE  hits' \in [User -> Seq(Time)]
<1>1. hits[u] \in Seq(Time) /\ now \in Time /\ now \in Nat
  BY TimeIsNat DEF TypeOK
<1>2. Live(hits[u], now) \in Seq(Time)
  BY <1>1, LiveIsSuffix, TimeIsNat
<1>3. After(Live(hits[u], now), now) \in Seq(Time)
  BY <1>1, <1>2 DEF After
<1>4. QED
  BY <1>3 DEF Charge, TypeOK
-----------------------------------------------------------------------------
(***************************************************************************)
(* The type invariant.                                                     *)
(***************************************************************************)
LEMMA TypeInit == Init => TypeOK
<1> SUFFICES ASSUME Init PROVE TypeOK
  OBVIOUS
<1>1. hits \in [User -> Seq(Time)]
  BY EmptySeq DEF Init
<1>2. /\ now \in Time /\ revokedAt \in [Session -> -1..MaxTime]
      /\ roleSetAt \in [User -> -1..MaxTime]
      /\ repinnedAt \in [Tool -> -1..MaxTime]
  BY GatewayAssumption DEF Init, Time
<1>3. QED
  BY <1>1, <1>2, NewBreakerType, IdleType, NoProbesType, GatewayAssumption
     DEF Init, TypeOK

LEMMA EndsType ==
    ASSUME TypeOK, NEW t \in Task, Ends(t)
    PROVE  tasks' \in [Task -> TaskState]
BY IdleType DEF Ends, TypeOK

LEMMA BeginsType ==
    ASSUME TypeOK, NEW t \in Task, NEW s \in Session,
           NEW op \in {"request", "list", "approve"},
           NEW wanted \in SUBSET Tool, NEW may, Begins(t, s, op, wanted, may),
           op = "request" => \E tool \in Tool : wanted = {tool}
    PROVE  TypeOK'
<1>1. SessionUser[s] \in User
  BY GatewayAssumption
<1>2. hits' \in [User -> Seq(Time)]
  BY <1>1, ChargeType DEF Begins
<1>3. tasks' \in [Task -> TaskState]
  <2> DEFINE begun == [pc |-> "listing", op |-> op, sid |-> s,
                       role |-> role[SessionUser[s]], wanted |-> wanted,
                       since |-> now, reply |-> None]
  <2>1. begun \in TaskState
    BY <1>1 DEF TypeOK, TaskState, TaskRecord
  <2>2. CASE tasks' = [tasks EXCEPT ![t] = begun]
    BY <2>1, <2>2 DEF TypeOK
  <2>3. CASE tasks' = tasks
    BY <2>3 DEF TypeOK
  <2>4. QED
    BY <2>2, <2>3 DEF Begins, Await
<1>4. QED
  BY <1>2, <1>3 DEF Begins, TypeOK

LEMMA RequestType ==
    ASSUME TypeOK, NEW t \in Task, NEW s \in Session, NEW tool \in Tool,
           Request(t, s, tool)
    PROVE  TypeOK'
BY BeginsType DEF Request

LEMMA BeginType ==
    ASSUME TypeOK, Begin
    PROVE  TypeOK'
<1>1. PICK s \in Session :
          \/ ReadsAdmin(s)
          \/ \E t \in Task : \/ ListTools(t, s)
                           \/ \E tool \in Tool : Request(t, s, tool)
                           \/ \E names \in SUBSET Tool \ {{}} :
                                  ApproveTools(t, s, names)
  BY DEF Begin
<1>2. CASE ReadsAdmin(s)
  <2>1. SessionUser[s] \in User
    BY GatewayAssumption
  <2>2. hits' \in [User -> Seq(Time)]
    BY <1>2, <2>1, ChargeType DEF ReadsAdmin
  <2>3. QED
    BY <1>2, <2>2 DEF ReadsAdmin, TypeOK
<1>3. ASSUME NEW t \in Task, ListTools(t, s)
      PROVE  TypeOK'
  <2>1. Begins(t, s, "list", {}, TRUE)
    BY <1>3 DEF ListTools
  <2>2. QED
    BY <2>1, BeginsType
<1>4. ASSUME NEW t \in Task, NEW tool \in Tool, Request(t, s, tool)
      PROVE  TypeOK'
  BY <1>4, RequestType
<1>5. ASSUME NEW t \in Task, NEW names \in SUBSET Tool \ {{}},
             ApproveTools(t, s, names)
      PROVE  TypeOK'
  BY <1>5, BeginsType DEF ApproveTools
<1>6. QED
  BY <1>1, <1>2, <1>3, <1>4, <1>5

\* The steps that only end a task.
LEMMA OnlyEndsType ==
    ASSUME TypeOK, NEW t \in Task, GivesUp(t) \/ Denies(t) \/ ReturnsList(t)
    PROVE  TypeOK'
<1>1. tasks' \in [Task -> TaskState]
  BY EndsType DEF GivesUp, Denies, ReturnsList
<1>2. QED
  BY <1>1 DEF GivesUp, Denies, ReturnsList, TypeOK

LEMMA UpstreamRepliesType ==
    ASSUME TypeOK, NEW t \in Task, UpstreamReplies(t)
    PROVE  TypeOK'
<1>1. [tasks[t] EXCEPT !.pc = "listed", !.reply = exposed] \in TaskState
  <2>1. tasks[t] \in TaskState /\ tasks[t].sid \in Session
    BY DEF UpstreamReplies, TypeOK, TaskState
  <2>2. exposed \in Listing
    BY DEF TypeOK
  <2>3. QED
    BY <2>1, <2>2 DEF TaskState, TaskRecord
<1>2. tasks' = [tasks EXCEPT
          ![t] = [tasks[t] EXCEPT !.pc = "listed", !.reply = exposed]]
  BY DEF UpstreamReplies, TypeOK, TaskState, TaskRecord
<1>3. tasks' \in [Task -> TaskState]
  BY <1>1, <1>2 DEF TypeOK
<1>4. QED
  BY <1>3 DEF UpstreamReplies, TypeOK

LEMMA ForwardsType ==
    ASSUME TypeOK, NEW t \in Task, NEW tool \in Tool, Forwards(t, tool)
    PROVE  TypeOK'
<1>1. breakers' \in [Tool -> BreakerRecord]
  <2>1. Allow(breakers[tool]) \in BreakerRecord
    BY TimeIsNat, BreakerTypes DEF TypeOK
  <2>2. QED
    BY <2>1 DEF Forwards, TypeOK
<1>2. tasks' \in [Task -> TaskState]
  <2> DEFINE calling == [tasks[t] EXCEPT !.pc = "calling", !.since = now]
  <2>1. calling \in TaskState
    <3>1. /\ tasks[t] \in TaskState /\ tasks[t].sid \in Session
          /\ tasks[t].reply \in Listing /\ now \in Time
      BY DEF Forwards, TypeOK, TaskState
    <3>2. QED
      BY <3>1 DEF TaskState, TaskRecord
  <2>2. tasks' = [tasks EXCEPT ![t] = calling]
    BY DEF Forwards, TypeOK, TaskState, TaskRecord
  <2>3. QED
    BY <2>1, <2>2 DEF TypeOK
<1>3. probes' \in [Tool -> ProbeHistory]
  <2> DEFINE probed == [probes[tool] EXCEPT !.owner = t, !.at = now]
  <2>1. probed \in ProbeHistory
    <3>1. probes[tool] \in ProbeHistory /\ now \in -1..MaxTime
      BY GatewayAssumption DEF TypeOK, Time
    <3>2. QED
      BY <3>1 DEF ProbeHistory
  <2>2. [probes EXCEPT ![tool].owner = t, ![tool].at = now]
            = [probes EXCEPT ![tool] = probed]
    BY DEF TypeOK, ProbeHistory
  <2>3. probes' \in {probes, [probes EXCEPT ![tool] = probed]}
    BY <2>2 DEF Forwards
  <2>4. QED
    BY <2>1, <2>3 DEF TypeOK
<1>4. QED
  BY <1>1, <1>2, <1>3 DEF Forwards, TypeOK

LEMMA ApprovesType ==
    ASSUME TypeOK, NEW t \in Task, NEW done \in SUBSET tasks[t].wanted,
           Approves(t, done)
    PROVE  TypeOK'
<1>1. tasks[t].reply \in Listing
  BY DEF Approves, TypeOK, TaskState
<1>2. ASSUME NEW tool \in Tool, Accepts(tasks[t].reply[tool])
      PROVE  tasks[t].reply[tool][1] \in Definition
  <2>1. tasks[t].reply[tool] \in Seq(Definition)
    BY <1>1, GatewayAssumption DEF Listing
  <2>2. QED
    BY <1>2, <2>1 DEF Accepts
<1>3. pinned' \in [Tool -> Definition \cup {Unpinned}]
  BY <1>2 DEF Approves, TypeOK
<1>4. tasks' \in [Task -> TaskState]
  BY EndsType DEF Approves
<1>5. repinnedAt' \in [Tool -> -1..MaxTime]
  <2>1. now \in -1..MaxTime
    BY GatewayAssumption DEF TypeOK, Time
  <2>2. QED
    BY <2>1 DEF Approves, TypeOK
<1>6. QED
  BY <1>3, <1>4, <1>5 DEF Approves, TypeOK

\* The two outcomes of a forwarded call.
LEMMA OutcomeType ==
    ASSUME TypeOK, NEW t \in Task, NEW tool \in Tool,
           Succeeds(t, tool) \/ Fails(t, tool)
    PROVE  TypeOK'
<1>1. tasks' \in [Task -> TaskState]
  BY EndsType DEF Succeeds, Fails
<1>2. /\ Succeed(breakers[tool]) \in BreakerRecord
      /\ Fail(breakers[tool], now) \in BreakerRecord
  BY BreakerTypes, TimeIsNat DEF TypeOK
<1>3. CASE Succeeds(t, tool)
  BY <1>1, <1>2, <1>3, NoProbesType DEF Succeeds, TypeOK
<1>4. CASE Fails(t, tool)
  <2> DEFINE failed == [probes[tool] EXCEPT !.streak = @ + 1]
  <2>1. probes[tool].streak < Threshold => failed \in ProbeHistory
    <3>1. probes[tool] \in ProbeHistory
      BY DEF TypeOK
    <3>2. QED
      BY <3>1, BreakerPolicy DEF ProbeHistory
  <2>2. [probes EXCEPT ![tool].streak = @ + 1] = [probes EXCEPT ![tool] = failed]
    BY DEF TypeOK, ProbeHistory
  <2>3. probes' \in [Tool -> ProbeHistory]
    BY <1>4, <2>1, <2>2 DEF Fails, TypeOK
  <2>4. QED
    BY <1>1, <1>2, <1>4, <2>3 DEF Fails, TypeOK
<1>5. QED
  BY <1>3, <1>4

LEMMA ResumeType ==
    ASSUME TypeOK, NEW t \in Task, Resume(t)
    PROVE  TypeOK'
BY OnlyEndsType, UpstreamRepliesType, ForwardsType, ApprovesType, OutcomeType
   DEF Resume

LEMMA EnvironmentType ==
    ASSUME TypeOK, Environment
    PROVE  TypeOK'
<1>1. ASSUME NEW s \in Session, Revokes(s)
      PROVE  TypeOK'
  <2>1. now \in -1..MaxTime
    BY GatewayAssumption DEF TypeOK, Time
  <2>2. QED
    BY <1>1, <2>1 DEF Revokes, TypeOK
<1>2. ASSUME NEW u \in User, NEW r \in Reassigned, SetsRole(u, r)
      PROVE  TypeOK'
  <2>1. now \in -1..MaxTime
    BY GatewayAssumption DEF TypeOK, Time
  <2>2. roleSetAt' \in [User -> -1..MaxTime]
    BY <1>2, <2>1 DEF SetsRole, TypeOK
  <2>3. QED
    BY <1>2, <2>2, GatewayAssumption DEF SetsRole, TypeOK
<1>3. ASSUME NEW tool \in Tool, NEW offer \in Offers, ServerChanges(tool, offer)
      PROVE  TypeOK'
  BY <1>3 DEF ServerChanges, TypeOK, Listing
<1>4. CASE Restarts
  BY <1>4, EmptySeq, NewBreakerType, IdleType, NoProbesType DEF Restarts, TypeOK
<1>5. CASE Tick
  <2>1. now' \in Time
    BY <1>5, GatewayAssumption DEF Tick, TypeOK, Time
  <2>2. QED
    BY <1>5, <2>1 DEF Tick, TypeOK
<1>6. CASE Finished
  BY <1>6 DEF Finished, vars, TypeOK
<1>7. QED
  BY <1>1, <1>2, <1>3, <1>4, <1>5, <1>6 DEF Environment

LEMMA TypeStep == TypeOK /\ [Next]_vars => TypeOK'
<1> SUFFICES ASSUME TypeOK, [Next]_vars
             PROVE  TypeOK'
  OBVIOUS
<1>1. CASE UNCHANGED vars
  BY <1>1 DEF vars, TypeOK
<1>2. CASE Next
  BY <1>2, BeginType, ResumeType, EnvironmentType DEF Next
<1>3. QED
  BY <1>1, <1>2

\* In every behaviour of the gateway, for every policy and every number of
\* handlers, each table, deque, breaker and handler holds only what the code
\* can put there.
THEOREM TypeCorrect == Spec => []TypeOK
<1>1. Init => TypeOK
  BY TypeInit
<1>2. TypeOK /\ [Next]_vars => TypeOK'
  BY TypeStep
<1>3. QED
  BY <1>1, <1>2, PTL DEF Spec
-----------------------------------------------------------------------------
(***************************************************************************)
(* What is pinned, shown and forwarded.                                    *)
(***************************************************************************)
LEMMA PoisonInit == Init => PoisonNeverTrusted
<1> SUFFICES ASSUME Init PROVE PoisonNeverTrusted
  OBVIOUS
<1>1. Unpinned \notin Poisoned
  BY GatewayAssumption
<1>2. QED
  BY <1>1 DEF Init, PoisonNeverTrusted, Idle

\* Clean pins are enough: what a caller without a manager's role is shown is
\* pinned at the moment it is returned.
LEMMA CleanPins ==
    ASSUME \A tool \in Tool : pinned[tool] \notin Poisoned
    PROVE  PoisonNeverTrusted
BY DEF PoisonNeverTrusted, Shown

LEMMA PoisonStep ==
    PoisonNeverTrusted /\ [Next]_vars
        => \A tool \in Tool : pinned'[tool] \notin Poisoned
<1> SUFFICES ASSUME PoisonNeverTrusted, [Next]_vars, NEW tool \in Tool
             PROVE  pinned'[tool] \notin Poisoned
  OBVIOUS
<1>1. pinned[tool] \notin Poisoned
  BY DEF PoisonNeverTrusted
<1>2. CASE pinned' = pinned
  BY <1>1, <1>2
<1>3. ASSUME NEW t \in Task, NEW done \in SUBSET tasks[t].wanted, Approves(t, done)
      PROVE  pinned'[tool] \notin Poisoned
  BY <1>1, <1>3 DEF Approves, Accepts
<1>4. CASE Begin
  BY <1>2, <1>4 DEF Begin, ReadsAdmin, ListTools, Request, ApproveTools, Begins
<1>5. ASSUME NEW t \in Task, Resume(t)
      PROVE  pinned'[tool] \notin Poisoned
  BY <1>2, <1>3, <1>5 DEF Resume, UpstreamReplies, GivesUp, Denies, ReturnsList,
                          Forwards, Succeeds, Fails
<1>6. CASE Environment
  BY <1>2, <1>6 DEF Environment, Revokes, SetsRole, ServerChanges, Restarts,
                    Tick, Finished, vars
<1>7. CASE UNCHANGED vars
  BY <1>2, <1>7 DEF vars
<1>8. QED
  BY <1>4, <1>5, <1>6, <1>7 DEF Next

\* A definition the scanner blocks is never pinned and never shown to a caller
\* without a manager's role, whatever the server swaps and whenever.
THEOREM PoisonHolds == Spec => []PoisonNeverTrusted
<1>1. Init => PoisonNeverTrusted
  BY PoisonInit
<1>2. PoisonNeverTrusted /\ [Next]_vars => PoisonNeverTrusted'
  <2>1. (\A tool \in Tool : pinned'[tool] \notin Poisoned) => PoisonNeverTrusted'
    BY DEF PoisonNeverTrusted, Shown
  <2>2. QED
    BY <2>1, PoisonStep
<1>3. QED
  BY <1>1, <1>2, PTL DEF Spec
-----------------------------------------------------------------------------
-----------------------------------------------------------------------------
(***************************************************************************)
(* How long a session's authority outlives it.                             *)
(***************************************************************************)

\* The numbers that are compared below.
LEMMA BusyTask ==
    ASSUME TypeOK, NEW t \in Task, Busy(t)
    PROVE  /\ now \in Nat /\ Timeout \in Nat
           /\ tasks[t].since \in Nat /\ tasks[t].sid \in Session
           /\ Expiry[tasks[t].sid] \in Nat /\ revokedAt[tasks[t].sid] \in Int
           /\ SessionUser[tasks[t].sid] \in User
           /\ roleSetAt[SessionUser[tasks[t].sid]] \in Int
<1>1. now \in Nat /\ Timeout \in Nat
  BY TimeIsNat, GatewayAssumption DEF TypeOK
<1>2. tasks[t].sid \in Session
  BY DEF TypeOK, TaskState, Busy
<1>3. tasks[t].since \in Nat
  BY TimeIsNat DEF TypeOK, TaskState, TaskRecord
<1>4. Expiry[tasks[t].sid] \in Nat /\ revokedAt[tasks[t].sid] \in Int
  BY <1>2, GatewayAssumption DEF TypeOK
<1>5. /\ SessionUser[tasks[t].sid] \in User
      /\ roleSetAt[SessionUser[tasks[t].sid]] \in Int
  BY <1>2, GatewayAssumption DEF TypeOK
<1>6. QED
  BY <1>1, <1>2, <1>3, <1>4, <1>5

\* Tasks that end, or are left alone while the clock, the sessions and the
\* roles are.
LEMMA DeadlinesKept ==
    ASSUME TypeOK, Deadlines,
           UNCHANGED <<now, role, revoked, revokedAt, roleSetAt>>,
           \A k \in Task : tasks'[k] = tasks[k] \/ tasks'[k].pc = "idle"
    PROVE  Deadlines'
BY DEF Deadlines, Busy

LEMMA EndsKeepsDeadlines ==
    ASSUME TypeOK, Deadlines,
           UNCHANGED <<now, role, revoked, revokedAt, roleSetAt>>,
           NEW t \in Task, Ends(t)
    PROVE  Deadlines'
<1>1. \A k \in Task : tasks'[k] = tasks[k] \/ tasks'[k].pc = "idle"
  BY DEF Ends, Idle, TypeOK
<1>2. QED
  BY <1>1, DeadlinesKept

LEMMA BeginsKeepsDeadlines ==
    ASSUME TypeOK, Deadlines, NEW t \in Task, NEW s \in Session, NEW op,
           NEW wanted, NEW may, Begins(t, s, op, wanted, may)
    PROVE  Deadlines'
<1>1. CASE tasks' = tasks
  BY <1>1, DeadlinesKept DEF Begins
<1>2. CASE Await(t, s, op, wanted)
  <2>1. now \in Nat /\ Timeout \in Nat /\ now < Expiry[s] /\ revokedAt[s] = -1
    BY TimeIsNat, GatewayAssumption DEF Begins, Valid, Deadlines, TypeOK
  <2>2. /\ tasks'[t].pc = "listing" /\ tasks'[t].sid = s /\ tasks'[t].since = now
        /\ tasks'[t].role = role[SessionUser[s]]
        /\ \A k \in Task \ {t} : tasks'[k] = tasks[k]
    BY <1>2 DEF Await, TypeOK
  <2>3. UNCHANGED <<now, role, revoked, revokedAt, roleSetAt>>
    BY DEF Begins
  <2>4. QED
    BY <2>1, <2>2, <2>3, GatewayAssumption DEF Deadlines, Busy
<1>3. QED
  BY <1>1, <1>2 DEF Begins

LEMMA UpstreamRepliesKeepsDeadlines ==
    ASSUME TypeOK, Deadlines, NEW t \in Task, UpstreamReplies(t)
    PROVE  Deadlines'
<1>1. /\ tasks'[t].pc = "listed" /\ tasks[t].pc = "listing"
      /\ tasks'[t].sid = tasks[t].sid /\ tasks'[t].since = tasks[t].since
      /\ tasks'[t].role = tasks[t].role
      /\ \A k \in Task \ {t} : tasks'[k] = tasks[k]
  BY DEF UpstreamReplies, TypeOK, TaskState, TaskRecord
<1>2. UNCHANGED <<now, role, revoked, revokedAt, roleSetAt>>
  BY DEF UpstreamReplies
<1>3. ASSUME NEW k \in Task, Busy(k)'
      PROVE  /\ Busy(k) /\ tasks'[k].sid = tasks[k].sid
             /\ tasks'[k].since = tasks[k].since /\ tasks'[k].role = tasks[k].role
             /\ tasks'[k].pc = "calling" <=> tasks[k].pc = "calling"
  BY <1>1, <1>3 DEF Busy
<1>4. QED
  BY <1>2, <1>3 DEF Deadlines

LEMMA ForwardsKeepsDeadlines ==
    ASSUME TypeOK, Deadlines, NEW t \in Task, NEW tool \in Tool, Forwards(t, tool)
    PROVE  Deadlines'
<1> DEFINE u == SessionUser[tasks[t].sid]
<1>1. /\ tasks'[t].pc = "calling" /\ tasks[t].pc = "listed"
      /\ tasks'[t].sid = tasks[t].sid /\ tasks'[t].since = now
      /\ tasks'[t].role = tasks[t].role
      /\ \A k \in Task \ {t} : tasks'[k] = tasks[k]
  BY DEF Forwards, TypeOK, TaskState, TaskRecord
<1>2. /\ now =< tasks[t].since + Timeout
      /\ tasks[t].since < Expiry[tasks[t].sid]
      /\ revokedAt[tasks[t].sid] >= 0 => tasks[t].since =< revokedAt[tasks[t].sid]
      /\ tasks[t].role # role[u] => roleSetAt[u] >= 0 /\ tasks[t].since =< roleSetAt[u]
  BY <1>1, BusyTask DEF Deadlines, Busy
<1>3. /\ now < Expiry[tasks[t].sid] + Timeout
      /\ revokedAt[tasks[t].sid] >= 0 => now =< revokedAt[tasks[t].sid] + Timeout
      /\ tasks[t].role # role[u] => roleSetAt[u] >= 0 /\ now =< roleSetAt[u] + Timeout
  BY <1>1, <1>2, BusyTask DEF Busy
<1>4. now =< now /\ now =< now + Timeout
  BY <1>1, BusyTask DEF Busy
<1>5. UNCHANGED <<now, role, revoked, revokedAt, roleSetAt>>
  BY DEF Forwards
<1>6. ASSUME NEW k \in Task, Busy(k)'
      PROVE  LET grace == IF tasks'[k].pc = "calling" THEN Timeout ELSE 0
                 v == SessionUser[tasks'[k].sid]
             IN /\ tasks'[k].since =< now /\ now =< tasks'[k].since + Timeout
                /\ tasks'[k].since < Expiry[tasks'[k].sid] + grace
                /\ revokedAt[tasks'[k].sid] >= 0
                       => tasks'[k].since =< revokedAt[tasks'[k].sid] + grace
                /\ tasks'[k].role # role[v]
                       => /\ roleSetAt[v] >= 0
                          /\ tasks'[k].since =< roleSetAt[v] + grace
  <2>1. CASE k = t
    BY <1>1, <1>3, <1>4, <2>1
  <2>2. CASE k # t
    BY <1>1, <1>6, <2>2 DEF Deadlines, Busy
  <2>3. QED
    BY <2>1, <2>2
<1>7. QED
  BY <1>5, <1>6 DEF Deadlines

\* A role that changes now changes after every wait has begun.
LEMMA SetsRoleKeepsDeadlines ==
    ASSUME TypeOK, Deadlines, NEW u \in User, NEW r \in Reassigned, SetsRole(u, r)
    PROVE  Deadlines'
<1>1. now \in Nat /\ Timeout \in Nat
  BY TimeIsNat, GatewayAssumption DEF TypeOK
<1>2. ASSUME NEW k \in Task, Busy(k), NEW v, v = SessionUser[tasks[k].sid],
             NEW grace \in {0, Timeout}, tasks[k].role # role'[v],
             tasks[k].role # role[v] => /\ roleSetAt[v] >= 0
                                        /\ tasks[k].since =< roleSetAt[v] + grace
      PROVE  roleSetAt'[v] >= 0 /\ tasks[k].since =< roleSetAt'[v] + grace
  <2>1. /\ v \in User /\ tasks[k].since \in Nat /\ tasks[k].since =< now
    BY <1>2, BusyTask DEF Deadlines
  <2>2. CASE v = u /\ r # role[u]
    BY <1>1, <2>1, <2>2 DEF SetsRole, TypeOK
  <2>3. CASE ~(v = u /\ r # role[u])
    <3>1. role'[v] = role[v] /\ roleSetAt'[v] = roleSetAt[v]
      BY <2>1, <2>3 DEF SetsRole, TypeOK
    <3>2. QED
      BY <1>2, <3>1
  <2>4. QED
    BY <2>2, <2>3
<1>3. UNCHANGED <<now, revoked, revokedAt, tasks>>
  BY DEF SetsRole
<1>4. QED
  BY <1>2, <1>3 DEF Deadlines, Busy

LEMMA RevokesKeepsDeadlines ==
    ASSUME TypeOK, Deadlines, NEW s \in Session, Revokes(s)
    PROVE  Deadlines'
<1>1. now \in Nat /\ Timeout \in Nat
  BY TimeIsNat, GatewayAssumption DEF TypeOK
<1>2. ASSUME NEW other \in Session \ revoked'
      PROVE  revokedAt'[other] = -1
  BY <1>2 DEF Deadlines, Revokes, TypeOK
<1>3. ASSUME NEW k \in Task, Busy(k), revokedAt'[tasks[k].sid] >= 0,
             NEW grace \in {0, Timeout},
             revokedAt[tasks[k].sid] >= 0
                 => tasks[k].since =< revokedAt[tasks[k].sid] + grace
      PROVE  tasks[k].since =< revokedAt'[tasks[k].sid] + grace
  <2>1. /\ tasks[k].sid \in Session /\ tasks[k].since \in Nat
        /\ tasks[k].since =< now
    BY <1>3, BusyTask DEF Deadlines
  <2>2. CASE tasks[k].sid = s
    BY <1>1, <1>3, <2>1, <2>2 DEF Revokes, TypeOK
  <2>3. CASE tasks[k].sid # s
    BY <1>3, <2>1, <2>3 DEF Revokes, TypeOK
  <2>4. QED
    BY <2>2, <2>3
<1>4. QED
  BY <1>2, <1>3 DEF Deadlines, Busy, Revokes

LEMMA TickKeepsDeadlines ==
    ASSUME TypeOK, Deadlines, Tick
    PROVE  Deadlines'
<1>1. ASSUME NEW k \in Task, Busy(k)
      PROVE  now \in Nat /\ Timeout \in Nat /\ tasks[k].since \in Nat
  BY <1>1, BusyTask
<1>2. QED
  BY <1>1 DEF Deadlines, Busy, Tick

LEMMA DeadlinesStep == TypeOK /\ Deadlines /\ [Next]_vars => Deadlines'
<1> SUFFICES ASSUME TypeOK, Deadlines, [Next]_vars
             PROVE  Deadlines'
  OBVIOUS
<1>1. CASE Begin
  <2>1. ASSUME NEW s \in Session, ReadsAdmin(s)
        PROVE  Deadlines'
    BY <2>1, DeadlinesKept DEF ReadsAdmin
  <2>2. QED
    BY <1>1, <2>1, BeginsKeepsDeadlines
       DEF Begin, ListTools, Request, ApproveTools
<1>2. ASSUME NEW t \in Task, Resume(t)
      PROVE  Deadlines'
  BY <1>2, EndsKeepsDeadlines, UpstreamRepliesKeepsDeadlines,
     ForwardsKeepsDeadlines
     DEF Resume, GivesUp, Denies, ReturnsList, Approves, Succeeds, Fails
<1>3. CASE Environment
  <2>1. CASE Restarts
    BY <2>1, DeadlinesKept DEF Restarts, Idle
  <2>2. ASSUME NEW u \in User, NEW r \in Reassigned, SetsRole(u, r)
        PROVE  Deadlines'
    BY <2>2, SetsRoleKeepsDeadlines
  <2>3. ASSUME NEW tool \in Tool, NEW offer \in Offers, ServerChanges(tool, offer)
        PROVE  Deadlines'
    BY <2>3, DeadlinesKept DEF ServerChanges
  <2>4. CASE Finished
    BY <2>4, DeadlinesKept DEF Finished, vars
  <2>5. QED
    BY <1>3, <2>1, <2>2, <2>3, <2>4, RevokesKeepsDeadlines, TickKeepsDeadlines
       DEF Environment
<1>4. CASE UNCHANGED vars
  BY <1>4, DeadlinesKept DEF vars
<1>5. QED
  BY <1>1, <1>2, <1>3, <1>4 DEF Next

\* What a session started before it expired or was revoked, or with a role its
\* user has lost since, ends within two upstream timeouts of that moment, and
\* what it had not yet forwarded by then within one, however the handlers
\* interleave.
THEOREM AuthorityDrainsHolds == Spec => []AuthorityDrains
<1>1. Init => Deadlines
  BY DEF Init, Deadlines, Busy, Idle
<1>2. TypeOK /\ Deadlines /\ [Next]_vars => Deadlines'
  BY DeadlinesStep
<1>3. TypeOK /\ Deadlines => AuthorityDrains
  <2> SUFFICES ASSUME TypeOK, Deadlines, NEW t \in Task, Busy(t)
               PROVE  LET s == tasks[t].sid
                          u == SessionUser[s]
                          grace == IF tasks[t].pc = "calling"
                                   THEN 2 * Timeout ELSE Timeout
                      IN /\ now < Expiry[s] + grace
                         /\ revokedAt[s] >= 0 => now =< revokedAt[s] + grace
                         /\ tasks[t].role # role[u]
                                => /\ roleSetAt[u] >= 0
                                   /\ now =< roleSetAt[u] + grace
    BY DEF AuthorityDrains
  <2>1. QED
    BY BusyTask DEF Deadlines
<1>4. QED
  BY <1>1, <1>2, <1>3, TypeCorrect, PTL DEF Spec
-----------------------------------------------------------------------------
(***************************************************************************)
(* How long a call outlives the pin it was checked against.                *)
(***************************************************************************)

\* A call whose definition is no longer the pinned one was forwarded before
\* the pin changed.  (The inductive form of OldPinsDrain.)
ForwardedOnPin ==
    \A t \in Task, tool \in Tool :
        Calling(t, tool) /\ tasks[t].reply[tool] # <<pinned[tool]>>
            => /\ repinnedAt[tool] >= 0
               /\ tasks[t].since =< repinnedAt[tool]

\* No call begins and no pin changes.
LEMMA ForwardedOnPinKept ==
    ASSUME ForwardedOnPin, UNCHANGED <<pinned, repinnedAt>>,
           \A k \in Task : tasks'[k] = tasks[k] \/ tasks'[k].pc # "calling"
    PROVE  ForwardedOnPin'
BY DEF ForwardedOnPin, Calling

LEMMA ForwardsOnPin ==
    ASSUME TypeOK, ForwardedOnPin, NEW t \in Task, NEW tool \in Tool,
           Forwards(t, tool)
    PROVE  ForwardedOnPin'
<1>1. /\ tasks'[t].wanted = {tool} /\ tasks'[t].reply[tool] = <<pinned[tool]>>
      /\ \A k \in Task \ {t} : tasks'[k] = tasks[k]
  BY DEF Forwards, Verifies, TypeOK, TaskState, TaskRecord
<1>2. UNCHANGED <<pinned, repinnedAt>>
  BY DEF Forwards
<1>3. ASSUME NEW k \in Task, NEW other \in Tool, Calling(k, other)',
             tasks'[k].reply[other] # <<pinned[other]>>
      PROVE  repinnedAt[other] >= 0 /\ tasks'[k].since =< repinnedAt[other]
  <2>1. k # t
    BY <1>1, <1>3 DEF Calling
  <2>2. QED
    BY <1>1, <1>3, <2>1 DEF ForwardedOnPin, Calling
<1>4. QED
  BY <1>2, <1>3 DEF ForwardedOnPin

LEMMA ApprovesOnPin ==
    ASSUME TypeOK, Deadlines, ForwardedOnPin, NEW t \in Task,
           NEW done \in SUBSET tasks[t].wanted, Approves(t, done)
    PROVE  ForwardedOnPin'
<1>1. \A k \in Task : tasks'[k] = tasks[k] \/ tasks'[k].pc # "calling"
  BY DEF Approves, Ends, Idle, TypeOK
<1>2. ASSUME NEW k \in Task, NEW tool \in Tool, Calling(k, tool)',
             tasks'[k].reply[tool] # <<pinned'[tool]>>
      PROVE  repinnedAt'[tool] >= 0 /\ tasks'[k].since =< repinnedAt'[tool]
  <2>1. tasks'[k] = tasks[k] /\ Calling(k, tool) /\ Busy(k)
    BY <1>1, <1>2 DEF Calling, Busy
  <2>2. CASE pinned'[tool] = pinned[tool]
    <3>1. repinnedAt'[tool] = repinnedAt[tool]
      BY <2>2 DEF Approves
    <3>2. QED
      BY <1>2, <2>1, <2>2, <3>1 DEF ForwardedOnPin
  <2>3. CASE pinned'[tool] # pinned[tool]
    <3>1. repinnedAt'[tool] = now
      BY <2>3 DEF Approves
    <3>2. now \in Nat /\ tasks[k].since =< now
      BY <2>1, BusyTask DEF Deadlines
    <3>3. QED
      BY <2>1, <3>1, <3>2
  <2>4. QED
    BY <2>2, <2>3
<1>3. QED
  BY <1>2 DEF ForwardedOnPin

LEMMA ForwardedOnPinStep ==
    ASSUME TypeOK, Deadlines, ForwardedOnPin, [Next]_vars
    PROVE  ForwardedOnPin'
<1>1. ASSUME NEW t \in Task, Ends(t)
      PROVE  \A k \in Task : tasks'[k] = tasks[k] \/ tasks'[k].pc # "calling"
  BY <1>1 DEF Ends, Idle, TypeOK
<1>2. CASE Begin
  <2>1. ASSUME NEW t \in Task, NEW s, NEW op, NEW wanted, NEW may,
               Begins(t, s, op, wanted, may)
        PROVE  ForwardedOnPin'
    <3>1. \A k \in Task : tasks'[k] = tasks[k] \/ tasks'[k].pc # "calling"
      BY <2>1 DEF Begins, Await, TypeOK
    <3>2. QED
      BY <2>1, <3>1, ForwardedOnPinKept DEF Begins
  <2>2. ASSUME NEW s \in Session, ReadsAdmin(s)
        PROVE  ForwardedOnPin'
    BY <2>2, ForwardedOnPinKept DEF ReadsAdmin
  <2>3. QED
    BY <1>2, <2>1, <2>2 DEF Begin, ListTools, Request, ApproveTools
<1>3. ASSUME NEW t \in Task, UpstreamReplies(t)
      PROVE  ForwardedOnPin'
  <2>1. \A k \in Task : tasks'[k] = tasks[k] \/ tasks'[k].pc # "calling"
    BY <1>3 DEF UpstreamReplies, TypeOK, TaskState, TaskRecord
  <2>2. QED
    BY <1>3, <2>1, ForwardedOnPinKept DEF UpstreamReplies
<1>4. ASSUME NEW t \in Task, Resume(t)
      PROVE  ForwardedOnPin'
  BY <1>1, <1>3, <1>4, ForwardsOnPin, ApprovesOnPin, ForwardedOnPinKept
     DEF Resume, GivesUp, Denies, ReturnsList, Succeeds, Fails
<1>5. CASE Environment
  BY <1>5, ForwardedOnPinKept DEF Environment, Revokes, SetsRole, ServerChanges,
     Restarts, Idle, Tick, Finished, vars
<1>6. CASE UNCHANGED vars
  BY <1>6, ForwardedOnPinKept DEF vars
<1>7. QED
  BY <1>2, <1>4, <1>5, <1>6 DEF Next

\* A manager may replace a pin while a call checked against it is under way:
\* no such call is left one upstream timeout later, and at any time the other
\* calls are of the one definition that is pinned.
THEOREM OldPinsDrainHolds == Spec => []OldPinsDrain
<1>1. Init => Deadlines /\ ForwardedOnPin
  BY DEF Init, Deadlines, ForwardedOnPin, Calling, Busy, Idle
<1>2. TypeOK /\ Deadlines /\ ForwardedOnPin /\ [Next]_vars
          => Deadlines' /\ ForwardedOnPin'
  BY DeadlinesStep, ForwardedOnPinStep
<1>3. TypeOK /\ Deadlines /\ ForwardedOnPin => OldPinsDrain
  <2> SUFFICES ASSUME TypeOK, Deadlines, ForwardedOnPin,
                      NEW t \in Task, NEW tool \in Tool, Calling(t, tool),
                      tasks[t].reply[tool] # <<pinned[tool]>>
               PROVE  repinnedAt[tool] >= 0 /\ now =< repinnedAt[tool] + Timeout
    BY DEF OldPinsDrain
  <2>1. /\ now =< tasks[t].since + Timeout
        /\ now \in Nat /\ Timeout \in Nat /\ tasks[t].since \in Nat
    BY BusyTask DEF Deadlines, Busy, Calling
  <2>2. repinnedAt[tool] \in Int
    BY DEF TypeOK
  <2>3. QED
    BY <2>1, <2>2 DEF ForwardedOnPin
<1>4. QED
  BY <1>1, <1>2, <1>3, TypeCorrect, PTL DEF Spec
-----------------------------------------------------------------------------
(***************************************************************************)
(* How many handlers of one user are at work.  The process counts none of  *)
(* them; what bounds them is the rate limiter, which has seen each begin.  *)
(* Think of max_requests seats: a handler that begins takes one no other   *)
(* handler has taken within a window.  There is one, because the deque     *)
(* still has a hit for each handler that began inside the window, and has  *)
(* room for one more.                                                      *)
(***************************************************************************)
InFlight(u) == {t \in Task : Busy(t) /\ SessionUser[tasks[t].sid] = u}

\* A handler began no earlier than this.
Begun(t) == tasks[t].since - (IF tasks[t].pc = "calling" THEN Timeout ELSE 0)

\* When the running handlers of a user began and where they sit: those that
\* share a seat began a window or more apart.
Seated(began, seat, u) ==
    /\ began \in [InFlight(u) -> Int]
    /\ seat \in [InFlight(u) -> 1..MaxRequests]
    /\ \A t \in InFlight(u) : Begun(t) =< began[t] /\ began[t] =< now
    /\ \A a, c \in InFlight(u) :
          a # c /\ seat[a] = seat[c] => \/ began[a] >= began[c] + Window
                                        \/ began[c] >= began[a] + Window

\* Those that began inside the window.
Recent(began, u) == {t \in InFlight(u) : began[t] > Cutoff(now)}

\* The limiter remembers a hit of its own for each of them.
Covers(slot, began, u, deque) ==
    /\ slot \in [Recent(began, u) -> 1..Len(deque)]
    /\ \A a, c \in Recent(began, u) : slot[a] = slot[c] => a = c
    /\ \A t \in Recent(began, u) : deque[slot[t]] >= began[t]

Accounted(u, deque) ==
    \E began, seat, slot : Seated(began, seat, u) /\ Covers(slot, began, u, deque)

Covered == \A u \in User : Len(hits[u]) =< MaxRequests /\ Accounted(u, hits[u])

LEMMA InFlightTask ==
    ASSUME TypeOK, Deadlines, NEW u, NEW t \in InFlight(u)
    PROVE  /\ t \in Task /\ Busy(t)
           /\ now \in Nat /\ Timeout \in Nat /\ tasks[t].since \in Nat
           /\ tasks[t].since =< now /\ now =< tasks[t].since + Timeout
           /\ Begun(t) \in Int /\ Begun(t) =< now /\ Begun(t) >= now - 2 * Timeout
<1>1. t \in Task /\ Busy(t)
  BY DEF InFlight
<1>2. /\ now \in Nat /\ Timeout \in Nat /\ tasks[t].since \in Nat
      /\ tasks[t].since =< now /\ now =< tasks[t].since + Timeout
  BY <1>1, BusyTask DEF Deadlines
<1>3. QED
  BY <1>1, <1>2 DEF Begun

\* No running handler has begun later than it had, or under another user, the
\* deques are as they were, and time does not run backwards.
LEMMA CoveredKept ==
    ASSUME TypeOK, TypeOK', Deadlines, Deadlines', Covered, hits' = hits,
           now' >= now,
           \A t \in Task : Busy(t)' => /\ Busy(t)
                                       /\ tasks'[t].sid = tasks[t].sid
                                       /\ Begun(t)' =< Begun(t)
    PROVE  Covered'
<1> SUFFICES ASSUME NEW u \in User
             PROVE  Accounted(u, hits[u])'
  BY DEF Covered
<1>1. PICK began, seat, slot :
          Seated(began, seat, u) /\ Covers(slot, began, u, hits[u])
  BY DEF Covered, Accounted
<1>2. PICK began2, seat2 : /\ began2 = [t \in InFlight(u)' |-> began[t]]
                           /\ seat2 = [t \in InFlight(u)' |-> seat[t]]
  OBVIOUS
<1>3. PICK slot2 : slot2 = [t \in Recent(began2, u)' |-> slot[t]]
  OBVIOUS
<1>4. InFlight(u)' \subseteq InFlight(u)
  BY DEF InFlight
<1>5. now \in Nat /\ now' \in Nat /\ Window \in Nat
  BY TimeIsNat, WindowPolicy DEF TypeOK
<1>6. ASSUME NEW t \in InFlight(u)'
      PROVE  /\ began2[t] = began[t] /\ seat2[t] = seat[t]
             /\ began2[t] \in Int /\ seat2[t] \in 1..MaxRequests
             /\ Begun(t)' =< began2[t] /\ began2[t] =< now'
  <2>1. /\ t \in InFlight(u) /\ Begun(t)' =< Begun(t)
        /\ began[t] \in Int /\ Begun(t) =< began[t] /\ began[t] =< now
        /\ seat[t] \in 1..MaxRequests
    BY <1>1, <1>4 DEF Seated, InFlight
  <2>2. Begun(t) \in Int /\ Begun(t)' \in Int
    <3>1. Begun(t) \in Int
      BY <2>1, InFlightTask
    <3>2. tasks'[t].since \in Nat /\ Timeout \in Nat
      BY TimeIsNat, GatewayAssumption DEF TypeOK, TaskState, TaskRecord, InFlight
    <3>3. QED
      BY <3>1, <3>2 DEF Begun
  <2>3. QED
    BY <1>2, <1>5, <2>1, <2>2
<1>7. Seated(began2, seat2, u)'
  <2>1. \A a, c \in InFlight(u)' :
           a # c /\ seat2[a] = seat2[c] => \/ began2[a] >= began2[c] + Window
                                           \/ began2[c] >= began2[a] + Window
    BY <1>1, <1>4, <1>6 DEF Seated
  <2>2. /\ began2 \in [InFlight(u)' -> Int]
        /\ seat2 \in [InFlight(u)' -> 1..MaxRequests]
    BY <1>2, <1>6
  <2>3. QED
    BY <1>6, <2>1, <2>2 DEF Seated
<1>8. Recent(began2, u)' \subseteq Recent(began, u)
  BY <1>4, <1>5, <1>6 DEF Recent, Cutoff
<1>9. Covers(slot2, began2, u, hits[u])'
  <2>1. \A t \in Recent(began2, u)' :
           slot2[t] = slot[t] /\ began2[t] = began[t] /\ t \in Recent(began, u)
    BY <1>6, <1>8, <1>3 DEF Recent
  <2>2. slot2 \in [Recent(began2, u)' -> 1..Len(hits[u])]
    BY <1>1, <1>3, <2>1 DEF Covers
  <2>3. QED
    BY <1>1, <2>1, <2>2 DEF Covers
<1>10. QED
  BY <1>7, <1>9 DEF Accounted

\* Dropping what has left the window drops no hit of a handler that began
\* inside it.
LEMMA LiveCovers ==
    ASSUME TypeOK, Deadlines, Covered, NEW u \in User
    PROVE  /\ Live(hits[u], now) \in Seq(Time)
           /\ Len(Live(hits[u], now)) =< MaxRequests
           /\ Accounted(u, Live(hits[u], now))
<1> DEFINE live == Live(hits[u], now)
<1>1. hits[u] \in Seq(Time) /\ now \in Nat /\ Len(hits[u]) \in Nat
  BY TimeIsNat DEF TypeOK
<1>2. PICK n \in 0..Len(hits[u]) :
          /\ live \in Seq(Time)
          /\ Len(live) = Len(hits[u]) - n
          /\ \A i \in 1..Len(hits[u]) - n : live[i] = hits[u][i + n]
          /\ \A j \in 1..n : hits[u][j] =< Cutoff(now)
  BY <1>1, LiveIsSuffix, TimeIsNat
<1>3. PICK began, seat, slot :
          Seated(began, seat, u) /\ Covers(slot, began, u, hits[u])
  BY DEF Covered, Accounted
<1> DEFINE moved == [t \in Recent(began, u) |-> slot[t] - n]
<1> HIDE DEF live
<1>4. ASSUME NEW t \in Recent(began, u)
      PROVE  /\ slot[t] \in 1..Len(hits[u])
             /\ moved[t] \in 1..Len(live)
             /\ live[moved[t]] >= began[t]
  <2>1. slot[t] \in 1..Len(hits[u]) /\ hits[u][slot[t]] >= began[t]
    BY <1>3 DEF Covers
  <2>2. hits[u][slot[t]] \in Nat
    BY <1>1, <2>1, NatSeq, TimeIsNat
  <2>3. ~(hits[u][slot[t]] =< Cutoff(now))
    <3>1. began[t] \in Int /\ began[t] > Cutoff(now)
      BY <1>3 DEF Recent, Seated
    <3>2. Cutoff(now) \in Int
      BY <1>1, WindowPolicy DEF Cutoff
    <3>3. QED
      BY <2>1, <2>2, <3>1, <3>2
  <2>4. slot[t] \notin 1..n
    BY <1>2, <2>3
  <2>5. moved[t] \in 1..Len(live) /\ moved[t] + n = slot[t]
    <3>1. moved[t] = slot[t] - n
      OBVIOUS
    <3>2. slot[t] - n \in 1..Len(live) /\ slot[t] - n + n = slot[t]
      <4>1. /\ Len(live) = Len(hits[u]) - n /\ Len(hits[u]) \in Nat
            /\ slot[t] \in 1..Len(hits[u])
        BY <1>1, <1>2, <2>1
      <4>2. slot[t] > n
        BY <2>4, <4>1
      <4>3. QED
        BY <4>1, <4>2
    <3>3. QED
      BY <3>1, <3>2
  <2>6. live[moved[t]] = hits[u][slot[t]]
    BY <1>2, <2>5
  <2>7. QED
    BY <2>1, <2>5, <2>6
<1>5. /\ moved \in [Recent(began, u) -> 1..Len(live)]
      /\ \A a, c \in Recent(began, u) : moved[a] = moved[c] => a = c
  <2>1. moved \in [Recent(began, u) -> 1..Len(live)]
    BY <1>4
  <2>2. ASSUME NEW a \in Recent(began, u), NEW c \in Recent(began, u),
               moved[a] = moved[c]
        PROVE  a = c
    <3>1. slot[a] = slot[c]
      BY <1>2, <1>4, <2>2
    <3>2. QED
      BY <1>3, <3>1 DEF Covers
  <2>3. QED
    BY <2>1, <2>2
<1>6. Covers(moved, began, u, live)
  BY <1>4, <1>5 DEF Covers
<1>7. Len(live) =< MaxRequests
  BY <1>1, <1>2, WindowPolicy DEF Covered
<1>8. Accounted(u, live)
  <2> HIDE DEF moved
  <2>1. QED
    BY <1>3, <1>6 DEF Accounted
<1>9. QED
  BY <1>2, <1>7, <1>8 DEF live

\* Recording a hit takes none away.
LEMMA ChargeCovers ==
    ASSUME TypeOK, Deadlines, Covered, NEW u \in User, Charge(u)
    PROVE  /\ \A v \in User \ {u} : hits'[v] = hits[v]
           /\ Len(hits'[u]) =< MaxRequests
           /\ Accounted(u, hits'[u])
<1> DEFINE live == Live(hits[u], now)
<1>1. /\ \A v \in User \ {u} : hits'[v] = hits[v]
      /\ hits'[u] = After(live, now)
  BY DEF Charge, TypeOK
<1>2. live \in Seq(Time) /\ Len(live) \in Nat /\ Len(live) =< MaxRequests
  BY LiveCovers, NatSeq, TimeIsNat
<1>3. PICK began, seat, slot :
          Seated(began, seat, u) /\ Covers(slot, began, u, live)
  BY LiveCovers DEF Accounted
<1> HIDE DEF live
<1>4. CASE HasRoom(live)
  <2> DEFINE longer == Append(live, now)
  <2>1. hits'[u] = longer /\ Len(longer) = Len(live) + 1
        /\ \A i \in 1..Len(live) : longer[i] = live[i]
    BY <1>1, <1>2, <1>4 DEF After
  <2> HIDE DEF longer
  <2>2. Covers(slot, began, u, longer)
    BY <1>2, <1>3, <2>1 DEF Covers
  <2>3. Len(longer) =< MaxRequests
    BY <1>2, <1>4, <2>1, WindowPolicy DEF HasRoom
  <2>4. QED
    BY <1>1, <1>3, <2>1, <2>2, <2>3 DEF Accounted
<1>5. CASE ~HasRoom(live)
  BY <1>1, <1>2, <1>3, <1>5 DEF After, Accounted
<1>6. QED
  BY <1>4, <1>5

\* While the deque has room, so have the seats.
LEMMA FreeSeat ==
    ASSUME NEW u, NEW began, NEW seat, NEW slot, NEW deque,
           Len(deque) \in Nat, Len(deque) < MaxRequests,
           Seated(began, seat, u), Covers(slot, began, u, deque)
    PROVE  \E free \in 1..MaxRequests :
              \A t \in Recent(began, u) : seat[t] # free
<1> SUFFICES ASSUME \A s \in 1..MaxRequests :
                       \E t \in Recent(began, u) : seat[t] = s
             PROVE  FALSE
  OBVIOUS
<1> DEFINE taken == [t \in Recent(began, u) |-> seat[t]]
<1>1. \A n \in Nat : IsFiniteSet(1..n) /\ Cardinality(1..n) = n
  <2> SUFFICES ASSUME NEW n \in Nat
               PROVE  IsFiniteSet(1..n) /\ Cardinality(1..n) = n
    OBVIOUS
  <2>1. 1 \in Int /\ n \in Int
    OBVIOUS
  <2>2. /\ IsFiniteSet(1..n)
        /\ Cardinality(1..n) = IF 1 > n THEN 0 ELSE n - 1 + 1
    BY <2>1, FS_Interval, Zenon
  <2>3. QED
    BY <2>2
<1>2. slot \in Injection(Recent(began, u), 1..Len(deque))
  BY DEF Covers, Injection, IsInjective
<1>3. /\ IsFiniteSet(Recent(began, u))
      /\ Cardinality(Recent(began, u)) =< Len(deque)
  <2>1. IsFiniteSet(1..Len(deque)) /\ Cardinality(1..Len(deque)) = Len(deque)
    BY <1>1
  <2>2. QED
    BY <1>2, <2>1, FS_Injection
<1>4. taken \in Surjection(Recent(began, u), 1..MaxRequests)
  <2>1. taken \in [Recent(began, u) -> 1..MaxRequests]
    BY DEF Seated, Recent
  <2>2. \A s \in 1..MaxRequests : \E t \in Recent(began, u) : taken[t] = s
    OBVIOUS
  <2> HIDE DEF taken
  <2>3. QED
    BY <2>1, <2>2 DEF Surjection
<1>5. Cardinality(1..MaxRequests) =< Cardinality(Recent(began, u))
  <2> HIDE DEF taken
  <2>1. QED
    BY <1>3, <1>4, FS_Surjection
<1>6. Cardinality(1..MaxRequests) = MaxRequests /\ MaxRequests \in Nat
  BY <1>1, WindowPolicy
<1>7. Cardinality(Recent(began, u)) \in Nat
  BY <1>3, FS_CardinalityType
<1>8. QED
  BY <1>3, <1>5, <1>6, <1>7

\* A handler that starts takes a free seat and the hit it was just charged.
LEMMA AwaitCovers ==
    ASSUME TypeOK, Deadlines, Covered,
           NEW t \in Task, NEW s \in Session, NEW op, NEW wanted,
           ~Busy(t), HasQuota(SessionUser[s]), Charge(SessionUser[s]),
           now' = now, Await(t, s, op, wanted)
    PROVE  Accounted(SessionUser[s], hits[SessionUser[s]])'
<1> DEFINE u == SessionUser[s]
           live == Live(hits[u], now)
<1>1. u \in User /\ now \in Nat /\ Window \in Nat \ {0}
  BY GatewayAssumption, TimeIsNat, WindowPolicy DEF TypeOK
<1>2. live \in Seq(Time) /\ Len(live) \in Nat
  BY <1>1, LiveCovers, NatSeq, TimeIsNat
<1>3. PICK began, seat, slot :
          Seated(began, seat, u) /\ Covers(slot, began, u, live)
  BY <1>1, LiveCovers DEF Accounted
<1>4. hits'[u] = Append(live, now) /\ Len(live) < MaxRequests
  BY <1>1 DEF Charge, TypeOK, After, HasQuota, HasRoom
<1>5. /\ \A k \in Task \ {t} : tasks'[k] = tasks[k]
      /\ tasks'[t].pc = "listing" /\ tasks'[t].sid = s /\ tasks'[t].since = now
  BY DEF Await, TypeOK
<1> HIDE DEF live, u
<1>6. InFlight(u)' = InFlight(u) \cup {t} /\ t \notin InFlight(u)
  BY <1>5 DEF InFlight, Busy, u
<1>7. /\ \A k \in InFlight(u) : Begun(k)' = Begun(k)
      /\ Begun(t)' = now
  BY <1>1, <1>5, <1>6 DEF InFlight, Begun
<1>8. PICK free \in 1..MaxRequests : \A k \in Recent(began, u) : seat[k] # free
  BY <1>2, <1>3, <1>4, FreeSeat
<1> DEFINE longer == Append(live, now)
<1>9. PICK began2, seat2 :
          /\ began2 = [k \in InFlight(u)' |-> IF k = t THEN now ELSE began[k]]
          /\ seat2 = [k \in InFlight(u)' |-> IF k = t THEN free ELSE seat[k]]
  OBVIOUS
<1>10. PICK slot2 : slot2 = [k \in Recent(began2, u)' |->
                               IF k = t THEN Len(live) + 1 ELSE slot[k]]
  OBVIOUS
<1>11. /\ Len(longer) = Len(live) + 1 /\ longer[Len(live) + 1] = now
      /\ \A i \in 1..Len(live) : longer[i] = live[i]
  BY <1>2
<1> HIDE DEF longer
<1>12. ASSUME NEW k \in InFlight(u)
       PROVE  /\ k # t /\ began2[k] = began[k] /\ seat2[k] = seat[k]
              /\ began[k] \in Int /\ seat[k] \in 1..MaxRequests
              /\ Begun(k)' =< began[k] /\ began[k] =< now
  BY <1>9, <1>3, <1>6, <1>7 DEF Seated
<1>13. began2[t] = now /\ seat2[t] = free
  BY <1>9, <1>6
<1>14. ASSUME NEW k \in InFlight(u), seat[k] = free
       PROVE  now >= began[k] + Window
  <2>1. k \notin Recent(began, u)
    BY <1>8, <1>14
  <2>2. ~(began[k] > now - Window) /\ began[k] \in Int
    BY <1>12, <2>1 DEF Recent, Cutoff
  <2>3. QED
    BY <1>1, <2>2
<1>15. /\ began2 \in [InFlight(u)' -> Int]
       /\ seat2 \in [InFlight(u)' -> 1..MaxRequests]
  BY <1>9, <1>1, <1>6, <1>12, <1>13
<1>16. Seated(began2, seat2, u)'
  <2>1. ASSUME NEW k \in InFlight(u)'
        PROVE  Begun(k)' =< began2[k] /\ began2[k] =< now'
    BY <1>1, <1>6, <1>7, <1>12, <1>13
  <2>2. ASSUME NEW a \in InFlight(u)', NEW c \in InFlight(u)', a # c,
               seat2[a] = seat2[c]
        PROVE  began2[a] >= began2[c] + Window \/ began2[c] >= began2[a] + Window
    <3>1. CASE a = t
      BY <1>6, <1>12, <1>13, <1>14, <2>2, <3>1
    <3>2. CASE c = t
      BY <1>6, <1>12, <1>13, <1>14, <2>2, <3>2
    <3>3. CASE a # t /\ c # t
      <4>1. a \in InFlight(u) /\ c \in InFlight(u)
        BY <1>6, <3>3
      <4>2. QED
        BY <1>3, <1>12, <2>2, <4>1 DEF Seated
    <3>4. QED
      BY <3>1, <3>2, <3>3
  <2>3. QED
    BY <1>15, <2>1, <2>2 DEF Seated
<1>17. Recent(began2, u)' = Recent(began, u) \cup {t} /\ t \notin Recent(began, u)
  <2>1. now > now - Window
    BY <1>1
  <2>2. QED
    BY <1>6, <1>12, <1>13, <2>1 DEF Recent, Cutoff
<1>18. ASSUME NEW k \in Recent(began, u)
       PROVE  /\ k # t /\ slot2[k] = slot[k] /\ slot[k] \in 1..Len(live)
              /\ live[slot[k]] >= began[k] /\ k \in InFlight(u)
  <2>1. slot[k] \in 1..Len(live) /\ live[slot[k]] >= began[k]
    BY <1>3 DEF Covers
  <2>2. QED
    BY <1>10, <1>17, <2>1 DEF Recent
<1>19. slot2[t] = Len(live) + 1
  BY <1>10, <1>17
<1>20. slot2 \in [Recent(began2, u)' -> 1..Len(longer)]
  <2>1. \A k \in Recent(began2, u)' : slot2[k] \in 1..Len(longer)
    BY <1>2, <1>11, <1>17, <1>18, <1>19
  <2>2. QED
    BY <1>10, <2>1
<1>21. ASSUME NEW a \in Recent(began2, u)', NEW c \in Recent(began2, u)',
              slot2[a] = slot2[c]
       PROVE  a = c
  BY <1>2, <1>3, <1>17, <1>18, <1>19, <1>21 DEF Covers
<1>22. ASSUME NEW k \in Recent(began2, u)'
       PROVE  longer[slot2[k]] >= began2[k]
  <2>1. CASE k = t
    BY <1>1, <1>11, <1>13, <1>19, <2>1
  <2>2. CASE k # t
    BY <1>11, <1>12, <1>17, <1>18, <2>2
  <2>3. QED
    BY <2>1, <2>2
<1>23. Covers(slot2, began2, u, hits[u])'
  <2>1. hits'[u] = longer
    BY <1>4 DEF longer
  <2>2. QED
    BY <1>20, <1>21, <1>22, <2>1 DEF Covers, u
<1>24. QED
  BY <1>16, <1>23 DEF Accounted, u

\* What is accounted for stays so while the user's handlers and the clock are
\* left alone.
LEMMA AccountedKept ==
    ASSUME NEW u, NEW deque, now' = now, InFlight(u)' = InFlight(u),
           \A k \in InFlight(u) : Begun(k)' = Begun(k),
           Accounted(u, deque), hits'[u] = deque
    PROVE  Accounted(u, hits[u])'
<1>1. PICK began, seat, slot :
          Seated(began, seat, u) /\ Covers(slot, began, u, deque)
  BY DEF Accounted
<1>2. Recent(began, u)' = Recent(began, u)
  BY DEF Recent
<1>3. Seated(began, seat, u)'
  BY <1>1 DEF Seated
<1>4. Covers(slot, began, u, hits[u])'
  BY <1>1, <1>2 DEF Covers
<1>5. QED
  BY <1>3, <1>4 DEF Accounted

LEMMA BeginsKeepsCovered ==
    ASSUME TypeOK, TypeOK', Deadlines, Deadlines', Covered,
           NEW t \in Task, NEW s \in Session, NEW op, NEW wanted, NEW may,
           Begins(t, s, op, wanted, may)
    PROVE  Covered'
<1> DEFINE u == SessionUser[s]
<1>1. u \in User /\ Charge(u) /\ ~Busy(t) /\ now' = now
  BY GatewayAssumption DEF Begins
<1>2. /\ \A v \in User \ {u} : hits'[v] = hits[v]
      /\ Len(hits'[u]) =< MaxRequests
      /\ Accounted(u, hits'[u])
  BY <1>1, ChargeCovers
<1>3. CASE Await(t, s, op, wanted) /\ HasQuota(u)
  <2>1. Accounted(u, hits[u])'
    BY <1>1, <1>3, AwaitCovers
  <2>2. ASSUME NEW v \in User \ {u}
        PROVE  Accounted(v, hits[v])'
    <3>1. /\ \A k \in Task \ {t} : tasks'[k] = tasks[k]
          /\ tasks'[t].sid = s
      BY <1>3 DEF Await, TypeOK
    <3>2. /\ InFlight(v)' = InFlight(v) /\ t \notin InFlight(v)
          /\ \A k \in InFlight(v) : Begun(k)' = Begun(k)
      BY <1>1, <3>1 DEF InFlight, Busy, Begun
    <3>3. Accounted(v, hits[v])
      BY DEF Covered
    <3>4. QED
      BY <1>1, <1>2, <3>2, <3>3, AccountedKept
  <2>3. QED
    BY <1>2, <2>1, <2>2 DEF Covered
<1>4. CASE tasks' = tasks
  <2>1. ASSUME NEW v \in User
        PROVE  (Len(hits[v]) =< MaxRequests /\ Accounted(v, hits[v]))'
    <3>1. /\ InFlight(v)' = InFlight(v)
          /\ \A k \in InFlight(v) : Begun(k)' = Begun(k)
      BY <1>4 DEF InFlight, Busy, Begun
    <3>2. Len(hits'[v]) =< MaxRequests /\ Accounted(v, hits'[v])
      BY <1>2 DEF Covered
    <3>3. QED
      BY <1>1, <3>1, <3>2, AccountedKept
  <2>2. QED
    BY <2>1 DEF Covered
<1>5. QED
  BY <1>3, <1>4 DEF Begins

LEMMA ReadsAdminKeepsCovered ==
    ASSUME TypeOK, Deadlines, Covered, NEW s \in Session, ReadsAdmin(s)
    PROVE  Covered'
<1> DEFINE u == SessionUser[s]
<1>1. u \in User /\ Charge(u) /\ tasks' = tasks /\ now' = now
  BY GatewayAssumption DEF ReadsAdmin
<1>2. /\ \A v \in User \ {u} : hits'[v] = hits[v]
      /\ Len(hits'[u]) =< MaxRequests
      /\ Accounted(u, hits'[u])
  BY <1>1, ChargeCovers
<1>3. ASSUME NEW v \in User
      PROVE  (Len(hits[v]) =< MaxRequests /\ Accounted(v, hits[v]))'
  <2>1. /\ InFlight(v)' = InFlight(v)
        /\ \A k \in InFlight(v) : Begun(k)' = Begun(k)
    BY <1>1 DEF InFlight, Busy, Begun
  <2>2. Len(hits'[v]) =< MaxRequests /\ Accounted(v, hits'[v])
    BY <1>2 DEF Covered
  <2>3. QED
    BY <1>1, <2>1, <2>2, AccountedKept
<1>4. QED
  BY <1>3 DEF Covered

\* A handler that resumes is not begun again: a forwarded call has been
\* waiting for the list no longer than the timeout.
LEMMA ResumeKeepsCovered ==
    ASSUME TypeOK, TypeOK', Deadlines, Deadlines', Covered,
           NEW t \in Task, Resume(t)
    PROVE  Covered'
<1>1. hits' = hits /\ now' >= now
  <2>1. hits' = hits /\ now' = now
    BY DEF Resume, UpstreamReplies, GivesUp, Denies, ReturnsList, Approves,
           Forwards, Succeeds, Fails
  <2>2. now \in Nat
    BY TimeIsNat DEF TypeOK
  <2>3. QED
    BY <2>1, <2>2
<1>2. ASSUME NEW k \in Task, tasks'[k] = tasks[k]
      PROVE  (Busy(k)' => Busy(k)) /\ tasks'[k].sid = tasks[k].sid /\ Begun(k)' = Begun(k)
  BY <1>2 DEF Busy, Begun
<1>3. ASSUME NEW k \in Task, Busy(k)
      PROVE  Begun(k) \in Int
  BY <1>3, BusyTask DEF Begun
<1>4. CASE Ends(t)
  <2>1. \A k \in Task : tasks'[k] = tasks[k] \/ ~Busy(k)'
    BY <1>4 DEF Ends, Idle, Busy, TypeOK
  <2>2. QED
    BY <1>1, <1>2, <1>3, <2>1, CoveredKept
<1>5. ASSUME UpstreamReplies(t) \/ \E tool \in Tool : Forwards(t, tool)
      PROVE  Covered'
  <2>1. \A k \in Task \ {t} : tasks'[k] = tasks[k]
    BY <1>5 DEF UpstreamReplies, Forwards, TypeOK
  <2>2. tasks[t].pc \in {"listing", "listed"} /\ tasks'[t].sid = tasks[t].sid
    <3>1. CASE UpstreamReplies(t)
      BY <3>1 DEF UpstreamReplies, TypeOK, TaskState, TaskRecord
    <3>2. ASSUME NEW tool \in Tool, Forwards(t, tool)
          PROVE  tasks[t].pc = "listed" /\ tasks'[t].sid = tasks[t].sid
      BY <3>2 DEF Forwards, TypeOK, TaskState, TaskRecord
    <3>3. QED
      BY <1>5, <3>1, <3>2
  <2>3. /\ now \in Nat /\ Timeout \in Nat /\ tasks[t].since \in Nat
        /\ now =< tasks[t].since + Timeout
        /\ Begun(t) = tasks[t].since
    BY <2>2, BusyTask DEF Busy, Deadlines, Begun
  <2>4. Begun(t)' =< Begun(t)
    <3>1. CASE UpstreamReplies(t)
      <4>1. tasks'[t].pc = "listed" /\ tasks'[t].since = tasks[t].since
        BY <3>1 DEF UpstreamReplies, TypeOK, TaskState, TaskRecord
      <4>2. QED
        BY <2>3, <4>1 DEF Begun
    <3>2. ASSUME NEW tool \in Tool, Forwards(t, tool)
          PROVE  Begun(t)' =< Begun(t)
      <4>1. tasks'[t].pc = "calling" /\ tasks'[t].since = now
        BY <3>2 DEF Forwards, TypeOK, TaskState, TaskRecord
      <4>2. QED
        BY <2>3, <4>1 DEF Begun
    <3>3. QED
      BY <1>5, <3>1, <3>2
  <2>5. ASSUME NEW k \in Task, Busy(k)'
        PROVE  Busy(k) /\ tasks'[k].sid = tasks[k].sid /\ Begun(k)' =< Begun(k)
    <3>1. CASE k = t
      BY <2>2, <2>4, <3>1 DEF Busy
    <3>2. CASE k # t
      BY <1>2, <1>3, <2>1, <2>5, <3>2
    <3>3. QED
      BY <3>1, <3>2
  <2>6. QED
    BY <1>1, <2>5, CoveredKept
<1>6. QED
  BY <1>4, <1>5 DEF Resume, GivesUp, Denies, ReturnsList, Approves, Succeeds, Fails

\* Nothing accounts for nothing: no handler survives a restart, and no deque.
LEMMA NoneAccounted ==
    ASSUME NEW u, NEW deque, InFlight(u) = {}
    PROVE  Accounted(u, deque)
<1>1. PICK none : none = [t \in {} |-> 1]
  OBVIOUS
<1>2. Recent(none, u) = {}
  BY DEF Recent
<1>3. Seated(none, none, u) /\ Covers(none, none, u, deque)
  BY <1>1, <1>2 DEF Seated, Covers
<1>4. QED
  BY <1>3 DEF Accounted

LEMMA FreshCovered ==
    ASSUME hits = [u \in User |-> <<>>], \A t \in Task : ~Busy(t)
    PROVE  Covered
<1>1. \A u \in User : Len(hits[u]) =< MaxRequests
  BY WindowPolicy
<1>2. \A u \in User : InFlight(u) = {}
  BY DEF InFlight
<1>3. QED
  BY <1>1, <1>2, NoneAccounted DEF Covered

LEMMA CoveredStep ==
    ASSUME TypeOK, Deadlines, Covered, [Next]_vars
    PROVE  Covered'
<1>1. TypeOK' /\ Deadlines'
  BY TypeStep, DeadlinesStep
<1>2. CASE Begin
  <2>1. ASSUME NEW s \in Session, ReadsAdmin(s)
        PROVE  Covered'
    BY <2>1, ReadsAdminKeepsCovered
  <2>2. QED
    BY <1>1, <1>2, <2>1, BeginsKeepsCovered
       DEF Begin, ListTools, Request, ApproveTools
<1>3. ASSUME NEW t \in Task, Resume(t)
      PROVE  Covered'
  BY <1>1, <1>3, ResumeKeepsCovered
<1>4. CASE Restarts
  <2>1. (hits = [u \in User |-> <<>>] /\ \A t \in Task : ~Busy(t))'
    BY <1>4 DEF Restarts, Idle, Busy
  <2>2. QED
    BY <2>1, FreshCovered, PTL
<1>5. CASE UNCHANGED <<tasks, hits>> /\ now' >= now
  <2>1. ASSUME NEW t \in Task, Busy(t)'
        PROVE  Busy(t) /\ tasks'[t].sid = tasks[t].sid /\ Begun(t)' =< Begun(t)
    <3>1. Busy(t) /\ Begun(t) \in Int
      BY <1>5, <2>1, BusyTask DEF Busy, Begun
    <3>2. QED
      BY <1>5, <3>1 DEF Begun
  <2>2. QED
    BY <1>1, <1>5, <2>1, CoveredKept
<1>6. now \in Nat /\ now >= now /\ now + 1 >= now
  BY TimeIsNat DEF TypeOK
<1>7. QED
  BY <1>2, <1>3, <1>4, <1>5, <1>6 DEF Next, Environment, Revokes, SetsRole,
     ServerChanges, Tick, Finished, vars

\* Times that are less than a window apart are counted in the same window or
\* in the next one; those a window or more apart never in the same.
LEMMA Quotient ==
    ASSUME NEW x \in Nat, NEW w \in Nat \ {0}
    PROVE  x \div w \in Nat /\ w * (x \div w) =< x /\ x < w * (x \div w) + w
OBVIOUS

LEMMA NextMultiple ==
    ASSUME NEW a \in Int, NEW b \in Int, NEW w \in Nat \ {0}, a >= b + 1
    PROVE  w * a >= w * b + w
<1>1. PICK d \in Nat : a = b + 1 + d
  <2>1. a - b - 1 \in Nat /\ a = b + 1 + (a - b - 1)
    OBVIOUS
  <2>2. QED
    BY <2>1
<1>2. w * d \in Nat
  OBVIOUS
<1>3. w * a = w * b + w + w * d
  BY <1>1
<1>4. QED
  BY <1>2, <1>3

LEMMA QuotientsOrdered ==
    ASSUME NEW x \in Nat, NEW y \in Nat, NEW w \in Nat \ {0}
    PROVE  /\ x =< y => x \div w =< y \div w
           /\ x \div w = y \div w => x < y + w
<1> DEFINE p == x \div w
           q == y \div w
<1>1. /\ p \in Nat /\ w * p =< x /\ x < w * p + w
      /\ q \in Nat /\ w * q =< y /\ y < w * q + w
  BY Quotient
<1>2. w * p \in Nat /\ w * q \in Nat
  BY <1>1
<1> HIDE DEF p, q
<1>3. ASSUME x =< y, p >= q + 1
      PROVE  FALSE
  <2>1. w * p >= w * q + w
    BY <1>1, <1>3, NextMultiple
  <2>2. QED
    BY <1>1, <1>2, <1>3, <2>1
<1>4. x =< y => p =< q
  BY <1>1, <1>3
<1>5. p = q => x < y + w
  BY <1>1, <1>2
<1>6. QED
  BY <1>4, <1>5 DEF p, q

\* For every policy: no user ever has more handlers waiting on the server than
\* the limit, times one plus the windows that fit in two timeouts.  Each
\* running handler has a seat, and a window of its own in that seat.
THEOREM InFlightHolds == Spec => []InFlightBounded
<1>1. Init => Deadlines /\ Covered
  <2>1. Init => Deadlines
    BY DEF Init, Deadlines, Busy, Idle
  <2>2. Init => Covered
    BY FreshCovered DEF Init, Busy, Idle
  <2>3. QED
    BY <2>1, <2>2
<1>2. TypeOK /\ Deadlines /\ Covered /\ [Next]_vars => Deadlines' /\ Covered'
  BY DeadlinesStep, CoveredStep
<1>3. TypeOK /\ Deadlines /\ Covered => InFlightBounded
  <2> DEFINE K == (2 * Timeout) \div Window
  <2> SUFFICES ASSUME TypeOK, Deadlines, Covered, NEW u \in User
               PROVE  Cardinality(InFlight(u)) =< MaxRequests * (1 + K)
    BY DEF InFlightBounded, InFlight
  <2>1. PICK began, seat : Seated(began, seat, u)
    BY DEF Covered, Accounted
  <2>2. /\ now \in Nat /\ 2 * Timeout \in Nat /\ Window \in Nat \ {0}
        /\ MaxRequests \in Nat /\ K \in Nat
    <3>1. now \in Nat /\ 2 * Timeout \in Nat /\ Window \in Nat \ {0}
      BY TimeIsNat, GatewayAssumption, WindowPolicy DEF TypeOK
    <3>2. QED
      BY <3>1, Quotient, WindowPolicy
  <2> HIDE DEF K
  <2> DEFINE age(t) == now - began[t]
  <2>3. ASSUME NEW t \in InFlight(u)
        PROVE  /\ age(t) \in Nat /\ age(t) =< 2 * Timeout /\ began[t] \in Int
               /\ seat[t] \in 1..MaxRequests
    <3>1. /\ Begun(t) =< began[t] /\ began[t] =< now /\ began[t] \in Int
          /\ seat[t] \in 1..MaxRequests
      BY <2>1 DEF Seated
    <3>2. Begun(t) \in Int /\ Begun(t) >= now - 2 * Timeout
      BY InFlightTask
    <3>3. QED
      BY <2>2, <3>1, <3>2
  <2>4. PICK place : place = [t \in InFlight(u) |-> <<seat[t], age(t) \div Window>>]
    OBVIOUS
  <2>5. ASSUME NEW t \in InFlight(u)
        PROVE  age(t) \div Window \in 0..K
    <3>1. age(t) \div Window \in Nat /\ age(t) \div Window =< K
      BY <2>2, <2>3, Quotient, QuotientsOrdered DEF K
    <3>2. QED
      BY <2>2, <3>1
  <2>6. ASSUME NEW a \in InFlight(u), NEW c \in InFlight(u), place[a] = place[c]
        PROVE  a = c
    <3>1. seat[a] = seat[c] /\ age(a) \div Window = age(c) \div Window
      BY <2>4, <2>6
    <3>2. age(a) < age(c) + Window /\ age(c) < age(a) + Window
      BY <2>2, <2>3, <3>1, QuotientsOrdered
    <3>3. ~(began[a] >= began[c] + Window) /\ ~(began[c] >= began[a] + Window)
      BY <2>2, <2>3, <3>2
    <3>4. QED
      BY <2>1, <3>1, <3>3 DEF Seated
  <2>7. place \in Injection(InFlight(u), (1..MaxRequests) \X (0..K))
    <3>1. place \in [InFlight(u) -> (1..MaxRequests) \X (0..K)]
      BY <2>3, <2>4, <2>5
    <3>2. QED
      BY <2>6, <3>1 DEF Injection, IsInjective
  <2>8. /\ IsFiniteSet(1..MaxRequests) /\ Cardinality(1..MaxRequests) = MaxRequests
        /\ IsFiniteSet(0..K) /\ Cardinality(0..K) = 1 + K
    <3>1. 0 \in Int /\ 1 \in Int /\ MaxRequests \in Int /\ K \in Int
      BY <2>2
    <3>2. /\ IsFiniteSet(1..MaxRequests)
          /\ Cardinality(1..MaxRequests) =
                IF 1 > MaxRequests THEN 0 ELSE MaxRequests - 1 + 1
      BY <3>1, FS_Interval, Zenon
    <3>3. /\ IsFiniteSet(0..K)
          /\ Cardinality(0..K) = IF 0 > K THEN 0 ELSE K - 0 + 1
      BY <3>1, FS_Interval, Zenon
    <3>4. QED
      BY <2>2, <3>2, <3>3
  <2>9. /\ IsFiniteSet((1..MaxRequests) \X (0..K))
        /\ Cardinality((1..MaxRequests) \X (0..K)) = MaxRequests * (1 + K)
    <3> DEFINE S == 1..MaxRequests
               T == 0..K
    <3>1. /\ IsFiniteSet(S) /\ Cardinality(S) = MaxRequests
          /\ IsFiniteSet(T) /\ Cardinality(T) = 1 + K
      BY <2>8
    <3> HIDE DEF S, T
    <3>2. IsFiniteSet(S \X T) /\ Cardinality(S \X T) = Cardinality(S) * Cardinality(T)
      BY <3>1, FS_Product, Zenon
    <3>3. QED
      BY <3>1, <3>2, Zenon DEF S, T
  <2>10. QED
    BY <2>7, <2>9, FS_Injection
<1>4. QED
  BY <1>1, <1>2, <1>3, TypeCorrect, PTL DEF Spec
-----------------------------------------------------------------------------
(***************************************************************************)
(* The handlers use the breaker of each tool as BreakerCalls lays down, so *)
(* what BreakerProofs proves of a breaker and its calls holds of the       *)
(* gateway's.                                                              *)
(***************************************************************************)
LEMMA InitMaps == Init => \A tool \in Tool : Calls(tool)!Init
<1> SUFFICES ASSUME Init, NEW tool \in Tool
             PROVE  Calls(tool)!Init
  OBVIOUS
<1>1. \A t \in Task : ~Calling(t, tool)
  BY DEF Init, Idle, Calling
<1>2. QED
  BY <1>1 DEF Init, Calls!Init, NewBreaker, Calls!NewBreaker, NoProbes

\* A step that leaves the calls of a tool, its breaker and the clock alone.
LEMMA Stutters ==
    ASSUME NEW tool \in Tool, now' = now, breakers'[tool] = breakers[tool],
           probes'[tool] = probes[tool],
           \A t \in Task : /\ Calling(t, tool)' <=> Calling(t, tool)
                           /\ Calling(t, tool) => tasks'[t].since = tasks[t].since
    PROVE  UNCHANGED Calls(tool)!vars
BY DEF Calls!vars

\* A handler that waits for the list began early enough for both its waits,
\* and only a request has a call forwarded.
Fits == \A t \in Task :
           /\ tasks[t].pc \in {"listing", "listed"}
                  => tasks[t].since + 2 * Timeout =< MaxTime
           /\ tasks[t].pc = "calling" => tasks[t].op = "request"

IInv == TypeOK /\ Deadlines /\ Fits

\* A call names one tool.
LEMMA OneTool ==
    ASSUME IInv, NEW t \in Task, NEW tool \in Tool, Calling(t, tool)
    PROVE  tasks[t].wanted = {tool}
BY DEF IInv, Fits, Calling, TypeOK, TaskState

\* Tasks that end, or are left alone, keep what fits.
LEMMA FitsKept ==
    ASSUME Fits, \A k \in Task : tasks'[k] = tasks[k] \/ tasks'[k].pc = "idle"
    PROVE  Fits'
BY DEF Fits

LEMMA FitsStep == TypeOK /\ Deadlines /\ Fits /\ [Next]_vars => Fits'
<1> SUFFICES ASSUME TypeOK, Deadlines, Fits, [Next]_vars
             PROVE  Fits'
  OBVIOUS
<1>1. ASSUME NEW t \in Task, Ends(t)
      PROVE  Fits'
  <2>1. \A k \in Task : tasks'[k] = tasks[k] \/ tasks'[k].pc = "idle"
    BY <1>1 DEF Ends, Idle, TypeOK
  <2>2. QED
    BY <2>1, FitsKept
<1>2. CASE UNCHANGED tasks
  BY <1>2, FitsKept
<1>3. ASSUME NEW t \in Task, NEW s \in Session, NEW op, NEW wanted,
             Await(t, s, op, wanted)
      PROVE  Fits'
  <2>1. /\ tasks'[t].pc = "listing" /\ tasks'[t].since = now
        /\ now + 2 * Timeout =< MaxTime
        /\ \A k \in Task \ {t} : tasks'[k] = tasks[k]
    BY <1>3 DEF Await, TypeOK
  <2>2. QED
    BY <2>1 DEF Fits
<1>4. ASSUME NEW t \in Task, UpstreamReplies(t)
      PROVE  Fits'
  <2>1. /\ tasks[t].pc = "listing" /\ tasks'[t].pc = "listed"
        /\ tasks'[t].since = tasks[t].since
        /\ \A k \in Task \ {t} : tasks'[k] = tasks[k]
    BY <1>4 DEF UpstreamReplies, TypeOK, TaskState, TaskRecord
  <2>2. QED
    BY <2>1 DEF Fits
<1>5. ASSUME NEW t \in Task, NEW tool \in Tool, Forwards(t, tool)
      PROVE  Fits'
  <2>1. /\ tasks'[t].pc = "calling" /\ tasks'[t].op = "request"
        /\ \A k \in Task \ {t} : tasks'[k] = tasks[k]
    BY <1>5 DEF Forwards, TypeOK, TaskState, TaskRecord
  <2>2. QED
    BY <2>1 DEF Fits
<1>6. CASE Restarts
  BY <1>6, FitsKept DEF Restarts, Idle
<1>7. CASE Begin
  BY <1>7, <1>2, <1>3 DEF Begin, ReadsAdmin, ListTools, Request, ApproveTools, Begins
<1>8. ASSUME NEW t \in Task, Resume(t)
      PROVE  Fits'
  BY <1>8, <1>1, <1>4, <1>5 DEF Resume, GivesUp, Denies, ReturnsList, Approves,
     Succeeds, Fails
<1>9. CASE Environment
  BY <1>9, <1>2, <1>6 DEF Environment, Revokes, SetsRole, ServerChanges, Tick,
     Finished, vars
<1>10. CASE UNCHANGED vars
  BY <1>10, <1>2 DEF vars
<1>11. QED
  BY <1>7, <1>8, <1>9, <1>10 DEF Next

LEMMA IInvHolds == Spec => []IInv
<1>1. Init => Deadlines /\ Fits
  BY DEF Init, Deadlines, Fits, Busy, Idle
<1>2. QED
  BY <1>1, DeadlinesStep, FitsStep, TypeCorrect, PTL DEF Spec, IInv
-----------------------------------------------------------------------------
(***************************************************************************)
(* Each step, seen from the breaker of one tool.                           *)
(***************************************************************************)

\* The step of a task whose call, if it had one, is not to this tool.
LEMMA OthersStutter ==
    ASSUME NEW tool \in Tool, NEW t \in Task, TypeOK,
           ~Calling(t, tool), ~Calling(t, tool)', now' = now,
           breakers'[tool] = breakers[tool], probes'[tool] = probes[tool],
           \A k \in Task \ {t} : tasks'[k] = tasks[k]
    PROVE  UNCHANGED Calls(tool)!vars
<1>1. \A k \in Task : /\ Calling(k, tool)' <=> Calling(k, tool)
                      /\ Calling(k, tool) => tasks'[k].since = tasks[k].since
  BY DEF Calling
<1>2. QED
  BY <1>1, Stutters

\* A list is asked for, arrives, is given up or is answered from.
LEMMA ListingStutters ==
    ASSUME NEW tool \in Tool, NEW t \in Task, TypeOK,
           tasks[t].pc # "calling", tasks'[t].pc # "calling",
           \A k \in Task \ {t} : tasks'[k] = tasks[k],
           UNCHANGED <<now, breakers, probes>>
    PROVE  UNCHANGED Calls(tool)!vars
BY OthersStutter DEF Calling

LEMMA ForwardsMaps ==
    ASSUME IInv, NEW t \in Task, NEW used \in Tool, Forwards(t, used),
           NEW tool \in Tool
    PROVE  Calls(tool)!Next \/ UNCHANGED Calls(tool)!vars
<1>1. /\ tasks[t].pc = "listed" /\ tasks[t].wanted = {used}
      /\ tasks'[t].pc = "calling" /\ tasks'[t].wanted = {used}
      /\ tasks'[t].since = now
      /\ \A k \in Task \ {t} : tasks'[k] = tasks[k]
  BY DEF Forwards, IInv, TypeOK, TaskState, TaskRecord
<1>2. CASE tool # used
  <2>1. /\ now' = now /\ breakers'[tool] = breakers[tool]
        /\ probes'[tool] = probes[tool]
    BY <1>2 DEF Forwards, IInv, TypeOK
  <2>2. ~Calling(t, tool) /\ ~Calling(t, tool)'
    BY <1>1, <1>2 DEF Calling
  <2>3. QED
    BY <1>1, <2>1, <2>2, OthersStutter DEF IInv
<1>3. CASE tool = used
  <2>1. /\ ~Calling(t, tool) /\ Calling(t, tool)'
        /\ \A k \in Task \ {t} : Calling(k, tool)' <=> Calling(k, tool)
    BY <1>1, <1>3 DEF Calling
  <2>2. /\ {k \in Task : Calling(k, tool)}' = {k \in Task : Calling(k, tool)} \cup {t}
        /\ [k \in Task |-> IF Calling(k, tool) THEN tasks[k].since ELSE 0]'
             = [[k \in Task |-> IF Calling(k, tool) THEN tasks[k].since ELSE 0]
                   EXCEPT ![t] = now]
    BY <1>1, <2>1
  <2>3. now + Timeout =< MaxTime
    <3>1. /\ now =< tasks[t].since + Timeout
          /\ tasks[t].since + 2 * Timeout =< MaxTime
      BY <1>1 DEF IInv, Deadlines, Fits, Busy
    <3>2. now \in Nat /\ Timeout \in Nat /\ tasks[t].since \in Nat /\ MaxTime \in Nat
      BY <1>1, BusyTask, GatewayAssumption DEF IInv, Busy
    <3>3. QED
      BY <3>1, <3>2
  <2>4. /\ Calls(tool)!Allows(breakers[tool], now)
        /\ breakers'[tool] = Calls(tool)!Allow(breakers[tool])
    BY <1>3 DEF Forwards, Allows, Allow, Cooled, Calls!Allows, Calls!Allow,
       Calls!Cooled, IInv, TypeOK
  <2>5. /\ probes'[tool].owner = IF Calls(tool)!IsProbe(breakers[tool])
                                 THEN t ELSE probes[tool].owner
        /\ probes'[tool].at = IF Calls(tool)!IsProbe(breakers[tool])
                              THEN now ELSE probes[tool].at
        /\ probes'[tool].streak = probes[tool].streak
    <3>1. probes[tool] \in ProbeHistory /\ probes \in [Tool -> ProbeHistory]
      BY DEF IInv, TypeOK
    <3>2. QED
      BY <1>3, <3>1 DEF Forwards, IsProbe, Calls!IsProbe, ProbeHistory
  <2>6. now' = now
    BY DEF Forwards
  <2>7. Calls(tool)!Admit(t)
    BY <2>1, <2>2, <2>3, <2>4, <2>5, <2>6 DEF Calls!Admit
  <2>8. QED
    BY <2>7 DEF Calls!Next
<1>4. QED
  BY <1>2, <1>3

\* A call ends: one action of its own tool's breaker, a stutter of any other.
LEMMA CallEnds ==
    ASSUME IInv, NEW t \in Task, NEW used \in Tool, Calling(t, used), Ends(t),
           NEW tool \in Tool
    PROVE  /\ ~Calling(t, tool)'
           /\ \A k \in Task \ {t} : tasks'[k] = tasks[k]
           /\ tool # used => ~Calling(t, tool)
           /\ {k \in Task : Calling(k, tool)}' = {k \in Task : Calling(k, tool)} \ {t}
           /\ [k \in Task |-> IF Calling(k, tool) THEN tasks[k].since ELSE 0]'
                = [[k \in Task |-> IF Calling(k, tool) THEN tasks[k].since ELSE 0]
                      EXCEPT ![t] = 0]
<1>1. /\ tasks'[t].pc = "idle"
      /\ \A k \in Task \ {t} : tasks'[k] = tasks[k]
  BY DEF Ends, Idle, IInv, TypeOK
<1>2. tool # used => ~Calling(t, tool)
  BY OneTool DEF Calling
<1>3. /\ ~Calling(t, tool)'
      /\ \A k \in Task \ {t} : Calling(k, tool)' <=> Calling(k, tool)
  BY <1>1 DEF Calling
<1>4. QED
  BY <1>1, <1>2, <1>3

LEMMA SucceedsMaps ==
    ASSUME IInv, NEW t \in Task, NEW used \in Tool, Succeeds(t, used),
           NEW tool \in Tool
    PROVE  Calls(tool)!Next \/ UNCHANGED Calls(tool)!vars
<1>1. Calling(t, used) /\ Ends(t) /\ now' = now
  BY DEF Succeeds
<1>2. CASE tool # used
  <2>1. breakers'[tool] = breakers[tool] /\ probes'[tool] = probes[tool]
    BY <1>2 DEF Succeeds, IInv, TypeOK
  <2>2. QED
    BY <1>1, <1>2, <2>1, CallEnds, OthersStutter DEF IInv
<1>3. CASE tool = used
  <2>1. /\ breakers'[tool] = Calls(tool)!Succeed(breakers[tool])
        /\ probes'[tool] = NoProbes
    BY <1>3 DEF Succeeds, Succeed, Calls!Succeed, IInv, TypeOK
  <2>2. Calls(tool)!Succeeds(t)
    BY <1>1, <1>3, <2>1, CallEnds DEF Calls!Succeeds, NoProbes
  <2>3. QED
    BY <2>2 DEF Calls!Next
<1>4. QED
  BY <1>2, <1>3

LEMMA FailsMaps ==
    ASSUME IInv, NEW t \in Task, NEW used \in Tool, Fails(t, used),
           NEW tool \in Tool
    PROVE  Calls(tool)!Next \/ UNCHANGED Calls(tool)!vars
<1>1. Calling(t, used) /\ Ends(t) /\ now' = now
  BY DEF Fails
<1>2. CASE tool # used
  <2>1. breakers'[tool] = breakers[tool] /\ probes'[tool] = probes[tool]
    BY <1>2 DEF Fails, IInv, TypeOK
  <2>2. QED
    BY <1>1, <1>2, <2>1, CallEnds, OthersStutter DEF IInv
<1>3. CASE tool = used
  <2>1. breakers'[tool] = Calls(tool)!Fail(breakers[tool], now)
    BY <1>3 DEF Fails, Fail, Trip, Calls!Fail, Calls!Trip, IInv, TypeOK
  <2>2. /\ probes'[tool].streak = IF probes[tool].streak < Threshold
                                  THEN probes[tool].streak + 1
                                  ELSE probes[tool].streak
        /\ probes'[tool].owner = probes[tool].owner
        /\ probes'[tool].at = probes[tool].at
    <3>1. probes[tool] \in ProbeHistory /\ probes \in [Tool -> ProbeHistory]
      BY DEF IInv, TypeOK
    <3>2. QED
      BY <1>3, <3>1 DEF Fails, ProbeHistory
  <2>3. Calls(tool)!Fails(t)
    BY <1>1, <1>3, <2>1, <2>2, CallEnds DEF Calls!Fails
  <2>4. QED
    BY <2>3 DEF Calls!Next
<1>4. QED
  BY <1>2, <1>3

LEMMA TickMaps ==
    ASSUME IInv, Tick, NEW tool \in Tool
    PROVE  Calls(tool)!Next
<1>1. \A t \in Task : /\ Calling(t, tool)' <=> Calling(t, tool)
                      /\ Calling(t, tool) => Busy(t)
  BY DEF Tick, Calling, Busy
<1>2. UNCHANGED <<breakers, tasks, probes>>
  BY DEF Tick
<1>3. \A t \in Task : Calling(t, tool) => now < tasks[t].since + Timeout
  BY <1>1 DEF Tick
<1>4. Calls(tool)!Tick
  BY <1>1, <1>2, <1>3 DEF Tick, Calls!Tick
<1>5. QED
  BY <1>4 DEF Calls!Next

LEMMA StepMaps ==
    ASSUME IInv, [Next]_vars, NEW tool \in Tool
    PROVE  Calls(tool)!Next \/ UNCHANGED Calls(tool)!vars \/ Restarts
<1>1. CASE UNCHANGED <<now, breakers, tasks, probes>>
  BY <1>1, Stutters DEF Calling
<1>2. ASSUME NEW t \in Task, NEW s \in Session, NEW op, NEW wanted, NEW may,
             Begins(t, s, op, wanted, may), ~UNCHANGED tasks
      PROVE  UNCHANGED Calls(tool)!vars
  <2>1. /\ tasks[t].pc # "calling" /\ tasks'[t].pc # "calling"
        /\ \A k \in Task \ {t} : tasks'[k] = tasks[k]
        /\ UNCHANGED <<now, breakers, probes>>
    BY <1>2 DEF Begins, Await, Busy, IInv, TypeOK
  <2>2. QED
    BY <2>1, ListingStutters DEF IInv
<1>3. ASSUME NEW t \in Task,
             \/ UpstreamReplies(t) \/ GivesUp(t) \/ Denies(t) \/ ReturnsList(t)
             \/ \E done \in SUBSET tasks[t].wanted : Approves(t, done)
      PROVE  UNCHANGED Calls(tool)!vars
  <2>1. /\ tasks[t].pc # "calling" /\ tasks'[t].pc # "calling"
        /\ \A k \in Task \ {t} : tasks'[k] = tasks[k]
        /\ UNCHANGED <<now, breakers, probes>>
    BY <1>3 DEF UpstreamReplies, GivesUp, Denies, ReturnsList, Approves, Ends, Idle,
       IInv, TypeOK, TaskState, TaskRecord
  <2>2. QED
    BY <2>1, ListingStutters DEF IInv
<1>4. CASE Begin
  <2>1. ASSUME NEW t \in Task, NEW s \in Session, NEW op, NEW wanted, NEW may,
               Begins(t, s, op, wanted, may)
        PROVE  UNCHANGED Calls(tool)!vars
    <3>1. UNCHANGED <<now, breakers, probes>>
      BY <2>1 DEF Begins
    <3>2. CASE UNCHANGED tasks
      BY <1>1, <3>1, <3>2, Stutters DEF Calling
    <3>3. QED
      BY <1>2, <2>1, <3>2
  <2>2. QED
    BY <1>1, <1>4, <2>1 DEF Begin, ReadsAdmin, ListTools, Request, ApproveTools
<1>5. ASSUME NEW t \in Task, Resume(t)
      PROVE  Calls(tool)!Next \/ UNCHANGED Calls(tool)!vars
  BY <1>3, <1>5, ForwardsMaps, SucceedsMaps, FailsMaps DEF Resume
<1>6. CASE Environment
  BY <1>1, <1>6, TickMaps DEF Environment, Revokes, SetsRole, ServerChanges,
     Finished, vars
<1>7. CASE UNCHANGED vars
  BY <1>1, <1>7 DEF vars
<1>8. QED
  BY <1>4, <1>5, <1>6, <1>7 DEF Next

\* The handlers of the gateway use the breaker of each tool as BreakerCalls
\* lays down, for every policy, set of tools and number of handlers.
THEOREM BreakersObeyedHolds == Spec => BreakersObeyed
<1>1. IInv /\ [Next]_vars
          => [\A tool \in Tool : \/ Calls(tool)!Next
                                 \/ UNCHANGED Calls(tool)!vars
                                 \/ Restarts]_vars
  BY StepMaps
<1>2. QED
  BY <1>1, InitMaps, IInvHolds, PTL DEF Spec, BreakersObeyed
-----------------------------------------------------------------------------
(***************************************************************************)
(* What BreakerProofs proves of one breaker and its calls, carried over to *)
(* the breaker of any tool.  A restart is the one step of the gateway that *)
(* is not one of BreakerCalls; it is looked at by itself.                  *)
(***************************************************************************)
CONSTANT TheTool    \* an arbitrary tool

OfTool == INSTANCE BreakerProofs WITH
    Call      <- Task,
    NoCall    <- None,
    breaker   <- breakers[TheTool],
    inFlight  <- {t \in Task : Calling(t, TheTool)},
    since     <- [t \in Task |-> IF Calling(t, TheTool) THEN tasks[t].since ELSE 0],
    streak    <- probes[TheTool].streak,
    owner     <- probes[TheTool].owner,
    lastProbe <- probes[TheTool].at

LEMMA OfToolInit == ASSUME TheTool \in Tool, Init PROVE OfTool!Init
<1>1. Calls(TheTool)!Init
  BY InitMaps
<1>2. QED
  BY <1>1 DEF Calls!Init, Calls!NewBreaker, OfTool!Init, OfTool!NewBreaker

LEMMA OfToolStep ==
    ASSUME TheTool \in Tool, IInv, [Next]_vars
    PROVE  [OfTool!Next]_(OfTool!vars) \/ Restarts
<1>1. Calls(TheTool)!Next \/ UNCHANGED Calls(TheTool)!vars \/ Restarts
  BY StepMaps
<1>2. CASE UNCHANGED Calls(TheTool)!vars
  BY <1>2 DEF Calls!vars, OfTool!vars
<1>3. ASSUME NEW c \in Task, Calls(TheTool)!Admit(c)
      PROVE  OfTool!Admit(c)
  BY <1>3 DEF Calls!Admit, Calls!Allows, Calls!Cooled, Calls!Allow,
     Calls!IsProbe, OfTool!Admit, OfTool!Allows, OfTool!Cooled, OfTool!Allow,
     OfTool!IsProbe
<1>4. ASSUME NEW c \in Task, Calls(TheTool)!Succeeds(c)
      PROVE  OfTool!Succeeds(c)
  BY <1>4 DEF Calls!Succeeds, Calls!Succeed, OfTool!Succeeds, OfTool!Succeed
<1>5. ASSUME NEW c \in Task, Calls(TheTool)!Fails(c)
      PROVE  OfTool!Fails(c)
  BY <1>5 DEF Calls!Fails, Calls!Fail, Calls!Trip, OfTool!Fails, OfTool!Fail,
     OfTool!Trip
<1>6. CASE Calls(TheTool)!Tick
  BY <1>6 DEF Calls!Tick, OfTool!Tick, OfTool!Next
<1>7. CASE Calls(TheTool)!Finished
  BY <1>7 DEF Calls!Finished, Calls!vars, OfTool!vars
<1>8. QED
  BY <1>1, <1>2, <1>3, <1>4, <1>5, <1>6, <1>7 DEF Calls!Next, OfTool!Next

\* A restart leaves a closed breaker without calls.
LEMMA OfToolRestarts ==
    ASSUME TheTool \in Tool, IInv, OfTool!TypeOK', Restarts
    PROVE  /\ OfTool!ProbeInv'
           /\ probes'[TheTool].at = -1 /\ ~\E t \in Task : Calling(t, TheTool)'
<1>1. /\ breakers'[TheTool] = NewBreaker
      /\ probes'[TheTool] = NoProbes
      /\ \A t \in Task : ~Calling(t, TheTool)'
  BY DEF Restarts, Idle, Calling
<1>2. now' \in Nat
  BY TimeIsNat DEF Restarts, IInv, TypeOK
<1>3. OfTool!IInv'
  BY <1>1, <1>2, BreakerPolicy
     DEF OfTool!IInv, OfTool!CountIsStreak, OfTool!ProbeHeld,
         OfTool!ProbeBeforeOpening, NewBreaker, NoProbes
<1>4. OfTool!OlderThanOpening' /\ OfTool!OnlyStragglersBeside'
  BY <1>1 DEF OfTool!OlderThanOpening, OfTool!OnlyStragglersBeside, NewBreaker
<1>5. QED
  BY <1>1, <1>3, <1>4 DEF OfTool!ProbeInv, NoProbes

LEMMA OfToolType == ASSUME TheTool \in Tool, TypeOK PROVE OfTool!TypeOK
<1>1. \A t \in Task : Calling(t, TheTool) => tasks[t].since \in Time
  BY DEF TypeOK, TaskState, TaskRecord
<1>2. \A t \in Task :
         (IF Calling(t, TheTool) THEN tasks[t].since ELSE 0) \in Time
  BY <1>1, GatewayAssumption DEF Time
<1>3. [t \in Task |-> IF Calling(t, TheTool) THEN tasks[t].since ELSE 0]
          \in [Task -> Time]
  BY <1>2
<1>4. breakers[TheTool] \in BreakerRecord /\ probes[TheTool] \in ProbeHistory
  BY DEF TypeOK
<1>5. QED
  BY <1>3, <1>4
     DEF TypeOK, Time, ProbeHistory, BreakerRecord, BreakerState, OfTool!TypeOK,
         OfTool!BreakerRecord, OfTool!BreakerState

LEMMA OfToolIInvStep ==
    ASSUME TheTool \in Tool, IInv, [Next]_vars, OfTool!IInv, OfTool!TypeOK'
    PROVE  OfTool!IInv'
<1>1. CASE [OfTool!Next]_(OfTool!vars)
  BY <1>1, OfTool!IInvStep, BreakerPolicy, GatewayAssumption
<1>2. CASE Restarts
  BY <1>2, OfToolRestarts DEF OfTool!ProbeInv
<1>3. QED
  BY <1>1, <1>2, OfToolStep

LEMMA OfToolIInvHolds ==
    ASSUME TheTool \in Tool
    PROVE  Spec => []OfTool!IInv
<1>1. Init => OfTool!IInv
  BY OfToolInit, OfTool!IInvInit, BreakerPolicy, GatewayAssumption
<1>2. IInv => OfTool!TypeOK
  BY OfToolType DEF IInv
<1>3. IInv /\ [Next]_vars /\ OfTool!IInv /\ OfTool!TypeOK' => OfTool!IInv'
  BY OfToolIInvStep
<1>4. QED
  BY <1>1, <1>2, <1>3, IInvHolds, PTL DEF Spec

\* The breaker of any tool is closed exactly while fewer than `threshold'
\* forwarded calls have failed since the last success or restart, and while it
\* is half open the handler that got the probe is still waiting: whatever is
\* approved, revoked, cancelled or restarted in between, no tool is blocked by
\* a breaker whose probe is lost.
THEOREM BreakersHealthyHolds ==
    ASSUME TheTool \in Tool
    PROVE  Spec => [](OfTool!ClosedIffHealthy /\ OfTool!ProbeAccounted)
<1>1. OfTool!IInv => OfTool!ClosedIffHealthy /\ OfTool!ProbeAccounted
  BY DEF OfTool!IInv, OfTool!TypeOK, OfTool!CountIsStreak, OfTool!ProbeHeld,
     OfTool!ClosedIffHealthy, OfTool!ProbeAccounted
<1>2. Spec => []OfTool!IInv
  BY OfToolIInvHolds
<1>3. QED
  BY <1>1, <1>2, PTL

\* In one process, an ailing server is probed at most once per cooldown on
\* behalf of each tool, whichever agents ask for it and however often.
THEOREM ProbesSpacedHolds ==
    ASSUME TheTool \in Tool
    PROVE  Spec => OfTool!ProbesSpaced
<1> DEFINE Apart == probes[TheTool].at' > probes[TheTool].at
                       /\ probes[TheTool].at >= 0
                          => probes[TheTool].at' >= probes[TheTool].at + Cooldown
<1>1. ASSUME IInv, [Next]_vars, OfTool!IInv, OfTool!TypeOK'
      PROVE  [Apart]_(OfTool!vars)
  <2>1. CASE [OfTool!Next]_(OfTool!vars)
    BY <1>1, <2>1, OfTool!SpacedStep, BreakerPolicy, GatewayAssumption
  <2>2. CASE Restarts
    <3>1. probes'[TheTool].at = -1
      BY <1>1, <2>2, OfToolRestarts
    <3>2. probes[TheTool].at \in Int
      BY <1>1, GatewayAssumption DEF IInv, TypeOK, ProbeHistory
    <3>3. Apart
      BY <3>1, <3>2
    <3>4. QED
      BY <3>3
  <2>3. QED
    BY <1>1, <2>1, <2>2, OfToolStep
<1>2. IInv => OfTool!TypeOK
  BY OfToolType DEF IInv
<1>3. Spec => []OfTool!IInv
  BY OfToolIInvHolds
<1>4. QED
  BY <1>1, <1>2, <1>3, IInvHolds, PTL DEF Spec, OfTool!ProbesSpaced

LEMMA OfToolProbeInvHolds ==
    ASSUME TheTool \in Tool
    PROVE  Spec => []OfTool!ProbeInv
<1>1. Init => OfTool!ProbeInv
  BY OfToolInit, OfTool!ProbeInvInit, BreakerPolicy, GatewayAssumption
<1>2. ASSUME IInv, [Next]_vars, OfTool!ProbeInv, OfTool!TypeOK'
      PROVE  OfTool!ProbeInv'
  <2>1. CASE [OfTool!Next]_(OfTool!vars)
    BY <1>2, <2>1, OfTool!ProbeInvStep, BreakerPolicy, GatewayAssumption
  <2>2. CASE Restarts
    BY <1>2, <2>2, OfToolRestarts
  <2>3. QED
    BY <1>2, <2>1, <2>2, OfToolStep
<1>3. IInv => OfTool!TypeOK
  BY OfToolType DEF IInv
<1>4. QED
  BY <1>1, <1>2, <1>3, IInvHolds, PTL DEF Spec

\* For every policy, all calls the gateway has forwarded to a tool whose
\* breaker is half open, other than the probe, were forwarded a cooldown or
\* more before the probe was.
THEOREM OnlyStragglersBesideHolds ==
    ASSUME TheTool \in Tool
    PROVE  Spec => []OfTool!OnlyStragglersBeside
<1>1. OfTool!ProbeInv => OfTool!OnlyStragglersBeside
  BY DEF OfTool!ProbeInv
<1>2. Spec => []OfTool!ProbeInv
  BY OfToolProbeInvHolds
<1>3. QED
  BY <1>1, <1>2, PTL

\* For every policy, what takes a tool's breaker out of half_open is the end
\* of the probe (a restart ends it as well) or of a call forwarded a cooldown
\* or more before it.
THEOREM ProbeOrStragglerDecidesHolds ==
    ASSUME TheTool \in Tool
    PROVE  Spec => OfTool!ProbeOrStragglerDecides
<1> DEFINE Decides == /\ breakers[TheTool].state = "half_open"
                      /\ (breakers[TheTool])'.state # "half_open"
                      => OfTool!ProbeOrStragglerEnds
<1>1. ASSUME IInv, [Next]_vars, OfTool!ProbeInv, OfTool!TypeOK'
      PROVE  [Decides]_(OfTool!vars)
  <2>1. CASE [OfTool!Next]_(OfTool!vars)
    BY <1>1, <2>1, OfTool!DecidesStep, BreakerPolicy, GatewayAssumption
  <2>2. CASE Restarts
    <3>1. breakers[TheTool].state = "half_open"
              => probes[TheTool].owner \in {t \in Task : Calling(t, TheTool)}
      BY <1>1 DEF OfTool!ProbeInv, OfTool!IInv, OfTool!ProbeHeld
    <3>2. probes[TheTool].owner \notin {t \in Task : Calling(t, TheTool)}'
      BY <1>1, <2>2, OfToolRestarts
    <3>3. QED
      BY <3>1, <3>2 DEF OfTool!ProbeOrStragglerEnds
  <2>3. QED
    BY <1>1, <2>1, <2>2, OfToolStep
<1>2. IInv => OfTool!TypeOK
  BY OfToolType DEF IInv
<1>3. Spec => []OfTool!ProbeInv
  BY OfToolProbeInvHolds
<1>4. QED
  BY <1>1, <1>2, <1>3, IInvHolds, PTL DEF Spec, OfTool!ProbeOrStragglerDecides
=============================================================================
