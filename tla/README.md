# A verification of agentic-firewall

TLA+ models of the agentic firewall (a gateway between AI agents and an MCP tool
server), TLC runs that check them on small instances, and TLAPS proofs for every
value of their constants. Paths below are relative to the repository root;
`gateway.py` and the like stand for the file of that name under `app/`.

## 1. The system

An agent sends `POST /api/request` with a session, a tool name and arguments. The
gateway decides in a fixed order of stages (authentication, rate limit, name, risk
and role, integrity of the tool's definition, input scan, circuit breaker), forwards
the call to the MCP server, scans the answer, and writes an audit row.

Everything the server does runs on **one asyncio event loop**. A handler gives way to
others only at two awaits: for the server's list of tools and for the forwarded call,
both under `wait_for(upstream_timeout_seconds)`. All else (limiter, breaker, database)
is synchronous. Other processes share only the SQLite file.

| Component | State | Operations | What makes it correct |
|---|---|---|---|
| Circuit breaker (`circuit_breaker.py`) | state, failure count, time of opening, probe flag; one per tool | `allow`, `record_success`, `record_failure`, `retry_after` | opens after N failures in a row; one probe per cooldown; a probe is never lost |
| Rate limiter (`rate_limiter.py`) | a deque of hit times per key | `check` (with `_sweep`) | quota in every window; announced waits are exact; memory bounded by live keys |
| Request pipeline (`gateway.py`) | per handler: session and role read at the start, the list of tools | `handle`, `list_tools`, `approve_tools`, `require_manager`, `login` | no call without valid authority, a pinned definition and an outcome recorded |
| Authorization (`authorization.py`) | the policy, constant | `check`, `can_manage` | deny by default |
| Integrity (`integrity.py`) | `tool_fingerprints` | `approve`, `verify` | only what was scanned is pinned, only what is pinned is used |
| Authentication (`authentication.py`) | `users`, `sessions` | `register_user`, `login`, `validate`, `revoke` | sessions only for registered users; guessing is slow; printed keys work |
| Store (`database.py`) | one SQLite connection, its transaction | `_query`, `_write` | reads are current; one failure does not become an outage |
| Audit (`audit.py`, `models/events.py`) | `audit_logs` | `record`, `recent` | the log agrees with the answers, the executions and the pins |
| HTTP API, CLI (`main.py`) | none | endpoints, `create-user`, `serve` | each error becomes its status |
| Upstreams (`mcp/client.py`, `mcp/server.py`) | child process, SDK session, demo tools | `start`, `stop`, `list_tools`, `call_tool`, `mutate` | the list is recent and whole, paging ends, no process is left behind |
| Scanner (`scanner.py`) | none | `scan_text`, `scan_value` | everything is scanned, or the value is blocked |
| Risk classifier (`risk.py`) | none | `classify` | the most dangerous word wins |

How they interact: the endpoints call the gateway; the gateway reads users, sessions
and pins through the store, asks limiter and breaker, awaits the upstream, and records
in the audit log. Managers change pins and operators change users while handlers wait.

What is hard to test here: handlers that resume with what they read before an await;
outcomes of calls that arrive at a breaker which has moved on; the exact edges of
windows, cooldowns and deadlines; a server that swaps definitions between listing,
approval and use; restarts that keep the database but lose the process; and other
processes on the same file. `PROJECT.json` lists these hazards line by line with the
properties that answer to them. Cancelled requests and a process that dies between two
writes are hard for another reason: what they leave behind is seen only later, in the
log, in the pins, or in the process table.

## 2. The modules

| Module | Models | Notes |
|---|---|---|
| `Breaker` | `CircuitBreaker` as functions of its fields and the clock | no state; shared by the next module and by `Gateway` |
| `BreakerCalls` | one breaker and the calls it admits (`gateway.py:176-202`) | `Admit`, `Succeeds`, `Fails`, `Tick` |
| `SlidingWindow` | the deque of one key as a value | shared by `RateLimiter`, `Gateway`, `Accounts` |
| `RateLimiter` | `check()` with its dictionary and sweep | `Allowed`, `Refused`, `Tick` |
| `WindowQuota` | abstract: what the limiter promises | remembers every admission for ever |
| `Risk` | `classify()` over the word lists a name's words are found in | operators |
| `Policy` | the policy and `Authorizer` | constants and operators; extends `Risk` |
| `Gateway` | handlers, approvals, listings, pins, sessions, breakers, restarts | composes `Policy`, `Breaker`, `SlidingWindow`; refines `BreakerCalls` per tool |
| `Store` | the SQLite connection, its transaction and the lock | other processes are actions; its specification is `StoreSpec`, so that `AuditProofs` can extend it beside `AuditTrail` |
| `Accounts` | registration, login, sessions, two clocks, audit rows of early denials | composes `SlidingWindow` |
| `AuditTrail` | the rows of `handle()` and `approve_tools()` against what was answered, executed and pinned | lost rows, cancellation, crashes, late execution |
| `StdioUpstream` | `StdioMCPUpstream`: session, child process, pages and cursors | the server is the environment |
| `Scanner` | `scan_value()`: the walk with budget, depth and early returns | one step per call of `_walk()` or `_scan_string()`, or per return to the loop above; checked against a definition that has none of the three |
| `MC...` | sets and functions for the `.cfg` files | |
| `...Proofs` | the theorems | |

**State and code.** The variables of a module under "The database" survive `Restarts`,
those under "The process" do not. Variables under "History" are read by properties
only; no action's guard mentions them. An operator whose comment begins with
"Mistake:" is a plausible bug that no specification uses; each checked property is
known to fail when one of them takes the place of the code's own operator.

**Steps of a handler** (`Gateway`). `Begins` is everything up to the first await
(`validate`, the limiter, the role); `UpstreamReplies` is the moment the server
answers with its list; `Forwards`, `Denies`, `ReturnsList` and `Approves` are what
follows up to the next await or the answer; `Succeeds` and `Fails` are the outcome
of a forwarded call; `GivesUp` is a timeout, an error or a cancellation while the list
is awaited. A request with an invalid session changes no state of this module and has
no action in it (it is `RequestRejected` in `Accounts`). The reply is taken when the
server sends it, not when the handler resumes, so the list may be old by then.
`Approves(t, done)` may stop part of the way, as an exception in the loop of
`approve_tools` would.

**The audit trail.** `AuditTrail` follows a request by what it leaves behind. `Decides`
is the result, its row (or the failure to write it, which `_audit_result()` only logs)
and nothing else; `Answers` is the response on its way to the client, and `Dies` may
come before it. `Sends` and `Executes` are apart because a call that the gateway has
given up may still be executed. `Approves` is the loop of `approve_tools()`: `done` are
the names it has pinned and recorded, `half` the one it had pinned when it broke off.
Every stage may deny here, at the await after which it comes, so the module stands for
whatever the rest of the pipeline decides.

**The connector.** `StdioUpstream` has the life of `StdioMCPUpstream` (new, starting,
open, unwinding, stopped) beside that of its child process. A handler fetches page by
page; between pages the server may change its layout under the cursor. A list counts
how often it has each definition, up to two, because the gateway tells apart a tool that
is missing, listed, and listed twice. In `Gateway` the list is what is exposed at one
instant; as the server changes it freely before it answers, that covers every list that
`StdioUpstream` can put together from pages, tool by tool.

**The walk of the scanner.** `Scanner` has no recursion: the value is a tree, a function
on the places of its parts, and a place is the path from the root. The walk is at one
place, and the calls of `_walk()` that are open are those at its prefixes, so the place
is the stack. `Opens`, `GoesOn` and `Closes` are the loop over the children; the early
return of the code is `Closes` in a loop that has children left.

**Data.** A text of `Scanner` is its length and whether a rule matches it. A tool definition is a model value; equality is equality of fingerprints.
The description scanner's verdict is the constant `Poisoned`, that on arguments and
responses is nondeterministic. Sessions, keys, users and roles are model values. What
the store holds is a count of commits in `Store`, and the tables themselves in
`Gateway` and `Accounts`.

**Time** is an integer clock. `Tick` never passes the deadline of something that is
awaited, which is what `wait_for` does up to the lateness of the event loop: a
`Timeout` of the model stands for the configured one plus that lateness. `Accounts`
has the monotonic clock of the limiters and the wall clock of the sessions, which may
be set at any moment (`ClockSet`); `Gateway` has one clock for both.

**SQLite** (external). `Store` describes what Python's `sqlite3` does in its legacy
transaction mode with a WAL file: a transaction begins before a write statement and
stays open when the statement fails of a lock (`Fails`) or of a constraint (`Refused`,
which leaves the write lock with it), while a full disk or an I/O error makes SQLite roll
it back (`Breaks`, of the statement or of `commit()`); the first read inside a
transaction takes its snapshot; a transaction whose snapshot is old can not write. This
was compared with Python 3.11 and SQLite 3.40 before it was written down.

## 3. The runs

| Run | Shows | Bounds |
|---|---|---|
| `breaker_long` | when calls may outlive a cooldown: it opens after N failures, a probe is never lost or repeated too soon, only stragglers run beside it (`OnlyStragglersBeside`) and only they or the probe decide, half-open ends | 3 calls, threshold 2, cooldown 2, timeout 3, clock to 11 |
| `breaker_straggler` (finding) | `OpenOnlyHalfOpens` fails with timeout = cooldown, the shipped policy | cooldown 2, timeout 2 |
| `limiter` | quota, promise, sweep, and that `RateLimiter` implements `WindowQuota` | 3 keys, 2 per window of 2, sweep above 1 key, clock to 4 |
| `gateway` | authority (expiry, revocation, demotion), breakers, and that every handler is answered | 2 handlers, an analyst whose session expires at 2 and an admin who may be demoted, 1 tool that may disappear, timeout 1, clock to 4; 439206 states |
| `gateway_busy` | in-flight bound, pins | 3 handlers (symmetric), an analyst and an admin, 1 tool, two definitions that may be pinned, a poisoned one and a duplicate, timeout 1, 1 request per window of 2, clock to 5; 1590192 states |
| `store` | reads are current and writes fail of themselves until one meets a lock; the lock is kept only after a refused row; every write ends | 5 commits |
| `store_outage` (finding) | `FailsByItself` fails | 5 commits |
| `accounts` | guesses are bounded, printed keys work | 1 user, 2 keys, 1 client, 2 sessions, 2 per window of 2, 1 restart, clocks to 3 |
| `audit_gap` (finding) | `EveryDecisionAudited` fails | as `accounts` |
| `audit` | agent and log agree, the log tells what was executed and how pins came about | 1 request, 2 managers, 2 tools with 2 versions each |
| `stdio` | lists are recent and whole, fetches end, no orphan | 2 handlers, 2 definitions, 6 layouts of 1 to 4 pages, cap of 3, endless or not |
| `scanner` | the walk blocks exactly what it should, in order, within its budget | 19441 values: lists and mappings of up to two children, nested to 3 with a depth limit of 2, texts of cost 1 to 3 with a budget of 5; 242639 states |

*Why these bounds are enough.* Three calls are a probe, a straggler that succeeds and
one that fails; a clock of 11 holds a trip, two cooldowns and the calls around them.
Three keys with a sweep above one are enough for a sweep to meet live, stale and
calling keys at once. Two handlers are enough for each race the gateway has: one that
waits and one that changes what it waits for; a clock of 4 holds the two deadlines of a
handler that begins as its session expires (in `gateway` a hit is not forgotten before
the last handler has begun; quotas are the subject of `gateway_busy`). In `gateway_busy`
a handler may begin up to 3 and a hit is forgotten after 2, so a quota slides at 2 and
at 3 while handlers that began before still wait for their calls, and the bound of two
in flight is reached; the third handler is what an excess takes. A manager's handler can
run in it beside calls of the analyst and of its own, with a pin to replace and a
definition to replace it by. With one restart, two
processes share a window. The bounds `MaxTime`, `MaxBoots` and `MaxCommits` are the
only ones in guards; a handler or call starts only if its deadlines fit in the clock.
One request is enough for `audit`, because requests share nothing in it; two managers
with two tools are enough for statuses that depend on each other and for a loop that
breaks off between two names. The layouts of `stdio` have fewer pages than the cap, as
many, and more, and move a definition forward and back. The theorems remove all these bounds for the properties they state.

For the walk of the scanner a value needs a sibling after each place where a limit can
strike, keys and texts on both sides of the budget, and one level too many; the values
of `MCScanner` have them. Two handlers on one tool are enough for the use of a breaker:
that it carries over to any number of tools and handlers is theorem
`BreakersObeyedHolds`. So is what the breaker runs show of one breaker: it is proved
of the gateway's breakers too.

*The in-flight bound.* A handler waits for two timeouts at most, and the limiter forgets
a hit after one window, so a user can have `MaxRequests * (1 + (2 * Timeout) \div Window)`
handlers in flight: each window that begins while the first of them waits admits as many
again. The shipped policy (60 s, and 2 * 30 s) gives twice the limit, and `gateway_busy`
has the same ratio. No relation between the constants is assumed.

*Deadlock* is checked in every run. The modules with bounded clocks that may come to
rest have a `Finished` step; it is enabled only when the bound is reached, or, in
`StdioUpstream`, when the connector has stopped and no handler waits.

*Fairness.* `BreakerCalls` and `Gateway` assume that time passes (`WF(Tick)`) and that
a wait at its deadline ends (`WF` of the failing step at the deadline), which is what
`asyncio.wait_for` guarantees; neither assumes that the server ever answers. `Store`
assumes that a write that can take the lock or time out does one of the two, and that
`commit()` is reached; it assumes nothing of other processes. `StdioUpstream` assumes
that a running server answers a request for a page and that a wait for a server that is
gone ends (by the SDK, or by the gateway's timeout); a timeout while pages keep coming
is allowed but not relied on, so that `PagingEnds` is due to the cap alone. `RateLimiter`,
`Accounts`, `AuditTrail` and `Scanner` have no liveness property and no fairness.

## 4. What the checks found

1. **A straggler closes an open breaker** (`breaker_straggler`). `record_success()`
   closes the breaker whatever its state, so the success of a call admitted before the
   breaker opened closes it without cooldown or probe. The diagram in
   `circuit_breaker.py:3` has no such edge. For the same reason a straggler may decide a
   half-open breaker in place of its probe. `ProbeOrStragglerDecides` says how far that
   goes under any policy: the straggler is a cooldown older than the probe, so it takes
   a call that lasts that long, as the shipped policy (30 s for both) just allows.
2. **A failed write leaves its transaction open** (`store_outage`).
   After one write that met a lock for longer than the busy timeout, the next read
   takes a snapshot inside the open transaction; from then on roles and revocations
   made by other processes are not seen, and once one of them commits every write of
   the server fails until it restarts. `OutageNeedsLockHolds` proves that it takes such
   a lock: full disks, I/O errors and refused rows, however many, do not lead there.
3. **Early denials of four endpoints are not audited** (`audit_gap`), contrary to
   `gateway.py:8` and `README.md:42`.

Worth knowing, though no run reports it: a request denied while a probe runs is
told to retry in 0 s and gets no `Retry-After` header; `README.md:59` calls
sessions in-memory although they are rows of the database; a request that is cancelled
has no audit row, although its call may have been executed (`LogTellsExecution` says
how much is left open); and an approval that breaks off after a pin leaves that one pin
without a row, which a second attempt then records as "unchanged" (`PinsExplained` says
that it is never more than one). A row that breaks a constraint leaves the server's
transaction open with the write lock in it, so that other processes can not write until
its next write; `LockLeftByRefusal` says that nothing else does.

## 5. The theorems

All hold for every value of the constants that satisfies the named ASSUMEs
(`BreakerPolicy`, `CallsAssumption`, `WindowPolicy`, `LimiterAssumption`,
`RiskAssumption`, `PolicyAssumption`, `GatewayAssumption`, `StoreAssumption`,
`AccountsAssumption`, `AuditAssumption`, `StdioAssumption`, `ScannerAssumption`); the
ranges are those the constructors and the policy model enforce.

**Breaker** (`BreakerProofs`). `ClosedIffHealthy` is not inductive: the code forgets
the failure count when it trips. `CountIsStreak` ties the count to the history of
failures, `ProbeHeld` ties the probe flag to the half-open state, and
`ProbeBeforeOpening` says that no probe is younger than the last opening; the conjunction `IInv` is
inductive and gives `TypeCorrect`, `ClosedIffHealthyHolds`, `ProbeAccountedHolds` and
`ProbesSpacedHolds`. `OnlyStragglersBesideHolds` and `ProbeOrStragglerDecidesHolds` hold
of every policy too. They rest on `ProbeInv`: while the breaker is open, no call in
flight was admitted after the opening (`OlderThanOpening`), and a probe is admitted only
when a cooldown has passed since. The lemmas `ProbeAloneWhenShort` and
`ProbeDecidesWhenShort` draw the conclusion for policies with `Timeout < Cooldown`, which
nothing enforces: calls are within their deadline (`WithinDeadline`), so no straggler is
left and the breaker does what its diagram says. `RetryAfterExact` is about the operators
alone.

**Limiter** (`SlidingWindowProofs`, `RateLimiterProofs`). The deque of a key is a
suffix of all its admissions and what it has forgotten is outside the window
(`Remembers`, with `Sorted` history): so a decision from the deque is one from the
whole history. That `IInv` gives `QuotaHolds` and `PromiseHolds`, and, step by step,
`Implementation`: `Spec => Quota!QuotaSpec`. `LiveIsSuffix` is the lemma about the
popping loop; it needs that `<` is well founded on the naturals.

`OnlyLiveKeysHolds` is about the dictionary, and inductive once that is known to be
finite. A `check()` adds at most the caller's key, so it ends more than one key above
the threshold only if it began above it; then the sweep ran, and every key it left has
its newest hit inside the window of that instant (`RecordedSweeps`).

**Gateway** (`GatewayProofs`). `PoisonNeverTrusted` is inductive with the types.
`AuthorityDrains` is not inductive, because it says nothing
of when a handler began; `Deadlines` does (each wait is within its deadline and began
while there was authority and the user had that role, or one timeout later for a call)
and implies it. `OldPinsDrain` needs in the same way when a call was forwarded
(`ForwardedOnPin`): if its definition is no longer the pinned one, not after the pin was
replaced, so its deadline bounds what is left of it.
`MostDangerousWins` is about `Risk`'s operator alone.

**Handlers in flight** (`GatewayProofs`). Nothing in the gateway counts running
handlers; what bounds them is the deque of hits, which forgets. `InFlightHolds` gives
every running handler of a user one of `MaxRequests` seats, such that those in the same
seat began a window or more apart (`Seated`). A handler that begins needs a seat whose
handlers all began before the window. There is one: the handlers that began inside the
window (`Recent`) have each a hit of its own in the deque (`Covers`), and the deque had
room, so they do not take all seats (`FreeSeat`). `Covered` is inductive: a charge only
drops hits outside the window, a handler that ends gives up its seat, a restart ends them
all with the deque. As no handler is older than two timeouts (`Deadlines`), a seat holds
at most one handler for each of the `1 + (2 * Timeout) \div Window` windows that fit in
them (`QuotientsOrdered`): a handler is told by its seat and its window, and an injection
can not shrink a finite set.

**Use of the breakers** (`GatewayProofs`). `BreakersObeyed` says that each tool's
breaker, with the calls forwarded to it, makes only steps of `BreakerCalls`, stutters,
or starts afresh with the process. It needs that a call is started only if its deadline
fits in the bounded clock (`Fits`, as `BreakerCalls` demands it of `Admit`) and that no
call outlives its deadline (`Deadlines`); with the types these are inductive, and then
each step maps to one of `BreakerCalls` (`StepMaps`).

That makes the theorems about one breaker theorems about the gateway. `OfTool` is
`BreakerProofs` seen through the same mapping, for an arbitrary tool `TheTool`: the
steps that `StepMaps` yields are covered by the lemmas of `BreakerProofs`, cited as
they are, and `Restarts`, which is no step of `BreakerCalls`, by `OfToolRestarts`. So
`BreakersHealthyHolds`, `ProbesSpacedHolds`, `OnlyStragglersBesideHolds` and
`ProbeOrStragglerDecidesHolds` hold of every tool for every policy.

**Store** (`AuditProofs`). `Guarded` says what holds until a write has met another
process's lock: a transaction that is open between operations, as a refused row leaves
it, has the write lock, so nobody can commit under its snapshot, and its reads are
current. `StoreIInv` joins it with `LockLeftByRefusal`; it is inductive with the types,
and the theorems about the store follow from it.

**Accounts** (`AccountsProofs`). `GuessesBounded` looks at a window that slides over
restarts. `Budgeted` is its inductive form: for every start of a window that the deque
still covers, the guesses since then are at most `MaxRequests` for each process that
ended since, plus what the deque of the running process holds. A restart turns the
latter into the former; dropping expired hits touches neither (`CountLive`).
`PrintedKeysWorkHolds` is inductive with the types.

**Audit trail** (`AuditProofs`). None of the three properties is inductive.
`RowWithVerdict` says when a call has its row: none before its verdict, exactly its own
after. `SentKnown` ties rows to the server: what was sent has passed all checks, so no
row of an earlier stage can be its own. `LoopOnce` says that an approval reaches its
loop with a clean record, and that a tool once called "approved" stays pinned, which is
why no second row can say so. With `PinsExplained` itself they are inductive; each of
the three kinds of steps (`DecisionsKeep`, `MovesKeep`, `LoopKept`) has its lemma.

**Stdio upstream** (`StdioProofs`). `NoOrphans` is inductive with the types.
`ListsAreRecent` is not, as it speaks of finished lists only; `Recent` also says of a
fetch under way that what it has gathered, and what the server offers now, counts as
declared since it began. For `CompleteWhenQuiet` the invariant is
`Whole`: a quiet fetch that has used some of its page budget has each definition as
often, up to two, as there are pages before its cursor that list it (`Times`), and its
cursor is at the page after those (`InStep`). `TimesGrows` is the only
place where a set of pages grows by one; when the fetch ends, at the last page or at the
cap, those pages are the ones `CompleteWhenQuiet` counts. A server that hands out cursors
for ever repeats its last page, and the proof has a case of its own for it.

**Scanner** (`ScannerProofs`). `BlockedExactlyHolds`, `FindingsExactHolds` and
`WorkBoundedHolds` are about every finite tree, every budget and every depth. The code is
recursive over the value, and an induction over data is beyond the provers; taken step
by step, the walk needs only an invariant. `Passed` is the set of parts that lie before
the walk in document order, and each kind of step has a lemma that says by how much it
grows (`PassedBegins` to `PassedEnds`). As long as no limit is met (`Going`), the rules
have seen the texts among the passed parts and no others, the budget is what the costs
of those leave of `MaxChars`, each finding is for a dirty one of them, and none of the
passed parts lies too deep. Once a limit is met (`Stopped`), the last finding tells
which, everything else is as it was when that part was reached, and it stays so while the
open calls return. At the end all parts are passed (`AllPassed`) or the walk has stopped;
both imply the properties.

The budget is a sum over a set of places. The library defines that sum by recursion;
`SumIsMeasure` shows that it is the one function on finite sets that is 0 on the empty
set and grows by the cost of what is added (a set of least cardinality on which it fails
can not be), and `SumProperties` are what the other proofs use of it.

**Only model-checked.** The liveness properties `HalfOpenResolves`, `Responds`,
`WriteEnds` and `PagingEnds`: they need fairness and ENABLED, which are outside the reach
of the provers. Every other property of a passing run is a theorem. The properties of the
finding runs are false in general, so there is nothing to prove of them;
`HealthyUnlessOutlasted` says under which condition the store's finding does not occur
(no lock outlasts the busy timeout: then writes fail only of the disk or of their own row,
and reads are current).

## 6. What is not modelled

- The scanner's regular expressions and normalisation, and the splitting of a name
  into words: data. In `Scanner` a text is dirty or not, with one finding for all the
  rules that match it; in `Gateway` the verdicts are constants or nondeterministic.
- The conversion of SDK objects by `tool_to_definition()` and `result_to_response()`:
  data. A definition is what they make of a tool.
- Order, times and text of audit rows, and `recent()`, which reads them back.
- Sanitisation of audit text, pydantic validation, loading of the policy, headers,
  `serve`: formatting, or input checks whose ranges are the ASSUMEs.
- Cancellation of `start()` or `stop()` while they unwind: `aclose()` is taken to return.
- SHA-256, canonical JSON and key generation, taken to be injective or unguessable.
- The change of a definition between its check and its call, which the repository's
  README names as a limitation and which the gateway can not see.
- `attacks/`, `benchmark/`, `tests/`: they drive the program.

## 7. Plan

Order of the work, most important behaviour first:

1. *Done.* The limiter and its refinement; the breaker with overlapping calls; the
   gateway that composes them; the store; accounts and login; the risk classes; the
   walk of the scanner; proofs of their main safety properties, and that the gateway
   uses its breakers as `BreakerCalls` does.
2. *Done.* The audit trail with its proofs, and the connector to a real MCP server.
3. *Done.* Proofs of the connector's lists, of the handlers in flight and of the sweep;
   the theorems about one breaker carried over to the gateway.
4. *Done.* The walk of the scanner step by step instead of by recursion, with its proofs.
5. *Open.* A proof that what the gateway's limiter admits for a user is a behaviour of
   `WindowQuota` between restarts, as `Implementation` shows for `RateLimiter`; the same
   for the login limiter of `Accounts`. Both need a history of all admissions that
   those modules do not keep. What they promise of their own is proved:
   `InFlightHolds` and `GuessesBoundedHolds`.

## 8. Running it

In this directory, with the TLA+ tools and TLAPS 1.4.5:

    tlc -workers 2 -config Gateway.cfg MCGateway
    tlapm GatewayProofs.tla

`PROJECT.json` names the module and the configuration of every run and the lines that
every definition models.
