------------------------------ MODULE Accounts ------------------------------
(***************************************************************************)
(* Who may come in: registration on the command line, login, sessions, and *)
(* what of it the audit log is told.  app/firewall/authentication.py,      *)
(* Firewall.login(), and the tables users and sessions.                    *)
(*                                                                         *)
(* login() and validate() do not await, so each is one action of the       *)
(* server.  "create-user" runs in another process, whenever an operator    *)
(* likes, several at once; the unique key of the users table orders them.  *)
(*                                                                         *)
(* There are two clocks.  The limiter is given time.monotonic; sessions    *)
(* live by time.time, which an administrator or NTP may set.               *)
(***************************************************************************)
EXTENDS SlidingWindow, FiniteSets

CONSTANTS
    User,       \* user ids
    Key,        \* API keys
    DummyKey,   \* the key an unknown user's attempt is compared with
    Client,     \* socket addresses
    Session,    \* session ids, each issued at most once
    None,       \* no account, no session
    Lifetime,   \* session_ttl_seconds
    MaxTime,    \* bound of the model: both clocks stop here
    MaxBoots    \* bound of the model: restarts of the server

ASSUME AccountsAssumption == /\ None \notin User /\ None \notin Key
                             /\ DummyKey \in Key
                             /\ Lifetime \in Nat \ {0}
                             /\ MaxTime \in Nat /\ MaxBoots \in Nat

VARIABLES
    mono, wall,     \* the two clocks
    \* The database.
    keys,           \* users.api_key_hash of each registered user, or None
    sessions,       \* rows of the sessions table, or None
    \* The process.
    attempts,       \* the login limiter's deque of each client
    \* History: no action reads these.
    printed,        \* the <<user, key>> "create-user" has shown an operator
    guesses,        \* when each client had a key compared
    boots,          \* when the server restarted
    last            \* the last decision answered, and its audit row

vars == <<mono, wall, keys, sessions, attempts, printed, guesses, boots, last>>

Init == /\ mono = 0 /\ wall = 0
        /\ keys = [u \in User |-> None]
        /\ sessions = [s \in Session |-> None]
        /\ attempts = [c \in Client |-> <<>>]
        /\ printed = {}
        /\ guesses = [c \in Client |-> <<>>]
        /\ boots = <<>>
        /\ last = [op |-> "none", row |-> "written"]
-----------------------------------------------------------------------------
(***************************************************************************)
(* The command line.                                                       *)
(***************************************************************************)

\* Mistake: an existing account is given the new key.
StoresKeyAnyway(u, k) == /\ keys' = [keys EXCEPT ![u] = k]
                         /\ printed' = printed \cup {<<u, k>>}

\* register_user(): the key is printed if the row went in, and "already
\* exists" if there was one.
StoresKey(u, k) == IF keys[u] = None
                   THEN keys' = [keys EXCEPT ![u] = k]
                        /\ printed' = printed \cup {<<u, k>>}
                   ELSE UNCHANGED <<keys, printed>>

CreatesUser(u, k) ==
    /\ StoresKey(u, k)
    /\ UNCHANGED <<mono, wall, sessions, attempts, guesses, boots, last>>
-----------------------------------------------------------------------------
(***************************************************************************)
(* POST /api/session.                                                      *)
(***************************************************************************)

\* Mistake: the limiter runs on the clock of the sessions.
SettableClock == wall

\* The clock the limiters are given.
LimiterClock == mono

LiveAttempts(c) == Live(attempts[c], LimiterClock)

\* _audit_simple(): one row, unless the write fails, which is only logged.
Audits(op) == \E row \in {"written", "lost"} : last' = [op |-> op, row |-> row]

\* Mistake: an unknown user is whoever knows the dummy credential.
MatchesDummy(u, k) == k = IF keys[u] = None THEN DummyKey ELSE keys[u]

\* The key is that of a registered user.
Matches(u, k) == keys[u] # None /\ keys[u] = k

\* check(client_key): the attempt is counted if there is room for it.  The
\* sweep, which changes no answer, is left to module RateLimiter.
Attempts(c) == attempts' = [attempts EXCEPT
                   ![c] = After(LiveAttempts(c), LimiterClock)]

\* "too many login attempts"
LoginRefused(c) ==
    /\ ~HasRoom(LiveAttempts(c))
    /\ Attempts(c)
    /\ Audits("login")
    /\ UNCHANGED <<mono, wall, keys, sessions, printed, guesses, boots>>

\* A key is compared.
Guess(c) == /\ HasRoom(LiveAttempts(c))
            /\ Attempts(c)
            /\ guesses' = [guesses EXCEPT ![c] = Append(@, mono)]

\* "invalid credentials"
LoginFails(c, u, k) ==
    /\ Guess(c)
    /\ ~Matches(u, k)
    /\ Audits("login")
    /\ UNCHANGED <<mono, wall, keys, sessions, printed, boots>>

\* create_session()
Opens(s, u) == /\ sessions[s] = None
               /\ sessions' = [sessions EXCEPT ![s] =
                     [user |-> u, expires |-> wall + Lifetime, revoked |-> FALSE]]

LoginSucceeds(c, u, k, s) ==
    /\ Guess(c)
    /\ Matches(u, k)
    /\ Opens(s, u)
    /\ Audits("login")
    /\ UNCHANGED <<mono, wall, keys, printed, boots>>

\* The INSERT of create_session() fails: a 500, no session, no decision.
LoginBreaks(c, u, k) ==
    /\ Guess(c)
    /\ Matches(u, k)
    /\ UNCHANGED <<mono, wall, keys, sessions, printed, boots, last>>
-----------------------------------------------------------------------------
(***************************************************************************)
(* Everything else a caller does begins with validate().                   *)
(***************************************************************************)

\* validate()
Valid(s) == /\ sessions[s] # None
            /\ ~sessions[s].revoked
            /\ wall < sessions[s].expires

\* handle() audits what it denies ...
RequestRejected(s) ==
    /\ ~Valid(s)
    /\ Audits("request")
    /\ UNCHANGED <<mono, wall, keys, sessions, attempts, printed, guesses, boots>>

\* ... but the error that authenticate() raises for the other endpoints
\* (tools, approve, logs, policies) is answered by main.py and not audited.
EndpointRejected(s) ==
    /\ ~Valid(s)
    /\ last' = [op |-> "endpoint", row |-> "none"]
    /\ UNCHANGED <<mono, wall, keys, sessions, attempts, printed, guesses, boots>>

\* revoke()
Revokes(s) ==
    /\ sessions[s] # None
    /\ sessions' = [sessions EXCEPT ![s].revoked = TRUE]
    /\ UNCHANGED <<mono, wall, keys, attempts, printed, guesses, boots, last>>

\* The server restarts on the same file, possibly in the middle of a login
\* whose session has been written.
Restarts ==
    /\ Len(boots) < MaxBoots
    /\ attempts' = [c \in Client |-> <<>>]
    /\ boots' = Append(boots, mono)
    /\ UNCHANGED <<mono, wall, keys, printed, last>>
    /\ \/ UNCHANGED <<sessions, guesses>>
       \/ \E c \in Client, s \in Session, u \in User, k \in Key :
              /\ HasRoom(LiveAttempts(c))
              /\ Matches(u, k)
              /\ Opens(s, u)
              /\ guesses' = [guesses EXCEPT ![c] = Append(@, mono)]

Tick == /\ mono < MaxTime /\ wall < MaxTime
        /\ mono' = mono + 1
        /\ wall' = wall + 1
        /\ UNCHANGED <<keys, sessions, attempts, printed, guesses, boots, last>>

\* The wall clock is set.
ClockSet == /\ wall' \in 0..MaxTime
            /\ UNCHANGED <<mono, keys, sessions, attempts, printed, guesses,
                           boots, last>>

Login(c) == \/ LoginRefused(c)
            \/ \E u \in User, k \in Key :
                  \/ LoginFails(c, u, k)
                  \/ LoginBreaks(c, u, k)
                  \/ \E s \in Session : LoginSucceeds(c, u, k, s)

Next == \/ \E u \in User, k \in Key : CreatesUser(u, k)
        \/ \E c \in Client : Login(c)
        \/ \E s \in Session : \/ RequestRejected(s)
                              \/ EndpointRejected(s)
                              \/ Revokes(s)
        \/ Restarts
        \/ Tick
        \/ ClockSet

Spec == Init /\ [][Next]_vars
-----------------------------------------------------------------------------
SessionRow == [user : User, expires : Nat, revoked : BOOLEAN]

\* The last conjunct is the foreign key of the sessions table.
TypeOK == /\ mono \in 0..MaxTime /\ wall \in 0..MaxTime
          /\ keys \in [User -> Key \cup {None}]
          /\ sessions \in [Session -> SessionRow \cup {None}]
          /\ attempts \in [Client -> Seq(0..MaxTime)]
          /\ printed \in SUBSET (User \X Key)
          /\ guesses \in [Client -> Seq(0..MaxTime)]
          /\ boots \in Seq(0..MaxTime)
          /\ last \in [op : {"none", "login", "request", "endpoint"},
                       row : {"written", "lost", "none"}]
          /\ \A s \in Session :
                sessions[s] # None => keys[sessions[s].user] # None

InWindow(times) == {i \in DOMAIN times : times[i] > mono - Window}

\* A client can not try keys faster than the limit, whoever sets the wall
\* clock and however login attempts mix: in the window that ends now it had
\* at most MaxRequests keys compared for each process that served in it.
GuessesBounded ==
    \A c \in Client :
        Cardinality(InWindow(guesses[c]))
            =< MaxRequests * (1 + Cardinality(InWindow(boots)))

\* A key that was shown to an operator works: of several processes that
\* register one user id, only the one whose row went in prints its key.
PrintedKeysWork == \A p \in printed : Matches(p[1], p[2])

\* "Every decision (allow or deny) is audited, including denials that happen
\* very early" (gateway.py:8): an answer has its row, or a write that failed.
EveryDecisionAudited == last.row # "none"
=============================================================================
