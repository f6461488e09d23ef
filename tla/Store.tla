------------------------------- MODULE Store -------------------------------
(***************************************************************************)
(* The SQLite file, the server's one connection to it                      *)
(* (app/storage/database.py) and the other processes that write to it:     *)
(* "create-user" on the command line, an operator's shell, a backup.       *)
(*                                                                         *)
(* The server runs one operation on its connection at a time.  _query()    *)
(* is a SELECT.  _write() is a statement followed by commit(); the sqlite3 *)
(* module begins a transaction before the statement, and _write() does not *)
(* roll it back when the statement fails.  Whether SQLite does depends on  *)
(* the failure: a full disk or an I/O error ends the transaction, a lock   *)
(* or a constraint does not.  The file is in WAL mode: readers never wait, *)
(* one connection at a time may write, and a transaction that has read     *)
(* sees the file as it was at its first read and may write only if nobody  *)
(* has committed since.                                                    *)
(*                                                                         *)
(* The contents of the file are abstracted to the number of commits.       *)
(***************************************************************************)
EXTENDS Integers

CONSTANTS
    LockOutlasts,   \* another process may hold the write lock for longer
                    \* than the connection's busy timeout (5 s)
    MaxCommits      \* bound of the model: writes start only below it

ASSUME StoreAssumption == LockOutlasts \in BOOLEAN /\ MaxCommits \in Nat

VARIABLES
    commits,    \* how often the file has changed
    writer,     \* who holds the write lock: "nobody", "server" or "other"
    txn,        \* the server's connection: "none", "begun" (a transaction
                \* that has read nothing) or "reading" (one with a snapshot)
    snapshot,   \* the commits a "reading" transaction sees
    op,         \* _write(): "idle", "asking" for the lock or "inserted"
    \* The remaining variables are history: no action reads them.
    seen,       \* the last read: the commits it saw, and those there were
    failed      \* why writes of this process have failed so far

storeVars == <<commits, writer, txn, snapshot, op, seen, failed>>

Causes == {"locked",    \* another process held the lock
           "stale",     \* nobody did, but the transaction had read before
           "disk",      \* the disk was full or failed
           "refused"}   \* the row broke a constraint of the schema

StoreInit == /\ commits = 0
             /\ writer = "nobody"
             /\ txn = "none"
             /\ snapshot = 0
             /\ op = "idle"
             /\ seen = [saw |-> 0, was |-> 0]
             /\ failed = {}
-----------------------------------------------------------------------------
\* A SELECT begins no transaction; inside one, the first takes the snapshot.
QueryReads == /\ txn' = IF txn = "begun" THEN "reading" ELSE txn
              /\ snapshot' = IF txn = "begun" THEN commits ELSE snapshot

\* Mistake: a read begins a transaction, which nothing ends.
QueriesInTransaction ==
    /\ op = "idle"
    /\ txn' = "reading"
    /\ snapshot' = IF txn = "reading" THEN snapshot ELSE commits
    /\ seen' = [saw |-> snapshot', was |-> commits]
    /\ UNCHANGED <<commits, writer, op, failed>>

\* _query()
Queries == /\ op = "idle"
           /\ QueryReads
           /\ seen' = [saw |-> IF txn = "reading" THEN snapshot ELSE commits,
                       was |-> commits]
           /\ UNCHANGED <<commits, writer, op, failed>>

\* _write() begins: the module opens a transaction if there is none.
Asks == /\ op = "idle"
        /\ commits < MaxCommits
        /\ op' = "asking"
        /\ txn' = IF txn = "none" THEN "begun" ELSE txn
        /\ UNCHANGED <<commits, writer, snapshot, seen, failed>>

Stale == txn = "reading" /\ snapshot # commits

\* The statement gets the write lock, or its transaction has it already.
MayWrite == op = "asking" /\ writer \in {"nobody", "server"} /\ ~Stale

Inserts == /\ MayWrite
           /\ writer' = "server"
           /\ op' = "inserted"
           /\ UNCHANGED <<commits, txn, snapshot, seen, failed>>

\* Mistake: a busy timeout of zero means waiting for ever.
NeverTimesOut == /\ op = "asking"
                 /\ txn = "reading" /\ (Stale \/ writer = "other")
                 /\ op' = "idle"
                 /\ failed' = failed \cup {"locked"}
                 /\ UNCHANGED <<commits, writer, txn, snapshot, seen>>

\* "database is locked": at once for a transaction that has read, after the
\* busy timeout for any other.  The exception leaves the transaction open.
Fails == /\ op = "asking"
         /\ IF txn = "reading" THEN Stale \/ writer = "other"
            ELSE writer = "other" /\ LockOutlasts
         /\ op' = "idle"
         /\ failed' = failed \cup
                         {IF writer = "other" THEN "locked" ELSE "stale"}
         /\ UNCHANGED <<commits, writer, txn, snapshot, seen>>

\* "UNIQUE constraint failed", "FOREIGN KEY constraint failed": SQLite undoes
\* the statement only.  The transaction stays open, and it has the lock now.
Refused == /\ MayWrite
           /\ writer' = "server"
           /\ txn' = "reading"
           /\ snapshot' = commits
           /\ op' = "idle"
           /\ failed' = failed \cup {"refused"}
           /\ UNCHANGED <<commits, seen>>

\* "database or disk is full", "disk I/O error", of the statement or of
\* commit(): SQLite rolls the transaction back.
Breaks == /\ MayWrite \/ op = "inserted"
          /\ writer' = "nobody"
          /\ txn' = "none"
          /\ snapshot' = 0
          /\ op' = "idle"
          /\ failed' = failed \cup {"disk"}
          /\ UNCHANGED <<commits, seen>>

\* Mistake: the statement is not committed.
NeverCommits == /\ op = "inserted"
                /\ op' = "idle"
                /\ txn' = "reading"
                /\ UNCHANGED <<commits, writer, snapshot, seen, failed>>

\* commit()
Commits == /\ op = "inserted"
           /\ commits' = commits + 1
           /\ writer' = "nobody"
           /\ txn' = "none"
           /\ snapshot' = 0
           /\ op' = "idle"
           /\ UNCHANGED <<seen, failed>>

\* Another process takes the lock, and commits or gives up.
OtherLocks == /\ writer = "nobody"
              /\ commits < MaxCommits
              /\ writer' = "other"
              /\ UNCHANGED <<commits, txn, snapshot, op, seen, failed>>

OtherEnds == /\ writer = "other"
             /\ writer' = "nobody"
             /\ commits' \in {commits, commits + 1}
             /\ UNCHANGED <<txn, snapshot, op, seen, failed>>

\* Mistake: a dead process leaves its lock behind.
RestartsLocked == /\ txn' = "none"
                  /\ snapshot' = 0
                  /\ op' = "idle"
                  /\ seen' = [saw |-> 0, was |-> 0]
                  /\ failed' = {}
                  /\ UNCHANGED <<commits, writer>>

\* The server process dies, SQLite rolls its transaction back, and a new
\* process opens the file.
Restarts == /\ writer' = IF writer = "server" THEN "nobody" ELSE writer
            /\ txn' = "none"
            /\ snapshot' = 0
            /\ op' = "idle"
            /\ seen' = [saw |-> 0, was |-> 0]
            /\ failed' = {}
            /\ UNCHANGED commits

StoreNext == Queries \/ Asks \/ Inserts \/ Fails \/ Refused \/ Breaks
            \/ Commits \/ OtherLocks \/ OtherEnds \/ Restarts

\* A write that asks is answered, by the busy timeout at the latest, and one
\* that has inserted commits.  The other processes owe nothing.
Fairness == WF_storeVars(Inserts \/ Fails) /\ WF_storeVars(Commits)

StoreSpec == StoreInit /\ [][StoreNext]_storeVars /\ Fairness
-----------------------------------------------------------------------------
\* The last conjuncts: a write runs inside a transaction, and the lock belongs
\* to one.
StoreTypeOK == /\ commits \in Nat
               /\ writer \in {"nobody", "server", "other"}
               /\ txn \in {"none", "begun", "reading"}
               /\ snapshot \in 0..commits
               /\ op \in {"idle", "asking", "inserted"}
               /\ seen \in [saw : Nat, was : Nat]
               /\ failed \in SUBSET Causes
               /\ op # "idle" => txn # "none"
               /\ op = "inserted" => writer = "server"
               /\ writer = "server" => txn = "reading" \/ op = "inserted"

\* "losing an audit row must not turn into an outage" (gateway.py:351): a
\* write fails for a lock, a disk or a row of its own, never because an
\* earlier one has failed.
FailsByItself == "stale" \notin failed

\* "current role from the users table, not a copy taken at login"
\* (authentication.py:95): a read sees everything committed before it, so a
\* role changed, a session revoked or a user added by another process counts
\* from the next validation on.
ReadsAreCurrent == seen.saw = seen.was

\* What the code does give: until a write of the process has met a lock that
\* outlasts the busy timeout, its reads are current, whatever other processes
\* do between and during its writes, and whatever else its writes fail of.
CurrentUntilLocked == "locked" \notin failed => seen.saw = seen.was

\* The outage takes such a lock too: a full disk or a refused row starts none.
OutageNeedsLock == "stale" \in failed => "locked" \in failed

\* Between two operations the server keeps other processes from writing only
\* if a row of its own was refused.  (Then it does, until its next write.)
LockLeftByRefusal ==
    writer = "server" /\ op # "inserted" => "refused" \in failed

\* A write of the server ends, well or badly: no process can hold it up for
\* longer than the busy timeout.
WriteEnds == op # "idle" ~> op = "idle"
=============================================================================
