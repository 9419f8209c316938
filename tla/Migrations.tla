----------------------------- MODULE Migrations -----------------------------
(***************************************************************************)
(* Schema migrations at start-up (migrations/embed.go): replicas start     *)
(* together, take a session-level advisory lock, and apply the embedded    *)
(* files that the ledger does not list, each in a transaction of its own.  *)
(* A replica may die at any point and be started again.                    *)
(***************************************************************************)
EXTENDS Naturals, Sequences

CONSTANTS
  Replicas,
  Files,      \* their number, sorted by name
  NoReplica

ASSUME FilesAssumption == Files \in Nat
ASSUME NoReplicaAssumption == NoReplica \notin Replicas

VARIABLES
  advisory,  \* the replica whose connection holds the advisory lock
  ledger,    \* schema_migrations
  schema,    \* the files whose statements have been committed, in that order
  replica    \* where Apply is, and the file it is at

migrationVars == <<advisory, ledger, schema, replica>>

Applying(r) == replica[r].pc \in {"check", "run", "commit"}
At(r, pc, n) == replica' = [replica EXCEPT ![r] = [pc |-> pc, file |-> n]]

\* Fault: the lock is taken on one connection of the pool, the rest runs on
\* another.
TakeLockElsewhere(r) ==
  /\ replica[r].pc = "start"
  /\ advisory' = NoReplica /\ At(r, "check", 1)
  /\ UNCHANGED <<ledger, schema>>

\* pg_advisory_lock, and the ledger's CREATE TABLE IF NOT EXISTS.
TakeLock(r) ==
  /\ replica[r].pc = "start" /\ advisory = NoReplica
  /\ advisory' = r /\ At(r, "check", 1)
  /\ UNCHANGED <<ledger, schema>>

\* SELECT EXISTS of the ledger.
CheckFile(r) ==
  LET n == replica[r].file IN
  /\ replica[r].pc = "check" /\ n <= Files
  /\ IF n \in ledger THEN At(r, "check", n + 1) ELSE At(r, "run", n)
  /\ UNCHANGED <<advisory, ledger, schema>>

\* The file's statements: they fail if the objects they create are there,
\* after waiting for a transaction that is about to create them.
RunFile(r) ==
  LET n == replica[r].file IN
  /\ replica[r].pc = "run"
  /\ \A q \in Replicas \ {r} : replica[q] # [pc |-> "commit", file |-> n]
  /\ IF \E i \in 1..Len(schema) : schema[i] = n
       THEN At(r, "refused", n) /\ advisory' = IF advisory = r THEN NoReplica ELSE advisory
       ELSE At(r, "commit", n) /\ UNCHANGED advisory
  /\ UNCHANGED <<ledger, schema>>

\* INSERT INTO schema_migrations and tx.Commit.
CommitFile(r) ==
  LET n == replica[r].file IN
  /\ replica[r].pc = "commit"
  /\ ledger' = ledger \cup {n} /\ schema' = Append(schema, n)
  /\ At(r, "check", n + 1)
  /\ UNCHANGED advisory

\* The deferred pg_advisory_unlock; the server starts to serve.
Serve(r) ==
  /\ replica[r].pc = "check" /\ replica[r].file > Files
  /\ advisory' = (IF advisory = r THEN NoReplica ELSE advisory) /\ At(r, "serving", 0)
  /\ UNCHANGED <<ledger, schema>>

\* A statement fails or the process dies: its transaction and its lock go
\* with the connection, and the replica is started again.
Restart(r) ==
  /\ replica[r].pc # "start"
  /\ advisory' = (IF advisory = r THEN NoReplica ELSE advisory) /\ At(r, "start", 0)
  /\ UNCHANGED <<ledger, schema>>

-----------------------------------------------------------------------------

MigrationsInit ==
  /\ advisory = NoReplica /\ ledger = {} /\ schema = <<>>
  /\ replica = [r \in Replicas |-> [pc |-> "start", file |-> 0]]

MigrationsNext ==
  \E r \in Replicas :
    \/ TakeLock(r) \/ CheckFile(r) \/ RunFile(r) \/ CommitFile(r) \/ Serve(r) \/ Restart(r)

MigrationsSpec == MigrationsInit /\ [][MigrationsNext]_migrationVars

\* Each variable has its type, and only the replica that holds the advisory
\* lock is at work, also while another dies (migrations/embed.go:24-41).
MigrationsTypeOK ==
  /\ advisory \in Replicas \cup {NoReplica}
  /\ ledger \subseteq 1..Files /\ schema \in Seq(1..Files)
  /\ replica \in [Replicas -> [pc : {"start", "check", "run", "commit", "refused", "serving"},
                               file : 0..(Files + 1)]]
  /\ \A r \in Replicas : Applying(r) => advisory = r

\* However many replicas start together and die on the way, every file is
\* applied once and in the order of the names, the ledger says so, no replica
\* is refused because another was faster, and none serves an older schema
\* (migrations/embed.go:24-41, 56-84).
MigrationsRunOnce ==
  /\ \A i \in 1..Len(schema) : schema[i] = i
  /\ ledger = 1..Len(schema)
  /\ \A r \in Replicas :
       /\ replica[r].pc # "refused"
       /\ replica[r].pc = "serving" => Len(schema) = Files
=============================================================================
