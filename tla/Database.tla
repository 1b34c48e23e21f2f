------------------------------ MODULE Database ------------------------------
(***************************************************************************)
(* The SQLite file and how a process opens it (Open and applyMigrations,   *)
(* internal/store/sqlite/database.go).                                     *)
(*                                                                         *)
(* A process reads PRAGMA user_version once, outside any transaction, and  *)
(* then runs every later migration in a transaction of its own, together   *)
(* with the new user_version.  Several processes, of different builds, may *)
(* do so on one file, and each may fail or die between two transactions.   *)
(* The scripts only say CREATE ... IF NOT EXISTS, so script v is           *)
(* represented by v: it adds v to the tables and running it again changes  *)
(* nothing.                                                                *)
(***************************************************************************)
EXTENDS Naturals

CONSTANTS Procs,                 \* processes that may open the file
          CurrentSchemaVersion   \* CurrentSchemaVersion[p]: p's build's newest

ASSUME BuildAssumption == CurrentSchemaVersion \in [Procs -> Nat \ {0}]

VARIABLES
  userVersion,  \* PRAGMA user_version of the file
  tables,       \* migrations whose tables exist in the file
  conn,         \* conn[p]: p's sql.DB
  next          \* next[p]: the migration p will look at next

dbVars == <<userVersion, tables, conn, next>>

ConnStates == {"none", "opened", "migrating", "ready"}

\* A file that does not exist yet, or that a process of some build left.
DbInit ==
  /\ userVersion \in {0} \cup {CurrentSchemaVersion[p] : p \in Procs}
  /\ tables = 1..userVersion
  /\ conn = [p \in Procs |-> "none"]
  /\ next = [p \in Procs |-> 0]

SetConn(p, s) == conn' = [conn EXCEPT ![p] = s]

\* The sql.DB is closed; next is a local variable of applyMigrations.
CloseDB(p) ==
  /\ SetConn(p, "none")
  /\ next' = [next EXCEPT ![p] = 0]
  /\ UNCHANGED <<userVersion, tables>>

-----------------------------------------------------------------------------
(* Open.                                                                   *)

\* MkdirAll, sql.Open and Ping.
OpenFile(p) ==
  /\ conn[p] = "none"
  /\ SetConn(p, "opened")
  /\ UNCHANGED <<userVersion, tables, next>>

\* PRAGMA user_version, read from a file this build understands; the versions
\* up to it are skipped.
ReadVersion(p) ==
  /\ conn[p] = "opened"
  /\ userVersion <= CurrentSchemaVersion[p]
  /\ SetConn(p, "migrating")
  /\ next' = [next EXCEPT ![p] = userVersion + 1]
  /\ UNCHANGED <<userVersion, tables>>

\* The file is newer than this build: Open closes it and reports an error.
RefuseVersion(p) ==
  /\ conn[p] = "opened"
  /\ userVersion > CurrentSchemaVersion[p]
  /\ CloseDB(p)

\* Mutant: the version is written in a transaction before the script's.
ApplyMigration_VersionFirst(p) ==
  /\ conn[p] = "migrating"
  /\ next[p] <= CurrentSchemaVersion[p]
  /\ userVersion' = next[p]
  /\ tables' = IF userVersion = next[p] THEN tables \cup {next[p]} ELSE tables
  /\ next' = [next EXCEPT ![p] = IF userVersion = @ THEN @ + 1 ELSE @]
  /\ UNCHANGED conn

\* Mutant: the loop does not move on.
ApplyMigration_SameAgain(p) ==
  /\ conn[p] = "migrating"
  /\ next[p] <= CurrentSchemaVersion[p]
  /\ tables' = tables \cup {next[p]}
  /\ userVersion' = next[p]
  /\ UNCHANGED <<conn, next>>

\* One transaction: the script and the new user_version.
ApplyMigration(p) ==
  /\ conn[p] = "migrating"
  /\ next[p] <= CurrentSchemaVersion[p]
  /\ tables' = tables \cup {next[p]}
  /\ userVersion' = next[p]
  /\ next' = [next EXCEPT ![p] = @ + 1]
  /\ UNCHANGED conn

\* Mutant: the last script is left out.
FinishMigrations_OneShort(p) ==
  /\ conn[p] = "migrating"
  /\ next[p] >= CurrentSchemaVersion[p]
  /\ SetConn(p, "ready")
  /\ UNCHANGED <<userVersion, tables, next>>

\* No script is left; the embedded scripts end at CurrentSchemaVersion.
FinishMigrations(p) ==
  /\ conn[p] = "migrating"
  /\ next[p] > CurrentSchemaVersion[p]
  /\ SetConn(p, "ready")
  /\ UNCHANGED <<userVersion, tables, next>>

\* MkdirAll, Ping, the read of the version, or a statement or the commit of a
\* migration fails (another process has the file locked for longer than
\* busy_timeout, the disk is full): the transaction is rolled back and the DB
\* closed.
FailOpen(p) == conn[p] # "ready" /\ CloseDB(p)

OpenStep(p) ==
  OpenFile(p) \/ ReadVersion(p) \/ ApplyMigration(p) \/ FinishMigrations(p)

-----------------------------------------------------------------------------
(* Properties.                                                             *)

DbTypeOK ==
  /\ userVersion \in Nat
  /\ tables \subseteq Nat
  /\ conn \in [Procs -> ConnStates]
  /\ next \in [Procs -> Nat]

\* The file never claims a version whose tables it does not have: whoever
\* opens it next skips only what was really applied, whatever the processes
\* that migrated it at the same time overwrote, and wherever they failed.
SchemaCoversVersion == 1..userVersion \subseteq tables

\* What a process may rely on in the middle of its migrations.
MigratedSoFar ==
  \A p \in Procs :
    conn[p] = "migrating" => next[p] > 0 /\ 1..(next[p] - 1) \subseteq tables
=============================================================================
