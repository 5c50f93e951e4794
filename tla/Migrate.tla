------------------------------- MODULE Migrate -------------------------------
(***************************************************************************)
(* Schema migrations at start-up (internal/pgmigrate and the bootstrap of  *)
(* cmd/enrichapi and cmd/dashboardd).  Every process started with an admin *)
(* DSN runs pgmigrate.Apply over its own directory and then provisions its *)
(* roles; an error ends the process and its supervisor starts it again.    *)
(* Nothing serialises two processes: no advisory lock is taken, and each   *)
(* works from the versions it read when it started.  A file is normally    *)
(* one transaction together with its version row; a file that carries the  *)
(* no-transaction directive commits statement by statement.                *)
(***************************************************************************)
EXTENDS Naturals, FiniteSets

CONSTANTS Runner,        \* processes with an admin DSN
          Files,         \* number of migration files, in filename order
          Known,         \* Runner -> the files its directory holds (1..Known[r])
          NoTxn,         \* the files with the no-transaction directive
          Stmts,         \* statements of a no-transaction file
          MaxMishaps     \* bound: failed statements, unanswered commits, crashes

ASSUME MigrateAssumption ==
  /\ Files \in Nat \ {0} /\ Stmts \in Nat \ {0} /\ MaxMishaps \in Nat
  /\ NoTxn \subseteq 1..Files /\ Known \in [Runner -> 1..Files] /\ IsFiniteSet(Runner)

VARIABLES ledger,     \* schema_migrations
          runs,       \* [file, statement -> times it has been committed]
          at,         \* [runner -> where it is in bootstrap]
          applied,    \* [runner -> the versions it read]
          file, stmt, \* [runner -> file and statement it is about to run]
          mishaps

migrateVars == <<ledger, runs, at, applied, file, stmt, mishaps>>

File == 1..Files
\* The statements of a file; an atomic file counts as one, the first.
StmtsOf(f) == IF f \in NoTxn THEN 1..Stmts ELSE {1}

MgInit ==
  /\ ledger = {} /\ runs = [f \in File |-> [s \in 1..Stmts |-> 0]]
  /\ at = [r \in Runner |-> "down"] /\ applied = [r \in Runner |-> {}]
  /\ file = [r \in Runner |-> 1] /\ stmt = [r \in Runner |-> 1]
  /\ mishaps = 0

\* os.Exit(1): whatever the process knew is gone.
Exited(r) ==
  /\ at' = [at EXCEPT ![r] = "down"] /\ applied' = [applied EXCEPT ![r] = {}]
  /\ file' = [file EXCEPT ![r] = 1] /\ stmt' = [stmt EXCEPT ![r] = 1]

-----------------------------------------------------------------------------
\* Apply: ensure schema_migrations and read it, once.
Scan(r) ==
  /\ at[r] = "down"
  /\ at' = [at EXCEPT ![r] = "apply"] /\ applied' = [applied EXCEPT ![r] = ledger]
  /\ UNCHANGED <<ledger, runs, file, stmt, mishaps>>

\* The next file of the loop.
Advance(r) == file' = [file EXCEPT ![r] = @ + 1] /\ stmt' = [stmt EXCEPT ![r] = 1]

\* A version that was read as applied is skipped.
\* (The wrong form skips by the newest version, as a single counter would.)
WrongSkips(r) == \E v \in applied[r] : v >= file[r] \/ v + 1 = file[r]
Skips(r) == file[r] \in applied[r]

SkipFile(r) ==
  /\ at[r] = "apply" /\ file[r] <= Known[r] /\ Skips(r)
  /\ Advance(r) /\ UNCHANGED <<ledger, runs, at, applied, mishaps>>

Applies(r, f) == at[r] = "apply" /\ file[r] = f /\ f <= Known[r] /\ ~Skips(r)

\* The primary key of schema_migrations admits a version once; the second
\* insert waits for the first transaction and then fails.
\* (The wrong form is a version table without the primary key.)
WrongInsertable(f) == TRUE
Insertable(f) == f \notin ledger

\* applyAtomic: body and version row in one transaction.  It commits both,
\* possibly without the process learning so, or leaves nothing.
ApplyAtomic(r, f) ==
  /\ Applies(r, f) /\ f \notin NoTxn /\ Insertable(f)
  /\ ledger' = ledger \cup {f} /\ runs' = [runs EXCEPT ![f][1] = @ + 1]
  /\ \/ Advance(r) /\ UNCHANGED <<at, applied, mishaps>>
     \/ mishaps < MaxMishaps /\ mishaps' = mishaps + 1 /\ Exited(r)

\* Another process has committed the file since this one read the versions.
AtomicLost(r, f) ==
  /\ Applies(r, f) /\ f \notin NoTxn /\ ~Insertable(f)
  /\ Exited(r) /\ UNCHANGED <<ledger, runs, mishaps>>

\* applyNoTxn, one statement: it commits by itself.  The files must be
\* written to be resumable, so repeating a statement succeeds.
RunStatement(r, f) ==
  /\ Applies(r, f) /\ f \in NoTxn /\ stmt[r] <= Stmts
  /\ runs' = [runs EXCEPT ![f][stmt[r]] = @ + 1]
  /\ \/ stmt' = [stmt EXCEPT ![r] = @ + 1] /\ UNCHANGED <<at, applied, file, mishaps>>
     \/ mishaps < MaxMishaps /\ mishaps' = mishaps + 1 /\ Exited(r)
  /\ UNCHANGED ledger

\* applyNoTxn, the version row: only after every statement has succeeded.
\* (The wrong form records the file before its last statement.)
WrongReady(r) == stmt[r] >= Stmts
Ready(r) == stmt[r] > Stmts

RecordVersion(r, f) ==
  /\ Applies(r, f) /\ f \in NoTxn /\ Ready(r)
  /\ \/ Insertable(f) /\ ledger' = ledger \cup {f} /\ Advance(r) /\ UNCHANGED <<at, applied, mishaps>>
     \/ /\ Insertable(f) /\ mishaps < MaxMishaps
        /\ ledger' = ledger \cup {f} /\ mishaps' = mishaps + 1 /\ Exited(r)
     \/ ~Insertable(f) /\ Exited(r) /\ UNCHANGED <<ledger, mishaps>>
  /\ UNCHANGED runs

\* A statement fails, or the process dies: the open transaction rolls back.
Fails(r) ==
  /\ at[r] \in {"apply", "serving"} /\ mishaps < MaxMishaps
  /\ mishaps' = mishaps + 1 /\ Exited(r) /\ UNCHANGED <<ledger, runs>>

\* Apply is through its files, provisionRolesSQL succeeds, the process serves.
Provision(r) ==
  /\ at[r] = "apply" /\ file[r] > Known[r]
  /\ at' = [at EXCEPT ![r] = "serving"]
  /\ UNCHANGED <<ledger, runs, applied, file, stmt, mishaps>>

\* Pending: the files a process would still find unapplied.
Pending(r) == {f \in 1..Known[r] : f \notin ledger}

Progress(r) ==
  \/ Scan(r) \/ SkipFile(r) \/ Provision(r)
  \/ \E f \in File : ApplyAtomic(r, f) \/ AtomicLost(r, f) \/ RunStatement(r, f) \/ RecordVersion(r, f)

MgNext == \E r \in Runner : Progress(r) \/ Fails(r)

\* Supervisors restart processes and processes run (os.Exit ends every error).
MgFairness == \A r \in Runner : WF_migrateVars(Progress(r))
MgSpec == MgInit /\ [][MgNext]_migrateVars /\ MgFairness

-----------------------------------------------------------------------------
MgTypeOK ==
  /\ ledger \subseteq File /\ at \in [Runner -> {"down", "apply", "serving"}]
  /\ applied \in [Runner -> SUBSET File] /\ file \in [Runner -> 1..Files + 1]
  /\ stmt \in [Runner -> 1..Stmts + 1] /\ mishaps \in 0..MaxMishaps
  /\ runs \in [File -> [1..Stmts -> Nat]]

\* Although processes migrate at the same time without a lock, the schema is
\* always a prefix of the files: a file is recorded only when each of its
\* statements has been committed, nothing of a file is committed before the
\* earlier files are recorded, an atomic file is committed once, together
\* with its record, and a process that serves finds nothing pending (Apply,
\* applyAtomic, applyNoTxn, bootstrap).
SchemaIsPrefix ==
  /\ \A f \in ledger : \A s \in StmtsOf(f) : runs[f][s] > 0
  /\ \A f \in File : (\E s \in StmtsOf(f) : runs[f][s] > 0) => 1..(f - 1) \subseteq ledger
  /\ \A f \in File \ NoTxn : runs[f][1] = IF f \in ledger THEN 1 ELSE 0
  /\ \A r \in Runner : at[r] = "serving" => Pending(r) = {}

\* A statement of a no-transaction file is repeated at most once for every
\* other process and every mishap (applyNoTxn: the file must be resumable).
RepeatsBounded == \A f \in NoTxn, s \in 1..Stmts : runs[f][s] <= Cardinality(Runner) + mishaps

\* However processes with different binaries, failures and restarts meet, the
\* schema is a prefix of the files and a statement is repeated only by such an
\* event (internal/pgmigrate).
MigrationsSafe == MgTypeOK /\ SchemaIsPrefix /\ RepeatsBounded

\* What start-up works towards, although a process that loses a race for a
\* file exits with an error and is restarted (bootstrap, os.Exit).
Migrated == \A r \in Runner : at[r] = "serving"

-----------------------------------------------------------------------------
\* Inductive strengthening.
\* A process is past recorded files only, knows only what is recorded, and has
\* committed the statements it is past; one that is down remembers nothing.
Placed ==
  \A r \in Runner :
    /\ applied[r] \subseteq ledger
    /\ \A f \in File : f < file[r] => f \in ledger
    /\ \A s \in 1..Stmts : s < stmt[r] => file[r] \in NoTxn /\ runs[file[r]][s] > 0
    /\ at[r] = "serving" => file[r] > Known[r]
    /\ at[r] = "down" => file[r] = 1 /\ stmt[r] = 1

\* The processes that may yet commit statement s of file f without a mishap.
Todo(f, s) ==
  {r \in Runner :
     IF at[r] = "down" THEN f \notin ledger
     ELSE f \notin applied[r] /\ (file[r] < f \/ (file[r] = f /\ stmt[r] <= s))}

RepeatsAccounted ==
  \A f \in NoTxn, s \in 1..Stmts :
    runs[f][s] + Cardinality(Todo(f, s)) <= Cardinality(Runner) + mishaps

MgInv == MgTypeOK /\ SchemaIsPrefix /\ Placed /\ RepeatsAccounted
=============================================================================
