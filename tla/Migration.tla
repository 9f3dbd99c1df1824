------------------------------ MODULE Migration ------------------------------
(***************************************************************************)
(* How the hub brings its database to the schema of its release.           *)
(*                                                                         *)
(* SQLite (the constructor of HubDb in packages/hub/src/db.ts): one process*)
(* opens the file, creates the tables that are missing, adds the columns   *)
(* that are missing, and rebuilds usage_daily, whose old key cannot be     *)
(* altered, by a copy in one transaction.  Nothing records how far an      *)
(* upgrade came; every step looks at the tables themselves.                *)
(*                                                                         *)
(* PostgreSQL (migratePg in pg.ts): several processes may start at once;   *)
(* each takes an advisory lock, then applies the numbered files that are   *)
(* not in schema_migrations, each in a transaction with its record.        *)
(*                                                                         *)
(* A process may die between any two statements.                           *)
(***************************************************************************)
EXTENDS Integers, Sequences, SequencesExt, FiniteSets

CONSTANTS Rows,       \* rows of usage_daily
          Processes,  \* processes that start on PostgreSQL
          Free,       \* the lock is not held
          MaxDeaths   \* bound: processes that die

ASSUME MigrationAssumption == MaxDeaths \in Nat /\ Free \notin Processes

VARIABLES schema,    \* the tables of the SQLite file, as committed
          tx,        \* the tables as the open transaction sees them
          upgrade,   \* the next step of the constructor
          stored,    \* the rows the hub has stored so far
          deaths,
          proc,      \* where each process on PostgreSQL is
          lock,      \* who holds the advisory lock
          committed, \* the files whose statements are committed, in order
          records,   \* schema_migrations
          work       \* what the transaction of each process has done

fileVars == <<schema, tx, upgrade, stored>>
pgVars == <<proc, lock, committed, records, work>>
migrationVars == <<schema, tx, upgrade, stored, deaths, proc, lock, committed, records, work>>

NoTable == [form |-> "none", rows |-> {}]
Table(form, rows) == [form |-> form, rows |-> rows]
Files == 1..2

(* A file of an earlier release has usage_daily with its old key, and users *)
(* without the columns added since; a new one has nothing.                  *)
MigrationInit ==
    /\ \E rows \in SUBSET Rows :
          /\ stored = rows
          /\ schema \in {[users |-> "old", usage |-> Table("old", rows), usage_new |-> NoTable],
                       [users |-> "old", usage |-> Table("hosts", rows), usage_new |-> NoTable]}
                 \cup (IF rows = {} THEN {[users |-> "none", usage |-> NoTable, usage_new |-> NoTable]} ELSE {})
    /\ tx = schema /\ upgrade = "tables" /\ deaths = 0
    /\ proc = [p \in Processes |-> [at |-> "start", file |-> 0]]
    /\ lock = Free /\ committed = <<>> /\ records = {}
    /\ work = [p \in Processes |-> <<>>]

(***************************************************************************)
(* The SQLite file                                                         *)
(***************************************************************************)
Statement(at, next, tables) ==
    /\ upgrade = at /\ upgrade' = next
    /\ tx' = tables
    /\ UNCHANGED <<stored, deaths>> /\ UNCHANGED pgVars

(* a statement outside a transaction is committed at once *)
AtOnce(at, next, tables) == Statement(at, next, tables) /\ schema' = tables

Held(at, next, tables) == Statement(at, next, tables) /\ UNCHANGED schema

\* CREATE TABLE IF NOT EXISTS: a table that is there stays as it is.
CreateTables ==
    AtOnce("tables", "columns",
           [tx EXCEPT !.users = IF @ = "none" THEN "new" ELSE @,
                      !.usage = IF @.form = "none" THEN Table("full", {}) ELSE @])

AddColumns == AtOnce("columns", "rebuild", [tx EXCEPT !.users = "new"])

(* usage_daily is rebuilt unless it has the column host_id already *)
SkipRebuild ==
    /\ tx.usage.form # "old"
    /\ AtOnce("rebuild", "tts", tx)

\* (every statement of the rebuild is committed by itself)
Piecewise ==
    /\ tx.usage.form = "old" \/ upgrade # "rebuild"
    /\ \/ AtOnce("rebuild", "create", tx)
       \/ AtOnce("create", "insert", [tx EXCEPT !.usage_new = Table("hosts", {})])
       \/ AtOnce("insert", "drop", [tx EXCEPT !.usage_new.rows = tx.usage.rows])
       \/ AtOnce("drop", "rename", [tx EXCEPT !.usage = NoTable])
       \/ AtOnce("rename", "commit", [tx EXCEPT !.usage = tx.usage_new, !.usage_new = NoTable])
       \/ AtOnce("commit", "tts", tx)

\* BEGIN, the new table, its rows, DROP, RENAME, COMMIT.
Rebuild ==
    /\ tx.usage.form = "old" \/ upgrade # "rebuild"
    /\ \/ Held("rebuild", "create", tx)
       \/ Held("create", "insert", [tx EXCEPT !.usage_new = Table("hosts", {})])
       \/ Held("insert", "drop", [tx EXCEPT !.usage_new.rows = tx.usage.rows])
       \/ Held("drop", "rename", [tx EXCEPT !.usage = NoTable])
       \/ Held("rename", "commit", [tx EXCEPT !.usage = tx.usage_new, !.usage_new = NoTable])
       \/ AtOnce("commit", "tts", tx)

(* the columns that came after the rebuild are added to what it made *)
AddLateColumns == AtOnce("tts", "open", [tx EXCEPT !.usage.form = "full"])

\* The hub is up and stores a row.
Store(r) ==
    /\ upgrade = "open" /\ r \notin stored
    /\ stored' = stored \cup {r}
    /\ tx' = [tx EXCEPT !.usage.rows = @ \cup {r}] /\ schema' = tx'
    /\ UNCHANGED <<upgrade, deaths>> /\ UNCHANGED pgVars

\* The process dies; the next one finds what was committed.
Dies ==
    /\ deaths < MaxDeaths /\ deaths' = deaths + 1
    /\ upgrade' = "tables" /\ tx' = schema
    /\ UNCHANGED <<schema, stored>> /\ UNCHANGED pgVars

(***************************************************************************)
(* PostgreSQL                                                              *)
(***************************************************************************)
To(p, at, f) == proc' = [proc EXCEPT ![p] = [at |-> at, file |-> f]]

\* pg_advisory_lock blocks until the lock is free.
TakeLock(p) ==
    /\ proc[p].at = "start" /\ lock = Free
    /\ lock' = p
    /\ To(p, "look", 1)
    /\ UNCHANGED <<committed, records, work, deaths>> /\ UNCHANGED fileVars

\* The next file that is not recorded is run in a transaction; after the
\* last one the lock is given back.
Look(p) ==
    LET f == proc[p].file IN
    /\ proc[p].at = "look"
    /\ \/ /\ f \in Files /\ f \in records
          /\ To(p, "look", f + 1) /\ UNCHANGED <<lock, work>>
       \/ /\ f \in Files /\ f \notin records
          /\ To(p, "run", f) /\ UNCHANGED lock
          /\ work' = [work EXCEPT ![p] = <<f>>]
       \/ /\ f \notin Files
          /\ To(p, "up", 0)
          /\ lock' = IF lock = p THEN Free ELSE lock
          /\ UNCHANGED work
    /\ UNCHANGED <<committed, records, deaths>> /\ UNCHANGED fileVars

\* COMMIT makes the statements and their record visible together.
Commit(p) ==
    /\ proc[p].at = "run"
    /\ committed' = committed \o work[p]
    /\ records' = records \cup ToSet(work[p])
    /\ work' = [work EXCEPT ![p] = <<>>]
    /\ To(p, "look", proc[p].file + 1)
    /\ UNCHANGED <<lock, deaths>> /\ UNCHANGED fileVars

\* A statement fails, or the process dies: the transaction is rolled back,
\* the end of the session frees the lock, and a later start begins anew.
Fails(p) ==
    /\ proc[p].at # "start" /\ deaths < MaxDeaths /\ deaths' = deaths + 1
    /\ work' = [work EXCEPT ![p] = <<>>]
    /\ lock' = IF lock = p THEN Free ELSE lock
    /\ To(p, "start", 0)
    /\ UNCHANGED <<committed, records>> /\ UNCHANGED fileVars

MigrationNext ==
    \/ CreateTables \/ AddColumns \/ SkipRebuild \/ Rebuild \/ AddLateColumns
    \/ \E r \in Rows : Store(r)
    \/ Dies
    \/ \E p \in Processes : TakeLock(p)
    \/ \E p \in Processes : Look(p)
    \/ \E p \in Processes : Commit(p)
    \/ \E p \in Processes : Fails(p)

MigrationSpec == MigrationInit /\ [][MigrationNext]_migrationVars

(***************************************************************************)
(* Properties                                                              *)
(***************************************************************************)
MigrationTypeOK ==
    /\ schema.users \in {"none", "old", "new"}
    /\ schema.usage.form \in {"none", "old", "hosts", "full"} /\ schema.usage.rows \subseteq Rows
    /\ lock \in Processes \cup {Free}
    /\ records \subseteq Files

\* Whatever processes die during an upgrade, a hub that is up has the whole
\* new schema and every row stored before it (the constructor of HubDb: a
\* table missing between DROP and RENAME would be created empty).
\* A file of migrations is committed once and in order, and is recorded exactly
\* when it is, whatever processes start beside each other (migratePg).
UpgradeKeepsAll ==
    /\ upgrade = "open" =>
          schema = [users |-> "new", usage |-> Table("full", stored), usage_new |-> NoTable]
    /\ committed = [i \in 1..Len(committed) |-> i]
    /\ records = ToSet(committed)
    /\ \A p \in Processes : proc[p].at = "up" => records = Files
=============================================================================
