----------------------------- MODULE Migrations ------------------------------
(****************************************************************************)
(* store/sqlite/migration.go: processes with different binaries open one    *)
(* database file.  Each plans from the migrations it finds applied, then    *)
(* applies the rest, one IMMEDIATE transaction each, while others do the    *)
(* same; any of them may fail, be canceled or die between two steps.        *)
(****************************************************************************)
EXTENDS Naturals, Sequences, SequencesExt

CONSTANTS
    Openers,        \* processes that call Open
    Catalog,        \* the catalog in the binary of each: rows of ID and checksum
    NoOpener

MigrationRow == UNION {{Catalog[o][i] : i \in DOMAIN Catalog[o]} : o \in Openers}

\* validateMigrationCatalog: IDs increase, and there is at least one.
CatalogAssumption ==
    \A o \in Openers :
        /\ Catalog[o] \in Seq(MigrationRow) /\ Catalog[o] # <<>>
        /\ \A i \in DOMAIN Catalog[o] : Catalog[o][i].id \in Nat
        /\ \A i, j \in DOMAIN Catalog[o] : i < j => Catalog[o][i].id < Catalog[o][j].id

ASSUME MigrationAssumption ==
    Openers # {} /\ NoOpener \notin Openers /\ CatalogAssumption

VARIABLES
    applied,        \* the table schema_migration, in the order of IDs
    scripts,        \* history: the scripts whose effects are in the schema
    writing,        \* who holds SQLite's write lock
    opener,         \* where each process is: "closed", "plan", "apply", "tx", "open", "failed"
    plan,           \* the migrations it has yet to apply
    inserted        \* history: the rows it was told that it committed

migrationVars == <<applied, scripts, writing, opener, plan, inserted>>

MigrationInit ==
    /\ applied = <<>> /\ scripts = <<>>
    /\ writing = NoOpener
    /\ opener = [o \in Openers |-> "closed"]
    /\ plan = [o \in Openers |-> <<>>]
    /\ inserted = [o \in Openers |-> {}]

OpenerAt(o, place) == opener' = [opener EXCEPT ![o] = place]

------------------------------------------------------------------------------
OpenStore(o) ==
    /\ opener[o] = "closed"
    /\ OpenerAt(o, "plan")
    /\ UNCHANGED <<applied, scripts, writing, plan, inserted>>

\* PlanMigrations: what is applied must be an exact prefix of the catalog.
PlanMigrations(o) == IsPrefix(applied, Catalog[o])

ApplyMigrations(o) ==
    /\ opener[o] = "plan"
    /\ \/ /\ PlanMigrations(o)
          /\ plan' = [plan EXCEPT ![o] = SubSeq(Catalog[o], Len(applied) + 1, Len(Catalog[o]))]
          /\ OpenerAt(o, "apply")
       \/ ~PlanMigrations(o) /\ OpenerAt(o, "failed") /\ UNCHANGED plan
    /\ UNCHANGED <<applied, scripts, writing, inserted>>

\* ApplyMigration: BEGIN IMMEDIATE waits for the lock of another process.
BeginMigration(o) ==
    /\ opener[o] = "apply" /\ plan[o] # <<>> /\ writing = NoOpener
    /\ writing' = o
    /\ OpenerAt(o, "tx")
    /\ UNCHANGED <<applied, scripts, plan, inserted>>

Row(id) == {i \in DOMAIN applied : applied[i].id = id}
PendingRow(o) == Row(Head(plan[o]).id) = {}
Exact(o) == \E i \in Row(Head(plan[o]).id) : applied[i] = Head(plan[o])

EndMigration(o) ==
    /\ writing' = NoOpener
    /\ plan' = [plan EXCEPT ![o] = Tail(@)]
    /\ OpenerAt(o, "apply")

\* Another process has committed the same migration meanwhile.
AlreadyApplied(o) ==
    /\ opener[o] = "tx" /\ Exact(o)
    /\ EndMigration(o)
    /\ UNCHANGED <<applied, scripts, inserted>>

\* Rows come back in the order of their IDs.
Earlier(row) == {i \in 1 .. Len(applied) : applied[i].id < row.id}
Recorded(row) == InsertAt(applied, Cardinality(Earlier(row)) + 1, row)

\* The script and its row become durable together.
CommitRow(o) ==
    /\ applied' = Recorded(Head(plan[o]))
    /\ scripts' = Append(scripts, Head(plan[o]))

\* Mutant of Commit: the transaction does not look for the row again.
CommitBlindly(o) ==
    /\ opener[o] = "tx"
    /\ CommitRow(o)
    /\ inserted' = [inserted EXCEPT ![o] = @ \cup {Head(plan[o])}]
    /\ EndMigration(o)

Commit(o) ==
    /\ opener[o] = "tx" /\ PendingRow(o)
    /\ CommitRow(o)
    /\ inserted' = [inserted EXCEPT ![o] = @ \cup {Head(plan[o])}]
    /\ EndMigration(o)

Give(o, place) ==
    /\ OpenerAt(o, place)
    /\ plan' = [plan EXCEPT ![o] = <<>>]
    /\ writing' = IF writing = o THEN NoOpener ELSE writing

\* A commit that takes effect though it reports an error.
CommitUnreported(o) ==
    /\ opener[o] = "tx" /\ PendingRow(o)
    /\ CommitRow(o)
    /\ Give(o, "failed")
    /\ UNCHANGED inserted

\* A canceled context or a failing statement at any point, a checksum that is
\* not the expected one: ROLLBACK, if a transaction is open.
Abandon(o) ==
    /\ opener[o] \in {"plan", "apply", "tx"}
    /\ Give(o, "failed")
    /\ UNCHANGED <<applied, scripts, inserted>>

\* Every migration is in place and the rest of Open succeeds.
Opened(o) ==
    /\ opener[o] = "apply" /\ plan[o] = <<>>
    /\ OpenerAt(o, "open")
    /\ UNCHANGED <<applied, scripts, writing, plan, inserted>>

\* The process ends or dies; another start of the same binary may follow.
OpenerExit(o) ==
    /\ opener[o] # "closed"
    /\ Give(o, "closed")
    /\ inserted' = [inserted EXCEPT ![o] = {}]
    /\ UNCHANGED <<applied, scripts>>

------------------------------------------------------------------------------
Migrate(o) ==
    ApplyMigrations(o) \/ BeginMigration(o) \/ AlreadyApplied(o) \/ Commit(o) \/ Opened(o)

MigrationNext ==
    \E o \in Openers :
        OpenStore(o) \/ Migrate(o) \/ CommitUnreported(o) \/ Abandon(o) \/ OpenerExit(o)

MigrationSpec == MigrationInit /\ [][MigrationNext]_migrationVars

------------------------------------------------------------------------------
(* Properties.                                                              *)

\* However many binaries migrate the file and wherever they fail or die, each
\* script has run once, in order, with its row, and what is applied is a prefix
\* of the catalog of one binary; a process that has opened the file finds the
\* whole of its own catalog there (ApplyMigration, PlanMigrations).
EachOnceInOrder ==
    /\ applied = scripts
    /\ \E o \in Openers : IsPrefix(applied, Catalog[o])
    /\ \A o \in Openers : opener[o] = "open" => IsPrefix(Catalog[o], applied)
    /\ \A o \in Openers : inserted[o] \subseteq ToSet(applied)
==============================================================================
