----------------------------- MODULE EventTables -----------------------------
(****************************************************************************)
(* The tables of the durable event log and the statements a transaction     *)
(* runs on them (store/sqlite: migrations/000001_event_store.sql and the    *)
(* methods of sqlEventTransaction), as pure operators on a value t of type  *)
(* Tables.  event_sequence is t.latest and t.owner, event is t.row, and     *)
(* t.projection is what the synchronous projectors keep for each event.     *)
(****************************************************************************)
EXTENDS Integers, FiniteSets, FiniteSetsExt

CONSTANTS
    Aggregates,     \* aggregate IDs
    EventIDs,       \* domain.EventID values
    Payloads,       \* versioned type and canonical data of an event
    Owners,         \* replay owners
    NoOwner,        \* owner_id NULL, the empty OwnerID of the code
    NoRow,          \* no row under a key
    MaxSequence     \* math.MaxInt64

Event == [id : EventIDs, payload : Payloads]

ASSUME TablesAssumption ==
    /\ MaxSequence \in Nat
    /\ NoOwner \notin Owners
    /\ NoRow \notin Event

Missing == -1
Sequences == 0 .. MaxSequence

Tables ==
    [latest     : [Aggregates -> Sequences \cup {Missing}],
     owner      : [Aggregates -> Owners \cup {NoOwner}],
     row        : [Aggregates -> [Sequences -> Event \cup {NoRow}]],
     projection : [Aggregates -> [Sequences -> Event \cup {NoRow}]]]

NoRows == [s \in Sequences |-> NoRow]

EmptyTables ==
    [latest     |-> [a \in Aggregates |-> Missing],
     owner      |-> [a \in Aggregates |-> NoOwner],
     row        |-> [a \in Aggregates |-> NoRows],
     projection |-> [a \in Aggregates |-> NoRows]]

------------------------------------------------------------------------------
(* Statements of a transaction.                                             *)

\* The keys under which an event with this ID is stored.
EventByID(t, id) ==
    {k \in Aggregates \X Sequences :
        t.row[k[1]][k[2]] # NoRow /\ t.row[k[1]][k[2]].id = id}

PutSequence(t, a, s, o) ==
    [t EXCEPT !.latest = [t.latest EXCEPT ![a] = s],
              !.owner  = [t.owner EXCEPT ![a] = o]]

\* What PRIMARY KEY (id), the unique (aggregate_id, seq) index and the foreign
\* key to event_sequence demand of a new event row.
CanInsert(t, a, s, e) ==
    /\ t.latest[a] # Missing
    /\ t.row[a][s] = NoRow
    /\ EventByID(t, e.id) = {}

InsertEvent(t, a, s, e) ==
    [t EXCEPT !.row = [t.row EXCEPT ![a] = [t.row[a] EXCEPT ![s] = e]]]

\* Mutant of DeleteAggregate: the history stays.
DeleteSequenceOnly(t, a) ==
    [t EXCEPT !.latest = [t.latest EXCEPT ![a] = Missing],
              !.owner  = [t.owner EXCEPT ![a] = NoOwner]]

\* Deletes the sequence row; ON DELETE CASCADE takes the history with it.  The
\* projections have no foreign key and stay.
DeleteAggregate(t, a) ==
    [t EXCEPT !.latest = [t.latest EXCEPT ![a] = Missing],
              !.owner  = [t.owner EXCEPT ![a] = NoOwner],
              !.row    = [t.row EXCEPT ![a] = NoRows]]

\* A projector upserts its row for the event inside the same transaction.
ProjectEvent(t, a, s, e) ==
    [t EXCEPT !.projection =
        [t.projection EXCEPT ![a] = [t.projection[a] EXCEPT ![s] = e]]]

------------------------------------------------------------------------------
(* What a set of tables promises.                                           *)

\* The rows of every aggregate are exactly 0 .. latest, none if it is missing.
Dense(t) ==
    \A a \in Aggregates : \A s \in Sequences :
        (t.row[a][s] # NoRow) <=> (s <= t.latest[a])

StoredSequences(t, a) == {s \in Sequences : t.row[a][s] # NoRow}

\* The "event sequence invariants" query of the integrity check.
SequenceViolation(t, a) ==
    LET stored == StoredSequences(t, a) IN
    /\ t.latest[a] # Missing
    /\ \/ stored = {}
       \/ Min(stored) # 0
       \/ Max(stored) # t.latest[a]
       \/ Cardinality(stored) # t.latest[a] + 1

\* PRAGMA foreign_key_check: a history whose sequence row is gone.
ForeignKeyViolation(t, a) ==
    t.latest[a] = Missing /\ StoredSequences(t, a) # {}

\* What Open demands of the tables it finds.
IntegrityCheck(t) ==
    \A a \in Aggregates : ~SequenceViolation(t, a) /\ ~ForeignKeyViolation(t, a)

\* An event ID is held by at most one row of the whole store.
UniqueIDs(t) ==
    \A a, b \in Aggregates : \A s, u \in Sequences :
        /\ t.row[a][s] # NoRow
        /\ t.row[b][u] # NoRow
        /\ t.row[a][s].id = t.row[b][u].id
        => a = b /\ s = u

\* Only an aggregate that exists has an owner.
OwnersExist(t) ==
    \A a \in Aggregates : t.owner[a] # NoOwner => t.latest[a] # Missing

\* Every event in the history was projected by the transaction that stored it.
Projected(t) ==
    \A a \in Aggregates : \A s \in Sequences :
        t.row[a][s] # NoRow => t.projection[a][s] = t.row[a][s]

\* From one set of tables to the next, what was projected is a new event of the
\* history.
ProjectsStored(t, u) ==
    \A a \in Aggregates : \A s \in Sequences :
        u.projection[a][s] # t.projection[a][s] =>
            t.row[a][s] = NoRow /\ u.row[a][s] = u.projection[a][s]
==============================================================================
