------------------------- MODULE EventServiceProofs -------------------------
(****************************************************************************)
(* Proofs of the safety of EventService for every set of writers,           *)
(* aggregates, IDs and requests and every MaxSequence.  IInv is the         *)
(* inductive invariant: besides the types it says who may hold the token,   *)
(* what the tables of the running transaction look like at each step of the *)
(* callback, and that the committed tables are sound.  The lemmas on tables *)
(* come first.                                                              *)
(****************************************************************************)
EXTENDS EventService, FiniteSetTheorems, TLAPS

------------------------------------------------------------------------------
(* What the statements of EventTables do to tables, field by field, and     *)
(* which of the promises of EventTables they keep.                          *)

\* What holds of the committed tables, and of a transaction's tables except
\* between PutSequence and InsertEvent.
Sound(t) ==
    /\ t \in Tables
    /\ Dense(t)
    /\ UniqueIDs(t)
    /\ Projected(t)
    /\ OwnersExist(t)

\* The sequence row of aggregate a is one ahead of its history: the event e is
\* projected, and about to be inserted at s.
Promised(t, a, s, e) ==
    /\ t \in Tables
    /\ t.latest[a] = s
    /\ \A u \in Sequences : (t.row[a][u] # NoRow) <=> (u < s)
    /\ \A b \in Aggregates \ {a} : \A u \in Sequences :
        (t.row[b][u] # NoRow) <=> (u <= t.latest[b])
    /\ UniqueIDs(t)
    /\ Projected(t)
    /\ OwnersExist(t)
    /\ EventByID(t, e.id) = {}
    /\ t.projection[a][s] = e

\* The fields of the tables after PutSequence.
LEMMA PutSequenceFields ==
    ASSUME NEW t \in Tables, NEW a \in Aggregates, NEW s \in Sequences,
           NEW o \in Owners \cup {NoOwner}
    PROVE  LET r == PutSequence(t, a, s, o) IN
           /\ r \in Tables
           /\ r.latest = [t.latest EXCEPT ![a] = s]
           /\ r.owner = [t.owner EXCEPT ![a] = o]
           /\ r.row = t.row
           /\ r.projection = t.projection
  BY DEF PutSequence, Tables

\* The fields of the tables after InsertEvent.
LEMMA InsertEventFields ==
    ASSUME NEW t \in Tables, NEW a \in Aggregates, NEW s \in Sequences, NEW e \in Event
    PROVE  LET r == InsertEvent(t, a, s, e) IN
           /\ r \in Tables
           /\ r.latest = t.latest
           /\ r.owner = t.owner
           /\ r.row = [t.row EXCEPT ![a] = [t.row[a] EXCEPT ![s] = e]]
           /\ r.projection = t.projection
  BY DEF InsertEvent, Tables

\* The fields of the tables after DeleteAggregate.
LEMMA DeleteAggregateFields ==
    ASSUME NEW t \in Tables, NEW a \in Aggregates
    PROVE  LET r == DeleteAggregate(t, a) IN
           /\ r \in Tables
           /\ r.latest = [t.latest EXCEPT ![a] = Missing]
           /\ r.owner = [t.owner EXCEPT ![a] = NoOwner]
           /\ r.row = [t.row EXCEPT ![a] = NoRows]
           /\ r.projection = t.projection
  BY DEF DeleteAggregate, Tables, NoRows

\* The fields of the tables after a projector has run.
LEMMA ProjectEventFields ==
    ASSUME NEW t \in Tables, NEW a \in Aggregates, NEW s \in Sequences, NEW e \in Event
    PROVE  LET r == ProjectEvent(t, a, s, e) IN
           /\ r \in Tables
           /\ r.latest = t.latest
           /\ r.owner = t.owner
           /\ r.row = t.row
           /\ r.projection = [t.projection EXCEPT ![a] = [t.projection[a] EXCEPT ![s] = e]]
  BY DEF ProjectEvent, Tables

\* The tables of a new database are sound.
LEMMA EmptyTablesSound == Sound(EmptyTables)
  BY DEF Sound, EmptyTables, Tables, NoRows, Dense, UniqueIDs, Projected, OwnersExist,
         Missing, Sequences

\* Rewriting an existing aggregate's owner keeps sound tables sound.
LEMMA OwnerChangeSound ==
    ASSUME NEW t, Sound(t), NEW a \in Aggregates, t.latest[a] # Missing,
           NEW o \in Owners \cup {NoOwner}
    PROVE  Sound(PutSequence(t, a, t.latest[a], o))
  <1> DEFINE s == t.latest[a]
             r == PutSequence(t, a, s, o)
  <1>1. s \in Sequences /\ t \in Tables
    BY DEF Sound, Tables
  <1> HIDE DEF s
  <1>2. /\ r \in Tables
        /\ r.latest = [t.latest EXCEPT ![a] = s]
        /\ r.owner = [t.owner EXCEPT ![a] = o]
        /\ r.row = t.row
        /\ r.projection = t.projection
    BY <1>1, PutSequenceFields
  <1> HIDE DEF r
  <1>3. \A b \in Aggregates : r.latest[b] = t.latest[b]
    BY <1>1, <1>2 DEF Tables, s
  <1>4. Dense(r)
    BY <1>2, <1>3 DEF Sound, Dense
  <1>5. UniqueIDs(r)
    BY <1>2 DEF Sound, UniqueIDs
  <1>6. Projected(r)
    BY <1>2 DEF Sound, Projected
  <1>7. OwnersExist(r)
    BY <1>1, <1>2, <1>3 DEF Sound, OwnersExist, Tables
  <1> QED
    BY <1>2, <1>4, <1>5, <1>6, <1>7 DEF Sound, r, s

\* So does deleting an aggregate.
LEMMA DeleteSound ==
    ASSUME NEW t, Sound(t), NEW a \in Aggregates
    PROVE  Sound(DeleteAggregate(t, a))
  <1> DEFINE r == DeleteAggregate(t, a)
  <1>1. t \in Tables
    BY DEF Sound
  <1>2. /\ r \in Tables
        /\ r.latest = [t.latest EXCEPT ![a] = Missing]
        /\ r.owner = [t.owner EXCEPT ![a] = NoOwner]
        /\ r.row = [t.row EXCEPT ![a] = NoRows]
        /\ r.projection = t.projection
    BY <1>1, DeleteAggregateFields
  <1> HIDE DEF r
  <1>3. \A b \in Aggregates, s \in Sequences :
            r.row[b][s] = IF b = a THEN NoRow ELSE t.row[b][s]
    BY <1>1, <1>2 DEF Tables, NoRows
  <1>4. \A b \in Aggregates : r.latest[b] = IF b = a THEN Missing ELSE t.latest[b]
    BY <1>1, <1>2 DEF Tables
  <1>5. Dense(r)
    BY <1>3, <1>4, TablesAssumption DEF Sound, Dense, Missing, Sequences
  <1>6. UniqueIDs(r)
    BY <1>3 DEF Sound, UniqueIDs
  <1>7. Projected(r)
    BY <1>2, <1>3 DEF Sound, Projected
  <1>8. OwnersExist(r)
    BY <1>1, <1>2, <1>4 DEF Sound, OwnersExist, Tables
  <1> QED
    BY <1>2, <1>5, <1>6, <1>7, <1>8 DEF Sound, r

\* And projecting an event that is not stored yet.
LEMMA ProjectSound ==
    ASSUME NEW t, Sound(t), NEW a \in Aggregates, NEW s \in Sequences, NEW e \in Event,
           t.row[a][s] = NoRow
    PROVE  /\ Sound(ProjectEvent(t, a, s, e))
           /\ ProjectEvent(t, a, s, e).latest = t.latest
           /\ ProjectEvent(t, a, s, e).owner = t.owner
           /\ ProjectEvent(t, a, s, e).row = t.row
           /\ ProjectEvent(t, a, s, e).projection[a][s] = e
  <1> DEFINE r == ProjectEvent(t, a, s, e)
  <1>1. t \in Tables
    BY DEF Sound
  <1>2. /\ r \in Tables
        /\ r.latest = t.latest
        /\ r.owner = t.owner
        /\ r.row = t.row
        /\ r.projection = [t.projection EXCEPT ![a] = [t.projection[a] EXCEPT ![s] = e]]
    BY <1>1, ProjectEventFields
  <1> HIDE DEF r
  <1>3. \A b \in Aggregates, u \in Sequences :
            r.projection[b][u] = IF b = a /\ u = s THEN e ELSE t.projection[b][u]
    BY <1>1, <1>2 DEF Tables
  <1>4. Dense(r)
    BY <1>2 DEF Sound, Dense
  <1>5. UniqueIDs(r)
    BY <1>2 DEF Sound, UniqueIDs
  <1>6. Projected(r)
    BY <1>2, <1>3 DEF Sound, Projected
  <1>7. OwnersExist(r)
    BY <1>2 DEF Sound, OwnersExist
  <1> QED
    BY <1>2, <1>3, <1>4, <1>5, <1>6, <1>7 DEF Sound, r

\* PutSequence at the next sequence leads to the promise of an event.
LEMMA PutSequencePromises ==
    ASSUME NEW t, Sound(t), NEW a \in Aggregates, NEW s \in Sequences, NEW e \in Event,
           s = t.latest[a] + 1, EventByID(t, e.id) = {}, t.projection[a][s] = e,
           NEW o \in Owners \cup {NoOwner}
    PROVE  Promised(PutSequence(t, a, s, o), a, s, e)
  <1> DEFINE r == PutSequence(t, a, s, o)
  <1>1. t \in Tables
    BY DEF Sound
  <1>2. /\ r \in Tables
        /\ r.latest = [t.latest EXCEPT ![a] = s]
        /\ r.owner = [t.owner EXCEPT ![a] = o]
        /\ r.row = t.row
        /\ r.projection = t.projection
    BY <1>1, PutSequenceFields
  <1> HIDE DEF r
  <1>3. \A u \in Sequences : (r.row[a][u] # NoRow) <=> (u < s)
    BY <1>1, <1>2 DEF Sound, Dense, Tables, Sequences, Missing
  <1>4. \A b \in Aggregates \ {a} : \A u \in Sequences :
            (r.row[b][u] # NoRow) <=> (u <= r.latest[b])
    BY <1>1, <1>2 DEF Sound, Dense, Tables
  <1>5. UniqueIDs(r) /\ Projected(r) /\ EventByID(r, e.id) = {}
    BY <1>2 DEF Sound, UniqueIDs, Projected, EventByID
  <1>6. OwnersExist(r)
    BY <1>1, <1>2 DEF Sound, OwnersExist, Tables, Sequences, Missing
  <1> QED
    BY <1>1, <1>2, <1>3, <1>4, <1>5, <1>6 DEF Promised, Tables, r

\* No row holds an ID that EventByID does not find.
LEMMA AbsentID ==
    ASSUME NEW t, NEW id, EventByID(t, id) = {},
           NEW a \in Aggregates, NEW s \in Sequences, t.row[a][s] # NoRow
    PROVE  t.row[a][s].id # id
  <1> DEFINE k == <<a, s>>
  <1>1. k \in Aggregates \X Sequences /\ k[1] = a /\ k[2] = s
    OBVIOUS
  <1> HIDE DEF k
  <1>2. ~(t.row[k[1]][k[2]] # NoRow /\ t.row[k[1]][k[2]].id = id)
    BY <1>1 DEF EventByID
  <1> QED
    BY <1>1, <1>2

\* InsertEvent keeps the promise; the schema cannot refuse it.
LEMMA InsertKeepsPromise ==
    ASSUME NEW t, NEW a \in Aggregates, NEW s \in Sequences, NEW e \in Event,
           Promised(t, a, s, e)
    PROVE  CanInsert(t, a, s, e) /\ Sound(InsertEvent(t, a, s, e))
  <1> DEFINE r == InsertEvent(t, a, s, e)
  <1>1. t \in Tables
    BY DEF Promised
  <1>2. /\ r \in Tables
        /\ r.latest = t.latest
        /\ r.owner = t.owner
        /\ r.row = [t.row EXCEPT ![a] = [t.row[a] EXCEPT ![s] = e]]
        /\ r.projection = t.projection
    BY <1>1, InsertEventFields
  <1> HIDE DEF r
  <1>3. CanInsert(t, a, s, e)
    BY DEF CanInsert, Promised, Missing, Sequences
  <1>4. Dense(r)
    <2> SUFFICES ASSUME NEW b \in Aggregates, NEW u \in Sequences
                 PROVE  (r.row[b][u] # NoRow) <=> (u <= r.latest[b])
      BY DEF Dense
    <2>1. CASE b # a
      BY <1>1, <1>2, <2>1 DEF Promised, Tables
    <2>2. CASE b = a
      BY <1>1, <1>2, <2>2, TablesAssumption DEF Promised, Tables, Sequences
    <2> QED
      BY <2>1, <2>2
  <1>5. \A b \in Aggregates, u \in Sequences :
            t.row[b][u] # NoRow => t.row[b][u].id # e.id
    BY AbsentID DEF Promised
  <1>6. UniqueIDs(r)
    <2> SUFFICES ASSUME NEW b \in Aggregates, NEW c \in Aggregates,
                        NEW u \in Sequences, NEW v \in Sequences,
                        r.row[b][u] # NoRow, r.row[c][v] # NoRow,
                        r.row[b][u].id = r.row[c][v].id
                 PROVE  b = c /\ u = v
      BY DEF UniqueIDs
    <2>1. \A d \in Aggregates, x \in Sequences :
            r.row[d][x] = IF d = a /\ x = s THEN e ELSE t.row[d][x]
      BY <1>1, <1>2 DEF Tables
    <2> QED
      BY <1>5, <2>1 DEF Promised, UniqueIDs
  <1>7. Projected(r)
    BY <1>1, <1>2 DEF Promised, Projected, Tables
  <1>8. OwnersExist(r)
    BY <1>1, <1>2 DEF Promised, OwnersExist
  <1> QED
    BY <1>2, <1>3, <1>4, <1>6, <1>7, <1>8 DEF Sound, r

\* Sound tables pass the integrity check of Open.
LEMMA SoundPassesCheck ==
    ASSUME NEW t, Sound(t)
    PROVE  IntegrityCheck(t)
  <1> SUFFICES ASSUME NEW a \in Aggregates
               PROVE  ~SequenceViolation(t, a) /\ ~ForeignKeyViolation(t, a)
    BY DEF IntegrityCheck
  <1> DEFINE n == t.latest[a]
             S == StoredSequences(t, a)
  <1>1. n \in Sequences \cup {Missing}
    BY DEF Sound, Tables
  <1>2. CASE n = Missing
    <2>1. S = {}
      BY <1>2 DEF StoredSequences, Sound, Dense, Missing, Sequences
    <2> QED
      BY <1>2, <2>1 DEF SequenceViolation, ForeignKeyViolation
  <1>3. CASE n \in Sequences
    <2>1. S = 0 .. n
      BY <1>3, TablesAssumption DEF StoredSequences, Sound, Dense, Sequences
    <2>2. 0 <= n /\ n \in Int
      BY <1>3, TablesAssumption DEF Sequences
    <2> HIDE DEF n, S
    <2>3. Min(S) = 0
      <3>1. 0 \in S /\ \A x \in S : 0 <= x
        BY <2>1, <2>2
      <3>2. \A x \in S : (\A y \in S : x <= y) => x = 0
        BY <2>1, <2>2
      <3> QED
        BY <3>1, <3>2 DEF Min
    <2>4. Max(S) = n
      <3>1. n \in S /\ \A x \in S : n >= x
        BY <2>1, <2>2
      <3>2. \A x \in S : (\A y \in S : x >= y) => x = n
        BY <2>1, <2>2
      <3> QED
        BY <3>1, <3>2 DEF Max
    <2>5. Cardinality(S) = n + 1
      BY <2>1, <2>2, FS_Interval
    <2>6. S # {} /\ n # Missing
      BY <2>1, <2>2 DEF Missing
    <2> QED
      BY <2>3, <2>4, <2>5, <2>6 DEF SequenceViolation, ForeignKeyViolation, n, S
  <1> QED
    BY <1>1, <1>2, <1>3

------------------------------------------------------------------------------
(* The inductive invariant.                                                 *)

\* Where an event is on its way into the store.
Storing == {"project", "hook", "sequence", "insert"}

\* The request of a writer, and how far it is with it.
CallInv(w) ==
    /\ pc[w] # "idle" => op[w] \in Requests
    /\ pc[w] = "idle" => at[w] = 1
    /\ op[w] \in Requests => at[w] <= Total(op[w])
    /\ pc[w] \in Storing => op[w].kind \in {"publish", "replay"}

\* Who holds the token.
TokenInv ==
    /\ OneWriter
    /\ closer = "closed" => ~token

\* The event's place is the next one and its ID is not stored.
Placed(w) ==
    /\ Sound(work)
    /\ seq[w] = Latest(w) + 1
    /\ EventByID(work, Entry(w).id) = {}

\* The tables of the transaction at each step of the callback.
WorkInv(w) ==
    /\ pc[w] \in Callback \cup {"commit", "rollback"} => ~broken
    /\ pc[w] \in {"check", "commit"} => Sound(work)
    /\ pc[w] = "project" => Placed(w)
    /\ pc[w] \in {"hook", "sequence"} =>
        Placed(w) /\ work.projection[Aggregate(w)][seq[w]] = Entry(w)
    /\ pc[w] = "insert" => Promised(work, Aggregate(w), seq[w], Entry(w))

IInv ==
    /\ TypeOK
    /\ TokenInv
    /\ Sound(db)
    /\ \A w \in Writers : CallInv(w) /\ WorkInv(w)

------------------------------------------------------------------------------
\* A request names an aggregate, and its entries are events.
LEMMA RequestFacts ==
    ASSUME NEW r \in Requests
    PROVE  /\ r \in Request
           /\ r.aggregate \in Aggregates
           /\ r.owner \in Owners \cup {NoOwner}
           /\ r.start \in Sequences
           /\ Total(r) \in Nat \ {0}
           /\ r.kind \in {"publish", "replay"} =>
                \A i \in 1 .. Total(r) : r.entries[i] \in Event
           /\ r.kind = "replay" =>
                \A i \in 1 .. Total(r) : r.start + i - 1 \in Sequences
  <1>1. r \in Request
    BY RequestsAssumption
  <1>2. r.entries \in Seq(Event) /\ Len(r.entries) \in Nat
    BY <1>1 DEF Request
  <1>3. /\ r.kind = "publish" => Len(r.entries) = 1
        /\ r.kind = "replay" => /\ Len(r.entries) >= 1
                                /\ r.start + Len(r.entries) - 1 <= MaxSequence
    BY RequestsAssumption
  <1>4. r.start \in Sequences /\ r.aggregate \in Aggregates /\ r.owner \in Owners \cup {NoOwner}
    BY <1>1 DEF Request
  <1>5. Total(r) \in Nat \ {0}
    BY <1>2, <1>3 DEF Total
  <1>6. r.kind \in {"publish", "replay"} => Total(r) = Len(r.entries)
    BY <1>3 DEF Total
  <1>7. r.kind \in {"publish", "replay"} =>
            \A i \in 1 .. Total(r) : r.entries[i] \in Event
    BY <1>2, <1>6
  <1>8. r.kind = "replay" => \A i \in 1 .. Total(r) : r.start + i - 1 \in Sequences
    BY <1>2, <1>3, <1>4, <1>6, TablesAssumption DEF Sequences
  <1> QED
    BY <1>1, <1>4, <1>5, <1>7, <1>8

\* So a writer in a call has a request, and, if it carries events, an entry.
LEMMA EntryFacts ==
    ASSUME IInv, NEW w \in Writers, pc[w] # "idle"
    PROVE  /\ op[w] \in Requests
           /\ Aggregate(w) \in Aggregates
           /\ op[w].owner \in Owners \cup {NoOwner}
           /\ at[w] \in 1 .. Total(op[w])
           /\ op[w].kind \in {"publish", "replay"} => Entry(w) \in Event
           /\ op[w].kind = "replay" => Given(w) \in Sequences
  <1>1. op[w] \in Requests /\ at[w] \in Nat \ {0} /\ at[w] <= Total(op[w])
    BY DEF IInv, CallInv, TypeOK
  <1>2. at[w] \in 1 .. Total(op[w])
    BY <1>1, RequestFacts
  <1> QED
    BY <1>1, <1>2, RequestFacts DEF Aggregate, Entry, Given

\* A step of writer w leaves what is said of another writer v as it is: if w
\* holds the token then v does not, and otherwise the tables do not change.
LEMMA OthersKeep ==
    ASSUME IInv, NEW w \in Writers, NEW v \in Writers \ {w},
           pc'[v] = pc[v], op'[v] = op[v], at'[v] = at[v], seq'[v] = seq[v],
           \/ pc[w] \in Holding
           \/ work' = work /\ broken' = broken
    PROVE  CallInv(v)' /\ WorkInv(v)'
  <1>1. CallInv(v) /\ WorkInv(v)
    BY DEF IInv
  <1>2. CallInv(v)'
    BY <1>1 DEF CallInv
  <1>3. CASE pc[w] \in Holding
    <2>1. pc[v] \notin Holding
      BY <1>3 DEF IInv, TokenInv, OneWriter
    <2> QED
      BY <1>2, <2>1 DEF WorkInv, Holding, Callback
  <1>4. CASE work' = work /\ broken' = broken
    BY <1>1, <1>2, <1>4 DEF WorkInv, Placed, Latest, Aggregate, Entry
  <1> QED
    BY <1>3, <1>4

\* How the token moves: a writer's step keeps TokenInv if it takes the token
\* from its channel, puts back the one it holds, or leaves it where it is.
LEMMA TokenMoves ==
    ASSUME IInv, NEW w \in Writers, NEW l \in Control, pc' = [pc EXCEPT ![w] = l],
           closer' = closer,
           \/ token' = token /\ (l \in Holding => pc[w] \in Holding)
           \/ token /\ ~token' /\ l \in Holding
           \/ pc[w] \in Holding /\ token' /\ l \notin Holding
    PROVE  TokenInv'
  <1>1. pc'[w] = l /\ \A v \in Writers \ {w} : pc'[v] = pc[v]
    BY DEF IInv, TypeOK, StoreTypeOK
  <1> QED
    BY <1>1 DEF IInv, TokenInv, OneWriter, TypeOK, StoreTypeOK

------------------------------------------------------------------------------
\* The initial states satisfy the invariant.
LEMMA InitIInv == Init => IInv
  <1> SUFFICES ASSUME Init
               PROVE  IInv
    OBVIOUS
  <1> USE DEF Init, StoreInit, CallInit
  <1>1. Sound(db) /\ Sound(work)
    BY EmptyTablesSound
  <1>2. TypeOK
    <2>1. db \in Tables /\ work \in Tables
      BY <1>1 DEF Sound
    <2>2. 0 \in Sequences
      BY TablesAssumption DEF Sequences
    <2>3. pc \in [Writers -> Control]
      BY DEF Control
    <2>4. StoreTypeOK
      BY <2>1, <2>3 DEF StoreTypeOK
    <2>5. fresh \in [Writers -> BOOLEAN]
      OBVIOUS
    <2>6. /\ op \in [Writers -> Requests \cup {NoRequest}]
          /\ at \in [Writers -> Nat \ {0}]
          /\ seq \in [Writers -> Sequences]
          /\ outcome \in [Writers -> {"none", "ok", "error"}]
      BY <2>2
    <2> QED
      BY <2>4, <2>5, <2>6 DEF TypeOK
  <1>3. TokenInv
    BY DEF TokenInv, OneWriter, Holding, Callback
  <1>4. \A w \in Writers : CallInv(w) /\ WorkInv(w)
    <2> SUFFICES ASSUME NEW w \in Writers
                 PROVE  CallInv(w) /\ WorkInv(w)
      OBVIOUS
    <2>1. pc[w] = "idle" /\ at[w] = 1 /\ op[w] = NoRequest
      OBVIOUS
    <2>2. op[w] \notin Requests
      BY <2>1, RequestsAssumption
    <2> QED
      BY <2>1, <2>2 DEF CallInv, WorkInv, Storing, Callback
  <1> QED
    BY <1>1, <1>2, <1>3, <1>4 DEF IInv

------------------------------------------------------------------------------
(* The steps of a writer, one lemma for each group that touches the same    *)
(* variables.                                                               *)

\* What a writer's step leaves alone is typed as before.
LEMMA EnterKeeps ==
    ASSUME IInv, NEW w \in Writers, Enter(w)
    PROVE  IInv'
  <1> USE DEF Enter, callVars
  <1>1. CASE EnterWrite(w)
    <2> USE <1>1 DEF EnterWrite, Goto
    <2>1. TypeOK' /\ Sound(db)'
      BY DEF IInv, TypeOK, StoreTypeOK, Control
    <2>2. TokenInv'
      BY TokenMoves DEF Control, Holding, Callback
    <2>3. CallInv(w)' /\ WorkInv(w)'
      BY DEF IInv, TypeOK, StoreTypeOK, CallInv, WorkInv, Storing, Callback
    <2>4. \A v \in Writers \ {w} : CallInv(v)' /\ WorkInv(v)'
      BY OthersKeep DEF IInv, TypeOK, StoreTypeOK
    <2> QED
      BY <2>1, <2>2, <2>3, <2>4 DEF IInv
  <1>2. CASE AcquireToken(w)
    <2> USE <1>2 DEF AcquireToken, Goto
    <2>1. TypeOK' /\ Sound(db)'
      BY DEF IInv, TypeOK, StoreTypeOK, Control, Holding
    <2>2. TokenInv'
      BY TokenMoves DEF Control, Holding
    <2>3. CallInv(w)' /\ WorkInv(w)'
      BY DEF IInv, TypeOK, StoreTypeOK, CallInv, WorkInv, Storing, Callback
    <2>4. \A v \in Writers \ {w} : CallInv(v)' /\ WorkInv(v)'
      BY OthersKeep DEF IInv, TypeOK, StoreTypeOK
    <2> QED
      BY <2>1, <2>2, <2>3, <2>4 DEF IInv
  <1>3. CASE Begin(w)
    <2> USE <1>3 DEF Begin, Goto
    <2>1. TypeOK' /\ Sound(db)'
      BY DEF IInv, TypeOK, StoreTypeOK, Control, Holding, Callback
    <2>2. TokenInv'
      BY TokenMoves DEF Control, Holding, Callback
    <2>3. CallInv(w)' /\ WorkInv(w)'
      BY DEF IInv, TypeOK, StoreTypeOK, CallInv, WorkInv, Storing, Callback
    <2>4. \A v \in Writers \ {w} : CallInv(v)' /\ WorkInv(v)'
      BY OthersKeep DEF IInv, TypeOK, StoreTypeOK, Holding
    <2> QED
      BY <2>1, <2>2, <2>3, <2>4 DEF IInv
  <1> QED
    BY <1>1, <1>2, <1>3

\* A fenced store turns a writer away.
LEMMA RefuseKeeps ==
    ASSUME IInv, NEW w \in Writers, Refuse(w)
    PROVE  IInv'
  <1> USE DEF Refuse, Report
  <1>1. CASE FenceWrite(w)
    <2> USE <1>1 DEF FenceWrite, Goto
    <2>1. TypeOK'
      BY DEF IInv, TypeOK, StoreTypeOK, Control, Holding, Callback
    <2>2. Sound(db)'
      BY DEF IInv
    <2>3. TokenInv'
      BY TokenMoves DEF Control, Holding, Callback
    <2>4. CallInv(w)' /\ WorkInv(w)'
      BY DEF IInv, TypeOK, StoreTypeOK, CallInv, WorkInv, Storing, Callback
    <2>5. \A v \in Writers \ {w} : CallInv(v)' /\ WorkInv(v)'
      BY OthersKeep DEF IInv, TypeOK, StoreTypeOK, Holding, Callback
    <2> QED
      BY <2>1, <2>2, <2>3, <2>4, <2>5 DEF IInv
  <1>2. CASE FenceHolder(w)
    <2> USE <1>2 DEF FenceHolder, Goto
    <2>1. TypeOK'
      BY DEF IInv, TypeOK, StoreTypeOK, Control, Holding, Callback
    <2>2. Sound(db)'
      BY DEF IInv
    <2>3. TokenInv'
      BY TokenMoves DEF Control, Holding, Callback
    <2>4. CallInv(w)' /\ WorkInv(w)'
      BY DEF IInv, TypeOK, StoreTypeOK, CallInv, WorkInv, Storing, Callback
    <2>5. \A v \in Writers \ {w} : CallInv(v)' /\ WorkInv(v)'
      BY OthersKeep DEF IInv, TypeOK, StoreTypeOK, Holding, Callback
    <2> QED
      BY <2>1, <2>2, <2>3, <2>4, <2>5 DEF IInv
  <1> QED
    BY <1>1, <1>2

\* A fault ends the callback or the call; COMMIT may have taken effect.
LEMMA FaultKeeps ==
    ASSUME IInv, NEW w \in Writers, Fault(w)
    PROVE  IInv'
  <1> USE DEF Fault, Report
  <1>1. CASE CancelWrite(w)
    <2> USE <1>1 DEF CancelWrite, Goto
    <2>1. TypeOK'
      BY DEF IInv, TypeOK, StoreTypeOK, Control, Holding, Callback
    <2>2. Sound(db)'
      BY DEF IInv
    <2>3. TokenInv'
      BY TokenMoves DEF Control, Holding, Callback
    <2>4. CallInv(w)' /\ WorkInv(w)'
      BY DEF IInv, TypeOK, StoreTypeOK, CallInv, WorkInv, Storing, Callback
    <2>5. \A v \in Writers \ {w} : CallInv(v)' /\ WorkInv(v)'
      BY OthersKeep DEF IInv, TypeOK, StoreTypeOK, Holding, Callback
    <2> QED
      BY <2>1, <2>2, <2>3, <2>4, <2>5 DEF IInv
  <1>2. CASE BeginFails(w)
    <2> USE <1>2 DEF BeginFails, Goto
    <2>1. TypeOK'
      BY DEF IInv, TypeOK, StoreTypeOK, Control, Holding, Callback
    <2>2. Sound(db)'
      BY DEF IInv
    <2>3. TokenInv'
      BY TokenMoves DEF Control, Holding, Callback
    <2>4. CallInv(w)' /\ WorkInv(w)'
      BY DEF IInv, TypeOK, StoreTypeOK, CallInv, WorkInv, Storing, Callback
    <2>5. \A v \in Writers \ {w} : CallInv(v)' /\ WorkInv(v)'
      BY OthersKeep DEF IInv, TypeOK, StoreTypeOK, Holding, Callback
    <2> QED
      BY <2>1, <2>2, <2>3, <2>4, <2>5 DEF IInv
  <1>3. CASE CallbackFails(w)
    <2> USE <1>3 DEF CallbackFails, Goto
    <2>1. TypeOK'
      BY DEF IInv, TypeOK, StoreTypeOK, Control, Holding, Callback
    <2>2. Sound(db)'
      BY DEF IInv
    <2>3. TokenInv'
      BY TokenMoves DEF Control, Holding, Callback
    <2>4. CallInv(w)' /\ WorkInv(w)'
      BY DEF IInv, TypeOK, StoreTypeOK, CallInv, WorkInv, Storing, Callback
    <2>5. \A v \in Writers \ {w} : CallInv(v)' /\ WorkInv(v)'
      BY OthersKeep DEF IInv, TypeOK, StoreTypeOK, Holding, Callback
    <2> QED
      BY <2>1, <2>2, <2>3, <2>4, <2>5 DEF IInv
  <1>4. CASE CommitFails(w)
    <2> USE <1>4 DEF CommitFails, Goto
    <2>1. TypeOK'
      BY DEF IInv, TypeOK, StoreTypeOK, Control, Holding, Callback
    <2>2. Sound(db)'
      BY DEF IInv
    <2>3. TokenInv'
      BY TokenMoves DEF Control, Holding, Callback
    <2>4. CallInv(w)' /\ WorkInv(w)'
      BY DEF IInv, TypeOK, StoreTypeOK, CallInv, WorkInv, Storing, Callback
    <2>5. \A v \in Writers \ {w} : CallInv(v)' /\ WorkInv(v)'
      BY OthersKeep DEF IInv, TypeOK, StoreTypeOK, Holding, Callback
    <2> QED
      BY <2>1, <2>2, <2>3, <2>4, <2>5 DEF IInv
  <1>5. CASE CommitUnreported(w)
    <2> USE <1>5 DEF CommitUnreported, Goto
    <2>1. TypeOK'
      <3>1. applied' \in [Writers -> Nat]
        BY DEF IInv, TypeOK, StoreTypeOK
      <3>2. pc' \in [Writers -> Control] /\ outcome' \in [Writers -> {"none", "ok", "error"}]
        BY DEF IInv, TypeOK, StoreTypeOK, Control, Holding, Callback
      <3> QED
        BY <3>1, <3>2 DEF IInv, TypeOK, StoreTypeOK
    <2>2. Sound(db)'
      BY DEF IInv, WorkInv
    <2>3. TokenInv'
      BY TokenMoves DEF Control, Holding, Callback
    <2>4. CallInv(w)' /\ WorkInv(w)'
      BY DEF IInv, TypeOK, StoreTypeOK, CallInv, WorkInv, Storing, Callback
    <2>5. \A v \in Writers \ {w} : CallInv(v)' /\ WorkInv(v)'
      BY OthersKeep DEF IInv, TypeOK, StoreTypeOK, Holding, Callback
    <2> QED
      BY <2>1, <2>2, <2>3, <2>4, <2>5 DEF IInv
  <1> QED
    BY <1>1, <1>2, <1>3, <1>4, <1>5

\* COMMIT makes the sound tables of the transaction the committed ones.
LEMMA EndTxKeeps ==
    ASSUME IInv, NEW w \in Writers, EndTx(w)
    PROVE  IInv'
  <1> USE DEF EndTx, Report
  <1>1. CASE Commit(w)
    <2> USE <1>1 DEF Commit, Goto
    <2>1. TypeOK'
      <3>1. applied' \in [Writers -> Nat]
        BY DEF IInv, TypeOK, StoreTypeOK
      <3>2. pc' \in [Writers -> Control] /\ outcome' \in [Writers -> {"none", "ok", "error"}]
        BY DEF IInv, TypeOK, StoreTypeOK, Control, Holding, Callback
      <3> QED
        BY <3>1, <3>2 DEF IInv, TypeOK, StoreTypeOK
    <2>2. Sound(db)'
      BY DEF IInv, WorkInv
    <2>3. TokenInv'
      BY TokenMoves DEF Control, Holding, Callback
    <2>4. CallInv(w)' /\ WorkInv(w)'
      BY DEF IInv, TypeOK, StoreTypeOK, CallInv, WorkInv, Storing, Callback
    <2>5. \A v \in Writers \ {w} : CallInv(v)' /\ WorkInv(v)'
      BY OthersKeep DEF IInv, TypeOK, StoreTypeOK, Holding, Callback
    <2> QED
      BY <2>1, <2>2, <2>3, <2>4, <2>5 DEF IInv
  <1> QED
    BY <1>1

\* The rollback drops the tables of the transaction, or breaks the store.
LEMMA UndoTxKeeps ==
    ASSUME IInv, NEW w \in Writers, UndoTx(w)
    PROVE  IInv'
  <1> USE DEF UndoTx, callVars
  <1>1. CASE Rollback(w)
    <2> USE <1>1 DEF Rollback, Goto
    <2>1. TypeOK'
      BY DEF IInv, TypeOK, StoreTypeOK, Control, Holding, Callback
    <2>2. Sound(db)'
      BY DEF IInv
    <2>3. TokenInv'
      BY TokenMoves DEF Control, Holding, Callback
    <2>4. CallInv(w)' /\ WorkInv(w)'
      BY DEF IInv, TypeOK, StoreTypeOK, CallInv, WorkInv, Storing, Callback
    <2>5. \A v \in Writers \ {w} : CallInv(v)' /\ WorkInv(v)'
      BY OthersKeep DEF IInv, TypeOK, StoreTypeOK, Holding, Callback
    <2> QED
      BY <2>1, <2>2, <2>3, <2>4, <2>5 DEF IInv
  <1>2. CASE RollbackFails(w)
    <2> USE <1>2 DEF RollbackFails, Goto
    <2>1. TypeOK'
      BY DEF IInv, TypeOK, StoreTypeOK, Control, Holding, Callback
    <2>2. Sound(db)'
      BY DEF IInv
    <2>3. TokenInv'
      BY TokenMoves DEF Control, Holding, Callback
    <2>4. CallInv(w)' /\ WorkInv(w)'
      BY DEF IInv, TypeOK, StoreTypeOK, CallInv, WorkInv, Storing, Callback
    <2>5. \A v \in Writers \ {w} : CallInv(v)' /\ WorkInv(v)'
      BY OthersKeep DEF IInv, TypeOK, StoreTypeOK, Holding, Callback
    <2> QED
      BY <2>1, <2>2, <2>3, <2>4, <2>5 DEF IInv
  <1> QED
    BY <1>1, <1>2

\* Whether a call goes on to its next entry or returns, the request stays and
\* the entry is one of it.
LEMMA NextEntryKeeps ==
    ASSUME IInv, NEW w \in Writers, NextEntry(w), pc[w] \in {"release", "notify"},
           work' = work, broken' = broken
    PROVE  /\ \E l \in {"call", "reply"} : pc' = [pc EXCEPT ![w] = l]
           /\ CallInv(w)' /\ WorkInv(w)'
           /\ \A v \in Writers \ {w} : CallInv(v)' /\ WorkInv(v)'
           /\ op' = op /\ seq' = seq
           /\ at' \in [Writers -> Nat \ {0}]
           /\ fresh' \in [Writers -> BOOLEAN]
           /\ outcome' \in [Writers -> {"none", "ok", "error"}]
  <1> USE DEF NextEntry, Goto, Report
  <1>1. op[w] \in Requests /\ Total(op[w]) \in Nat
    BY EntryFacts, RequestFacts
  <1>2. CASE /\ outcome[w] = "ok" /\ at[w] < Total(op[w])
             /\ pc' = [pc EXCEPT ![w] = "call"]
             /\ at' = [at EXCEPT ![w] = @ + 1]
             /\ outcome' = [outcome EXCEPT ![w] = "none"]
    <2>1. CallInv(w)' /\ WorkInv(w)'
      BY <1>1, <1>2 DEF IInv, TypeOK, StoreTypeOK, CallInv, WorkInv, Storing, Callback
    <2>2. \A v \in Writers \ {w} : CallInv(v)' /\ WorkInv(v)'
      BY <1>2, OthersKeep DEF IInv, TypeOK, StoreTypeOK
    <2>3. at' \in [Writers -> Nat \ {0}]
      BY <1>2 DEF IInv, TypeOK
    <2> QED
      BY <1>2, <2>1, <2>2, <2>3 DEF IInv, TypeOK
  <1>3. CASE /\ pc' = [pc EXCEPT ![w] = "reply"]
             /\ UNCHANGED <<at, outcome>>
    <2>1. CallInv(w)' /\ WorkInv(w)'
      BY <1>1, <1>3 DEF IInv, TypeOK, StoreTypeOK, CallInv, WorkInv, Storing, Callback
    <2>2. \A v \in Writers \ {w} : CallInv(v)' /\ WorkInv(v)'
      BY <1>3, OthersKeep DEF IInv, TypeOK, StoreTypeOK
    <2> QED
      BY <1>3, <2>1, <2>2 DEF IInv, TypeOK
  <1> QED
    BY <1>2, <1>3

\* The token goes back into its channel.
LEMMA ReleaseKeeps ==
    ASSUME IInv, NEW w \in Writers, Release(w)
    PROVE  IInv'
  <1> USE DEF Release
  <1>1. Sound(db)'
    BY DEF IInv
  <1>2. CASE ToNotify(w) /\ Goto(w, "notify") /\ UNCHANGED callVars
    <2> USE <1>2 DEF Goto, callVars
    <2>1. TypeOK'
      BY DEF IInv, TypeOK, StoreTypeOK, Control, Holding, Callback
    <2>2. TokenInv'
      BY TokenMoves DEF Control, Holding, Callback
    <2>3. CallInv(w)' /\ WorkInv(w)'
      BY DEF IInv, TypeOK, StoreTypeOK, CallInv, WorkInv, Storing, Callback
    <2>4. \A v \in Writers \ {w} : CallInv(v)' /\ WorkInv(v)'
      BY OthersKeep DEF IInv, TypeOK, StoreTypeOK
    <2> QED
      BY <1>1, <2>1, <2>2, <2>3, <2>4 DEF IInv
  <1>3. CASE NextEntry(w)
    <2>1. PICK l \in {"call", "reply"} : pc' = [pc EXCEPT ![w] = l]
      BY <1>3, NextEntryKeeps
    <2>2. TypeOK'
      BY <1>3, <2>1, NextEntryKeeps DEF IInv, TypeOK, StoreTypeOK, Control
    <2>3. TokenInv'
      BY <2>1, TokenMoves DEF Control, Holding, Callback
    <2> QED
      BY <1>1, <1>3, <2>2, <2>3, NextEntryKeeps DEF IInv
  <1> QED
    BY <1>2, <1>3

\* Observers are told.
LEMMA NotifyKeeps ==
    ASSUME IInv, NEW w \in Writers, Notify(w)
    PROVE  IInv'
  <1> USE DEF Notify
  <1>1. Sound(db)'
    BY DEF IInv
  <1>2. PICK l \in {"call", "reply"} : pc' = [pc EXCEPT ![w] = l]
    BY NextEntryKeeps
  <1>3. TypeOK'
    BY <1>2, NextEntryKeeps DEF IInv, TypeOK, StoreTypeOK, Control
  <1>4. TokenInv'
    BY <1>2, TokenMoves DEF Control, Holding, Callback
  <1> QED
    BY <1>1, <1>3, <1>4, NextEntryKeeps DEF IInv

\* A call begins with the first entry of its request.
LEMMA SubmitKeeps ==
    ASSUME IInv, NEW w \in Writers, NEW r \in Requests, Submit(w, r)
    PROVE  IInv'
  <1> USE DEF Submit, Goto
  <1>1. TypeOK' /\ Sound(db)'
    BY DEF IInv, TypeOK, StoreTypeOK, Control
  <1>2. TokenInv'
    BY TokenMoves DEF Control, Holding, Callback
  <1>3. CallInv(w)' /\ WorkInv(w)'
    <2>1. op'[w] = r /\ pc'[w] = "call" /\ at'[w] = 1
      BY DEF IInv, TypeOK, StoreTypeOK, CallInv
    <2>2. 1 <= Total(r)
      BY RequestFacts
    <2> QED
      BY <2>1, <2>2 DEF CallInv, WorkInv, Storing, Callback
  <1>4. \A v \in Writers \ {w} : CallInv(v)' /\ WorkInv(v)'
    BY OthersKeep DEF IInv, TypeOK, StoreTypeOK
  <1> QED
    BY <1>1, <1>2, <1>3, <1>4 DEF IInv

\* And leaves nothing behind when it returns.
LEMMA ReturnKeeps ==
    ASSUME IInv, NEW w \in Writers, Return(w)
    PROVE  IInv'
  <1> USE DEF Return, Goto
  <1>1. TypeOK'
    <2>1. /\ pc' \in [Writers -> Control]
          /\ op' \in [Writers -> Requests \cup {NoRequest}]
          /\ outcome' \in [Writers -> {"none", "ok", "error"}]
      BY DEF IInv, TypeOK, StoreTypeOK, Control
    <2>2. /\ at' \in [Writers -> Nat \ {0}]
          /\ seq' \in [Writers -> Sequences]
          /\ applied' \in [Writers -> Nat]
      BY TablesAssumption DEF IInv, TypeOK, StoreTypeOK, Sequences
    <2> QED
      BY <2>1, <2>2 DEF IInv, TypeOK, StoreTypeOK
  <1>2. Sound(db)'
    BY DEF IInv
  <1>3. TokenInv'
    BY TokenMoves DEF Control, Holding, Callback
  <1>4. CallInv(w)' /\ WorkInv(w)'
    <2>1. op'[w] = NoRequest /\ pc'[w] = "idle" /\ at'[w] = 1
      BY DEF IInv, TypeOK, StoreTypeOK
    <2>2. op'[w] \notin Requests
      BY <2>1, RequestsAssumption
    <2> QED
      BY <2>1, <2>2 DEF CallInv, WorkInv, Storing, Callback
  <1>5. \A v \in Writers \ {w} : CallInv(v)' /\ WorkInv(v)'
    BY OthersKeep DEF IInv, TypeOK, StoreTypeOK
  <1> QED
    BY <1>1, <1>2, <1>3, <1>4, <1>5 DEF IInv

------------------------------------------------------------------------------
(* The steps of the callbacks.                                              *)

\* An error of the callback leads to the rollback.
LEMMA RejectKeeps ==
    ASSUME IInv, NEW w \in Writers, pc[w] \in Callback, Reject(w)
    PROVE  IInv'
  <1> USE DEF Reject, Report, InCallback, Goto
  <1>1. TypeOK' /\ Sound(db)'
    BY DEF IInv, TypeOK, StoreTypeOK, Control, Holding
  <1>2. TokenInv'
    BY TokenMoves DEF Control, Holding, Callback
  <1>3. CallInv(w)' /\ WorkInv(w)'
    BY DEF IInv, TypeOK, StoreTypeOK, CallInv, WorkInv, Storing, Callback
  <1>4. \A v \in Writers \ {w} : CallInv(v)' /\ WorkInv(v)'
    BY OthersKeep DEF IInv, TypeOK, StoreTypeOK
  <1> QED
    BY <1>1, <1>2, <1>3, <1>4 DEF IInv

\* An accepted event has the next place and a new ID.
LEMMA AcceptKeeps ==
    ASSUME IInv, NEW w \in Writers, pc[w] = "check", op[w].kind \in {"publish", "replay"},
           NEW s \in Sequences, s = Latest(w) + 1, EventByID(work, Entry(w).id) = {},
           Accept(w, s)
    PROVE  IInv'
  <1> USE DEF Accept, InCallback, Goto
  <1>1. TypeOK' /\ Sound(db)'
    BY DEF IInv, TypeOK, StoreTypeOK, Control, Holding, Callback
  <1>2. TokenInv'
    BY TokenMoves DEF Control, Holding, Callback
  <1>3. CallInv(w)' /\ WorkInv(w)'
    <2>1. pc'[w] = "project" /\ seq'[w] = s
      BY DEF IInv, TypeOK, StoreTypeOK
    <2>2. CallInv(w)'
      BY <2>1 DEF IInv, CallInv, Storing
    <2>3. Placed(w)'
      BY <2>1 DEF IInv, WorkInv, Placed, Latest, Aggregate, Entry
    <2> QED
      BY <2>1, <2>2, <2>3 DEF IInv, WorkInv, Callback
  <1>4. \A v \in Writers \ {w} : CallInv(v)' /\ WorkInv(v)'
    BY OthersKeep DEF IInv, TypeOK, StoreTypeOK, Holding, Callback
  <1> QED
    BY <1>1, <1>2, <1>3, <1>4 DEF IInv

\* A callback may end with any sound tables.
LEMMA FinishKeeps ==
    ASSUME IInv, NEW w \in Writers, pc[w] = "check", NEW t, Sound(t), Finish(w, t)
    PROVE  IInv'
  <1> USE DEF Finish, InCallback, callVars, Goto
  <1>1. TypeOK' /\ Sound(db)'
    BY DEF IInv, TypeOK, StoreTypeOK, Control, Holding, Callback, Sound
  <1>2. TokenInv'
    BY TokenMoves DEF Control, Holding, Callback
  <1>3. CallInv(w)' /\ WorkInv(w)'
    BY DEF IInv, TypeOK, StoreTypeOK, CallInv, WorkInv, Storing, Callback
  <1>4. \A v \in Writers \ {w} : CallInv(v)' /\ WorkInv(v)'
    BY OthersKeep DEF IInv, TypeOK, StoreTypeOK, Holding, Callback
  <1> QED
    BY <1>1, <1>2, <1>3, <1>4 DEF IInv

\* Publish checks the ID and gives the event the next sequence.
LEMMA CheckPublishKeeps ==
    ASSUME IInv, NEW w \in Writers, CheckPublish(w)
    PROVE  IInv'
  <1> USE DEF CheckPublish, Running
  <1>1. CASE Reject(w)
    BY <1>1, RejectKeeps DEF Callback
  <1>2. CASE ~PublishConflict(w) /\ Accept(w, Latest(w) + 1)
    <2>1. Latest(w) \in Sequences \cup {Missing} /\ Latest(w) # MaxSequence
      BY <1>2, EntryFacts DEF IInv, TypeOK, StoreTypeOK, Tables, Latest, PublishConflict
    <2>2. Latest(w) + 1 \in Sequences
      BY <2>1, TablesAssumption DEF Sequences, Missing
    <2>3. EventByID(work, Entry(w).id) = {}
      BY <1>2 DEF PublishConflict
    <2> QED
      BY <1>2, <2>2, <2>3, AcceptKeeps
  <1> QED
    BY <1>1, <1>2

\* Replay accepts only the next sequence, and acknowledges what it has stored.
LEMMA CheckReplayKeeps ==
    ASSUME IInv, NEW w \in Writers, CheckReplay(w)
    PROVE  IInv'
  <1> USE DEF CheckReplay, Running
  <1>1. Sound(work)
    BY DEF IInv, WorkInv
  <1>2. Aggregate(w) \in Aggregates /\ Given(w) \in Sequences
        /\ op[w].owner \in Owners \cup {NoOwner}
    BY EntryFacts
  <1>3. CASE Reject(w)
    BY <1>3, RejectKeeps DEF Callback
  <1>4. CASE Stale(w) /\ Finish(w, Acknowledged(w))
    <2>1. Latest(w) # Missing
      BY <1>2, <1>4, TablesAssumption DEF Stale, Missing, Sequences
    <2>2. ReplayOwner(w) \in Owners \cup {NoOwner}
      BY <1>1, <1>2 DEF ReplayOwner, Owner, Sound, Tables
    <2>3. Sound(Acknowledged(w))
      BY <1>1, <1>2, <2>1, <2>2, OwnerChangeSound DEF Acknowledged, Latest
    <2> QED
      BY <1>4, <2>3, FinishKeeps
  <1>5. CASE Finish(w, work)
    BY <1>1, <1>5, FinishKeeps
  <1>6. CASE /\ ~ReplayConflict(w) /\ ~Stale(w) /\ ~OwnedByOther(w)
             /\ Accept(w, Given(w))
    <2>1. Given(w) = Latest(w) + 1 /\ EventByID(work, Entry(w).id) = {}
      BY <1>6 DEF ReplayConflict
    <2> QED
      BY <1>2, <1>6, <2>1, AcceptKeeps
  <1> QED
    BY <1>3, <1>4, <1>5, <1>6

\* Claim rewrites the owner of an aggregate that exists.
LEMMA ClaimKeeps ==
    ASSUME IInv, NEW w \in Writers, Claim(w)
    PROVE  IInv'
  <1> USE DEF Claim, Running
  <1>1. Sound(work)
    BY DEF IInv, WorkInv
  <1>2. Aggregate(w) \in Aggregates /\ op[w].owner \in Owners \cup {NoOwner}
    BY EntryFacts
  <1>3. CASE Latest(w) = Missing /\ Finish(w, work)
    BY <1>1, <1>3, FinishKeeps
  <1>4. CASE Latest(w) # Missing /\ Finish(w, PutSequence(work, Aggregate(w), Latest(w), op[w].owner))
    BY <1>1, <1>2, <1>4, OwnerChangeSound, FinishKeeps DEF Latest
  <1> QED
    BY <1>3, <1>4

\* Remove deletes the aggregate.
LEMMA RemoveKeeps ==
    ASSUME IInv, NEW w \in Writers, Remove(w)
    PROVE  IInv'
  <1> USE DEF Remove, Running
  <1>1. Sound(work)
    BY DEF IInv, WorkInv
  <1>2. Aggregate(w) \in Aggregates
    BY EntryFacts
  <1> QED
    BY <1>1, <1>2, DeleteSound, FinishKeeps

\* A step of the callback that stores an event: what it writes, and where it
\* goes, decide what is known of the tables; the rest is the same for all.
LEMMA StoringKeeps ==
    ASSUME IInv, NEW w \in Writers, pc[w] \in Storing, NEW l \in Holding,
           pc' = [pc EXCEPT ![w] = l], InCallback,
           op' = op, at' = at, seq' = seq, outcome' = outcome,
           fresh' \in [Writers -> BOOLEAN],
           work' \in Tables, l \in Storing \cup {"commit"}, WorkInv(w)'
    PROVE  IInv'
  <1> USE DEF InCallback
  <1>1. TypeOK' /\ Sound(db)'
    BY DEF IInv, TypeOK, StoreTypeOK, Control
  <1>2. TokenInv'
    BY TokenMoves DEF Control, Holding, Callback, Storing
  <1>3. CallInv(w)'
    BY DEF IInv, TypeOK, StoreTypeOK, CallInv, Storing
  <1>4. \A v \in Writers \ {w} : CallInv(v)' /\ WorkInv(v)'
    BY OthersKeep DEF IInv, TypeOK, StoreTypeOK, Holding, Callback, Storing
  <1> QED
    BY <1>1, <1>2, <1>3, <1>4 DEF IInv

\* What a writer that stores an event has in its hands.
LEMMA StoringFacts ==
    ASSUME IInv, NEW w \in Writers, pc[w] \in Storing
    PROVE  /\ Aggregate(w) \in Aggregates
           /\ Entry(w) \in Event
           /\ seq[w] \in Sequences
           /\ op[w].owner \in Owners \cup {NoOwner}
           /\ pc[w] # "insert" =>
                /\ Placed(w)
                /\ work.row[Aggregate(w)][seq[w]] = NoRow
  <1>1. pc[w] # "idle" /\ op[w].kind \in {"publish", "replay"}
    BY DEF IInv, CallInv, Storing
  <1>2. seq[w] \in Sequences
    BY DEF IInv, TypeOK
  <1>3. Aggregate(w) \in Aggregates /\ Entry(w) \in Event /\ op[w].owner \in Owners \cup {NoOwner}
    BY <1>1, EntryFacts
  <1>4. ASSUME pc[w] # "insert" PROVE Placed(w)
    BY <1>4 DEF IInv, WorkInv, Storing
  <1>5. ASSUME Placed(w) PROVE work.row[Aggregate(w)][seq[w]] = NoRow
    BY <1>2, <1>3, <1>5 DEF Placed, Latest, Sound, Dense, Tables, Sequences, Missing
  <1> QED
    BY <1>2, <1>3, <1>4, <1>5

\* The projectors write under the event's place.
LEMMA ProjectKeeps ==
    ASSUME IInv, NEW w \in Writers, Project(w)
    PROVE  IInv'
  <1> USE DEF Project, Goto, callVars, InCallback
  <1> DEFINE a == Aggregate(w)
             e == Entry(w)
             s == seq[w]
  <1>1. a \in Aggregates /\ e \in Event /\ s \in Sequences /\ Placed(w) /\ work.row[a][s] = NoRow
    BY StoringFacts DEF Storing
  <1>2. Sound(work) /\ s = Latest(w) + 1 /\ EventByID(work, e.id) = {}
    BY <1>1 DEF Placed
  <1>3. /\ Sound(work') /\ work'.latest = work.latest
        /\ work'.row = work.row /\ work'.projection[a][s] = e
    BY <1>1, <1>2, ProjectSound
  <1>4. a = Aggregate(w)' /\ e = Entry(w)' /\ s = seq'[w]
    BY DEF Aggregate, Entry
  <1>5. pc'[w] \in {"hook", "sequence"}
    BY DEF IInv, TypeOK, StoreTypeOK
  <1> HIDE DEF a, e, s
  <1>6. Placed(w)'
    BY <1>2, <1>3, <1>4 DEF Placed, Latest, EventByID, a
  <1>7. WorkInv(w)'
    BY <1>3, <1>4, <1>5, <1>6 DEF IInv, WorkInv, Callback
  <1>8. work' \in Tables
    BY <1>3 DEF Sound
  <1>9. fresh' \in [Writers -> BOOLEAN]
    BY DEF IInv, TypeOK
  <1> QED
    BY <1>7, <1>8, <1>9, StoringKeeps DEF Storing, Holding, Callback

\* The commit hook runs on the same transaction.
LEMMA RunCommitHookKeeps ==
    ASSUME IInv, NEW w \in Writers, RunCommitHook(w)
    PROVE  IInv'
  <1> USE DEF RunCommitHook, Goto, callVars, InCallback
  <1>1. pc'[w] = "sequence"
    BY DEF IInv, TypeOK, StoreTypeOK
  <1>2. WorkInv(w)'
    BY <1>1 DEF IInv, WorkInv, Callback, Placed, Latest, Aggregate, Entry
  <1>3. work' \in Tables /\ fresh' \in [Writers -> BOOLEAN]
    BY DEF IInv, TypeOK, StoreTypeOK
  <1> QED
    BY <1>2, <1>3, StoringKeeps DEF Storing, Holding, Callback

\* The sequence row moves ahead of the history.
LEMMA StoreSequenceKeeps ==
    ASSUME IInv, NEW w \in Writers, StoreSequence(w)
    PROVE  IInv'
  <1> USE DEF StoreSequence, Goto, callVars, InCallback
  <1> DEFINE a == Aggregate(w)
             e == Entry(w)
             s == seq[w]
             o == IF op[w].kind = "publish" THEN Owner(w) ELSE ReplayOwner(w)
  <1>1. a \in Aggregates /\ e \in Event /\ s \in Sequences /\ Placed(w)
        /\ op[w].owner \in Owners \cup {NoOwner}
    BY StoringFacts DEF Storing
  <1>2. /\ Sound(work) /\ s = work.latest[a] + 1 /\ EventByID(work, e.id) = {}
        /\ work.projection[a][s] = e
    BY <1>1 DEF Placed, IInv, WorkInv, Latest
  <1>3. o \in Owners \cup {NoOwner}
    BY <1>1, <1>2 DEF Owner, ReplayOwner, Sound, Tables
  <1>4. work' = PutSequence(work, a, s, o)
    OBVIOUS
  <1>5. a = Aggregate(w)' /\ e = Entry(w)' /\ s = seq'[w]
    BY DEF Aggregate, Entry
  <1>6. pc'[w] = "insert"
    BY DEF IInv, TypeOK, StoreTypeOK
  <1> HIDE DEF a, e, s, o
  <1>7. Promised(work', a, s, e)
    BY <1>1, <1>2, <1>3, <1>4, PutSequencePromises
  <1>8. WorkInv(w)'
    BY <1>5, <1>6, <1>7 DEF IInv, WorkInv, Callback
  <1>9. work' \in Tables
    BY <1>7 DEF Promised
  <1>10. fresh' \in [Writers -> BOOLEAN]
    BY DEF IInv, TypeOK
  <1> QED
    BY <1>8, <1>9, <1>10, StoringKeeps DEF Storing, Holding, Callback

\* The event completes the history up to its sequence row.
LEMMA StoreEventKeeps ==
    ASSUME IInv, NEW w \in Writers, StoreEvent(w)
    PROVE  IInv'
  <1> USE DEF StoreEvent, Goto, InCallback
  <1>1. Aggregate(w) \in Aggregates /\ Entry(w) \in Event /\ seq[w] \in Sequences
    BY StoringFacts DEF Storing
  <1>2. Promised(work, Aggregate(w), seq[w], Entry(w))
    BY DEF IInv, WorkInv
  <1>3. Sound(work')
    BY <1>1, <1>2, InsertKeepsPromise
  <1>4. pc'[w] = "commit"
    BY DEF IInv, TypeOK, StoreTypeOK
  <1>5. WorkInv(w)'
    BY <1>3, <1>4 DEF IInv, WorkInv, Callback
  <1>6. work' \in Tables
    BY <1>3 DEF Sound
  <1>7. fresh' \in [Writers -> BOOLEAN]
    BY DEF IInv, TypeOK
  <1> QED
    BY <1>5, <1>6, <1>7, StoringKeeps DEF Storing, Holding, Callback

------------------------------------------------------------------------------
\* Close takes the token for good.
LEMMA CloseKeeps ==
    ASSUME IInv, Close
    PROVE  IInv'
  <1> USE DEF Close, callVars
  <1>1. CASE CloseBegin
    <2> USE <1>1 DEF CloseBegin
    <2>1. TypeOK' /\ Sound(db)'
      BY DEF IInv, TypeOK, StoreTypeOK
    <2>2. TokenInv'
      BY DEF IInv, TokenInv, OneWriter
    <2>3. \A w \in Writers : CallInv(w)' /\ WorkInv(w)'
      BY DEF IInv, CallInv, WorkInv, Placed, Latest, Aggregate, Entry
    <2> QED
      BY <2>1, <2>2, <2>3 DEF IInv
  <1>2. CASE CloseFinish
    <2> USE <1>2 DEF CloseFinish
    <2>1. TypeOK' /\ Sound(db)'
      BY DEF IInv, TypeOK, StoreTypeOK
    <2>2. \A w \in Writers : pc[w] \notin Holding
      BY DEF IInv, TokenInv, OneWriter
    <2>3. TokenInv'
      BY <2>2 DEF TokenInv, OneWriter
    <2>4. \A w \in Writers : CallInv(w)' /\ WorkInv(w)'
      BY <2>2 DEF IInv, CallInv, WorkInv, Holding, Callback
    <2> QED
      BY <2>1, <2>3, <2>4 DEF IInv
  <1> QED
    BY <1>1, <1>2

\* A new process starts from the committed tables.
LEMMA RestartKeeps ==
    ASSUME IInv, Restart
    PROVE  IInv'
  <1> USE DEF Restart, StoreRestart
  <1>1. TypeOK'
    <2>1. StoreTypeOK'
      BY DEF IInv, TypeOK, StoreTypeOK, Control
    <2>2. fresh' \in [Writers -> BOOLEAN]
      OBVIOUS
    <2>3. /\ op' \in [Writers -> Requests \cup {NoRequest}]
          /\ at' \in [Writers -> Nat \ {0}]
          /\ seq' \in [Writers -> Sequences]
          /\ outcome' \in [Writers -> {"none", "ok", "error"}]
      BY TablesAssumption DEF Sequences
    <2> QED
      BY <2>1, <2>2, <2>3 DEF TypeOK
  <1>2. Sound(db)'
    BY DEF IInv
  <1>3. TokenInv'
    BY DEF TokenInv, OneWriter, Holding, Callback
  <1>4. \A w \in Writers : CallInv(w)' /\ WorkInv(w)'
    <2> SUFFICES ASSUME NEW w \in Writers
                 PROVE  CallInv(w)' /\ WorkInv(w)'
      OBVIOUS
    <2>1. pc'[w] = "idle" /\ at'[w] = 1 /\ op'[w] = NoRequest
      OBVIOUS
    <2>2. op'[w] \notin Requests
      BY <2>1, RequestsAssumption
    <2> QED
      BY <2>1, <2>2 DEF CallInv, WorkInv, Storing, Callback
  <1> QED
    BY <1>1, <1>2, <1>3, <1>4 DEF IInv

\* A stuttering step changes nothing.
LEMMA StutterKeeps ==
    ASSUME IInv, UNCHANGED vars
    PROVE  IInv'
  <1> USE DEF vars, storeVars, callVars
  <1>1. TypeOK' /\ Sound(db)'
    BY DEF IInv, TypeOK, StoreTypeOK
  <1>2. TokenInv'
    BY DEF IInv, TokenInv, OneWriter
  <1>3. \A w \in Writers : CallInv(w)' /\ WorkInv(w)'
    BY DEF IInv, CallInv, WorkInv, Placed, Latest, Aggregate, Entry
  <1> QED
    BY <1>1, <1>2, <1>3 DEF IInv

\* Every step of the specification keeps the invariant.
LEMMA NextKeeps ==
    ASSUME IInv, [Next]_vars
    PROVE  IInv'
  <1>1. CASE UNCHANGED vars
    BY <1>1, StutterKeeps
  <1>2. CASE Close
    BY <1>2, CloseKeeps
  <1>3. CASE Restart
    BY <1>3, RestartKeeps
  <1>4. ASSUME NEW w \in Writers, NEW r \in Requests, Submit(w, r)
        PROVE  IInv'
    BY <1>4, SubmitKeeps
  <1>5. ASSUME NEW w \in Writers, Fault(w)
        PROVE  IInv'
    BY <1>5, FaultKeeps
  <1>6. ASSUME NEW w \in Writers, Step(w)
        PROVE  IInv'
    BY <1>6, EnterKeeps, RefuseKeeps, ReleaseKeeps, NotifyKeeps, ReturnKeeps,
       CheckPublishKeeps, CheckReplayKeeps, ClaimKeeps, RemoveKeeps, ProjectKeeps,
       RunCommitHookKeeps, StoreSequenceKeeps, StoreEventKeeps, EndTxKeeps, UndoTxKeeps
    DEF Step
  <1> QED
    BY <1>1, <1>2, <1>3, <1>4, <1>5, <1>6 DEF Next

\* The invariant holds in every reachable state.
LEMMA InvariantHolds == Spec => []IInv
  BY InitIInv, NextKeeps, PTL DEF Spec

------------------------------------------------------------------------------
(* The theorems.                                                            *)

\* Every variable keeps its type.
THEOREM TypeCorrect == Spec => []TypeOK
  <1>1. IInv => TypeOK
    BY DEF IInv
  <1> QED
    BY <1>1, InvariantHolds, PTL

\* At most one writer is past the token, and none after Close has taken it.
THEOREM WritersExclude == Spec => []OneWriter
  <1>1. IInv => OneWriter
    BY DEF IInv, TokenInv
  <1> QED
    BY <1>1, InvariantHolds, PTL

\* Whenever the process dies, Open accepts the tables it left.
THEOREM AlwaysReopens == Spec => []ReopenAccepts
  <1>1. IInv => ReopenAccepts
    BY SoundPassesCheck DEF IInv, ReopenAccepts
  <1> QED
    BY <1>1, InvariantHolds, PTL

\* An event ID names one event of the whole store.
THEOREM IDsStayUnique == Spec => []IDsUnique
  <1>1. IInv => IDsUnique
    BY DEF IInv, IDsUnique, Sound
  <1> QED
    BY <1>1, InvariantHolds, PTL

\* The schema never refuses an event the service inserts.
THEOREM InsertsAreAccepted == Spec => []ConstraintsNeverBite
  <1>1. ASSUME IInv, NEW w \in Writers, pc[w] = "insert"
        PROVE  CanInsert(work, Aggregate(w), seq[w], Entry(w))
    BY <1>1, StoringFacts, InsertKeepsPromise DEF IInv, WorkInv, Storing
  <1>2. IInv => ConstraintsNeverBite
    BY <1>1 DEF ConstraintsNeverBite
  <1> QED
    BY <1>2, InvariantHolds, PTL
------------------------------------------------------------------------------
(* What the callers are told, and what a fenced store can still do.         *)
(* Counted extends IInv by the number of transactions of a call that took   *)
(* effect: the entries before the current one, and the current one from     *)
(* its COMMIT on.                                                           *)

\* Places from which the transaction of the current entry is yet to commit.
Ahead == {"call", "wait", "held", "commit"} \cup Callback

\* Places at which the current entry has been decided.
Decided == {"rollback", "release", "notify", "reply"}

Told(w) ==
    \/ outcome[w] = "ok" /\ applied[w] = at[w]
    \/ outcome[w] = "error" /\ applied[w] = at[w] - 1
    \/ outcome[w] = "error" /\ AmbiguousCommit /\ applied[w] = at[w]

Counted(w) ==
    /\ pc[w] = "idle" => applied[w] = 0
    /\ pc[w] \in Ahead => applied[w] = at[w] - 1
    /\ pc[w] \in Decided => Told(w)
    /\ pc[w] = "rollback" => outcome[w] = "error"
    /\ pc[w] = "notify" => outcome[w] = "ok"
    /\ pc[w] = "reply" /\ outcome[w] = "ok" => at[w] >= Total(op[w])

AnswerInv == IInv /\ \A w \in Writers : Counted(w)

------------------------------------------------------------------------------
\* What is said of another writer does not depend on this step.
LEMMA OthersCounted ==
    ASSUME NEW v \in Writers, Counted(v), pc'[v] = pc[v], op'[v] = op[v],
           at'[v] = at[v], applied'[v] = applied[v], outcome'[v] = outcome[v]
    PROVE  Counted(v)'
  BY DEF Counted, Told

\* The types that the steps of a call need.
LEMMA CallTypes ==
    ASSUME IInv
    PROVE  /\ pc \in [Writers -> Control]
           /\ op \in [Writers -> Requests \cup {NoRequest}]
           /\ at \in [Writers -> Nat \ {0}]
           /\ applied \in [Writers -> Nat]
           /\ outcome \in [Writers -> {"none", "ok", "error"}]
  BY DEF IInv, TypeOK, StoreTypeOK

\* A step within the store, or of the callback, moves a writer between places
\* that count the same.
LEMMA MovesCounted ==
    ASSUME AnswerInv, NEW w \in Writers, NEW l \in Control, pc' = [pc EXCEPT ![w] = l],
           op' = op, at' = at, applied' = applied, outcome' = outcome,
           \/ pc[w] \in Ahead /\ l \in Ahead
           \/ pc[w] = "rollback" /\ l = "release"
    PROVE  \A v \in Writers : Counted(v)'
  <1>1. Counted(w)'
    BY CallTypes DEF AnswerInv, Counted, Told, Ahead, Decided, Callback
  <1>2. \A v \in Writers \ {w} : Counted(v)'
    BY OthersCounted, CallTypes DEF AnswerInv
  <1> QED
    BY <1>1, <1>2

\* An error before the COMMIT decides the entry.
LEMMA ErrorCounted ==
    ASSUME AnswerInv, NEW w \in Writers, NEW l \in {"rollback", "release", "reply"},
           pc' = [pc EXCEPT ![w] = l], pc[w] \in Ahead,
           op' = op, at' = at, applied' = applied, outcome' = [outcome EXCEPT ![w] = "error"]
    PROVE  \A v \in Writers : Counted(v)'
  <1>1. Counted(w)'
    BY CallTypes DEF AnswerInv, Counted, Told, Ahead, Decided, Callback
  <1>2. \A v \in Writers \ {w} : Counted(v)'
    BY OthersCounted, CallTypes DEF AnswerInv
  <1> QED
    BY <1>1, <1>2

\* A COMMIT that takes effect counts, whatever it reports.
LEMMA CommitCounted ==
    ASSUME AnswerInv, NEW w \in Writers, pc[w] = "commit", op' = op, at' = at,
           applied' = [applied EXCEPT ![w] = @ + 1],
           \/ /\ pc' = [pc EXCEPT ![w] = "release"]
              /\ outcome' = [outcome EXCEPT ![w] = "ok"]
           \/ /\ AmbiguousCommit
              /\ pc' = [pc EXCEPT ![w] = "rollback"]
              /\ outcome' = [outcome EXCEPT ![w] = "error"]
    PROVE  \A v \in Writers : Counted(v)'
  <1>1. Counted(w)'
    BY CallTypes DEF AnswerInv, Counted, Told, Ahead, Decided, Callback
  <1>2. \A v \in Writers \ {w} : Counted(v)'
    BY OthersCounted, CallTypes DEF AnswerInv
  <1> QED
    BY <1>1, <1>2

\* The call goes on with the next entry after a success, or returns.
LEMMA NextEntryCounted ==
    ASSUME AnswerInv, NEW w \in Writers, pc[w] \in {"release", "notify"},
           applied' = applied, NextEntry(w)
    PROVE  \A v \in Writers : Counted(v)'
  <1> USE DEF NextEntry, Goto, Report
  <1>1. Total(op[w]) \in Nat \ {0}
    BY EntryFacts, RequestFacts DEF AnswerInv
  <1>2. CASE outcome[w] = "ok" /\ at[w] < Total(op[w]) /\ Goto(w, "call")
             /\ at' = [at EXCEPT ![w] = @ + 1]
    <2>1. applied[w] = at[w]
      BY <1>2 DEF AnswerInv, Counted, Told, Decided
    <2>2. pc'[w] = "call" /\ at'[w] = at[w] + 1 /\ applied'[w] = applied[w]
      BY <1>2, CallTypes DEF AnswerInv
    <2> QED
      BY <2>1, <2>2, CallTypes DEF AnswerInv, Counted, Told, Ahead, Decided, Callback
  <1>3. CASE (outcome[w] = "error" \/ at[w] >= Total(op[w])) /\ Goto(w, "reply")
             /\ UNCHANGED <<at, outcome>>
    BY <1>1, <1>3, CallTypes DEF AnswerInv, Counted, Told, Ahead, Decided, Callback
  <1>4. Counted(w)'
    BY <1>2, <1>3
  <1>5. \A v \in Writers \ {w} : Counted(v)'
    BY OthersCounted, CallTypes DEF AnswerInv
  <1> QED
    BY <1>4, <1>5

------------------------------------------------------------------------------
\* The steps of a writer on its way through Write.
LEMMA StoreStepCounted ==
    ASSUME AnswerInv, NEW w \in Writers,
           Enter(w) \/ Refuse(w) \/ Fault(w) \/ EndTx(w) \/ UndoTx(w)
    PROVE  \A v \in Writers : Counted(v)'
  <1> USE DEF Goto, Report, callVars
  <1>1. CASE Enter(w)
    BY <1>1, MovesCounted DEF Enter, EnterWrite, AcquireToken, Begin, Control, Holding, Callback, Ahead
  <1>2. CASE Refuse(w)
    BY <1>2, ErrorCounted DEF Refuse, FenceWrite, FenceHolder, Ahead
  <1>3. CASE Fault(w)
    BY <1>3, ErrorCounted, CommitCounted
    DEF Fault, CancelWrite, BeginFails, CallbackFails, CommitFails, CommitUnreported, Ahead
  <1>4. CASE EndTx(w)
    BY <1>4, CommitCounted DEF EndTx, Commit
  <1>5. CASE UndoTx(w)
    BY <1>5, MovesCounted DEF UndoTx, Rollback, RollbackFails, Control, Holding
  <1> QED
    BY <1>1, <1>2, <1>3, <1>4, <1>5

\* The steps of the callbacks, none of which decides the entry but an error.
LEMMA CallbackStepCounted ==
    ASSUME AnswerInv, NEW w \in Writers,
           \/ CheckPublish(w) \/ CheckReplay(w) \/ Claim(w) \/ Remove(w)
           \/ Project(w) \/ RunCommitHook(w) \/ StoreSequence(w) \/ StoreEvent(w)
    PROVE  \A v \in Writers : Counted(v)'
  <1> USE DEF Goto, Report, callVars, InCallback
  <1>1. ASSUME pc[w] = "check", Reject(w)
        PROVE  \A v \in Writers : Counted(v)'
    BY <1>1, ErrorCounted DEF Reject, Ahead, Callback
  <1>2. ASSUME pc[w] = "check", NEW s, Accept(w, s)
        PROVE  \A v \in Writers : Counted(v)'
    BY <1>2, MovesCounted DEF Accept, Ahead, Callback, Control, Holding
  <1>3. ASSUME pc[w] = "check", NEW t, Finish(w, t)
        PROVE  \A v \in Writers : Counted(v)'
    BY <1>3, MovesCounted DEF Finish, Ahead, Callback, Control, Holding
  <1>4. CASE CheckPublish(w)
    BY <1>1, <1>2, <1>4 DEF CheckPublish, Running
  <1>5. CASE CheckReplay(w)
    BY <1>1, <1>2, <1>3, <1>5 DEF CheckReplay, Running
  <1>6. CASE Claim(w) \/ Remove(w)
    BY <1>3, <1>6 DEF Claim, Remove, Running
  <1>7. CASE Project(w) \/ RunCommitHook(w) \/ StoreSequence(w)
    BY <1>7, MovesCounted DEF Project, RunCommitHook, StoreSequence, Ahead, Callback, Control, Holding
  <1>8. CASE StoreEvent(w)
    BY <1>8, MovesCounted DEF StoreEvent, Ahead, Callback, Control, Holding
  <1> QED
    BY <1>4, <1>5, <1>6, <1>7, <1>8

\* The end of Write and of the call.
LEMMA EndStepCounted ==
    ASSUME AnswerInv, NEW w \in Writers, Release(w) \/ Notify(w) \/ Return(w)
    PROVE  \A v \in Writers : Counted(v)'
  <1>1. CASE Release(w) /\ ToNotify(w)
    <2> USE <1>1 DEF Release, ToNotify, Goto, callVars
    <2>1. Counted(w)'
      BY CallTypes DEF AnswerInv, Counted, Told, Ahead, Decided, Callback
    <2>2. \A v \in Writers \ {w} : Counted(v)'
      BY OthersCounted, CallTypes DEF AnswerInv
    <2> QED
      BY <2>1, <2>2
  <1>2. CASE Release(w) /\ ~ToNotify(w)
    BY <1>2, NextEntryCounted DEF Release
  <1>3. CASE Notify(w)
    BY <1>3, NextEntryCounted DEF Notify
  <1>4. CASE Return(w)
    <2> USE <1>4 DEF Return, Goto
    <2>1. pc'[w] = "idle" /\ applied'[w] = 0
      BY CallTypes DEF AnswerInv
    <2>2. Counted(w)'
      BY <2>1 DEF Counted, Ahead, Decided, Callback
    <2>3. \A v \in Writers \ {w} : Counted(v)'
      BY OthersCounted, CallTypes DEF AnswerInv
    <2> QED
      BY <2>2, <2>3
  <1> QED
    BY <1>1, <1>2, <1>3, <1>4

\* A call begins with nothing applied.
LEMMA SubmitCounted ==
    ASSUME AnswerInv, NEW w \in Writers, NEW r \in Requests, Submit(w, r)
    PROVE  \A v \in Writers : Counted(v)'
  <1> USE DEF Submit, Goto
  <1>1. at[w] = 1 /\ applied[w] = 0
    BY DEF AnswerInv, IInv, CallInv, Counted
  <1>2. pc'[w] = "call" /\ at' = at /\ applied' = applied
    BY CallTypes DEF AnswerInv
  <1>3. Counted(w)'
    BY <1>1, <1>2 DEF Counted, Ahead, Decided, Callback
  <1>4. \A v \in Writers \ {w} : Counted(v)'
    BY OthersCounted, CallTypes DEF AnswerInv
  <1> QED
    BY <1>3, <1>4

\* Every step keeps the count.
LEMMA NextCounted ==
    ASSUME AnswerInv, [Next]_vars
    PROVE  AnswerInv'
  <1>1. ASSUME UNCHANGED vars \/ Close
        PROVE  \A v \in Writers : Counted(v)'
    <2> SUFFICES ASSUME NEW v \in Writers
                 PROVE  Counted(v)'
      OBVIOUS
    <2>1. UNCHANGED <<pc, op, at, applied, outcome>>
      BY <1>1 DEF vars, storeVars, callVars, Close, CloseBegin, CloseFinish
    <2> QED
      BY <2>1, OthersCounted DEF AnswerInv
  <1>2. ASSUME Restart
        PROVE  \A v \in Writers : Counted(v)'
    <2> SUFFICES ASSUME NEW v \in Writers
                 PROVE  Counted(v)'
      OBVIOUS
    <2>1. pc'[v] = "idle" /\ applied'[v] = 0
      BY <1>2 DEF Restart, StoreRestart
    <2> QED
      BY <2>1 DEF Counted, Ahead, Decided, Callback
  <1>3. ASSUME NEW w \in Writers, NEW r \in Requests, Submit(w, r)
        PROVE  \A v \in Writers : Counted(v)'
    BY <1>3, SubmitCounted
  <1>4. ASSUME NEW w \in Writers, Step(w) \/ Fault(w)
        PROVE  \A v \in Writers : Counted(v)'
    BY <1>4, StoreStepCounted, CallbackStepCounted, EndStepCounted DEF Step
  <1>5. \A v \in Writers : Counted(v)'
    BY <1>1, <1>2, <1>3, <1>4 DEF Next, AnswerInv
  <1> QED
    BY <1>5, NextKeeps DEF AnswerInv

LEMMA AnswerInvHolds == Spec => []AnswerInv
  <1>1. Init => AnswerInv
    BY InitIInv DEF Init, StoreInit, CallInit, AnswerInv, Counted, Ahead, Decided, Callback
  <1> QED
    BY <1>1, NextCounted, PTL DEF Spec

------------------------------------------------------------------------------
(* The theorems.                                                            *)

\* Nobody hears of an event whose transaction has not committed.
THEOREM NoticesAreTrue == Spec => []NoticeFollowsCommit
  <1>1. AnswerInv => NoticeFollowsCommit
    BY CallTypes DEF AnswerInv, Counted, Told, Decided, NoticeFollowsCommit
  <1> QED
    BY <1>1, AnswerInvHolds, PTL

\* Where an error of COMMIT means that nothing was committed, the answer of
\* every call says exactly which of its transactions took effect.
THEOREM AnswersAreTrue ==
    ASSUME ~AmbiguousCommit
    PROVE  Spec => []AnswerIsTrue
  <1>1. ASSUME AnswerInv, NEW w \in Writers, pc[w] = "reply"
        PROVE  applied[w] = IF outcome[w] = "ok" THEN Total(op[w]) ELSE at[w] - 1
    <2>1. Told(w) /\ (outcome[w] = "ok" => at[w] >= Total(op[w]))
      BY <1>1 DEF AnswerInv, Counted, Decided
    <2>2. at[w] \in 1 .. Total(op[w]) /\ Total(op[w]) \in Nat
      BY <1>1, EntryFacts, RequestFacts DEF AnswerInv
    <2> QED
      BY <2>1, <2>2 DEF Told
  <1>2. AnswerInv => AnswerIsTrue
    BY <1>1 DEF AnswerIsTrue
  <1> QED
    BY <1>2, AnswerInvHolds, PTL

------------------------------------------------------------------------------
(* What a transaction has projected.  Started extends IInv by what has      *)
(* become of the committed tables in the transaction: nothing before the    *)
(* projectors run, their row afterwards, and at COMMIT the event of that    *)
(* row is stored.                                                           *)

Started(w) ==
    /\ pc[w] \in {"check", "project"} => work = db
    /\ pc[w] \in {"hook", "sequence", "insert"} =>
        /\ work.row = db.row
        /\ work.projection = ProjectEvent(db, Aggregate(w), seq[w], Entry(w)).projection
    /\ pc[w] = "commit" => ProjectsStored(db, work)

StartInv == IInv /\ \A w \in Writers : Started(w)

\* A step of w leaves what is said of another writer, who holds no token when w
\* does.
LEMMA OthersStarted ==
    ASSUME StartInv, NEW w \in Writers, NEW v \in Writers \ {w},
           pc'[v] = pc[v], op'[v] = op[v], at'[v] = at[v], seq'[v] = seq[v],
           pc[w] \in Holding \/ UNCHANGED <<work, db>>
    PROVE  Started(v)'
  <1>1. CASE pc[w] \in Holding
    <2>1. pc[v] \notin Holding
      BY <1>1 DEF StartInv, IInv, TokenInv, OneWriter
    <2> QED
      BY <2>1 DEF Started, Holding, Callback
  <1>2. CASE UNCHANGED <<work, db>>
    BY <1>2 DEF StartInv, Started, Aggregate, Entry
  <1> QED
    BY <1>1, <1>2

\* So it is enough to look at the writer that moves.
LEMMA MoverStarted ==
    ASSUME StartInv, NEW w \in Writers, NEW l, pc' = [pc EXCEPT ![w] = l],
           \A v \in Writers \ {w} : op'[v] = op[v] /\ at'[v] = at[v] /\ seq'[v] = seq[v],
           pc[w] \in Holding \/ UNCHANGED <<work, db>>,
           l \in Callback \cup {"commit"} => Started(w)'
    PROVE  \A v \in Writers : Started(v)'
  <1>1. pc'[w] = l /\ \A v \in Writers \ {w} : pc'[v] = pc[v]
    BY CallTypes DEF StartInv
  <1>2. Started(w)'
    BY <1>1 DEF Started, Callback
  <1> QED
    BY <1>1, <1>2, OthersStarted

\* The steps of a writer on its way through Write.
LEMMA StoreStepStarted ==
    ASSUME StartInv, NEW w \in Writers,
           Enter(w) \/ Refuse(w) \/ Fault(w) \/ EndTx(w) \/ UndoTx(w)
    PROVE  \A v \in Writers : Started(v)'
  <1> USE DEF Goto, Report, callVars, Callback, Holding
  <1>1. CASE Enter(w)
    <2>1. CASE Begin(w)
      <3>1. pc'[w] = "check" /\ work' = db /\ db' = db
        BY <2>1, CallTypes DEF StartInv, Begin
      <3>2. Started(w)'
        BY <3>1 DEF Started
      <3> QED
        BY <1>1, <2>1, <3>2, MoverStarted DEF Enter, Begin
    <2> QED
      BY <1>1, <2>1, MoverStarted DEF Enter, EnterWrite, AcquireToken
  <1>2. CASE Refuse(w)
    BY <1>2, MoverStarted DEF Refuse, FenceWrite, FenceHolder
  <1>3. CASE Fault(w)
    BY <1>3, MoverStarted
    DEF Fault, CancelWrite, BeginFails, CallbackFails, CommitFails, CommitUnreported
  <1>4. CASE EndTx(w)
    BY <1>4, MoverStarted DEF EndTx, Commit
  <1>5. CASE UndoTx(w)
    BY <1>5, MoverStarted DEF UndoTx, Rollback, RollbackFails
  <1> QED
    BY <1>1, <1>2, <1>3, <1>4, <1>5

\* A callback that stores no event projects nothing.
LEMMA FinishStarted ==
    ASSUME StartInv, NEW w \in Writers, pc[w] = "check", NEW t, Finish(w, t),
           t.projection = work.projection
    PROVE  \A v \in Writers : Started(v)'
  <1> USE DEF Finish, Goto, callVars, InCallback
  <1>1. pc'[w] = "commit" /\ db' = db /\ work'.projection = db.projection
    BY CallTypes DEF StartInv, Started
  <1>2. Started(w)'
    BY <1>1 DEF Started, ProjectsStored
  <1> QED
    BY <1>2, MoverStarted DEF Holding, Callback

\* Claim, Remove, and the checks of Publish and Replay.
LEMMA CheckStarted ==
    ASSUME StartInv, NEW w \in Writers,
           CheckPublish(w) \/ CheckReplay(w) \/ Claim(w) \/ Remove(w)
    PROVE  \A v \in Writers : Started(v)'
  <1> USE DEF Goto, Report, callVars, InCallback, Running
  <1>0. pc[w] = "check" /\ work \in Tables
    BY DEF CheckPublish, CheckReplay, Claim, Remove, StartInv, IInv, TypeOK, StoreTypeOK
  <1>1. ASSUME Reject(w) PROVE \A v \in Writers : Started(v)'
    BY <1>0, <1>1, MoverStarted DEF Reject, Callback, Holding
  <1>2. ASSUME NEW s, Accept(w, s) PROVE \A v \in Writers : Started(v)'
    <2>1. pc'[w] = "project" /\ work' = db /\ db' = db
      BY <1>0, <1>2, CallTypes DEF StartInv, Started, Accept
    <2>2. Started(w)'
      BY <2>1 DEF Started
    <2>3. \A v \in Writers \ {w} : seq'[v] = seq[v]
      BY <1>2 DEF Accept, StartInv, IInv, TypeOK
    <2> QED
      BY <1>0, <1>2, <2>2, <2>3, MoverStarted DEF Accept, Callback, Holding
  <1>3. ASSUME NEW a, NEW s, NEW o PROVE PutSequence(work, a, s, o).projection = work.projection
    BY <1>0 DEF PutSequence, Tables
  <1>4. CASE CheckPublish(w)
    BY <1>1, <1>2, <1>4 DEF CheckPublish
  <1>5. CASE CheckReplay(w)
    BY <1>0, <1>1, <1>2, <1>3, <1>5, FinishStarted DEF CheckReplay, Acknowledged
  <1>6. CASE Claim(w)
    BY <1>0, <1>3, <1>6, FinishStarted DEF Claim
  <1>7. CASE Remove(w)
    <2>1. DeleteAggregate(work, Aggregate(w)).projection = work.projection
      BY <1>0 DEF DeleteAggregate, Tables
    <2> QED
      BY <1>0, <1>7, <2>1, FinishStarted DEF Remove
  <1> QED
    BY <1>4, <1>5, <1>6, <1>7

\* The steps that store an event: what they project is the event they insert.
LEMMA StoringStarted ==
    ASSUME StartInv, NEW w \in Writers,
           Project(w) \/ RunCommitHook(w) \/ StoreSequence(w) \/ StoreEvent(w)
    PROVE  \A v \in Writers : Started(v)'
  <1> USE DEF Goto, callVars, InCallback
  <1> DEFINE a == Aggregate(w)
             s == seq[w]
             e == Entry(w)
             p == [db.projection EXCEPT ![a] = [db.projection[a] EXCEPT ![s] = e]]
  <1>0. work \in Tables /\ db \in Tables /\ IInv /\ pc[w] \in Storing
    BY DEF StartInv, IInv, TypeOK, StoreTypeOK, Project, RunCommitHook, StoreSequence, StoreEvent, Storing
  <1>1. a \in Aggregates /\ s \in Sequences /\ e \in Event
    BY <1>0, StoringFacts
  <1>2. ProjectEvent(db, a, s, e).projection = p
    BY <1>0, <1>1, ProjectEventFields
  <1>3. a' = a /\ s' = s /\ e' = e /\ db' = db
    BY DEF Project, RunCommitHook, StoreSequence, StoreEvent, Aggregate, Entry
  <1>4. ASSUME pc'[w] \in {"hook", "sequence", "insert"}, work'.row = db.row, work'.projection = p
        PROVE  Started(w)'
    BY <1>2, <1>3, <1>4 DEF Started
  <1>5. CASE Project(w)
    <2>1. pc'[w] \in {"hook", "sequence"} /\ work = db /\ work' = ProjectEvent(db, a, s, e)
      BY <1>5, CallTypes DEF StartInv, Started, Project
    <2>2. work'.row = db.row /\ work'.projection = p
      BY <1>0, <1>1, <2>1, ProjectEventFields
    <2>3. Started(w)'
      BY <1>4, <2>1, <2>2
    <2> QED
      BY <1>5, <2>3, MoverStarted DEF Project, Holding, Callback
  <1>6. ASSUME pc[w] \in {"hook", "sequence", "insert"}
        PROVE  work.row = db.row /\ work.projection = p
    BY <1>2, <1>6 DEF StartInv, Started
  <1>7. CASE RunCommitHook(w)
    <2>1. pc'[w] = "sequence" /\ work' = work
      BY <1>7, CallTypes DEF StartInv, RunCommitHook
    <2>2. Started(w)'
      BY <1>4, <1>6, <1>7, <2>1 DEF RunCommitHook
    <2> QED
      BY <1>7, <2>2, MoverStarted DEF RunCommitHook, Holding, Callback
  <1>8. CASE StoreSequence(w)
    <2>1. pc'[w] = "insert" /\ work'.row = work.row /\ work'.projection = work.projection
      BY <1>0, <1>8, CallTypes DEF StartInv, StoreSequence, PutSequence, Tables
    <2>2. Started(w)'
      BY <1>4, <1>6, <1>8, <2>1 DEF StoreSequence
    <2> QED
      BY <1>8, <2>2, MoverStarted DEF StoreSequence, Holding, Callback
  <1>9. CASE StoreEvent(w)
    <2>1. pc'[w] = "commit" /\ work' = InsertEvent(work, a, s, e)
      BY <1>9, CallTypes DEF StartInv, StoreEvent
    <2>2. work'.projection = p /\ work'.row = [db.row EXCEPT ![a] = [db.row[a] EXCEPT ![s] = e]]
      BY <1>0, <1>1, <1>6, <1>9, <2>1, InsertEventFields DEF StoreEvent
    <2>3. db.row[a][s] = NoRow
      BY <1>6, <1>9 DEF StoreEvent, CanInsert
    <2>4. ASSUME NEW b \in Aggregates, NEW u \in Sequences, p[b][u] # db.projection[b][u]
          PROVE  b = a /\ u = s
      BY <1>0, <1>1, <2>4 DEF Tables
    <2>5. p[a][s] = e /\ work'.row[a][s] = e
      BY <1>0, <1>1, <2>2 DEF Tables
    <2>6. ProjectsStored(db, work')
      BY <2>2, <2>3, <2>4, <2>5 DEF ProjectsStored
    <2>7. Started(w)'
      BY <1>3, <2>1, <2>6 DEF Started
    <2> QED
      BY <1>9, <2>7, MoverStarted DEF StoreEvent, Holding, Callback
  <1> QED
    BY <1>5, <1>7, <1>8, <1>9

\* The end of Write and of the call, and its beginning.
LEMMA CallStepStarted ==
    ASSUME StartInv, NEW w \in Writers,
           Release(w) \/ Notify(w) \/ Return(w) \/ \E r \in Requests : Submit(w, r)
    PROVE  \A v \in Writers : Started(v)'
  <1> USE DEF Goto, Report, callVars, NextEntry
  <1>1. /\ op \in [Writers -> Requests \cup {NoRequest}] /\ at \in [Writers -> Nat \ {0}]
        /\ seq \in [Writers -> Sequences]
    BY DEF StartInv, IInv, TypeOK
  <1>2. UNCHANGED <<work, db>>
    BY DEF Release, Notify, Return, Submit
  <1>3. \A v \in Writers \ {w} : op'[v] = op[v] /\ at'[v] = at[v] /\ seq'[v] = seq[v]
    BY <1>1 DEF Release, Notify, Return, Submit
  <1>4. \E l \in {"notify", "call", "reply", "idle"} : pc' = [pc EXCEPT ![w] = l]
    BY DEF Release, Notify, Return, Submit
  <1> QED
    BY <1>2, <1>3, <1>4, MoverStarted DEF Callback

\* Every step keeps what is said of the transactions.
LEMMA NextStarted == StartInv /\ [Next]_vars => StartInv'
  <1> SUFFICES ASSUME StartInv, [Next]_vars PROVE \A v \in Writers : Started(v)'
    BY NextKeeps DEF StartInv
  <1>1. CASE UNCHANGED vars
    BY <1>1 DEF StartInv, Started, Aggregate, Entry, vars, storeVars, callVars
  <1>2. CASE Close
    <2>1. CASE CloseBegin
      BY <1>2, <2>1 DEF Close, StartInv, Started, Aggregate, Entry, CloseBegin, callVars
    <2>2. CASE CloseFinish
      <3>1. \A v \in Writers : pc[v] \notin Holding
        BY <2>2 DEF CloseFinish, StartInv, IInv, TokenInv, OneWriter
      <3> QED
        BY <2>2, <3>1 DEF CloseFinish, Started, Holding, Callback
    <2> QED
      BY <1>2, <2>1, <2>2 DEF Close
  <1>3. CASE Restart
    BY <1>3 DEF Restart, StoreRestart, Started
  <1>4. ASSUME NEW w \in Writers, Step(w) \/ Fault(w) \/ \E r \in Requests : Submit(w, r)
        PROVE  \A v \in Writers : Started(v)'
    BY <1>4, StoreStepStarted, CheckStarted, StoringStarted, CallStepStarted DEF Step
  <1> QED
    BY <1>1, <1>2, <1>3, <1>4 DEF Next

LEMMA StartInvHolds == Spec => []StartInv
  <1>1. Init => StartInv
    BY InitIInv DEF Init, StoreInit, CallInit, StartInv, Started
  <1> QED
    BY <1>1, NextStarted, PTL DEF Spec

\* Only a COMMIT changes the committed tables.
LEMMA CommitsOnly ==
    ASSUME [Next]_vars
    PROVE  db' = db \/ \E w \in Writers : (pc[w] = "commit" /\ db' = work)
  <1>1. CASE UNCHANGED vars
    BY <1>1 DEF vars, storeVars
  <1>2. CASE Close \/ Restart
    BY <1>2 DEF Close, CloseBegin, CloseFinish, Restart, StoreRestart
  <1>3. ASSUME NEW w \in Writers, \E r \in Requests : Submit(w, r)
        PROVE  db' = db
    BY <1>3 DEF Submit
  <1>4. ASSUME NEW w \in Writers, Fault(w) \/ EndTx(w) \/ UndoTx(w) \/ Enter(w) \/ Refuse(w)
        PROVE  db' = db \/ (pc[w] = "commit" /\ db' = work)
    <2>1. CASE Fault(w)
      BY <2>1 DEF Fault, CancelWrite, BeginFails, CallbackFails, CommitFails, CommitUnreported
    <2>2. CASE EndTx(w) \/ UndoTx(w)
      BY <2>2 DEF EndTx, UndoTx, Commit, Rollback, RollbackFails
    <2>3. CASE Enter(w) \/ Refuse(w)
      BY <2>3 DEF Enter, Refuse, EnterWrite, AcquireToken, Begin, FenceWrite, FenceHolder
    <2> QED
      BY <1>4, <2>1, <2>2, <2>3
  <1>5. ASSUME NEW w \in Writers, Release(w) \/ Notify(w) \/ Return(w)
        PROVE  db' = db
    BY <1>5 DEF Release, Notify, Return
  <1>6. ASSUME NEW w \in Writers, CheckPublish(w) \/ CheckReplay(w) \/ Claim(w) \/ Remove(w)
        PROVE  db' = db
    BY <1>6 DEF CheckPublish, CheckReplay, Claim, Remove, Reject, Accept, Finish, InCallback
  <1>7. ASSUME NEW w \in Writers,
               Project(w) \/ RunCommitHook(w) \/ StoreSequence(w) \/ StoreEvent(w)
        PROVE  db' = db
    BY <1>7 DEF Project, RunCommitHook, StoreSequence, StoreEvent, InCallback
  <1> QED
    BY <1>1, <1>2, <1>3, <1>4, <1>5, <1>6, <1>7 DEF Next, Step

\* An event and its projections are committed together: no committed event is
\* without them, and no transaction commits a projection without its event
\* (Publish, Replay and their rollback).
THEOREM ProjectionsAreAtomic == Spec => ProjectedTogether
  <1>1. IInv => Projected(db)
    BY DEF IInv, Sound
  <1>2. ASSUME StartInv, [Next]_vars
        PROVE  ProjectsStored(db, db')
    <2>1. CASE db' = db
      BY <2>1 DEF ProjectsStored
    <2>2. ASSUME NEW w \in Writers, pc[w] = "commit", db' = work
          PROVE  ProjectsStored(db, db')
      BY <1>2, <2>2 DEF StartInv, Started, ProjectsStored
    <2> QED
      BY <1>2, <2>1, <2>2, CommitsOnly
  <1>3. StartInv /\ [Next]_vars => [ProjectsStored(db, db')]_vars
    BY <1>2
  <1> QED
    BY <1>1, <1>3, InvariantHolds, StartInvHolds, PTL DEF Spec, ProjectedTogether

\* A store that is broken or closed never changes its file again.
THEOREM FencedStaysFrozen == Spec => FencedStoreIsFrozen
  <1>1. ASSUME IInv, [Next]_vars, broken \/ closer = "closed"
        PROVE  db' = db
    <2>1. \A w \in Writers : pc[w] # "commit"
      BY <1>1 DEF IInv, TokenInv, OneWriter, WorkInv, Holding
    <2> QED
      BY <1>1, <2>1, CommitsOnly
  <1>2. IInv /\ [Next]_vars => [broken \/ closer = "closed" => db' = db]_vars
    BY <1>1
  <1> QED
    BY <1>2, InvariantHolds, PTL DEF Spec, FencedStoreIsFrozen
==============================================================================
