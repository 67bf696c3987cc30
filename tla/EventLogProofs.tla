---------------------------- MODULE EventLogProofs ----------------------------
(****************************************************************************)
(* EventService implements the abstract EventLog.  EffectAt says, for every *)
(* step of a callback, how the tables of the running transaction differ     *)
(* from the committed ones, so that a COMMIT, reported or not, is one step  *)
(* of the abstract log, and every other step of the service is none.        *)
(****************************************************************************)
EXTENDS EventServiceProofs, SequenceTheorems

\* How tables u differ from tables t, as far as the abstract log sees them: not
\* at all, in the sequence row of an aggregate, by an event, in an owner, or by
\* an aggregate that is gone.
SameLog(t, u) == u.latest = t.latest /\ u.owner = t.owner /\ u.row = t.row

Announces(t, u, a, s, o) ==
    /\ u.latest = [t.latest EXCEPT ![a] = s]
    /\ u.owner = [t.owner EXCEPT ![a] = o]
    /\ u.row = t.row

Appends(t, u, a, s, e, o) ==
    /\ u.latest = [t.latest EXCEPT ![a] = s]
    /\ u.owner = [t.owner EXCEPT ![a] = o]
    /\ u.row = [t.row EXCEPT ![a] = [t.row[a] EXCEPT ![s] = e]]

Reowns(t, u, a, o) ==
    /\ t.latest[a] # Missing
    /\ u.latest = t.latest
    /\ u.owner = [t.owner EXCEPT ![a] = o]
    /\ u.row = t.row

Removes(t, u, a) ==
    /\ u.latest = [t.latest EXCEPT ![a] = Missing]
    /\ u.owner = [t.owner EXCEPT ![a] = NoOwner]
    /\ u.row = [t.row EXCEPT ![a] = NoRows]

\* The committed owner of the aggregate a writer works on, and the one that its
\* publication or replay leaves it with.
Before(w) == db.owner[Aggregate(w)]
After(w) == IF op[w].kind = "replay" /\ Before(w) = NoOwner THEN op[w].owner ELSE Before(w)

\* The event has the next place in the committed history, its ID is new to the
\* committed tables, and the aggregate is not another's.
Appendable(w) ==
    /\ seq[w] = db.latest[Aggregate(w)] + 1
    /\ EventByID(db, Entry(w).id) = {}
    /\ op[w].kind = "publish" \/ Before(w) \in {NoOwner, op[w].owner}

\* What the COMMIT of each kind of call does to the committed tables.
CommitAt(w) ==
    \/ /\ op[w].kind \in {"publish", "replay"}
       /\ Appendable(w)
       /\ Appends(db, work, Aggregate(w), seq[w], Entry(w), After(w))
    \/ op[w].kind = "replay" /\ Reowns(db, work, Aggregate(w), After(w))
    \/ op[w].kind \in {"replay", "claim"} /\ SameLog(db, work)
    \/ op[w].kind = "claim" /\ Reowns(db, work, Aggregate(w), op[w].owner)
    \/ op[w].kind = "remove" /\ Removes(db, work, Aggregate(w))

EffectAt(w) ==
    /\ pc[w] = "check" => work = db
    /\ pc[w] \in Storing => Appendable(w)
    /\ pc[w] \in {"project", "hook", "sequence"} => SameLog(db, work)
    /\ pc[w] = "insert" => Announces(db, work, Aggregate(w), seq[w], After(w))
    /\ pc[w] = "commit" => CommitAt(w)

LogInv == IInv /\ \A w \in Writers : EffectAt(w)

------------------------------------------------------------------------------
(* The abstract log that tables stand for.                                  *)

HistoryOf(t, a) == [i \in 1 .. t.latest[a] + 1 |-> t.row[a][i - 1]]
LogOf(t) == [a \in Aggregates |-> HistoryOf(t, a)]

\* The histories of sound tables are sequences of events.
LEMMA HistoryTyped ==
    ASSUME NEW t, Sound(t), NEW a \in Aggregates
    PROVE  /\ HistoryOf(t, a) \in Seq(Event)
           /\ Len(HistoryOf(t, a)) = t.latest[a] + 1
           /\ t.latest[a] + 1 \in 0 .. MaxSequence + 1
  <1>1. PICK n \in Nat : n = t.latest[a] + 1 /\ n <= MaxSequence + 1
    BY TablesAssumption DEF Sound, Tables, Sequences, Missing
  <1>2. ASSUME NEW i \in 1 .. n PROVE t.row[a][i - 1] \in Event
    <2>1. i - 1 \in Sequences /\ i - 1 <= t.latest[a]
      <3>1. PICK m \in Int : m = t.latest[a]
        BY DEF Sound, Tables, Sequences, Missing
      <3>. QED
        BY <1>1, <3>1, TablesAssumption DEF Sequences
    <2>. QED
      BY <2>1 DEF Sound, Dense, Tables
  <1> DEFINE h == [i \in 1 .. n |-> t.row[a][i - 1]]
  <1>3. h \in Seq(Event) /\ Len(h) = n
    BY <1>2
  <1>4. HistoryOf(t, a) = h
    BY <1>1 DEF HistoryOf
  <1>. QED
    BY <1>1, <1>3, <1>4, TablesAssumption

\* An aggregate that is missing has the empty history.
LEMMA MissingHistory ==
    ASSUME NEW t, Sound(t), NEW a \in Aggregates
    PROVE  HistoryOf(t, a) = <<>> <=> t.latest[a] = Missing
  <1>1. HistoryOf(t, a) = <<>> <=> Len(HistoryOf(t, a)) = 0
    BY HistoryTyped, EmptySeq
  <1>2. t.latest[a] \in Int
    BY DEF Sound, Tables, Sequences, Missing
  <1>. QED
    BY <1>1, <1>2, HistoryTyped DEF Missing

\* A history depends on the rows and the sequence row of its aggregate alone.
LEMMA SameHistory ==
    ASSUME NEW t, NEW u, NEW a \in Aggregates, u.latest[a] = t.latest[a], u.row[a] = t.row[a]
    PROVE  HistoryOf(u, a) = HistoryOf(t, a)
  BY DEF HistoryOf

\* An event stored at the next place is one more event at the end.
LEMMA AppendsToLog ==
    ASSUME NEW t, Sound(t), NEW u, Sound(u), NEW a \in Aggregates, NEW s \in Sequences, NEW e \in Event, NEW o,
           Appends(t, u, a, s, e, o), s = t.latest[a] + 1
    PROVE  LogOf(u) = [LogOf(t) EXCEPT ![a] = Append(LogOf(t)[a], e)] /\ Len(LogOf(t)[a]) < MaxSequence + 1
  <1>1. /\ u.latest[a] = s /\ \A b \in Aggregates : b # a => u.latest[b] = t.latest[b] /\ u.row[b] = t.row[b]
        /\ u.row[a] = [t.row[a] EXCEPT ![s] = e]
    BY DEF Appends, Sound, Tables
  <1>2. PICK h \in Seq(Event) : h = HistoryOf(t, a) /\ Len(h) = s
    BY HistoryTyped
  <1>3. PICK g \in Seq(Event) : g = HistoryOf(u, a) /\ Len(g) = s + 1
    BY <1>1, HistoryTyped
  <1>4. Append(h, e) \in Seq(Event) /\ Len(Append(h, e)) = s + 1
    BY <1>2, AppendProperties
  <1>5. s \in Nat /\ s <= MaxSequence
    BY TablesAssumption DEF Sequences
  <1>6. ASSUME NEW i \in 1 .. s + 1 PROVE g[i] = Append(h, e)[i]
    <2>1. g[i] = u.row[a][i - 1]
      BY <1>1, <1>3, <1>5 DEF HistoryOf
    <2>2. i - 1 \in Sequences
      BY <1>5, TablesAssumption DEF Sequences
    <2>3. u.row[a][i - 1] = IF i - 1 = s THEN e ELSE t.row[a][i - 1]
      BY <1>1, <2>2 DEF Sound, Tables
    <2>4. CASE i = s + 1
      BY <1>2, <1>5, <2>1, <2>3, <2>4, AppendProperties
    <2>5. CASE i \in 1 .. s
      <3>1. Append(h, e)[i] = h[i]
        BY <1>2, <2>5, AppendProperties
      <3>2. h[i] = t.row[a][i - 1]
        BY <1>2, <1>5, <2>5 DEF HistoryOf
      <3>. QED
        BY <1>5, <2>1, <2>3, <2>5, <3>1, <3>2
    <2>6. i = s + 1 \/ i \in 1 .. s
      BY <1>5
    <2>. QED
      BY <2>4, <2>5, <2>6, Zenon
  <1>7. g = Append(h, e)
    BY <1>3, <1>4, <1>6, SeqEqual
  <1>8. \A b \in Aggregates : b # a => HistoryOf(u, b) = HistoryOf(t, b)
    BY <1>1, SameHistory
  <1>9. LogOf(u) = [LogOf(t) EXCEPT ![a] = Append(LogOf(t)[a], e)]
    <2>1. LogOf(t)[a] = h
      BY <1>2 DEF LogOf
    <2>2. \A b \in Aggregates : LogOf(u)[b] = [LogOf(t) EXCEPT ![a] = Append(h, e)][b]
      BY <1>3, <1>7, <1>8 DEF LogOf
    <2>. QED
      BY <2>1, <2>2 DEF LogOf
  <1>. QED
    BY <1>2, <1>5, <1>9, TablesAssumption DEF LogOf

\* An ID that no row has is in no history.
LEMMA NotInLog ==
    ASSUME NEW t, Sound(t), NEW id, EventByID(t, id) = {},
           NEW a \in Aggregates, NEW i \in 1 .. Len(LogOf(t)[a])
    PROVE  LogOf(t)[a][i].id # id
  <1>1. PICK n \in Nat : n = t.latest[a] + 1 /\ n <= MaxSequence + 1 /\ Len(HistoryOf(t, a)) = n
    BY HistoryTyped, TablesAssumption
  <1>2. LogOf(t)[a] = HistoryOf(t, a) /\ i \in 1 .. n
    BY <1>1 DEF LogOf
  <1>3. HistoryOf(t, a)[i] = t.row[a][i - 1]
    BY <1>1, <1>2 DEF HistoryOf
  <1>4. i - 1 \in Sequences /\ i - 1 <= t.latest[a]
    <2>1. t.latest[a] \in Int
      BY DEF Sound, Tables, Sequences, Missing
    <2>. QED
      BY <1>1, <1>2, <2>1, TablesAssumption DEF Sequences
  <1>5. t.row[a][i - 1] # NoRow
    BY <1>4 DEF Sound, Dense
  <1>6. <<a, i - 1>> \notin EventByID(t, id)
    OBVIOUS
  <1>7. t.row[a][i - 1].id # id
    BY <1>4, <1>5, <1>6 DEF EventByID
  <1>. QED
    BY <1>2, <1>3, <1>7

\* A removed aggregate has no history left.
LEMMA RemovesFromLog ==
    ASSUME NEW t, Sound(t), NEW u, Sound(u), NEW a \in Aggregates, Removes(t, u, a)
    PROVE  LogOf(u) = [LogOf(t) EXCEPT ![a] = <<>>]
  <1>1. u.latest[a] = Missing /\ \A b \in Aggregates : b # a => u.latest[b] = t.latest[b] /\ u.row[b] = t.row[b]
    BY DEF Removes, Sound, Tables
  <1>2. HistoryOf(u, a) = <<>>
    BY <1>1, MissingHistory
  <1>3. \A b \in Aggregates : b # a => HistoryOf(u, b) = HistoryOf(t, b)
    BY <1>1, SameHistory
  <1>4. \A b \in Aggregates : LogOf(u)[b] = [LogOf(t) EXCEPT ![a] = <<>>][b]
    BY <1>2, <1>3 DEF LogOf
  <1>. QED
    BY <1>4 DEF LogOf

\* Nothing else that a COMMIT does changes a history.
LEMMA SameLogOf ==
    ASSUME NEW t, NEW u, u.latest = t.latest, u.row = t.row
    PROVE  LogOf(u) = LogOf(t)
  BY DEF LogOf, HistoryOf

------------------------------------------------------------------------------
(* The effect of a transaction so far.                                      *)

\* The types of the calls and of the tables.
LEMMA LogTypes ==
    ASSUME LogInv
    PROVE  /\ pc \in [Writers -> Control] /\ op \in [Writers -> Requests \cup {NoRequest}]
           /\ at \in [Writers -> Nat \ {0}] /\ seq \in [Writers -> Sequences]
           /\ db \in Tables /\ work \in Tables
  BY DEF LogInv, IInv, TypeOK, StoreTypeOK

\* A step of writer w leaves the transaction of another writer as it is: either w
\* holds the token and there is no other, or the tables stay.
LEMMA EffectsKeep ==
    ASSUME LogInv, NEW w \in Writers, NEW l \in Control, pc' = [pc EXCEPT ![w] = l],
           \A v \in Writers : v # w => op'[v] = op[v] /\ at'[v] = at[v] /\ seq'[v] = seq[v],
           pc[w] \in Holding \/ (db' = db /\ work' = work),
           l \in Callback \cup {"commit"} => EffectAt(w)'
    PROVE  \A v \in Writers : EffectAt(v)'
  <1>1. pc'[w] = l
    BY LogTypes
  <1>2. EffectAt(w)'
    <2>1. CASE l \notin Callback \cup {"commit"}
      BY <1>1, <2>1 DEF EffectAt, Callback, Storing
    <2>. QED
      BY <2>1
  <1>3. ASSUME NEW v \in Writers, v # w PROVE EffectAt(v)'
    <2>1. pc'[v] = pc[v] /\ op'[v] = op[v] /\ at'[v] = at[v] /\ seq'[v] = seq[v] /\ EffectAt(v)
      BY <1>3, LogTypes DEF LogInv
    <2>2. CASE pc[w] \in Holding
      <3>1. pc[v] \notin Holding
        BY <1>3, <2>2 DEF LogInv, IInv, TokenInv, OneWriter
      <3>. QED
        BY <2>1, <3>1 DEF EffectAt, Holding, Callback, Storing
    <2>3. CASE db' = db /\ work' = work
      BY <2>1, <2>3 DEF EffectAt, Appendable, CommitAt, Before, After, Aggregate, Entry
    <2>. QED
      BY <2>2, <2>3
  <1>. QED
    BY <1>2, <1>3

\* Steps after which the writer is in no callback.
LEMMA QuietSteps ==
    ASSUME LogInv, NEW w \in Writers,
           \/ EnterWrite(w) /\ UNCHANGED callVars
           \/ AcquireToken(w) /\ UNCHANGED callVars
           \/ Refuse(w) \/ Fault(w) \/ EndTx(w) \/ UndoTx(w)
           \/ Release(w) \/ Notify(w) \/ Return(w) \/ \E r \in Requests : Submit(w, r)
    PROVE  \A v \in Writers : EffectAt(v)'
  <1> DEFINE quiet == {"idle", "call", "wait", "held", "rollback", "release", "notify", "reply"}
  <1>0. quiet \subseteq Control /\ \A l \in quiet : l \notin Callback \cup {"commit"}
    BY DEF Control, Holding, Callback
  <1>1. ASSUME NEW l \in quiet, pc' = [pc EXCEPT ![w] = l],
               \A v \in Writers : v # w => op'[v] = op[v] /\ at'[v] = at[v] /\ seq'[v] = seq[v],
               pc[w] \in Holding \/ (db' = db /\ work' = work)
        PROVE  \A v \in Writers : EffectAt(v)'
    BY <1>0, <1>1, EffectsKeep
  <1>2. ASSUME UNCHANGED <<op, at, seq>>, NEW l \in quiet, Goto(w, l), pc[w] \in Holding \/ UNCHANGED <<db, work>>
        PROVE  \A v \in Writers : EffectAt(v)'
    BY <1>1, <1>2 DEF Goto
  <1>3. CASE (EnterWrite(w) \/ AcquireToken(w)) /\ UNCHANGED callVars
    BY <1>2, <1>3 DEF EnterWrite, AcquireToken, callVars
  <1>4. CASE Refuse(w)
    BY <1>2, <1>4 DEF Refuse, FenceWrite, FenceHolder
  <1>5. CASE Fault(w)
    BY <1>2, <1>5 DEF Fault, CancelWrite, BeginFails, CallbackFails, CommitFails, CommitUnreported, Holding
  <1>6. CASE EndTx(w) \/ UndoTx(w)
    BY <1>2, <1>6 DEF EndTx, Commit, UndoTx, Rollback, RollbackFails, Holding, callVars
  <1>7. ASSUME NextEntry(w), UNCHANGED <<db, work>> PROVE \A v \in Writers : EffectAt(v)'
    <2>1. PICK l \in quiet : pc' = [pc EXCEPT ![w] = l]
      BY <1>7 DEF NextEntry, Goto
    <2>2. UNCHANGED <<op, seq>> /\ \A v \in Writers : v # w => at'[v] = at[v]
      BY <1>7, LogTypes DEF NextEntry
    <2>. QED
      BY <1>1, <1>7, <2>1, <2>2
  <1>8. CASE Release(w)
    BY <1>2, <1>7, <1>8 DEF Release, callVars
  <1>9. CASE Notify(w)
    BY <1>7, <1>9 DEF Notify
  <1>10. CASE Return(w)
    <2>1. pc' = [pc EXCEPT ![w] = "idle"] /\ UNCHANGED <<db, work>>
      BY <1>10 DEF Return, Goto
    <2>2. \A v \in Writers : v # w => op'[v] = op[v] /\ at'[v] = at[v] /\ seq'[v] = seq[v]
      BY <1>10, LogTypes DEF Return
    <2>. QED
      BY <1>1, <2>1, <2>2
  <1>11. ASSUME NEW r \in Requests, Submit(w, r) PROVE \A v \in Writers : EffectAt(v)'
    <2>1. pc' = [pc EXCEPT ![w] = "call"] /\ UNCHANGED <<db, work>>
      BY <1>11 DEF Submit, Goto
    <2>2. \A v \in Writers : v # w => op'[v] = op[v] /\ at'[v] = at[v] /\ seq'[v] = seq[v]
      BY <1>11, LogTypes DEF Submit
    <2>. QED
      BY <1>1, <2>1, <2>2
  <1>. QED
    BY <1>3, <1>4, <1>5, <1>6, <1>8, <1>9, <1>10, <1>11

\* BEGIN shows the callback the committed tables.
LEMMA BeginEffect ==
    ASSUME LogInv, NEW w \in Writers, Begin(w), UNCHANGED callVars
    PROVE  \A v \in Writers : EffectAt(v)'
  <1>1. /\ pc[w] = "held" /\ pc' = [pc EXCEPT ![w] = "check"] /\ work' = db /\ db' = db
        /\ UNCHANGED <<op, at, seq>>
    BY DEF Begin, Goto, callVars
  <1>2. pc'[w] = "check" /\ "check" \in Control /\ pc[w] \in Holding
    BY <1>1, LogTypes DEF Control, Holding, Callback
  <1>3. EffectAt(w)'
    BY <1>1, <1>2 DEF EffectAt, Storing
  <1>. QED
    BY <1>1, <1>2, <1>3, EffectsKeep

\* A callback that ends in an error, and one that accepts an event.
LEMMA RejectEffect ==
    ASSUME LogInv, NEW w \in Writers, pc[w] \in Callback, Reject(w)
    PROVE  \A v \in Writers : EffectAt(v)'
  <1>1. pc' = [pc EXCEPT ![w] = "rollback"] /\ UNCHANGED <<op, at, seq>> /\ pc[w] \in Holding
    BY DEF Reject, Goto, Holding
  <1>2. "rollback" \in Control /\ "rollback" \notin Callback \cup {"commit"}
    BY DEF Control, Holding, Callback
  <1>. QED
    BY <1>1, <1>2, EffectsKeep

LEMMA AcceptEffect ==
    ASSUME LogInv, NEW w \in Writers, pc[w] = "check", NEW s \in Sequences, s = Latest(w) + 1,
           EventByID(work, Entry(w).id) = {}, op[w].kind = "publish" \/ Owner(w) \in {NoOwner, op[w].owner},
           Accept(w, s)
    PROVE  \A v \in Writers : EffectAt(v)'
  <1>1. /\ pc' = [pc EXCEPT ![w] = "project"] /\ seq' = [seq EXCEPT ![w] = s]
        /\ UNCHANGED <<op, at, db, work>> /\ work = db
    BY DEF Accept, Goto, InCallback, LogInv, EffectAt
  <1>2. pc'[w] = "project" /\ seq'[w] = s /\ "project" \in Control /\ pc[w] \in Holding
    BY <1>1, LogTypes DEF Control, Holding, Callback
  <1>3. Appendable(w)'
    BY <1>1, <1>2 DEF Appendable, Latest, Owner, Before, Aggregate, Entry
  <1>4. EffectAt(w)'
    BY <1>1, <1>2, <1>3 DEF EffectAt, SameLog
  <1>5. \A v \in Writers : v # w => op'[v] = op[v] /\ at'[v] = at[v] /\ seq'[v] = seq[v]
    BY <1>1, LogTypes
  <1>. QED
    BY <1>1, <1>2, <1>4, <1>5, EffectsKeep

\* A callback that ends without an event.
LEMMA FinishEffect ==
    ASSUME LogInv, NEW w \in Writers, pc[w] = "check", NEW u, Finish(w, u),
           \/ op[w].kind = "replay" /\ Reowns(db, u, Aggregate(w), After(w))
           \/ op[w].kind \in {"replay", "claim"} /\ SameLog(db, u)
           \/ op[w].kind = "claim" /\ Reowns(db, u, Aggregate(w), op[w].owner)
           \/ op[w].kind = "remove" /\ Removes(db, u, Aggregate(w))
    PROVE  \A v \in Writers : EffectAt(v)'
  <1>1. pc' = [pc EXCEPT ![w] = "commit"] /\ UNCHANGED <<op, at, seq, db>> /\ work' = u
    BY DEF Finish, Goto, InCallback, callVars
  <1>2. pc'[w] = "commit" /\ "commit" \in Control /\ pc[w] \in Holding
    BY <1>1, LogTypes DEF Control, Holding, Callback
  <1>3. CommitAt(w)'
    BY <1>1 DEF CommitAt, After, Before, Aggregate
  <1>4. EffectAt(w)'
    BY <1>2, <1>3 DEF EffectAt, Storing
  <1>. QED
    BY <1>1, <1>2, <1>4, EffectsKeep

LEMMA CheckPublishEffect ==
    ASSUME LogInv, NEW w \in Writers, CheckPublish(w)
    PROVE  \A v \in Writers : EffectAt(v)'
  <1>1. pc[w] = "check" /\ op[w].kind = "publish"
    BY DEF CheckPublish, Running
  <1>2. CASE Reject(w)
    BY <1>1, <1>2, RejectEffect DEF Callback
  <1>3. CASE ~PublishConflict(w) /\ Accept(w, Latest(w) + 1)
    <2>1. PICK n \in Sequences \cup {Missing} : n = Latest(w)
      BY <1>1, EntryFacts, LogTypes DEF LogInv, Latest, Tables
    <2>2. n # MaxSequence /\ EventByID(work, Entry(w).id) = {}
      BY <1>3, <2>1 DEF PublishConflict
    <2>3. n + 1 \in Sequences
      BY <2>2, TablesAssumption DEF Sequences, Missing
    <2>. QED
      BY <1>1, <1>3, <2>1, <2>2, <2>3, AcceptEffect
  <1>. QED
    BY <1>2, <1>3 DEF CheckPublish

LEMMA CheckReplayEffect ==
    ASSUME LogInv, NEW w \in Writers, CheckReplay(w)
    PROVE  \A v \in Writers : EffectAt(v)'
  <1>1. pc[w] = "check" /\ op[w].kind = "replay" /\ work = db
    BY DEF CheckReplay, Running, LogInv, EffectAt
  <1>2. /\ Aggregate(w) \in Aggregates /\ Given(w) \in Sequences
        /\ op[w].owner \in Owners \cup {NoOwner}
    BY <1>1, EntryFacts DEF LogInv
  <1>3. CASE Reject(w)
    BY <1>1, <1>3, RejectEffect DEF Callback
  <1>4. CASE Stale(w) /\ Finish(w, Acknowledged(w))
    <2>1. db.latest[Aggregate(w)] # Missing
      BY <1>1, <1>2, <1>4, TablesAssumption DEF Stale, Latest, Missing, Sequences
    <2>2. ReplayOwner(w) = After(w) /\ ReplayOwner(w) \in Owners \cup {NoOwner}
      BY <1>1, <1>2, LogTypes DEF ReplayOwner, Owner, After, Before, Tables
    <2>3. PICK a \in Aggregates, n \in Sequences, o \in Owners \cup {NoOwner}, t \in Tables :
              a = Aggregate(w) /\ n = Latest(w) /\ o = After(w) /\ t = db
      BY <1>1, <1>2, <2>1, <2>2, LogTypes DEF Latest, Tables
    <2>4. Acknowledged(w) = PutSequence(t, a, n, o)
      BY <1>1, <2>2, <2>3 DEF Acknowledged
    <2>5. [t.latest EXCEPT ![a] = n] = t.latest
      BY <1>1, <2>3 DEF Latest, Tables
    <2>6. Reowns(t, PutSequence(t, a, n, o), a, o)
      BY <2>1, <2>3, <2>5, PutSequenceFields DEF Reowns
    <2>. QED
      BY <1>1, <1>4, <2>3, <2>4, <2>6, FinishEffect
  <1>5. CASE Finish(w, work)
    <2>1. SameLog(db, work)
      BY <1>1 DEF SameLog
    <2>. QED
      BY <1>1, <1>5, <2>1, FinishEffect
  <1>6. CASE ~ReplayConflict(w) /\ ~Stale(w) /\ ~OwnedByOther(w) /\ Accept(w, Given(w))
    <2>1. Given(w) = Latest(w) + 1 /\ EventByID(work, Entry(w).id) = {}
      BY <1>6 DEF ReplayConflict
    <2>2. Owner(w) \in {NoOwner, op[w].owner}
      BY <1>6 DEF OwnedByOther
    <2>. QED
      BY <1>1, <1>2, <1>6, <2>1, <2>2, AcceptEffect
  <1>. QED
    BY <1>3, <1>4, <1>5, <1>6 DEF CheckReplay

LEMMA ClaimEffect ==
    ASSUME LogInv, NEW w \in Writers, Claim(w)
    PROVE  \A v \in Writers : EffectAt(v)'
  <1>1. pc[w] = "check" /\ op[w].kind = "claim" /\ work = db
    BY DEF Claim, Running, LogInv, EffectAt
  <1>2. Aggregate(w) \in Aggregates /\ op[w].owner \in Owners \cup {NoOwner}
    BY <1>1, EntryFacts DEF LogInv
  <1>3. CASE Latest(w) = Missing
    <2>1. Finish(w, work) /\ SameLog(db, work)
      BY <1>1, <1>3 DEF Claim, SameLog
    <2>. QED
      BY <1>1, <2>1, FinishEffect
  <1>4. CASE Latest(w) # Missing
    <2>1. PICK a \in Aggregates, n \in Sequences, o \in Owners \cup {NoOwner}, t \in Tables :
              a = Aggregate(w) /\ n = Latest(w) /\ o = op[w].owner /\ t = db
      BY <1>1, <1>2, <1>4, LogTypes DEF Latest, Tables
    <2>2. [t.latest EXCEPT ![a] = n] = t.latest /\ t.latest[a] # Missing
      BY <1>1, <1>4, <2>1 DEF Latest, Tables
    <2>3. Reowns(t, PutSequence(t, a, n, o), a, o)
      BY <2>2, PutSequenceFields DEF Reowns
    <2>4. Finish(w, PutSequence(t, a, n, o))
      BY <1>1, <1>4, <2>1 DEF Claim
    <2>. QED
      BY <1>1, <2>1, <2>3, <2>4, FinishEffect
  <1>. QED
    BY <1>3, <1>4

LEMMA RemoveEffect ==
    ASSUME LogInv, NEW w \in Writers, Remove(w)
    PROVE  \A v \in Writers : EffectAt(v)'
  <1>1. pc[w] = "check" /\ op[w].kind = "remove" /\ work = db /\ Finish(w, DeleteAggregate(work, Aggregate(w)))
    BY DEF Remove, Running, LogInv, EffectAt
  <1>2. PICK a \in Aggregates, t \in Tables : a = Aggregate(w) /\ t = db
    BY <1>1, EntryFacts, LogTypes DEF LogInv
  <1>3. Removes(t, DeleteAggregate(t, a), a)
    BY DeleteAggregateFields DEF Removes
  <1>. QED
    BY <1>1, <1>2, <1>3, FinishEffect

\* The statements that store an event.
LEMMA StoringEffect ==
    ASSUME LogInv, NEW w \in Writers, Project(w) \/ RunCommitHook(w) \/ StoreSequence(w) \/ StoreEvent(w)
    PROVE  \A v \in Writers : EffectAt(v)'
  <1>1. pc[w] \in Storing /\ pc[w] \in Holding /\ Appendable(w) /\ UNCHANGED <<db, op, at, seq>>
    BY DEF Project, RunCommitHook, StoreSequence, StoreEvent, Storing, Holding, Callback, callVars, InCallback,
        LogInv, EffectAt
  <1>2. Appendable(w)'
    BY <1>1 DEF Appendable, Before, Aggregate, Entry
  <1>3. PICK a \in Aggregates, s \in Sequences, e \in Event, o \in Owners \cup {NoOwner}, t \in Tables, u \in Tables :
            a = Aggregate(w) /\ s = seq[w] /\ e = Entry(w) /\ o = After(w) /\ t = db /\ u = work
    <2>1. Aggregate(w) \in Aggregates /\ seq[w] \in Sequences /\ Entry(w) \in Event /\ op[w].owner \in Owners \cup {NoOwner}
      BY <1>1, StoringFacts DEF LogInv
    <2>2. Before(w) \in Owners \cup {NoOwner}
      BY <2>1, LogTypes DEF Before, Tables
    <2>3. After(w) \in Owners \cup {NoOwner}
      BY <2>1, <2>2 DEF After
    <2>. QED
      BY <2>1, <2>3, LogTypes
  <1>4. op[w].kind \in {"publish", "replay"}
    BY <1>1 DEF LogInv, IInv, CallInv
  <1>5. ASSUME Project(w) PROVE \A v \in Writers : EffectAt(v)'
    <2>1. PICK l \in {"hook", "sequence"} : pc' = [pc EXCEPT ![w] = l]
      BY <1>5 DEF Project, Goto
    <2>2. pc'[w] = l /\ l \in Control
      BY <2>1, LogTypes DEF Control, Holding, Callback
    <2>3. work' = ProjectEvent(u, a, s, e) /\ SameLog(t, u)
      BY <1>3, <1>5 DEF Project, LogInv, EffectAt
    <2>4. SameLog(t, ProjectEvent(u, a, s, e))
      <3>1. SameLog(u, ProjectEvent(u, a, s, e))
        BY DEF SameLog, ProjectEvent, Tables
      <3>. QED
        BY <2>3, <3>1 DEF SameLog
    <2>5. SameLog(db, work)'
      BY <1>1, <1>3, <2>3, <2>4 DEF SameLog
    <2>6. EffectAt(w)'
      BY <1>2, <2>2, <2>5 DEF EffectAt
    <2>. QED
      BY <1>1, <2>1, <2>2, <2>6, EffectsKeep
  <1>6. ASSUME RunCommitHook(w) PROVE \A v \in Writers : EffectAt(v)'
    <2>1. pc' = [pc EXCEPT ![w] = "sequence"] /\ work' = work /\ SameLog(db, work)
      BY <1>6 DEF RunCommitHook, Goto, callVars, LogInv, EffectAt
    <2>2. pc'[w] = "sequence" /\ "sequence" \in Control
      BY <2>1, LogTypes DEF Control, Holding, Callback
    <2>3. SameLog(db, work)'
      BY <1>1, <2>1 DEF SameLog
    <2>4. EffectAt(w)'
      BY <1>2, <2>2, <2>3 DEF EffectAt
    <2>. QED
      BY <1>1, <2>1, <2>2, <2>4, EffectsKeep
  <1>7. ASSUME StoreSequence(w) PROVE \A v \in Writers : EffectAt(v)'
    <2>1. pc' = [pc EXCEPT ![w] = "insert"] /\ SameLog(t, u)
      BY <1>3, <1>7 DEF StoreSequence, Goto, LogInv, EffectAt
    <2>2. pc'[w] = "insert" /\ "insert" \in Control
      BY <2>1, LogTypes DEF Control, Holding, Callback
    <2>3. (IF op[w].kind = "publish" THEN Owner(w) ELSE ReplayOwner(w)) = o
      BY <1>3, <1>4, <2>1 DEF SameLog, Owner, ReplayOwner, After, Before
    <2>4. work' = PutSequence(u, a, s, o)
      BY <1>3, <1>7, <2>3 DEF StoreSequence
    <2>5. Announces(t, PutSequence(u, a, s, o), a, s, o)
      BY <2>1, PutSequenceFields DEF SameLog, Announces
    <2>6. Announces(db, work, Aggregate(w), seq[w], After(w))'
      BY <1>1, <1>3, <2>4, <2>5 DEF Announces, After, Before, Aggregate
    <2>7. EffectAt(w)'
      BY <1>2, <2>2, <2>6 DEF EffectAt
    <2>. QED
      BY <1>1, <2>1, <2>2, <2>7, EffectsKeep
  <1>8. ASSUME StoreEvent(w) PROVE \A v \in Writers : EffectAt(v)'
    <2>1. pc' = [pc EXCEPT ![w] = "commit"] /\ work' = InsertEvent(u, a, s, e) /\ Announces(t, u, a, s, o)
      BY <1>3, <1>8 DEF StoreEvent, Goto, LogInv, EffectAt
    <2>2. pc'[w] = "commit" /\ "commit" \in Control
      BY <2>1, LogTypes DEF Control, Holding, Callback
    <2>3. Appends(t, InsertEvent(u, a, s, e), a, s, e, o)
      BY <2>1, InsertEventFields DEF Announces, Appends
    <2>4. Appends(db, work, Aggregate(w), seq[w], Entry(w), After(w))'
      BY <1>1, <1>3, <2>1, <2>3 DEF Appends, After, Before, Aggregate, Entry
    <2>5. CommitAt(w)'
      BY <1>1, <1>2, <1>4, <2>4 DEF CommitAt
    <2>6. EffectAt(w)'
      BY <2>2, <2>5 DEF EffectAt, Storing
    <2>. QED
      BY <1>1, <2>1, <2>2, <2>6, EffectsKeep
  <1>. QED
    BY <1>5, <1>6, <1>7, <1>8

LEMMA LogKept == LogInv /\ [Next]_vars => LogInv'
  <1> SUFFICES ASSUME LogInv, [Next]_vars PROVE LogInv'
    OBVIOUS
  <1>1. IInv'
    BY NextKeeps DEF LogInv
  <1>2. ASSUME NEW w \in Writers, Step(w) PROVE \A v \in Writers : EffectAt(v)'
    <2>1. CASE Enter(w)
      BY <2>1, QuietSteps, BeginEffect DEF Enter
    <2>. QED
      BY <1>2, <2>1, QuietSteps, CheckPublishEffect, CheckReplayEffect, ClaimEffect, RemoveEffect, StoringEffect DEF Step
  <1>3. ASSUME NEW w \in Writers, Fault(w) \/ \E r \in Requests : Submit(w, r) PROVE \A v \in Writers : EffectAt(v)'
    BY <1>3, QuietSteps
  <1>4. ASSUME UNCHANGED <<db, work, pc, op, at, seq>> PROVE \A v \in Writers : EffectAt(v)'
    BY <1>4 DEF LogInv, EffectAt, Appendable, CommitAt, Before, After, Aggregate, Entry
  <1>5. ASSUME UNCHANGED vars PROVE \A v \in Writers : EffectAt(v)'
    BY <1>4, <1>5 DEF vars, storeVars, callVars
  <1>6. ASSUME Close PROVE \A v \in Writers : EffectAt(v)'
    <2>1. CASE CloseBegin
      BY <1>4, <1>6, <2>1 DEF Close, CloseBegin, callVars
    <2>2. CASE CloseFinish
      <3>1. \A v \in Writers : pc'[v] = pc[v] /\ pc[v] \notin Holding
        BY <2>2 DEF CloseFinish, LogInv, IInv, TokenInv, OneWriter
      <3>. QED
        BY <3>1 DEF EffectAt, Holding, Callback, Storing
    <2>. QED
      BY <1>6, <2>1, <2>2 DEF Close
  <1>7. ASSUME Restart PROVE \A v \in Writers : EffectAt(v)'
    <2>1. \A v \in Writers : pc'[v] = "idle"
      BY <1>7 DEF Restart, StoreRestart
    <2>. QED
      BY <2>1 DEF EffectAt, Storing
  <1>8. \A v \in Writers : EffectAt(v)'
    BY <1>2, <1>3, <1>5, <1>6, <1>7 DEF Next
  <1>. QED
    BY <1>1, <1>8 DEF LogInv

LEMMA LogHolds == Spec => []LogInv
  <1>1. Init => LogInv
    BY InitIInv DEF Init, StoreInit, LogInv, EffectAt, Storing
  <1>. QED
    BY <1>1, LogKept, PTL DEF Spec

------------------------------------------------------------------------------
(* What a COMMIT does.                                                      *)

\* The committed tables change only by the COMMIT of a writer that holds them.
LEMMA OnlyCommits ==
    ASSUME LogInv, [Next]_vars, db' # db
    PROVE  \E w \in Writers : pc[w] = "commit" /\ db' = work
  <1>1. ASSUME NEW w \in Writers, Step(w) PROVE pc[w] = "commit" /\ db' = work
    BY <1>1 DEF Step, Enter, EnterWrite, AcquireToken, Begin, Refuse, FenceWrite, FenceHolder, Release, Notify, Return,
        CheckPublish, CheckReplay, Reject, Accept, Finish, Claim, Remove, Project, RunCommitHook, StoreSequence, StoreEvent,
        InCallback, EndTx, Commit, UndoTx, Rollback, RollbackFails
  <1>2. ASSUME NEW w \in Writers, Fault(w) PROVE pc[w] = "commit" /\ db' = work
    BY <1>2 DEF Fault, CancelWrite, BeginFails, CallbackFails, CommitFails, CommitUnreported
  <1>3. ASSUME NEW w \in Writers, NEW r \in Requests, Submit(w, r) PROVE FALSE
    BY <1>3 DEF Submit
  <1>4. ~Close /\ ~Restart /\ ~UNCHANGED vars
    BY DEF Close, CloseBegin, CloseFinish, Restart, StoreRestart, vars, storeVars
  <1>. QED
    BY <1>1, <1>2, <1>3, <1>4 DEF Next

\* A replay for one owner never adds to the history of an aggregate that another
\* owns, and neither it nor a publication takes an owner away (Replay, Publish).
THEOREM OwnersStayFenced == Spec => OwnersAreFenced
  <1>1. ASSUME LogInv, [Next]_vars, NEW a \in Aggregates, NEW w \in Writers
        PROVE  /\ Committing(w, "replay") /\ db'.latest[a] # db.latest[a] => db.owner[a] \in {NoOwner, op[w].owner}
               /\ Committing(w, "replay") \/ Committing(w, "publish")
                   => (db.owner[a] # NoOwner => db'.owner[a] = db.owner[a])
    <2>1. CASE db' = db
      BY <2>1
    <2>2. CASE db' # db
      <3>1. PICK v \in Writers : pc[v] = "commit" /\ db' = work
        BY <1>1, <2>2, OnlyCommits
      <3> SUFFICES ASSUME Committing(w, "replay") \/ Committing(w, "publish")
                   PROVE  /\ op[w].kind = "replay" /\ db'.latest[a] # db.latest[a] => db.owner[a] \in {NoOwner, op[w].owner}
                          /\ db.owner[a] # NoOwner => db'.owner[a] = db.owner[a]
        BY DEF Committing
      <3>2. pc[w] = "commit" /\ op[w].kind \in {"replay", "publish"}
        BY DEF Committing
      <3>3. CommitAt(w)
        BY <1>1, <3>2 DEF LogInv, EffectAt
      <3>4. db \in Tables /\ Aggregate(w) \in Aggregates
        BY <1>1, <3>2, LogTypes, EntryFacts DEF LogInv
      <3>5. CASE Appendable(w) /\ Appends(db, work, Aggregate(w), seq[w], Entry(w), After(w))
        BY <3>1, <3>2, <3>4, <3>5 DEF Appendable, Appends, After, Before, Tables
      <3>6. CASE Reowns(db, work, Aggregate(w), After(w))
        BY <3>1, <3>4, <3>6 DEF Reowns, After, Before, Tables
      <3>7. CASE SameLog(db, work)
        BY <3>1, <3>7 DEF SameLog
      <3>. QED
        BY <3>2, <3>3, <3>5, <3>6, <3>7 DEF CommitAt
    <2>. QED
      BY <2>1, <2>2
  <1>2. LogInv /\ [Next]_vars => [\A a \in Aggregates : \A w \in Writers :
        /\ Committing(w, "replay") /\ db'.latest[a] # db.latest[a]
            => db.owner[a] \in {NoOwner, op[w].owner}
        /\ Committing(w, "replay") \/ Committing(w, "publish")
            => (db.owner[a] # NoOwner => db'.owner[a] = db.owner[a])]_vars
    BY <1>1
  <1>. QED
    BY <1>2, LogHolds, PTL DEF Spec, OwnersAreFenced

------------------------------------------------------------------------------
(* The refinement.                                                          *)

\* The COMMIT of a writer, as a step from sound tables t to sound tables u: an
\* event more, an owner, an aggregate less, or nothing of the log.
LEMMA CommitSteps ==
    ASSUME LogInv, NEW w \in Writers, pc[w] = "commit"
    PROVE  \/ \E a \in Aggregates, s \in Sequences, e \in Event, o \in Owners \cup {NoOwner} :
                /\ s = db.latest[a] + 1 /\ EventByID(db, e.id) = {}
                /\ o \in {NoOwner, db.owner[a]} \/ db.owner[a] = NoOwner
                /\ Appends(db, work, a, s, e, IF db.owner[a] = NoOwner THEN o ELSE db.owner[a])
           \/ \E a \in Aggregates, o \in Owners : Reowns(db, work, a, o)
           \/ \E a \in Aggregates : Removes(db, work, a)
           \/ SameLog(db, work)
  <1>1. CommitAt(w) /\ pc[w] # "idle"
    BY DEF LogInv, EffectAt
  <1>2. PICK a \in Aggregates, s \in Sequences, r \in Requests :
            a = Aggregate(w) /\ s = seq[w] /\ r = op[w] /\ r.owner \in Owners \cup {NoOwner}
    BY <1>1, LogTypes, EntryFacts DEF LogInv
  <1>3. db.owner[a] \in Owners \cup {NoOwner}
    BY LogTypes DEF Tables
  <1>4. ASSUME r.kind \in {"publish", "replay"}, Appendable(w), Appends(db, work, a, s, Entry(w), After(w))
        PROVE  \E e \in Event, o \in Owners \cup {NoOwner} :
                /\ s = db.latest[a] + 1 /\ EventByID(db, e.id) = {}
                /\ o \in {NoOwner, db.owner[a]} \/ db.owner[a] = NoOwner
                /\ Appends(db, work, a, s, e, IF db.owner[a] = NoOwner THEN o ELSE db.owner[a])
    <2>1. PICK e \in Event : e = Entry(w)
      BY <1>1, <1>2, <1>4, EntryFacts DEF LogInv
    <2>2. s = db.latest[a] + 1 /\ EventByID(db, e.id) = {}
      BY <1>2, <1>4, <2>1 DEF Appendable
    <2>3. PICK o \in Owners \cup {NoOwner} : o = IF r.kind = "replay" THEN r.owner ELSE NoOwner
      BY <1>2
    <2>4. o \in {NoOwner, db.owner[a]} \/ db.owner[a] = NoOwner
      BY <1>2, <1>4, <2>3 DEF Appendable, Before
    <2>5. After(w) = IF db.owner[a] = NoOwner THEN o ELSE db.owner[a]
      BY <1>2, <1>4, <2>3 DEF After, Before
    <2>6. Appends(db, work, a, s, e, IF db.owner[a] = NoOwner THEN o ELSE db.owner[a])
      BY <1>4, <2>1, <2>5
    <2>. QED
      BY <2>2, <2>4, <2>6
  <1>5. ASSUME NEW o \in Owners \cup {NoOwner}, Reowns(db, work, a, o), o = db.owner[a] \/ o \in Owners
        PROVE  SameLog(db, work) \/ (Reowns(db, work, a, o) /\ o \in Owners)
    <2>1. CASE o = db.owner[a]
      <3>1. [db.owner EXCEPT ![a] = db.owner[a]] = db.owner
        BY LogTypes DEF Tables
      <3>. QED
        BY <1>5, <2>1, <3>1 DEF Reowns, SameLog
    <2>. QED
      BY <1>5, <2>1
  <1>6. ASSUME Reowns(db, work, a, After(w)) PROVE SameLog(db, work) \/ \E o \in Owners : Reowns(db, work, a, o)
    <2>1. PICK o \in Owners \cup {NoOwner} : o = After(w) /\ (o = db.owner[a] \/ o \in Owners)
      BY <1>2, <1>3 DEF After, Before
    <2>. QED
      BY <1>5, <1>6, <2>1
  <1>7. ASSUME r.kind = "claim", Reowns(db, work, a, r.owner) PROVE \E o \in Owners : Reowns(db, work, a, o)
    <2>1. r.owner \in Owners
      BY <1>2, <1>7, RequestsAssumption
    <2>. QED
      BY <1>7, <2>1
  <1>. QED
    BY <1>1, <1>2, <1>4, <1>6, <1>7 DEF CommitAt

\* The abstract log, as the tables that stand for it.
LEMMA LogIsLogOf ==
    /\ Log!logVars = <<LogOf(db), db.owner>>
    /\ Log!logVars' = <<LogOf(db'), db'.owner>>
  BY DEF Log!logVars, LogOf, History, HistoryOf

LEMMA StepImplements ==
    ASSUME LogInv, LogInv', [Next]_vars
    PROVE  [Log!LogNext]_(Log!logVars)
  <1>1. CASE db' = db
    BY <1>1, LogIsLogOf
  <1>2. CASE db' # db
    <2>1. PICK w \in Writers : pc[w] = "commit" /\ db' = work
      BY <1>2, OnlyCommits
    <2>2. PICK t \in Tables, u \in Tables : t = db /\ u = db' /\ u = work /\ Sound(t) /\ Sound(u)
      BY <2>1 DEF LogInv, IInv, Sound
    <2>3. Log!logVars = <<LogOf(t), t.owner>> /\ Log!logVars' = <<LogOf(u), u.owner>>
      BY <2>2, LogIsLogOf
    <2>4. ASSUME NEW a \in Aggregates, NEW s \in Sequences, NEW e \in Event, NEW o \in Owners \cup {NoOwner},
                 s = t.latest[a] + 1, EventByID(t, e.id) = {}, o \in {NoOwner, t.owner[a]} \/ t.owner[a] = NoOwner,
                 Appends(t, u, a, s, e, IF t.owner[a] = NoOwner THEN o ELSE t.owner[a])
          PROVE  Log!AppendEvent(a, e, o)
      <3>1. LogOf(u) = [LogOf(t) EXCEPT ![a] = Append(LogOf(t)[a], e)] /\ Len(LogOf(t)[a]) < MaxSequence + 1
        BY <2>2, <2>4, AppendsToLog
      <3>2. ~\E b \in Aggregates : \E i \in 1 .. Len(LogOf(t)[b]) : LogOf(t)[b][i].id = e.id
        BY <2>2, <2>4, NotInLog
      <3>3. u.owner = [t.owner EXCEPT ![a] = IF t.owner[a] = NoOwner THEN o ELSE t.owner[a]]
        BY <2>4 DEF Appends
      <3>. QED
        <4>1. [b \in Aggregates |-> History(b)] = LogOf(t) /\ db.owner = t.owner
          BY <2>3 DEF Log!logVars
        <4>2. [b \in Aggregates |-> History(b)]' = LogOf(u) /\ db'.owner = u.owner
          BY <2>3 DEF Log!logVars
        <4>3. ~Log!InLog(e.id)
          BY <3>2, <4>1 DEF Log!InLog
        <4>. QED
          BY <2>4, <3>1, <3>3, <4>1, <4>2, <4>3 DEF Log!AppendEvent
    <2>5. ASSUME NEW a \in Aggregates, NEW o \in Owners, Reowns(t, u, a, o) PROVE Log!Transfer(a, o)
      <3>1. LogOf(u) = LogOf(t) /\ u.owner = [t.owner EXCEPT ![a] = o]
        BY <2>5, SameLogOf DEF Reowns
      <3>2. LogOf(t)[a] # <<>>
        BY <2>2, <2>5, MissingHistory DEF Reowns, LogOf
      <3>. QED
        BY <2>3, <3>1, <3>2 DEF Log!Transfer, Log!logVars
    <2>6. ASSUME NEW a \in Aggregates, Removes(t, u, a) PROVE Log!Forget(a)
      <3>1. LogOf(u) = [LogOf(t) EXCEPT ![a] = <<>>] /\ u.owner = [t.owner EXCEPT ![a] = NoOwner]
        BY <2>2, <2>6, RemovesFromLog DEF Removes
      <3>. QED
        BY <2>3, <3>1 DEF Log!Forget, Log!logVars
    <2>7. ASSUME SameLog(t, u) PROVE UNCHANGED Log!logVars
      BY <2>3, <2>7, SameLogOf DEF SameLog
    <2>. QED
      BY <2>1, <2>2, <2>4, <2>5, <2>6, <2>7, CommitSteps DEF Log!LogNext
  <1>. QED
    BY <1>1, <1>2

\* A new store stands for the empty log.
LEMMA InitImplements == Init => Log!LogInit
  <1> SUFFICES ASSUME Init PROVE Log!LogInit
    OBVIOUS
  <1>1. db = EmptyTables /\ Sound(db)
    BY EmptyTablesSound DEF Init, StoreInit
  <1>2. ASSUME NEW a \in Aggregates PROVE HistoryOf(db, a) = <<>> /\ db.owner[a] = NoOwner
    BY <1>1, MissingHistory DEF EmptyTables
  <1>3. db.owner = [a \in Aggregates |-> NoOwner]
    BY <1>1 DEF EmptyTables
  <1>4. [a \in Aggregates |-> History(a)] = [a \in Aggregates |-> <<>>]
    BY <1>2 DEF History, HistoryOf
  <1>. QED
    BY <1>3, <1>4 DEF Log!LogInit

\* Publish, Replay, ReplayAll, Claim and Remove, with faults, cancellations,
\* failing and ambiguous COMMITs, Close and restarts between their statements,
\* act on the store as the abstract log: every transaction appends one event at
\* the end of one history, gives an aggregate an owner, or removes it whole.
THEOREM ServiceImplementsLog == Spec => ImplementsLog
  <1>1. Init => Log!LogInit
    BY InitImplements
  <1>2. LogInv /\ LogInv' /\ [Next]_vars => [Log!LogNext]_(Log!logVars)
    BY StepImplements
  <1>. QED
    BY <1>1, <1>2, LogHolds, PTL DEF Spec, ImplementsLog, Log!LogSpec
===============================================================================
