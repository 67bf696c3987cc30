---------------------------- MODULE EventService ----------------------------
(****************************************************************************)
(* The write side of event.Service on the SQLite store: Publish, Replay,    *)
(* ReplayAll, Claim and Remove, each a callback of Store.Write whose        *)
(* statements are steps of their own, so that a fault, a cancellation,      *)
(* Close or the death of the process may fall between any two of them.      *)
(*                                                                          *)
(* A request stands for one call.  Publish carries the one event, Replay    *)
(* one and ReplayAll several that follow start; every entry of a chunk is a *)
(* Write of its own.  The validation that precedes the first statement is   *)
(* the shape RequestsAssumption gives the requests.                         *)
(****************************************************************************)
EXTENDS SqliteStore, Sequences

CONSTANTS
    Requests,       \* the calls the writers may make
    NoRequest       \* the writer is in no call

Request ==
    [kind      : {"publish", "replay", "claim", "remove"},
     aggregate : Aggregates,
     start     : Sequences,                 \* replay: sequence of the first entry
     entries   : Seq(Event),
     owner     : Owners \cup {NoOwner},     \* replay and claim
     strict    : BOOLEAN,                   \* ReplayOptions.StrictOwner
     publish   : BOOLEAN]                   \* ReplayOptions.Publish

\* How many transactions a call runs.
Total(r) == IF r.kind = "replay" THEN Len(r.entries) ELSE 1

ASSUME RequestsAssumption ==
    /\ Requests \subseteq Request
    /\ NoRequest \notin Request
    /\ \A r \in Requests :
        /\ r.kind = "publish" => Len(r.entries) = 1
        /\ r.kind = "replay" =>
            /\ Len(r.entries) >= 1
            /\ r.start + Len(r.entries) - 1 <= MaxSequence
        /\ r.kind = "claim" => r.owner # NoOwner

VARIABLES
    op,         \* the request of each writer
    at,         \* the entry it is at
    seq,        \* the sequence the entry is to be stored under
    fresh,      \* has the running transaction inserted a row?
    outcome     \* what the call returns: "none" yet, "ok" or "error"

callVars == <<op, at, seq, fresh, outcome>>
vars == <<storeVars, callVars>>

TypeOK ==
    /\ StoreTypeOK
    /\ op \in [Writers -> Requests \cup {NoRequest}]
    /\ at \in [Writers -> Nat \ {0}]
    /\ seq \in [Writers -> Sequences]
    /\ fresh \in [Writers -> BOOLEAN]
    /\ outcome \in [Writers -> {"none", "ok", "error"}]

CallInit ==
    /\ op = [w \in Writers |-> NoRequest]
    /\ at = [w \in Writers |-> 1]
    /\ seq = [w \in Writers |-> 0]
    /\ fresh = [w \in Writers |-> FALSE]
    /\ outcome = [w \in Writers |-> "none"]

Init == StoreInit /\ CallInit

Aggregate(w) == op[w].aggregate
Entry(w) == op[w].entries[at[w]]
Latest(w) == work.latest[Aggregate(w)]
Owner(w) == work.owner[Aggregate(w)]

Running(w, kind) == pc[w] = "check" /\ op[w].kind = kind

Report(w, result) == outcome' = [outcome EXCEPT ![w] = result]

\* A statement of the callback has run; the store's own state is as it was.
InCallback == UNCHANGED <<db, inTx, token, broken, closer, applied>>

------------------------------------------------------------------------------
(* The calls and their way through Write.                                   *)

Submit(w, r) ==
    /\ pc[w] = "idle"
    /\ Goto(w, "call")
    /\ op' = [op EXCEPT ![w] = r]
    /\ UNCHANGED <<db, work, inTx, token, broken, closer, applied>>
    /\ UNCHANGED <<at, seq, fresh, outcome>>

Enter(w) ==
    /\ EnterWrite(w) \/ AcquireToken(w) \/ Begin(w)
    /\ UNCHANGED callVars

Refuse(w) ==
    /\ FenceWrite(w) \/ FenceHolder(w)
    /\ Report(w, "error")
    /\ UNCHANGED <<op, at, seq, fresh>>

\* What goes wrong outside the service: cancellation, a failing statement,
\* projector, hook or COMMIT.
Fault(w) ==
    /\ CancelWrite(w) \/ BeginFails(w) \/ CallbackFails(w)
       \/ CommitFails(w) \/ CommitUnreported(w)
    /\ Report(w, "error")
    /\ UNCHANGED <<op, at, seq, fresh>>

EndTx(w) ==
    /\ Commit(w)
    /\ Report(w, "ok")
    /\ UNCHANGED <<op, at, seq, fresh>>

UndoTx(w) ==
    /\ Rollback(w) \/ RollbackFails(w)
    /\ UNCHANGED callVars

\* Mutant of NextEntry: the chunk goes on after an entry that failed.
NextEntryRegardless(w) ==
    /\ fresh' = [fresh EXCEPT ![w] = FALSE]
    /\ UNCHANGED <<op, seq>>
    /\ \/ /\ at[w] < Total(op[w])
          /\ Goto(w, "call")
          /\ at' = [at EXCEPT ![w] = @ + 1]
          /\ Report(w, "none")
       \/ /\ at[w] >= Total(op[w])
          /\ Goto(w, "reply")
          /\ UNCHANGED <<at, outcome>>

\* The entry is done: Write is called for the next one, or the call returns.
\* A call that goes on has no answer yet.
NextEntry(w) ==
    /\ fresh' = [fresh EXCEPT ![w] = FALSE]
    /\ UNCHANGED <<op, seq>>
    /\ \/ /\ outcome[w] = "ok" /\ at[w] < Total(op[w])
          /\ Goto(w, "call")
          /\ at' = [at EXCEPT ![w] = @ + 1]
          /\ Report(w, "none")
       \/ /\ outcome[w] = "error" \/ at[w] >= Total(op[w])
          /\ Goto(w, "reply")
          /\ UNCHANGED <<at, outcome>>

\* Mutant of ToNotify: observers are told without a look at what Write returned.
ToNotifyAnyway(w) == fresh[w] /\ (op[w].kind = "replay" => op[w].publish)

\* Observers are told of what Publish stored, and of a replayed event only
\* when it is new and the options ask for it.
ToNotify(w) ==
    /\ outcome[w] = "ok"
    /\ fresh[w]
    /\ op[w].kind = "replay" => op[w].publish

\* Mutant of Release: an error path that keeps the token.
ReleaseOnSuccess(w) ==
    /\ pc[w] = "release"
    /\ token' = (outcome[w] = "ok")
    /\ UNCHANGED <<db, work, inTx, broken, closer, applied>>
    /\ IF ToNotify(w) THEN Goto(w, "notify") /\ UNCHANGED callVars ELSE NextEntry(w)

\* The deferred return of the token, after which Write is over.
Release(w) ==
    /\ pc[w] = "release"
    /\ token' = TRUE
    /\ UNCHANGED <<db, work, inTx, broken, closer, applied>>
    /\ IF ToNotify(w) THEN Goto(w, "notify") /\ UNCHANGED callVars ELSE NextEntry(w)

\* Service.notify, outside the token; EventDelivery models what it does.
Notify(w) ==
    /\ pc[w] = "notify"
    /\ NextEntry(w)
    /\ UNCHANGED <<db, work, inTx, token, broken, closer, applied>>

Return(w) ==
    /\ pc[w] = "reply"
    /\ Goto(w, "idle")
    /\ op' = [op EXCEPT ![w] = NoRequest]
    /\ at' = [at EXCEPT ![w] = 1]
    /\ seq' = [seq EXCEPT ![w] = 0]
    /\ outcome' = [outcome EXCEPT ![w] = "none"]
    /\ applied' = [applied EXCEPT ![w] = 0]
    /\ UNCHANGED <<fresh, db, work, inTx, token, broken, closer>>

------------------------------------------------------------------------------
(* The callbacks.                                                           *)

\* The callback returns an error of its own; Write rolls back.
Reject(w) ==
    /\ Goto(w, "rollback")
    /\ Report(w, "error")
    /\ UNCHANGED <<work, op, at, seq, fresh>>
    /\ InCallback

\* The checks pass: the event goes to the projectors under this sequence.
Accept(w, s) ==
    /\ Goto(w, "project")
    /\ seq' = [seq EXCEPT ![w] = s]
    /\ UNCHANGED <<work, op, at, fresh, outcome>>
    /\ InCallback

\* The callback returns with these tables and no new event.
Finish(w, tables) ==
    /\ work' = tables
    /\ Goto(w, "commit")
    /\ UNCHANGED callVars
    /\ InCallback

\* Mutant of PublishConflict: the ID is looked for nowhere.
PublishConflictAtLimit(w) == Latest(w) = MaxSequence

PublishConflict(w) ==
    \/ EventByID(work, Entry(w).id) # {}
    \/ Latest(w) = MaxSequence

CheckPublish(w) ==
    /\ Running(w, "publish")
    /\ IF PublishConflict(w) THEN Reject(w) ELSE Accept(w, Latest(w) + 1)

\* The sequence the source gave the entry.
Given(w) == op[w].start + at[w] - 1

OwnedByOther(w) == Owner(w) \notin {NoOwner, op[w].owner}
Stale(w) == Given(w) <= Latest(w)
Diverged(w) == work.row[Aggregate(w)][Given(w)] # Entry(w)

\* Mutant of ReplayConflict: gaps are let through.
ReplayConflictWithGaps(w) ==
    \/ op[w].strict /\ OwnedByOther(w)
    \/ Stale(w) /\ Diverged(w)
    \/ ~Stale(w) /\ ~OwnedByOther(w) /\ EventByID(work, Entry(w).id) # {}

ReplayConflict(w) ==
    \/ op[w].strict /\ OwnedByOther(w)
    \/ Stale(w) /\ Diverged(w)
    \/ /\ ~Stale(w) /\ ~OwnedByOther(w)
       /\ \/ Given(w) # Latest(w) + 1
          \/ EventByID(work, Entry(w).id) # {}

\* Mutant of ReplayOwner: the replay's own owner wins.
ReplayOwnerWins(w) == IF op[w].owner = NoOwner THEN Owner(w) ELSE op[w].owner

\* The owner a replay leaves the aggregate with.
ReplayOwner(w) == IF Owner(w) = NoOwner THEN op[w].owner ELSE Owner(w)

\* An exact stale replay inserts nothing and claims an unowned aggregate.
Acknowledged(w) == PutSequence(work, Aggregate(w), Latest(w), ReplayOwner(w))

CheckReplay(w) ==
    /\ Running(w, "replay")
    /\ \/ ReplayConflict(w) /\ Reject(w)
       \/ ~ReplayConflict(w) /\ Stale(w) /\ Finish(w, Acknowledged(w))
       \/ ~ReplayConflict(w) /\ ~Stale(w) /\ OwnedByOther(w) /\ Finish(w, work)
       \/ ~ReplayConflict(w) /\ ~Stale(w) /\ ~OwnedByOther(w) /\ Accept(w, Given(w))

\* Mutant of Project: only Publish runs the projectors.
ProjectPublished(w) ==
    /\ pc[w] = "project"
    /\ work' = IF op[w].kind = "publish"
               THEN ProjectEvent(work, Aggregate(w), seq[w], Entry(w)) ELSE work
    /\ Goto(w, IF op[w].kind = "publish" THEN "hook" ELSE "sequence")
    /\ UNCHANGED callVars
    /\ InCallback

\* The projectors run on the transaction; the commit hook is Publish's only.
Project(w) ==
    /\ pc[w] = "project"
    /\ work' = ProjectEvent(work, Aggregate(w), seq[w], Entry(w))
    /\ Goto(w, IF op[w].kind = "publish" THEN "hook" ELSE "sequence")
    /\ UNCHANGED callVars
    /\ InCallback

\* Whatever the hook writes shares the transaction with the projections.
RunCommitHook(w) ==
    /\ pc[w] = "hook"
    /\ Goto(w, "sequence")
    /\ UNCHANGED <<work, callVars>>
    /\ InCallback

StoreSequence(w) ==
    /\ pc[w] = "sequence"
    /\ work' = PutSequence(work, Aggregate(w), seq[w],
                           IF op[w].kind = "publish" THEN Owner(w) ELSE ReplayOwner(w))
    /\ Goto(w, "insert")
    /\ UNCHANGED callVars
    /\ InCallback

StoreEvent(w) ==
    /\ pc[w] = "insert"
    /\ CanInsert(work, Aggregate(w), seq[w], Entry(w))
    /\ work' = InsertEvent(work, Aggregate(w), seq[w], Entry(w))
    /\ fresh' = [fresh EXCEPT ![w] = TRUE]
    /\ Goto(w, "commit")
    /\ UNCHANGED <<op, at, seq, outcome>>
    /\ InCallback

\* A missing aggregate is a no-op.
Claim(w) ==
    /\ Running(w, "claim")
    /\ Finish(w, IF Latest(w) = Missing THEN work
                 ELSE PutSequence(work, Aggregate(w), Latest(w), op[w].owner))

Remove(w) ==
    /\ Running(w, "remove")
    /\ Finish(w, DeleteAggregate(work, Aggregate(w)))

------------------------------------------------------------------------------
Restart == StoreRestart /\ op' = [w \in Writers |-> NoRequest]
           /\ at' = [w \in Writers |-> 1] /\ seq' = [w \in Writers |-> 0]
           /\ fresh' = [w \in Writers |-> FALSE]
           /\ outcome' = [w \in Writers |-> "none"]

Close == (CloseBegin \/ CloseFinish) /\ UNCHANGED callVars

\* What a writer does by itself once it is in a call.
Step(w) ==
    \/ Enter(w) \/ Refuse(w) \/ Release(w) \/ Notify(w) \/ Return(w)
    \/ CheckPublish(w) \/ CheckReplay(w) \/ Claim(w) \/ Remove(w)
    \/ Project(w) \/ RunCommitHook(w) \/ StoreSequence(w) \/ StoreEvent(w)
    \/ EndTx(w) \/ UndoTx(w)

Next ==
    \/ \E w \in Writers :
        \/ \E r \in Requests : Submit(w, r)
        \/ Step(w)
        \/ Fault(w)
    \/ Close
    \/ Restart

Spec == Init /\ [][Next]_vars

\* Callbacks and statements return; the channel behind the token serves its
\* receivers in their order, so nobody waits for it forever.
FairSpec ==
    /\ Spec
    /\ \A w \in Writers : WF_vars(Step(w)) /\ SF_vars(AcquireToken(w) /\ UNCHANGED callVars)
    /\ WF_vars(CloseFinish /\ UNCHANGED callVars)

------------------------------------------------------------------------------
(* Safety.                                                                  *)

\* At most one writer is past the token, and nobody is while the token lies in
\* its channel or Close has taken it (Store.Write, Store.Close).
OneWriter ==
    \A w \in Writers : pc[w] \in Holding =>
        /\ ~token
        /\ closer # "closed"
        /\ \A v \in Writers \ {w} : pc[v] \notin Holding

\* A process that dies at any moment leaves tables that the integrity check of
\* Open accepts: every history is 0 .. seq without a gap and has its sequence
\* row (Store.Open, collectSequenceViolations).
ReopenAccepts == IntegrityCheck(db)

\* Publishing and replaying store an event ID once in the whole store, however
\* calls, faults, removals and restarts interleave (Publish, Replay).
IDsUnique == UniqueIDs(db)

\* An event is never committed without what its projectors wrote for it, and a
\* transaction commits no projection but that of an event which it stores: one
\* that fails after the projectors have run leaves neither (Publish, Replay).
ProjectedTogether ==
    /\ []Projected(db)
    /\ [][ProjectsStored(db, db')]_vars

\* The service's own checks come first: when it inserts an event, no constraint
\* of the schema can refuse the row (InsertEvent after PutSequence).
ConstraintsNeverBite ==
    \A w \in Writers : pc[w] = "insert" =>
        CanInsert(work, Aggregate(w), seq[w], Entry(w))

\* Observers hear of an event only after the transaction that stored it has
\* committed (Publish, Replay: notify follows Write).
NoticeFollowsCommit == \A w \in Writers : pc[w] = "notify" => applied[w] = at[w]

\* What a call answers is what happened to the store: success means that every
\* transaction of it took effect, an error that exactly those before the entry
\* that failed did (ReplayAll keeps the prefix, everything else is atomic).
AnswerIsTrue ==
    \A w \in Writers : pc[w] = "reply" =>
        applied[w] = IF outcome[w] = "ok" THEN Total(op[w]) ELSE at[w] - 1

\* A broken or closed store cannot change any more: a transaction that a failed
\* rollback left open is never committed later (Write's two looks at broken).
FencedStoreIsFrozen == [][broken \/ closer = "closed" => db' = db]_vars

Committing(w, kind) == pc[w] = "commit" /\ op[w].kind = kind

\* A replay for one owner never adds to the history of an aggregate that
\* another owns, and only Claim or Remove takes an owner away (Replay, Claim).
OwnersAreFenced ==
    [][\A a \in Aggregates : \A w \in Writers :
        /\ Committing(w, "replay") /\ db'.latest[a] # db.latest[a]
            => db.owner[a] \in {NoOwner, op[w].owner}
        /\ Committing(w, "replay") \/ Committing(w, "publish")
            => (db.owner[a] # NoOwner => db'.owner[a] = db.owner[a])]_vars

------------------------------------------------------------------------------
(* Liveness.                                                                *)

\* Every call returns, unless the process dies first (Store.Write).
EveryCallReturns == \A w \in Writers : pc[w] = "call" ~> pc[w] \in {"reply", "idle"}

\* Close ends, whoever holds the token or waits for it (Store.Close).
CloseEnds == closer = "waiting" ~> closer # "waiting"

------------------------------------------------------------------------------
(* The service implements the abstract log.                                 *)

History(a) == [i \in 1 .. db.latest[a] + 1 |-> db.row[a][i - 1]]

Log == INSTANCE EventLog
    WITH log <- [a \in Aggregates |-> History(a)],
         owner <- db.owner,
         MaxLength <- MaxSequence + 1

\* Every committed transaction is one step of the abstract log.
ImplementsLog == Log!LogSpec
==============================================================================
