----------------------------- MODULE SqliteStore -----------------------------
(****************************************************************************)
(* The writer side of store/sqlite: the capacity-one writeToken channel     *)
(* that serializes Store.Write, the transaction on the one writer           *)
(* connection with its COMMIT and its deferred rollback, the closed and     *)
(* broken flags that fence it, Close, and the restart of the process        *)
(* through Open.  What runs between BEGIN and COMMIT is the callback: the   *)
(* module that extends this one supplies its steps and says where a         *)
(* process goes once Write has returned.                                    *)
(****************************************************************************)
EXTENDS EventTables

CONSTANTS
    Writers,            \* goroutines that call the store
    AmbiguousCommit     \* may a COMMIT take effect and still report an error?

ASSUME StoreAssumption == AmbiguousCommit \in BOOLEAN

VARIABLES
    db,         \* committed tables, what readers and a new process see
    work,       \* the tables as the writer connection sees them
    inTx,       \* has the writer connection a transaction open?
    token,      \* is the token in the writeToken channel?
    broken,     \* Store.broken
    closer,     \* Store.Close: "open", "waiting" for the token, "closed"
    pc,         \* where each writer is
    applied     \* history: transactions of the current call that took effect

storeVars == <<db, work, inTx, token, broken, closer, pc, applied>>

Callback == {"check", "project", "hook", "sequence", "insert"}
Holding == Callback \cup {"held", "commit", "rollback", "release"}
Control == Holding \cup {"idle", "call", "wait", "notify", "reply"}

closed == closer # "open"

StoreTypeOK ==
    /\ db \in Tables
    /\ work \in Tables
    /\ inTx \in BOOLEAN
    /\ token \in BOOLEAN
    /\ broken \in BOOLEAN
    /\ closer \in {"open", "waiting", "closed"}
    /\ pc \in [Writers -> Control]
    /\ applied \in [Writers -> Nat]

StoreInit ==
    /\ db = EmptyTables
    /\ work = EmptyTables
    /\ inTx = FALSE
    /\ token = TRUE
    /\ broken = FALSE
    /\ closer = "open"
    /\ pc = [w \in Writers |-> "idle"]
    /\ applied = [w \in Writers |-> 0]

Goto(w, label) == pc' = [pc EXCEPT ![w] = label]

------------------------------------------------------------------------------
(* Write: admission.                                                        *)

\* The checks of ctx, closed and broken before the token is asked for.
EnterWrite(w) ==
    /\ pc[w] = "call"
    /\ ~closed /\ ~broken
    /\ Goto(w, "wait")
    /\ UNCHANGED <<db, work, inTx, token, broken, closer, applied>>

\* The context is done before Write holds the token.
CancelWrite(w) ==
    /\ pc[w] \in {"call", "wait"}
    /\ Goto(w, "reply")
    /\ UNCHANGED <<db, work, inTx, token, broken, closer, applied>>

\* The store is closed or broken before, or closeCh wakes the select.
FenceWrite(w) ==
    /\ \/ pc[w] = "call" /\ (closed \/ broken)
       \/ pc[w] = "wait" /\ closed
    /\ Goto(w, "reply")
    /\ UNCHANGED <<db, work, inTx, token, broken, closer, applied>>

AcquireToken(w) ==
    /\ pc[w] = "wait"
    /\ token
    /\ token' = FALSE
    /\ Goto(w, "held")
    /\ UNCHANGED <<db, work, inTx, broken, closer, applied>>

\* Mutant of Begin: no second look.
BeginUnfenced(w) ==
    /\ pc[w] = "held"
    /\ ~inTx
    /\ inTx' = TRUE
    /\ work' = db
    /\ Goto(w, "check")
    /\ UNCHANGED <<db, token, broken, closer, applied>>

\* The second look at closed and broken, then BEGIN IMMEDIATE.
Begin(w) ==
    /\ pc[w] = "held"
    /\ ~closed /\ ~broken
    /\ ~inTx
    /\ inTx' = TRUE
    /\ work' = db
    /\ Goto(w, "check")
    /\ UNCHANGED <<db, token, broken, closer, applied>>

\* Mutant of FenceHolder: an early return that forgets the token.
FenceHolderKeepsToken(w) ==
    /\ pc[w] = "held"
    /\ closed \/ broken
    /\ Goto(w, "reply")
    /\ UNCHANGED <<db, work, inTx, token, broken, closer, applied>>

\* The second look finds the store fenced.
FenceHolder(w) ==
    /\ pc[w] = "held"
    /\ closed \/ broken
    /\ Goto(w, "release")
    /\ UNCHANGED <<db, work, inTx, token, broken, closer, applied>>

\* BEGIN IMMEDIATE fails: busy, I/O, or the context is done.
BeginFails(w) ==
    /\ pc[w] = "held"
    /\ ~closed /\ ~broken
    /\ Goto(w, "release")
    /\ UNCHANGED <<db, work, inTx, token, broken, closer, applied>>

------------------------------------------------------------------------------
(* Write: the end of the transaction.                                       *)

\* The callback returns an error at any of its steps (a statement, a projector
\* or the commit hook fails, the context is done), or the context is done when
\* Write looks at it before COMMIT.
CallbackFails(w) ==
    /\ pc[w] \in Callback \cup {"commit"}
    /\ Goto(w, "rollback")
    /\ UNCHANGED <<db, work, inTx, token, broken, closer, applied>>

Commit(w) ==
    /\ pc[w] = "commit"
    /\ db' = work
    /\ inTx' = FALSE
    /\ applied' = [applied EXCEPT ![w] = @ + 1]
    /\ Goto(w, "release")
    /\ UNCHANGED <<work, token, broken, closer>>

\* COMMIT reports an error.  SQLite keeps the transaction open (busy) or has
\* rolled it back itself (full, I/O).
CommitFails(w) ==
    /\ pc[w] = "commit"
    /\ inTx' \in BOOLEAN
    /\ work' = IF inTx' THEN work ELSE db
    /\ Goto(w, "rollback")
    /\ UNCHANGED <<db, token, broken, closer, applied>>

\* COMMIT takes effect, but the context is done and the driver reports that.
CommitUnreported(w) ==
    /\ AmbiguousCommit
    /\ pc[w] = "commit"
    /\ db' = work
    /\ inTx' = FALSE
    /\ applied' = [applied EXCEPT ![w] = @ + 1]
    /\ Goto(w, "rollback")
    /\ UNCHANGED <<work, token, broken, closer>>

\* The deferred rollback: ROLLBACK succeeds, or there is no transaction left
\* and the probe (BEGIN IMMEDIATE, ROLLBACK) proves it.
Rollback(w) ==
    /\ pc[w] = "rollback"
    /\ inTx' = FALSE
    /\ work' = db
    /\ Goto(w, "release")
    /\ UNCHANGED <<db, token, broken, closer, applied>>

\* ROLLBACK and the probe fail: the writer is fenced for good, with its
\* transaction or the probe's possibly still open on the connection.
RollbackFails(w) ==
    /\ pc[w] = "rollback"
    /\ broken' = TRUE
    /\ inTx' \in {inTx, TRUE}
    /\ Goto(w, "release")
    /\ UNCHANGED <<db, work, token, closer, applied>>

------------------------------------------------------------------------------
(* Close and restart.                                                       *)

CloseBegin ==
    /\ closer = "open"
    /\ closer' = "waiting"
    /\ UNCHANGED <<db, work, inTx, token, broken, pc, applied>>

\* Mutant of CloseFinish: Close gives the token back.
CloseReturnsToken ==
    /\ closer = "waiting"
    /\ token
    /\ closer' = "closed"
    /\ inTx' = FALSE
    /\ work' = db
    /\ UNCHANGED <<db, token, broken, pc, applied>>

\* Close takes the token and never gives it back; closing the writer
\* connection ends a transaction a failed rollback left open.
CloseFinish ==
    /\ closer = "waiting"
    /\ token
    /\ token' = FALSE
    /\ closer' = "closed"
    /\ inTx' = FALSE
    /\ work' = db
    /\ UNCHANGED <<db, broken, pc, applied>>

\* The process is killed, or exits, and a new one opens the database: only the
\* committed tables survive, and Open checks their integrity.
StoreRestart ==
    /\ IntegrityCheck(db)
    /\ work' = db
    /\ inTx' = FALSE
    /\ token' = TRUE
    /\ broken' = FALSE
    /\ closer' = "open"
    /\ pc' = [w \in Writers |-> "idle"]
    /\ applied' = [w \in Writers |-> 0]
    /\ UNCHANGED db
==============================================================================
