---------------------------- MODULE ChildProcess -----------------------------
(****************************************************************************)
(* runtime/process: one child in a process group of its own, from Start to  *)
(* the published Result.  The goroutines that may end it race: the watcher  *)
(* of exec.Cmd (context, then WaitDelay), the grace goroutine, every call   *)
(* of Close, and the collector in command.Wait; so do the members of the    *)
(* group, which may ignore SIGTERM and may keep the output pipes open.      *)
(****************************************************************************)
CONSTANTS
    Leader,         \* the child itself
    Descendants,    \* what it forks into its group before it is signalled
    Closers         \* goroutines that call Child.Close

Members == {Leader} \cup Descendants

ASSUME ChildAssumption == Leader \notin Descendants

VARIABLES
    obeys, holds,   \* the members that end on SIGTERM, that keep the pipes
    alive, termed,  \* the members that live, that were sent SIGTERM
    exit,           \* how the child ended
    runCtx,         \* Child.runCtx
    grace,          \* graceOnce and the goroutine it starts
    graceEnded,     \* has the timer of the grace period expired?
    forceOnce, forced,
    watcher,        \* the goroutine of exec.Cmd
    interrupted,    \* what it reports: did Cancel return nil?
    collector,      \* where collect is
    waitErr,        \* what command.Wait returns
    contextErr,     \* what collect has read of runCtx
    childResult,    \* Child.result and Child.waitErr
    closer,         \* where each Close is
    lapsed          \* history: closers whose context was done before the child

signalVars == <<grace, graceEnded, forceOnce, forced>>
groupVars == <<obeys, holds, alive, termed, exit>>
collectVars == <<collector, waitErr, contextErr, childResult>>
watchVars == <<watcher, interrupted>>
closeVars == <<closer, lapsed>>
childVars == <<groupVars, runCtx, signalVars, watchVars, collectVars, closeVars>>

Reaped == collector \notin {"unstarted", "failed", "wait"}
\* The channels finished and done, which collect closes one after the other.
finished == collector = "done"
childDone == collector = "done"

NoResult == [error |-> "none"]

ChildTypeOK ==
    /\ holds \subseteq Members /\ alive \subseteq Members /\ termed \subseteq Members
    /\ exit \in {"none", "zero", "failed", "killed"}
    /\ runCtx \in {"live", "canceled", "timeout"}
    /\ grace \in {"none", "gone", "waiting", "force", "over"}
    /\ forceOnce \in {"unused", "armed", "used"}
    /\ watcher \in {"none", "watching", "delay", "killed", "over"}
    /\ collector \in {"unstarted", "failed", "wait", "watch", "pipes", "read",
                      "publish", "done"}
    /\ closer \in [Closers -> {"idle", "request", "await", "force", "returned"}]

ChildInit ==
    /\ obeys \in SUBSET Members /\ holds \in {Members, {Leader}}
    /\ alive = {} /\ termed = {} /\ exit = "none"
    /\ runCtx = "live"
    /\ grace = "none" /\ graceEnded = FALSE
    /\ forceOnce = "unused" /\ forced = FALSE
    /\ watcher = "none" /\ interrupted = FALSE
    /\ collector = "unstarted" /\ waitErr = "nil" /\ contextErr = "live"
    /\ childResult = NoResult
    /\ closer = [c \in Closers |-> "idle"] /\ lapsed = {}

------------------------------------------------------------------------------
(* The child and its group.                                                 *)

\* command.Start: the error of a context that is done comes before that of the
\* operating system (classifyContext).
StartFails ==
    /\ collector = "unstarted"
    /\ collector' = "failed"
    /\ childResult' = [error |-> IF runCtx = "live" THEN "start_failure" ELSE runCtx]
    /\ UNCHANGED <<groupVars, runCtx, signalVars, watchVars, waitErr, contextErr,
                   closeVars>>

Start ==
    /\ collector = "unstarted" /\ runCtx = "live"
    /\ alive' = Members
    /\ watcher' = "watching" /\ collector' = "wait"
    /\ UNCHANGED <<obeys, holds, termed, exit, runCtx, signalVars, interrupted,
                   waitErr, contextErr, childResult, closeVars>>

Dies(dead, how) ==
    /\ alive' = alive \ dead
    /\ exit' = IF Leader \in alive \cap dead THEN how ELSE exit
    /\ UNCHANGED <<obeys, holds, termed>>

\* A member ends by itself, or because it obeys SIGTERM, with any exit status.
Exit(p) ==
    /\ p \in alive
    /\ \E how \in {"zero", "failed"} : Dies({p}, how)
    /\ UNCHANGED <<runCtx, signalVars, watchVars, collectVars, closeVars>>

Obey(p) == p \in termed \cap obeys /\ Exit(p)

------------------------------------------------------------------------------
(* Termination.                                                             *)

\* The parent's context ends, or the timeout of the Spec expires.
EndRunContext ==
    /\ runCtx = "live" /\ collector \in {"unstarted", "wait", "watch", "pipes", "read"}
    /\ runCtx' \in {"canceled", "timeout"}
    /\ UNCHANGED <<groupVars, signalVars, watchVars, collectVars, closeVars>>

Cancel == runCtx' = IF runCtx = "live" THEN "canceled" ELSE runCtx

GroupExists == alive # {} \/ ~Reaped

\* requestGraceful, whoever calls it first: SIGTERM to the group, and the grace
\* goroutine unless the group is gone.  It does not look at finished.
RequestGraceful ==
    /\ grace' = IF grace # "none" THEN grace ELSE IF GroupExists THEN "waiting" ELSE "gone"
    /\ termed' = IF grace = "none" THEN termed \cup alive ELSE termed
    /\ UNCHANGED <<obeys, holds, alive, exit, graceEnded, forceOnce, forced>>

\* The goroutine of requestGraceful: finished, or the timer; then force returns.
GraceOver ==
    /\ \/ grace = "waiting" /\ finished /\ grace' = "over"
       \/ grace = "waiting" /\ graceEnded /\ grace' = "force"
       \/ grace = "force" /\ forceOnce = "used" /\ grace' = "over"
    /\ UNCHANGED <<groupVars, runCtx, graceEnded, forceOnce, forced, watchVars,
                   collectVars, closeVars>>

GraceTimer ==
    /\ grace \in {"waiting", "force"} /\ ~graceEnded
    /\ graceEnded' = TRUE
    /\ UNCHANGED <<groupVars, runCtx, grace, forceOnce, forced, watchVars,
                   collectVars, closeVars>>

Forcing == grace = "force" \/ \E c \in Closers : closer[c] = "force"

\* Mutant of ForceChild: forced is stored after the signal, or never.
ForceUnmarked ==
    /\ Forcing /\ forceOnce = "unused"
    /\ forceOnce' = IF finished THEN "used" ELSE "armed"
    /\ UNCHANGED <<groupVars, runCtx, grace, graceEnded, forced, watchVars,
                   collectVars, closeVars>>

\* force up to the signal: it looks at finished, then marks the child forced.
ForceChild ==
    /\ Forcing /\ forceOnce = "unused"
    /\ \/ finished /\ forceOnce' = "used" /\ forced' = forced
       \/ ~finished /\ forceOnce' = "armed" /\ forced' = TRUE
    /\ UNCHANGED <<groupVars, runCtx, grace, graceEnded, watchVars, collectVars,
                   closeVars>>

\* SIGKILL to the group, by which time the child may be reaped.
KillGroup ==
    /\ forceOnce = "armed"
    /\ forceOnce' = "used"
    /\ Dies(alive, "killed")
    /\ UNCHANGED <<runCtx, grace, graceEnded, forced, watchVars, collectVars,
                   closeVars>>

------------------------------------------------------------------------------
(* The watcher of exec.Cmd, external, and the collector.                    *)

\* The context is done: command.Cancel, which is requestGraceful.
WatchContext ==
    /\ watcher = "watching" /\ runCtx # "live"
    /\ RequestGraceful
    /\ interrupted' = (grace # "none" \/ GroupExists)
    /\ watcher' = "delay"
    /\ UNCHANGED <<runCtx, collectVars, closeVars>>

\* WaitDelay is longer than the grace period and its timer starts later.
DelayExpires == grace \notin {"none", "gone"} => graceEnded

\* WaitDelay: the child alone is killed and the pipes are closed.
WatchDelay ==
    /\ watcher = "delay" /\ DelayExpires
    /\ watcher' = "killed"
    /\ Dies({Leader}, "killed")
    /\ UNCHANGED <<runCtx, signalVars, interrupted, collectVars, closeVars>>

Reap ==
    /\ collector = "wait" /\ Leader \notin alive
    /\ collector' = "watch"
    /\ waitErr' = IF exit = "zero" THEN "nil" ELSE "exit"
    /\ UNCHANGED <<groupVars, runCtx, signalVars, watchVars, contextErr, childResult,
                   closeVars>>

\* The watcher hands over its result, and its timer if it has one.
TakeWatch ==
    /\ collector = "watch"
    /\ collector' = IF watcher = "killed" THEN "read" ELSE "pipes"
    /\ waitErr' = IF waitErr = "nil" /\ interrupted THEN "context" ELSE waitErr
    /\ watcher' = IF watcher = "killed" THEN watcher ELSE "over"
    /\ UNCHANGED <<groupVars, runCtx, signalVars, interrupted, contextErr, childResult,
                   closeVars>>

\* Mutant of DrainExpires: command.WaitDelay is not set.
DrainNeverExpires == FALSE

\* WaitDelay after the exit of the child, or in the delay that runs already.
DrainExpires == interrupted => DelayExpires

\* awaitGoroutines: the pipes are closed by all who held them, or WaitDelay is
\* over, which is an error unless there is one.
AwaitPipes ==
    /\ collector = "pipes"
    /\ \/ alive \cap holds = {} /\ waitErr' = waitErr
       \/ /\ DrainExpires
          /\ waitErr' = IF waitErr = "nil" THEN "delay" ELSE waitErr
    /\ collector' = "read"
    /\ UNCHANGED <<groupVars, runCtx, signalVars, watchVars, contextErr, childResult,
                   closeVars>>

ReadContext ==
    /\ collector = "read"
    /\ contextErr' = runCtx
    /\ collector' = "publish"
    /\ UNCHANGED <<groupVars, runCtx, signalVars, watchVars, waitErr, childResult,
                   closeVars>>

\* classifyWait.
Classified ==
    IF contextErr # "live" THEN contextErr
    ELSE CASE waitErr = "nil" -> "nil"
           [] waitErr = "exit" -> "exit_failure"
           [] OTHER -> "wait_failure"

\* close(finished), c.cancel, the result and close(done), of which nobody sees
\* the order: a force that has passed its test of finished is either marked by
\* now or late, for a child that is dead.
Publish ==
    /\ collector = "publish"
    /\ Cancel
    /\ childResult' = [error |-> Classified, exit |-> exit, forced |-> forced]
    /\ collector' = "done"
    /\ UNCHANGED <<groupVars, signalVars, watchVars, waitErr, contextErr, closeVars>>

------------------------------------------------------------------------------
(* Close.                                                                   *)

At(c, place) == closer' = [closer EXCEPT ![c] = place]

\* Close finds the child running and cancels runCtx.
StopChild(c) ==
    /\ closer[c] = "idle" /\ collector \notin {"unstarted", "failed"} /\ ~childDone
    /\ Cancel
    /\ At(c, "request")
    /\ UNCHANGED <<groupVars, signalVars, watchVars, collectVars, lapsed>>

StopRequests(c) ==
    /\ closer[c] = "request"
    /\ RequestGraceful
    /\ At(c, "await")
    /\ UNCHANGED <<runCtx, watchVars, collectVars, lapsed>>

\* The context of the caller is done: force.
StopLapses(c) ==
    /\ closer[c] = "await"
    /\ lapsed' = lapsed \cup {c}
    /\ At(c, "force")
    /\ UNCHANGED <<groupVars, runCtx, signalVars, watchVars, collectVars>>

\* The child is done, or the force is.
StopReturns(c) ==
    /\ \/ closer[c] = "await" /\ childDone
       \/ closer[c] = "force" /\ forceOnce = "used"
    /\ At(c, "returned")
    /\ UNCHANGED <<groupVars, runCtx, signalVars, watchVars, collectVars, lapsed>>

------------------------------------------------------------------------------
Collect == Reap \/ TakeWatch \/ AwaitPipes \/ ReadContext \/ Publish
Terminate == GraceOver \/ GraceTimer \/ ForceChild \/ KillGroup \/ WatchContext \/ WatchDelay

ChildNext ==
    \/ StartFails \/ Start \/ EndRunContext \/ Collect \/ Terminate
    \/ \E p \in Members : Exit(p)
    \/ \E c \in Closers : StopChild(c) \/ StopRequests(c) \/ StopLapses(c) \/ StopReturns(c)

ChildSpec == ChildInit /\ [][ChildNext]_childVars

\* Goroutines run, timers expire, and a member that obeys SIGTERM ends; nobody
\* else needs to end, and no context but the child's own.
ChildFairness ==
    /\ WF_childVars(Collect)
    /\ WF_childVars(GraceOver) /\ WF_childVars(GraceTimer) /\ WF_childVars(ForceChild) /\ WF_childVars(KillGroup)
    /\ WF_childVars(WatchContext) /\ WF_childVars(WatchDelay)
    /\ \A p \in Members : WF_childVars(Obey(p))
    /\ \A c \in Closers : WF_childVars(StopRequests(c)) /\ WF_childVars(StopReturns(c))

------------------------------------------------------------------------------
(* Properties.                                                              *)

\* What Wait returns is true: no error means that the child has exited with 0
\* before anybody told it to stop, an error of a context that it has ended;
\* a child that SIGKILL of the group has ended is marked Forced, and force is an
\* escalation: the grace period was over or the context of a Close had ended
\* (collect, classifyWait, force, requestGraceful, Close).
ResultIsTrue ==
    childDone =>
        /\ childResult.error = "nil" => childResult.exit = "zero" /\ Leader \notin termed
        /\ childResult.error \in {"canceled", "timeout"} => childResult.error = runCtx
        /\ childResult.error = "exit_failure" => childResult.exit # "zero" /\ ~interrupted
        /\ childResult.exit = "killed" /\ watcher # "killed" => childResult.forced
        /\ childResult.forced => graceEnded \/ lapsed # {}

\* A child that was told to stop is collected, even when it ignores SIGTERM and
\* its descendants keep the pipes open and ignore it too.
StopEnds == runCtx # "live" /\ watcher # "none" ~> childDone

\* The documents say that the descendants in the group are cleaned up: once the
\* child has been stopped, within its grace period or by force, and everyone who
\* signals it has returned, none lives but those about to obey SIGTERM.
GroupIsGone ==
    /\ termed # {} /\ childDone /\ watcher # "killed" /\ grace = "over"
    /\ \A c \in Closers : closer[c] \in {"idle", "returned"}
    => alive \subseteq obeys
==============================================================================
