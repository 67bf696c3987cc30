------------------------------ MODULE Workspace ------------------------------
(****************************************************************************)
(* workspace.Store: one instance per directory, booted in a goroutine that  *)
(* every Load of the directory shares; Reload, which boots the next         *)
(* generation after the previous one is closed; Dispose, DisposeDirectory,  *)
(* DisposeAll and Close; and the root scope, which owns the store and every *)
(* instance.  Steps are the critical sections of Store.mu and what happens  *)
(* between them: waiting for an entry, booting, closing a scope.            *)
(*                                                                          *)
(* A scope is what module Scope says of it: the first Close cleans it, any  *)
(* other waits for that; a closing root refuses children.                   *)
(****************************************************************************)
EXTENDS Integers, Sequences, FiniteSets

CONSTANTS
    Directories,        \* canonical directories, the keys of the store
    Callers,            \* goroutines that use the store
    MaxGeneration,      \* bound on the entries made for each directory
    CancelDisposeAll    \* may the context of DisposeAll and Close be done?

ASSUME WorkspaceAssumption ==
    /\ IsFiniteSet(Directories)
    /\ MaxGeneration \in [Directories -> Nat]
    /\ CancelDisposeAll \in BOOLEAN

NoEntry == 0
Generations(d) == 1 .. MaxGeneration[d]
Entries == UNION {{d} \X Generations(d) : d \in Directories}

VARIABLES
    entries,        \* Store.entries: the generation cached for a directory
    generations,    \* Store.generations
    fenced,         \* Store.closed
    worker,         \* where the goroutine of each entry is
    previous,       \* the entry a Reload replaces
    instance,       \* entries with an instance
    scope,          \* the project scope of each entry
    root,           \* the root scope
    children,       \* the project scopes the root owns, in order of creation
    call            \* what each caller does

vars == <<entries, generations, fenced, worker, previous, instance, scope, root, children, call>>

\* What a caller is at: it waits for an entry, is about to close a scope, cleans
\* that scope, joins the wait for whoever does, or has set the fence of Close.
\* todo holds the entry, those DisposeAll took (for Close of the "root", too), or
\* the root's "children", the next one last.
Return == [op |-> "none", at |-> "idle", todo |-> <<>>]
Calls ==
    [op   : {"none", "load", "directory", "dispose", "all", "children", "root"},
     at   : {"idle", "await", "close", "clean", "join", "fence"},
     todo : Seq(Entries)]

Stages == {"none", "previous", "replace", "child", "boot", "abort", "evict", "ready"}
ScopeStates == {"none", "open", "closing", "closed"}

StoreTypeOK ==
    /\ generations \in [Directories -> Nat]
    /\ entries \in [Directories -> Nat]
    /\ \A d \in Directories :
        generations[d] <= MaxGeneration[d] /\ entries[d] \in {NoEntry, generations[d]}
    /\ fenced \in BOOLEAN
    /\ worker \in [Entries -> Stages]
    /\ previous \in [Entries -> Nat]
    /\ instance \subseteq {e \in Entries : worker[e] = "ready"}
    /\ scope \in [Entries -> ScopeStates]
    /\ root \in {"open", "closing", "closed"}
    /\ children \in Seq(Entries)

TypeOK == StoreTypeOK /\ call \in [Callers -> Calls]

Init ==
    /\ entries = [d \in Directories |-> NoEntry]
    /\ generations = [d \in Directories |-> 0]
    /\ fenced = FALSE
    /\ worker = [e \in Entries |-> "none"]
    /\ previous = [e \in Entries |-> NoEntry]
    /\ instance = {}
    /\ scope = [e \in Entries |-> "none"]
    /\ root = "open"
    /\ children = <<>>
    /\ call = [c \in Callers |-> Return]

Cached(d) == <<d, entries[d]>>
Ready(e) == worker[e] = "ready"
Before(e) == <<e[1], previous[e]>>
Last(q) == q[Len(q)]
Front(q) == SubSeq(q, 1, Len(q) - 1)

storeVars == <<entries, generations, fenced>>
workerVars == <<worker, previous, instance>>
scopeVars == <<scope, root, children>>

Continue(c, op, at, todo) ==
    call' = [call EXCEPT ![c] = [op |-> op, at |-> at, todo |-> todo]]

------------------------------------------------------------------------------
(* Load and Reload.                                                         *)

\* newEntryLocked, and the start of the entry's goroutine at this stage.
NewEntry(d, stage, replaced) ==
    LET e == <<d, generations[d] + 1>> IN
    /\ generations[d] < MaxGeneration[d]
    /\ generations' = [generations EXCEPT ![d] = @ + 1]
    /\ entries' = [entries EXCEPT ![d] = generations[d] + 1]
    /\ worker' = [worker EXCEPT ![e] = stage]
    /\ previous' = [previous EXCEPT ![e] = replaced]
    /\ UNCHANGED <<fenced, instance>>

Load(c, d) ==
    /\ call[c].at = "idle" /\ ~fenced
    /\ \/ /\ entries[d] # NoEntry
          /\ Continue(c, "load", "await", <<Cached(d)>>)
          /\ UNCHANGED <<storeVars, workerVars>>
       \/ /\ entries[d] = NoEntry
          /\ NewEntry(d, "child", NoEntry)
          /\ Continue(c, "load", "await", <<<<d, generations[d] + 1>>>>)
    /\ UNCHANGED scopeVars

Reload(c, d) ==
    /\ call[c].at = "idle" /\ ~fenced
    /\ NewEntry(d, IF entries[d] = NoEntry THEN "child" ELSE "previous", entries[d])
    /\ Continue(c, "load", "await", <<<<d, generations[d] + 1>>>>)
    /\ UNCHANGED scopeVars

------------------------------------------------------------------------------
(* The goroutine of an entry.                                               *)

To(e, stage) == worker' = [worker EXCEPT ![e] = stage]

\* Scope.Close up to its wait: the first caller starts the cleanup.
BeginClose(e) ==
    scope' = [scope EXCEPT ![e] = IF @ = "open" THEN "closing" ELSE @]

\* Mutant of AwaitPrevious: the close of the previous scope is not waited for.
AwaitPreviousReady(e) ==
    /\ worker[e] = "previous" /\ Ready(Before(e))
    /\ To(e, "child")
    /\ IF Before(e) \in instance THEN BeginClose(Before(e)) ELSE UNCHANGED scope
    /\ UNCHANGED <<storeVars, previous, instance, root, children, call>>

\* Reload's goroutine waits for the entry it replaces and closes its instance.
AwaitPrevious(e) ==
    /\ worker[e] = "previous" /\ Ready(Before(e))
    /\ IF Before(e) \in instance
       THEN To(e, "replace") /\ BeginClose(Before(e))
       ELSE To(e, "child") /\ UNCHANGED scope
    /\ UNCHANGED <<storeVars, previous, instance, root, children, call>>

PreviousClosed(e) ==
    /\ worker[e] = "replace" /\ scope[Before(e)] = "closed"
    /\ To(e, "child")
    /\ UNCHANGED <<storeVars, previous, instance, scopeVars, call>>

\* Mutant of RootAccepts: the root takes children while it closes.
RootAcceptsLate == root # "closed"

RootAccepts == root = "open"

\* complete: root.Child, which a root that closes refuses.
CreateScope(e) ==
    /\ worker[e] = "child"
    /\ \/ /\ RootAccepts
          /\ scope' = [scope EXCEPT ![e] = "open"]
          /\ children' = Append(children, e)
          /\ To(e, "boot")
       \/ /\ ~RootAccepts
          /\ To(e, "evict")
          /\ UNCHANGED <<scope, children>>
    /\ UNCHANGED <<storeVars, previous, instance, root, call>>

BootSucceeds(e) ==
    /\ worker[e] = "boot"
    /\ instance' = instance \cup {e}
    /\ To(e, "ready")
    /\ UNCHANGED <<storeVars, previous, scopeVars, call>>

BootFails(e) ==
    /\ worker[e] = "boot"
    /\ BeginClose(e)
    /\ To(e, "abort")
    /\ UNCHANGED <<storeVars, previous, instance, root, children, call>>

AbortedClosed(e) ==
    /\ worker[e] = "abort" /\ scope[e] = "closed"
    /\ To(e, "evict")
    /\ UNCHANGED <<storeVars, previous, instance, scopeVars, call>>

\* Mutant of EntriesWithout: whatever is cached is forgotten.
EntriesWithoutAny(e) == [entries EXCEPT ![e[1]] = NoEntry]

\* A failed entry is forgotten, unless a newer one has taken its place.
EntriesWithout(e) == [entries EXCEPT ![e[1]] = IF @ = e[2] THEN NoEntry ELSE @]

\* Mutant of Evict: ready is not closed.
EvictSilently(e) ==
    /\ worker[e] = "evict"
    /\ entries' = EntriesWithout(e)
    /\ To(e, "none")
    /\ UNCHANGED <<generations, fenced, previous, instance, scopeVars, call>>

Evict(e) ==
    /\ worker[e] = "evict"
    /\ entries' = EntriesWithout(e)
    /\ To(e, "ready")
    /\ UNCHANGED <<generations, fenced, previous, instance, scopeVars, call>>

\* The resources of a scope are closed (module Scope).
ScopeClosed(e) ==
    /\ scope[e] = "closing"
    /\ scope' = [scope EXCEPT ![e] = "closed"]
    /\ UNCHANGED <<storeVars, workerVars, root, children, call>>

------------------------------------------------------------------------------
(* Disposal.                                                                *)

\* Mutant of ForgetAndClose: the instance stays in the cache.
CloseCached(c, e) ==
    /\ IF Cached(e[1]) = e THEN Continue(c, "dispose", "close", <<e>>)
       ELSE call' = [call EXCEPT ![c] = Return]
    /\ UNCHANGED entries

\* Dispose forgets and closes an instance only while it is the cached one.
ForgetAndClose(c, e) ==
    IF Cached(e[1]) = e
    THEN /\ entries' = [entries EXCEPT ![e[1]] = NoEntry]
         /\ Continue(c, "dispose", "close", <<e>>)
    ELSE /\ call' = [call EXCEPT ![c] = Return]
         /\ UNCHANGED entries

Dispose(c, e) ==
    /\ call[c].at = "idle" /\ e \in instance
    /\ ForgetAndClose(c, e)
    /\ UNCHANGED <<generations, fenced, workerVars, scopeVars>>

DisposeDirectory(c, d) ==
    /\ call[c].at = "idle" /\ entries[d] # NoEntry
    /\ Continue(c, "directory", "await", <<Cached(d)>>)
    /\ UNCHANGED <<storeVars, workerVars, scopeVars>>

\* The cached entries, in an order in which a map iteration may yield them.
CachedEntries == {Cached(d) : d \in {d \in Directories : entries[d] # NoEntry}}
Orders(set) ==
    {q \in [1 .. Cardinality(set) -> set] : \A e \in set : \E i \in DOMAIN q : q[i] = e}

\* DisposeAll takes every entry out of the map before it waits for any.
TakeAll(c, op) ==
    /\ entries' = [d \in Directories |-> NoEntry]
    /\ \E todo \in Orders(CachedEntries) : Continue(c, op, "await", todo)

DisposeAll(c) ==
    /\ call[c].at = "idle"
    /\ TakeAll(c, "all")
    /\ UNCHANGED <<generations, fenced, workerVars, scopeVars>>

\* Store.Close: the fence first, DisposeAll in a critical section of its own.
Close(c) ==
    /\ call[c].at = "idle"
    /\ fenced' = TRUE
    /\ Continue(c, "all", "fence", <<>>)
    /\ UNCHANGED <<entries, generations, workerVars, scopeVars>>

\* Close of the root scope: its children, last first, and then the store.
CloseRoot(c) ==
    /\ call[c].at = "idle" /\ root = "open"
    /\ root' = "closing"
    /\ Continue(c, "children", "close", children)
    /\ UNCHANGED <<storeVars, workerVars, scope, children>>

CloseStore(c) ==
    /\ call[c].op = "children" /\ call[c].todo = <<>>
    /\ fenced' = TRUE
    /\ Continue(c, "root", "fence", <<>>)
    /\ UNCHANGED <<entries, generations, workerVars, scopeVars>>

DisposeFenced(c) ==
    /\ call[c].at = "fence"
    /\ TakeAll(c, call[c].op)
    /\ UNCHANGED <<generations, fenced, workerVars, scopeVars>>

------------------------------------------------------------------------------
(* Waiting for entries and closing scopes.                                  *)

Target(c) == Last(call[c].todo)
Awaiting(c, ops) ==
    call[c].op \in ops /\ call[c].at = "await" /\ call[c].todo # <<>>

AnswerLoad(c) ==
    /\ Awaiting(c, {"load"}) /\ Ready(Target(c))
    /\ call' = [call EXCEPT ![c] = Return]
    /\ UNCHANGED <<storeVars, workerVars, scopeVars>>

DisposeAwaited(c) ==
    /\ Awaiting(c, {"directory"}) /\ Ready(Target(c))
    /\ IF Target(c) \in instance THEN ForgetAndClose(c, Target(c))
       ELSE call' = [call EXCEPT ![c] = Return] /\ UNCHANGED entries
    /\ UNCHANGED <<generations, fenced, workerVars, scopeVars>>

\* The caller is done with the entry or scope it was at.
Proceed(c) ==
    call' = [call EXCEPT ![c] =
        IF @.op = "dispose" THEN Return
        ELSE [@ EXCEPT !.todo = Front(call[c].todo), !.at = IF call[c].op = "children" THEN "close" ELSE "await"]]

TakeNext(c) ==
    /\ Awaiting(c, {"all", "root"}) /\ Ready(Target(c))
    /\ IF Target(c) \in instance
       THEN Continue(c, call[c].op, "close", call[c].todo)
       ELSE Proceed(c)
    /\ UNCHANGED <<storeVars, workerVars, scopeVars>>

\* Scope.Close: who finds the scope open cleans it, anybody else joins the wait.
CloseTarget(c) ==
    /\ call[c].at = "close" /\ call[c].todo # <<>>
    /\ BeginClose(Target(c))
    /\ Continue(c, call[c].op, IF scope[Target(c)] = "open" THEN "clean" ELSE "join", call[c].todo)
    /\ UNCHANGED <<storeVars, workerVars, root, children>>

TargetClosed(c) ==
    /\ call[c].at \in {"clean", "join"} /\ scope[Target(c)] = "closed"
    /\ Proceed(c)
    /\ UNCHANGED <<storeVars, workerVars, scopeVars>>

\* The caller's context is done while it waits: a Load returns, DisposeAll goes
\* on to the next entry.
GiveUp(c) ==
    /\ \/ /\ Awaiting(c, {"load", "directory"})
          /\ call' = [call EXCEPT ![c] = Return]
       \/ call[c].op = "dispose" /\ call[c].at = "join" /\ Proceed(c)
       \/ /\ CancelDisposeAll
          /\ Awaiting(c, {"all", "root"}) \/ call[c].at = "join"
          /\ Proceed(c)
    /\ UNCHANGED <<storeVars, workerVars, scopeVars>>

\* DisposeAll has been through its entries; for the root it was the last resource.
EndDisposeAll(c) ==
    /\ call[c].op \in {"all", "root"} /\ call[c].at = "await" /\ call[c].todo = <<>>
    /\ root' = IF call[c].op = "root" THEN "closed" ELSE root
    /\ call' = [call EXCEPT ![c] = Return]
    /\ UNCHANGED <<storeVars, workerVars, scope, children>>

------------------------------------------------------------------------------
Work(e) ==
    \/ AwaitPrevious(e) \/ PreviousClosed(e) \/ CreateScope(e)
    \/ BootSucceeds(e) \/ BootFails(e) \/ AbortedClosed(e) \/ Evict(e)

Advance(c) ==
    \/ AnswerLoad(c) \/ DisposeAwaited(c) \/ TakeNext(c) \/ CloseTarget(c)
    \/ TargetClosed(c) \/ DisposeFenced(c) \/ CloseStore(c) \/ EndDisposeAll(c)

Next ==
    \/ \E e \in Entries : Work(e) \/ ScopeClosed(e)
    \/ \E c \in Callers :
        \/ \E d \in Directories : Load(c, d) \/ Reload(c, d) \/ DisposeDirectory(c, d)
        \/ \E e \in Entries : Dispose(c, e)
        \/ DisposeAll(c) \/ Close(c) \/ CloseRoot(c) \/ Advance(c) \/ GiveUp(c)

Spec == Init /\ [][Next]_vars

\* Boots and the closing of resources return.
FairSpec ==
    /\ Spec
    /\ \A e \in Entries : WF_vars(Work(e)) /\ WF_vars(ScopeClosed(e))
    /\ \A c \in Callers : WF_vars(Advance(c))

------------------------------------------------------------------------------
(* Properties.                                                              *)

\* What Load hands out from the cache is alive: the scope of a cached instance
\* is open as long as the root is (Load, Dispose, Reload).
CachedIsOpen ==
    \A d \in Directories :
        root = "open" /\ entries[d] # NoEntry /\ Ready(Cached(d)) =>
            Cached(d) \in instance /\ scope[Cached(d)] = "open"

\* The goroutine that closes the scope of e, or is bound to.
Superseded(e) ==
    \E g \in Generations(e[1]) : previous[<<e[1], g>>] = e[2] /\ worker[<<e[1], g>>] = "previous"
BeingDisposed(e) ==
    \E c \in Callers : \E i \in DOMAIN call[c].todo :
        call[c].todo[i] = e /\ call[c].op \in {"dispose", "all", "root", "children"}

\* No instance is orphaned: one that is open and no longer cached is about to be
\* closed by the Reload or the disposal that took it out of the cache.
NoOrphan ==
    \A e \in instance :
        scope[e] = "open" => Cached(e[1]) = e \/ Superseded(e) \/ BeingDisposed(e)

\* A Reload boots the next generation only when the previous one is closed, no
\* matter who closes it or whether its boot failed (Reload).
PreviousEndsFirst ==
    \A e \in Entries :
        previous[e] # NoEntry /\ scope[e] # "none" => scope[Before(e)] \in {"none", "closed"}

\* When the root is closed no scope of an instance is left, not even one whose
\* boot raced with the shutdown (complete, Store.Close).
RootLeavesNothing ==
    root = "closed" => \A e \in Entries : scope[e] \in {"none", "closed"}

\* Every Load and Reload is answered: the boot it shares ends, whatever is
\* reloaded, disposed or shut down meanwhile.
LoadReturns ==
    \A c \in Callers : call[c].at = "await" /\ call[c].op = "load" ~> call[c].at = "idle"
==============================================================================
