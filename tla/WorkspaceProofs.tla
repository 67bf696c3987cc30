--------------------------- MODULE WorkspaceProofs ---------------------------
(****************************************************************************)
(* Proofs of the safety of the workspace store, for all directories,        *)
(* callers and numbers of reloads.  The invariant comes in layers: what an  *)
(* entry's goroutine leaves behind at each stage, what a caller knows of    *)
(* the entries it is about to close, and from both what the cache, the      *)
(* disposals and the root guarantee.                                        *)
(****************************************************************************)
EXTENDS Workspace, SequenceTheorems, FiniteSetTheorems, TLAPS

------------------------------------------------------------------------------
(* Entries.                                                                 *)

\* An entry exists as soon as its generation was counted; its scope is made
\* after the previous generation has ended.
EntryInv(e) ==
    /\ worker[e] = "none" <=> e[2] > generations[e[1]]
    /\ worker[e] \in {"none", "previous", "replace", "child"} => scope[e] = "none"
    /\ worker[e] = "boot" => scope[e] # "none"
    /\ worker[e] = "abort" => scope[e] \in {"closing", "closed"}
    /\ worker[e] = "evict" => scope[e] \in {"none", "closed"}
    /\ worker[e] = "ready" =>
        IF e \in instance THEN scope[e] # "none" ELSE scope[e] \in {"none", "closed"}

\* The generation that a Reload replaces is an earlier one, and has ended when
\* the new one makes its scope.
ReplacedInv(e) ==
    /\ previous[e] # NoEntry => previous[e] \in 1 .. e[2] - 1 /\ worker[e] # "none"
    /\ worker[e] \in {"previous", "replace"} => previous[e] # NoEntry
    /\ worker[e] = "replace" =>
        Before(e) \in instance /\ scope[Before(e)] \in {"closing", "closed"}
    /\ worker[e] \in {"child", "boot", "abort", "evict", "ready"} /\ previous[e] # NoEntry =>
        Ready(Before(e)) /\ scope[Before(e)] \in {"none", "closed"}

EntriesInv == StoreTypeOK /\ \A e \in Entries : EntryInv(e) /\ ReplacedInv(e)

------------------------------------------------------------------------------
(* Callers.                                                                 *)

\* What a caller is at, and what it knows of its target.
CallAt(c) ==
    LET op == call[c].op
        at == call[c].at
        todo == call[c].todo IN
    /\ op = "none" <=> at = "idle"
    /\ at \in {"idle", "fence"} => todo = <<>>
    /\ at = "fence" => op \in {"all", "root"}
    /\ op \in {"load", "directory"} => at = "await" /\ todo # <<>>
    /\ op = "dispose" => at \in {"close", "clean", "join"} /\ Len(todo) = 1
    /\ op = "children" => at \in {"close", "clean", "join"}
    /\ at \in {"clean", "join"} =>
        todo # <<>> /\ scope[Target(c)] \in {"closing", "closed"}
    /\ at \in {"close", "clean", "join"} /\ op # "children" =>
        todo # <<>> /\ Target(c) \in instance

\* What a disposal took out of the cache does not come back; what the root closes
\* has a scope.
TakenOut(c) ==
    \A i \in 1 .. Len(call[c].todo) :
        LET e == call[c].todo[i] IN
        /\ call[c].op \in {"dispose", "all", "root"} => worker[e] # "none" /\ Cached(e[1]) # e
        /\ call[c].op = "children" => scope[e] # "none"

\* One caller closes the root.
RootCaller(c) == call[c].op \in {"children", "root"}
RootCalls ==
    /\ \A c \in Callers : RootCaller(c) => root = "closing"
    /\ \A c, d \in Callers : RootCaller(c) /\ RootCaller(d) => c = d
    /\ root = "closing" => \E c \in Callers : RootCaller(c)

CallsInv ==
    /\ call \in [Callers -> Calls]
    /\ RootCalls
    /\ \A i \in 1 .. Len(children) : scope[children[i]] # "none"
    /\ \A c \in Callers : CallAt(c) /\ TakenOut(c)

------------------------------------------------------------------------------
(* The cache, the disposals and the root.                                   *)

\* Until the root closes, nobody closes what boots or is cached.
CacheInv ==
    root = "open" =>
        \A e \in Entries :
            /\ worker[e] = "boot" => scope[e] = "open"
            /\ Ready(e) /\ Cached(e[1]) = e => e \in instance /\ scope[e] = "open"

\* Entries that are, or may become, an open instance.
Loose(e) ==
    \/ worker[e] \in {"previous", "replace", "child"}
    \/ (worker[e] = "boot" \/ e \in instance) /\ scope[e] = "open"
LooseInv ==
    \A e \in Entries :
        Loose(e) => Cached(e[1]) = e \/ Superseded(e) \/ BeingDisposed(e)

\* The root knows every scope it accepted, and whoever closes it has ended them,
\* or is still to end them.
AllEnded == \A e \in Entries : scope[e] \in {"none", "closed"}
ChildrenListed == \A e \in Entries : scope[e] # "none" => \E i \in 1 .. Len(children) : children[i] = e
RootAt(c) ==
    /\ call[c].op = "children" =>
        \A e \in Entries :
            scope[e] \in {"none", "closed"} \/ \E i \in 1 .. Len(call[c].todo) : call[c].todo[i] = e
    /\ call[c].op = "root" => AllEnded
RootInv == ChildrenListed /\ RootLeavesNothing /\ \A c \in Callers : RootAt(c)

------------------------------------------------------------------------------
(* Typing.                                                                  *)

\* The pairs that are entries.
LEMMA EntryShape ==
    /\ \A e \in Entries :
        /\ e = <<e[1], e[2]>> /\ e[1] \in Directories
        /\ e[2] \in Generations(e[1]) /\ e[2] \in Nat \ {0}
    /\ \A d \in Directories : \A g \in 1 .. MaxGeneration[d] :
        <<d, g>> \in Entries /\ <<d, g>>[1] = d /\ <<d, g>>[2] = g
  BY WorkspaceAssumption DEF Entries, Generations

\* What is cached, and what a Reload replaces, are entries.
LEMMA NamedEntries ==
    ASSUME EntriesInv
    PROVE  /\ \A d \in Directories : entries[d] # NoEntry =>
                /\ Cached(d) \in Entries /\ Cached(d)[1] = d /\ Cached(d)[2] = generations[d]
                /\ worker[Cached(d)] # "none"
           /\ \A e \in Entries : previous[e] # NoEntry =>
                /\ Before(e) \in Entries /\ Before(e)[1] = e[1] /\ Before(e)[2] = previous[e]
                /\ Before(e) # e
  <1>1. ASSUME NEW d \in Directories, entries[d] # NoEntry
        PROVE  /\ Cached(d) \in Entries /\ Cached(d)[1] = d /\ Cached(d)[2] = generations[d]
               /\ worker[Cached(d)] # "none"
    <2>1. entries[d] = generations[d] /\ generations[d] \in 1 .. MaxGeneration[d]
      BY <1>1, WorkspaceAssumption DEF EntriesInv, StoreTypeOK, NoEntry
    <2>2. Cached(d) \in Entries /\ Cached(d)[1] = d /\ Cached(d)[2] = generations[d]
      BY <2>1, EntryShape DEF Cached
    <2>. QED
      BY <2>1, <2>2 DEF EntriesInv, EntryInv
  <1>2. ASSUME NEW e \in Entries, previous[e] # NoEntry
        PROVE  /\ Before(e) \in Entries /\ Before(e)[1] = e[1] /\ Before(e)[2] = previous[e]
               /\ Before(e) # e
    <2>1. previous[e] \in 1 .. e[2] - 1
      BY <1>2 DEF EntriesInv, ReplacedInv
    <2>2. e[1] \in Directories /\ e[2] \in 1 .. MaxGeneration[e[1]] /\ MaxGeneration[e[1]] \in Nat
      BY EntryShape, WorkspaceAssumption DEF Generations
    <2>3. previous[e] \in 1 .. MaxGeneration[e[1]] /\ previous[e] < e[2]
      BY <2>1, <2>2
    <2>. QED
      BY <2>2, <2>3, EntryShape DEF Before
  <1>. QED
    BY <1>1, <1>2

LEMMA FrontIsSeq ==
    ASSUME NEW S, NEW q \in Seq(S), q # <<>>
    PROVE  /\ Last(q) \in S /\ Last(q) = q[Len(q)] /\ Len(q) \in 1 .. Len(q)
           /\ Front(q) \in Seq(S) /\ Len(Front(q)) = Len(q) - 1
           /\ \A i \in 1 .. Len(Front(q)) : Front(q)[i] = q[i]
  <1>1. Len(q) \in Nat \ {0}
    BY EmptySeq
  <1>2. PICK n \in Nat : n = Len(q) - 1
    BY <1>1
  <1>3. /\ SubSeq(q, 1, n) \in Seq(S) /\ Len(SubSeq(q, 1, n)) = n
        /\ \A i \in 1 .. n : SubSeq(q, 1, n)[i] = q[i]
    BY <1>1, <1>2, SubSeqProperties
  <1>. QED
    BY <1>1, <1>2, <1>3, ElementOfSeq DEF Front, Last

\* The order in which DisposeAll meets the cached entries.
LEMMA OrdersAreSeqs ==
    ASSUME EntriesInv, NEW q \in Orders(CachedEntries)
    PROVE  q \in Seq(CachedEntries) /\ q \in Seq(Entries)
  <1>1. IsFiniteSet({d \in Directories : entries[d] # NoEntry})
    BY WorkspaceAssumption, FS_Subset
  <1>2. IsFiniteSet(CachedEntries)
    <2> DEFINE Holding == {d \in Directories : entries[d] # NoEntry}
               entry == [d \in Holding |-> Cached(d)]
    <2>1. entry \in Surjection(Holding, CachedEntries)
      BY DEF Surjection, CachedEntries
    <2>. QED
      BY <1>1, <2>1, FS_Surjection
  <1>3. Cardinality(CachedEntries) \in Nat
    BY <1>2, FS_CardinalityType
  <1>4. q \in [1 .. Cardinality(CachedEntries) -> CachedEntries]
    BY DEF Orders
  <1>5. CachedEntries \subseteq Entries
    BY NamedEntries DEF CachedEntries
  <1>. QED
    BY <1>3, <1>4, <1>5, IsASeq, SeqMonotonic

LEMMA CallKept ==
    ASSUME call \in [Callers -> Calls], NEW c \in Callers, NEW op, NEW at, NEW todo, Continue(c, op, at, todo),
           op \in {"none", "load", "directory", "dispose", "all", "children", "root"},
           at \in {"idle", "await", "close", "clean", "join", "fence"},
           todo \in Seq(Entries)
    PROVE  call' \in [Callers -> Calls]
  BY DEF Continue, Calls

LEMMA ReturnKept ==
    ASSUME call \in [Callers -> Calls], NEW c \in Callers, call' = [call EXCEPT ![c] = Return]
    PROVE  call' \in [Callers -> Calls]
  <1>1. Return \in Calls
    BY EmptySeq DEF Return, Calls
  <1>. QED
    BY <1>1

LEMMA AtProceeds ==
    ASSUME NEW r \in Calls, NEW todo \in Seq(Entries), NEW at \in {"await", "close"}
    PROVE  LET next == [r EXCEPT !.todo = todo, !.at = at] IN
           next \in Calls /\ next.op = r.op /\ next.at = at /\ next.todo = todo
  BY DEF Calls

LEMMA ProceedKept ==
    ASSUME call \in [Callers -> Calls], NEW c \in Callers, Proceed(c), call[c].op # "dispose" => call[c].todo # <<>>
    PROVE  call' \in [Callers -> Calls]
  <1>1. Return \in Calls
    BY EmptySeq DEF Return, Calls
  <1>2. call[c].op \in {"none", "load", "directory", "dispose", "all", "children", "root"} /\ call[c].todo \in Seq(Entries)
    BY DEF Calls
  <1>3. CASE call[c].op = "dispose"
    BY <1>1, <1>3 DEF Proceed
  <1>4. CASE call[c].op # "dispose"
    <2>1. Front(call[c].todo) \in Seq(Entries)
      BY <1>2, <1>4, FrontIsSeq
    <2>. DEFINE next == [call[c] EXCEPT !.todo = Front(call[c].todo), !.at = IF call[c].op = "children" THEN "close" ELSE "await"]
    <2>2. next \in Calls
      <3>1. (IF call[c].op = "children" THEN "close" ELSE "await") \in {"await", "close"} /\ call[c] \in Calls
        OBVIOUS
      <3>. QED
        BY <3>1, <2>1, AtProceeds
    <2>3. call' = [call EXCEPT ![c] = next]
      BY <1>4 DEF Proceed
    <2>. QED
      BY <2>2, <2>3
  <1>. QED
    BY <1>3, <1>4

LEMMA InitEntries == Init => EntriesInv
  <1> SUFFICES ASSUME Init PROVE EntriesInv
    OBVIOUS
  <1> USE DEF Init
  <1>1. <<>> \in Seq(Entries)
    BY EmptySeq
  <1>2. StoreTypeOK
    <2>1. \A d \in Directories : generations[d] <= MaxGeneration[d]
      BY WorkspaceAssumption
    <2>2. entries \in [Directories -> Nat] /\ previous \in [Entries -> Nat] /\ instance = {}
      BY DEF NoEntry
    <2>3. worker \in [Entries -> Stages] /\ scope \in [Entries -> ScopeStates]
      BY DEF Stages, ScopeStates
    <2>. QED
      BY <1>1, <2>1, <2>2, <2>3 DEF StoreTypeOK
  <1>3. \A e \in Entries : EntryInv(e) /\ ReplacedInv(e)
    BY EntryShape DEF EntryInv, ReplacedInv, NoEntry
  <1>. QED
    BY <1>2, <1>3 DEF EntriesInv

\* A caller has something to do while it closes or awaits.
LEMMA Targets ==
    ASSUME EntriesInv, CallsInv, NEW c \in Callers
    PROVE  /\ call[c] \in Calls /\ call[c].todo \in Seq(Entries)
           /\ call[c].at \in {"clean", "join"} => call[c].todo # <<>>
           /\ call[c].todo # <<>> => Target(c) \in Entries
           /\ call[c].op \in {"load", "directory"} => call[c].todo # <<>>
  <1>1. call[c] \in Calls /\ call[c].todo \in Seq(Entries)
    BY DEF CallsInv, Calls
  <1>2. CallAt(c)
    BY DEF CallsInv
  <1>. QED
    BY <1>1, <1>2, FrontIsSeq DEF CallAt, Target

LEMMA CallsTyped ==
    ASSUME EntriesInv, CallsInv, [Next]_vars
    PROVE  call' \in [Callers -> Calls]
  <1>0. call \in [Callers -> Calls] /\ StoreTypeOK
    BY DEF EntriesInv, CallsInv
  <1>1. ASSUME NEW e \in Entries, Work(e) \/ ScopeClosed(e) PROVE call' \in [Callers -> Calls]
    BY <1>0, <1>1
    DEF Work, ScopeClosed, AwaitPrevious, PreviousClosed, CreateScope, BootSucceeds, BootFails, AbortedClosed,
        Evict
  <1>2. ASSUME NEW c \in Callers, NEW d \in Directories, Load(c, d) \/ Reload(c, d) \/ DisposeDirectory(c, d)
        PROVE  call' \in [Callers -> Calls]
    <2>1. entries[d] # NoEntry => <<Cached(d)>> \in Seq(Entries)
      BY NamedEntries
    <2>2. generations[d] < MaxGeneration[d] => <<d, generations[d] + 1>> \in Entries
      BY <1>0, EntryShape, WorkspaceAssumption DEF StoreTypeOK
    <2>3. CASE Load(c, d)
      <3>1. CASE entries[d] # NoEntry
        <4>1. Continue(c, "load", "await", <<Cached(d)>>)
          BY <2>3, <3>1 DEF Load
        <4>. QED
          BY <1>0, <2>1, <3>1, <4>1, CallKept
      <3>2. CASE entries[d] = NoEntry
        <4>1. Continue(c, "load", "await", <<<<d, generations[d] + 1>>>>) /\ generations[d] < MaxGeneration[d]
          BY <2>3, <3>2 DEF Load, NewEntry
        <4>2. PICK e \in Entries : e = <<d, generations[d] + 1>>
          BY <2>2, <4>1
        <4>3. PICK todo : todo = <<e>>
          OBVIOUS
        <4>4. todo \in Seq(Entries) /\ Continue(c, "load", "await", todo)
          BY <4>1, <4>2, <4>3
        <4>. QED
          BY <1>0, <4>4, CallKept
      <3>. QED
        BY <3>1, <3>2
    <2>4. CASE Reload(c, d)
      BY <1>0, <2>2, <2>4, CallKept, SMTT(20) DEF Reload, NewEntry
    <2>5. CASE DisposeDirectory(c, d)
      BY <1>0, <2>1, <2>5, CallKept DEF DisposeDirectory
    <2>. QED
      BY <1>2, <2>3, <2>4, <2>5
  <1>3. ASSUME NEW c \in Callers, NEW e \in Entries, ForgetAndClose(c, e)
        PROVE  call' \in [Callers -> Calls]
    <2>1. PICK todo : todo = <<e>>
      OBVIOUS
    <2>2. todo \in Seq(Entries)
      BY <2>1
    <2>3. Continue(c, "dispose", "close", todo) \/ call' = [call EXCEPT ![c] = Return]
      BY <1>3, <2>1 DEF ForgetAndClose
    <2>. QED
      BY <1>0, <2>2, <2>3, CallKept, ReturnKept
  <1>4. ASSUME NEW c \in Callers, NEW op \in {"all", "root"}, TakeAll(c, op)
        PROVE  call' \in [Callers -> Calls]
    BY <1>0, <1>4, CallKept, OrdersAreSeqs DEF TakeAll
  <1>5. ASSUME NEW c \in Callers, Close(c) \/ CloseRoot(c) \/ CloseStore(c)
        PROVE  call' \in [Callers -> Calls]
    BY <1>0, <1>5, CallKept, EmptySeq DEF Close, CloseRoot, CloseStore, StoreTypeOK
  <1>6. ASSUME NEW c \in Callers, Proceed(c), call[c].op = "dispose" \/ call[c].todo # <<>>
        PROVE  call' \in [Callers -> Calls]
    BY <1>0, <1>6, ProceedKept
  <1>7. ASSUME NEW c \in Callers, Advance(c) \/ GiveUp(c)
        PROVE  call' \in [Callers -> Calls]
    <2>1. CASE AnswerLoad(c) \/ EndDisposeAll(c)
      BY <1>0, <2>1, ReturnKept DEF AnswerLoad, EndDisposeAll
    <2>2. CASE DisposeAwaited(c)
      BY <1>0, <2>2, <1>3, Targets, ReturnKept DEF DisposeAwaited, Awaiting
    <2>3. CASE TakeNext(c)
      BY <1>0, <2>3, <1>6, Targets, CallKept DEF TakeNext, Awaiting
    <2>4. CASE CloseTarget(c)
      <3>1. PICK at \in {"clean", "join"} : Continue(c, call[c].op, at, call[c].todo)
        BY <2>4 DEF CloseTarget
      <3>. QED
        BY <1>0, <3>1, Targets, CallKept DEF Calls
    <2>5. CASE TargetClosed(c)
      BY <2>5, <1>6, Targets DEF TargetClosed
    <2>6. CASE DisposeFenced(c)
      BY <2>6, <1>4 DEF DisposeFenced, CallsInv, CallAt
    <2>7. CASE CloseStore(c)
      BY <2>7, <1>5
    <2>8. CASE GiveUp(c)
      BY <1>0, <2>8, <1>6, Targets, ReturnKept DEF GiveUp, Awaiting
    <2>. QED
      BY <1>7, <2>1, <2>2, <2>3, <2>4, <2>5, <2>6, <2>7, <2>8 DEF Advance
  <1>8. CASE UNCHANGED vars
    BY <1>0, <1>8 DEF vars
  <1>. QED
    BY <1>1, <1>2, <1>3, <1>4, <1>5, <1>7, <1>8 DEF Next, Dispose, DisposeAll

------------------------------------------------------------------------------
(* The goroutines of the entries.                                           *)

\* A scope that exists only ever closes.
Moves(e) ==
    \/ scope'[e] = scope[e]
    \/ scope[e] = "open" /\ scope'[e] = "closing"
    \/ scope[e] = "closing" /\ scope'[e] = "closed"

LEMMA BeginCloseMoves ==
    ASSUME EntriesInv, NEW e, BeginClose(e)
    PROVE  scope' \in [Entries -> ScopeStates] /\ \A f \in Entries : Moves(f)
  BY DEF EntriesInv, StoreTypeOK, BeginClose, ScopeStates, Moves

\* The entry f is left alone, and so is what it says of its predecessor.
LEMMA EntryKept ==
    ASSUME EntriesInv, NEW f \in Entries,
           worker'[f] = worker[f], previous'[f] = previous[f],
           f \in instance' <=> f \in instance, instance \subseteq instance',
           f[2] > generations'[f[1]] <=> f[2] > generations[f[1]],
           Moves(f),
           \A g \in Entries : Ready(g) => worker'[g] = "ready" /\ Moves(g)
    PROVE  EntryInv(f)' /\ ReplacedInv(f)'
  <1> USE DEF EntriesInv
  <1>1. EntryInv(f)'
    BY DEF EntryInv, Moves
  <1>2. PICK b : b = Before(f)
    OBVIOUS
  <1>3. Before(f)' = b
    BY <1>2 DEF Before
  <1>4. previous[f] # NoEntry => b \in Entries
    BY <1>2, NamedEntries
  <1>5. b \in instance => b \in Entries /\ Ready(b)
    BY DEF StoreTypeOK, Ready
  <1>6. ReplacedInv(f)'
    BY <1>2, <1>3, <1>4, <1>5 DEF ReplacedInv, Moves, Ready
  <1>. QED
    BY <1>1, <1>6

\* Callers and the closing of scopes disturb no goroutine.
LEMMA AllKept ==
    ASSUME EntriesInv, UNCHANGED <<workerVars, generations>>, \A f \in Entries : Moves(f)
    PROVE  \A f \in Entries : EntryInv(f)' /\ ReplacedInv(f)'
  <1> TAKE f \in Entries
  <1>. QED
    BY EntryKept DEF workerVars, Ready

\* The goroutine of e goes on, and no other entry is disturbed.
LEMMA OthersKept ==
    ASSUME EntriesInv, NEW e \in Entries, NEW stage, To(e, stage), ~Ready(e),
           UNCHANGED <<previous, generations>>, instance' = instance \/ instance' = instance \cup {e},
           \A f \in Entries : f # e => Moves(f)
    PROVE  \A f \in Entries : f # e => EntryInv(f)' /\ ReplacedInv(f)'
  <1> SUFFICES ASSUME NEW f \in Entries, f # e PROVE EntryInv(f)' /\ ReplacedInv(f)'
    OBVIOUS
  <1>1. \A g \in Entries : g # e => worker'[g] = worker[g]
    BY DEF EntriesInv, StoreTypeOK, To
  <1>. QED
    BY <1>1, EntryKept DEF Ready

\* A new goroutine starts after the one it replaces.
LEMMA NewEntryKeeps ==
    ASSUME EntriesInv, NEW d \in Directories, NEW stage, NEW replaced, NewEntry(d, stage, replaced), UNCHANGED scopeVars,
           \/ stage = "child" /\ replaced = NoEntry
           \/ stage = "previous" /\ replaced = entries[d] /\ entries[d] # NoEntry
    PROVE  StoreTypeOK' /\ \A f \in Entries : EntryInv(f)' /\ ReplacedInv(f)'
  <1> USE DEF EntriesInv, StoreTypeOK, scopeVars
  <1>1. PICK e \in Entries : e = <<d, generations[d] + 1>> /\ e[1] = d /\ e[2] = generations[d] + 1
    <2>1. generations[d] \in Nat /\ MaxGeneration[d] \in Nat
      BY WorkspaceAssumption
    <2>2. generations[d] < MaxGeneration[d]
      BY DEF NewEntry
    <2>3. PICK g \in 1 .. MaxGeneration[d] : g = generations[d] + 1
      BY <2>1, <2>2
    <2>4. PICK e : e = <<d, g>>
      OBVIOUS
    <2>5. e \in Entries /\ e[1] = d /\ e[2] = g
      BY <2>4, EntryShape
    <2>. QED
      BY <2>3, <2>4, <2>5
  <1>2. worker[e] = "none" /\ scope[e] = "none" /\ e \notin instance
    BY <1>1 DEF EntryInv
  <1>3. /\ worker' = [worker EXCEPT ![e] = stage] /\ previous' = [previous EXCEPT ![e] = replaced]
        /\ generations' = [generations EXCEPT ![d] = e[2]] /\ UNCHANGED instance
    BY <1>1 DEF NewEntry
  <1>4. replaced \in Nat /\ replaced < e[2] /\ (replaced # NoEntry => replaced \in 1 .. e[2] - 1)
    BY <1>1 DEF NoEntry
  <1>5. ASSUME NEW f \in Entries, f # e PROVE EntryInv(f)' /\ ReplacedInv(f)'
    <2>1. f[2] > generations'[f[1]] <=> f[2] > generations[f[1]]
      BY <1>1, <1>3, <1>5, EntryShape
    <2>2. \A g \in Entries : g # e => worker'[g] = worker[g]
      BY <1>3
    <2>. QED
      BY <1>2, <1>3, <1>5, <2>1, <2>2, EntryKept DEF Ready, Moves
  <1>6. EntryInv(e)' /\ ReplacedInv(e)'
    <2>1. worker'[e] = stage /\ previous'[e] = replaced /\ generations'[e[1]] = e[2]
      BY <1>1, <1>3
    <2>2. previous'[e] # NoEntry => stage = "previous"
      BY <2>1
    <2>3. EntryInv(e)'
      <3>1. worker'[e] \in {"child", "previous"} /\ ~(e[2] > generations'[e[1]]) /\ scope'[e] = "none"
        BY <1>1, <1>2, <2>1, EntryShape
      <3>. QED
        BY <3>1 DEF EntryInv
    <2>4. ReplacedInv(e)'
      BY <1>4, <2>1, <2>2 DEF ReplacedInv
    <2>. QED
      BY <2>3, <2>4
  <1>7. StoreTypeOK'
    <2>1. worker' \in [Entries -> Stages] /\ previous' \in [Entries -> Nat]
      BY <1>3, <1>4 DEF Stages
    <2>2. /\ generations' \in [Directories -> Nat] /\ entries' \in [Directories -> Nat]
          /\ \A x \in Directories :
                generations'[x] <= MaxGeneration[x] /\ entries'[x] \in {NoEntry, generations'[x]}
      <3>1. /\ generations' = [generations EXCEPT ![d] = generations[d] + 1]
            /\ entries' = [entries EXCEPT ![d] = generations[d] + 1]
        BY DEF NewEntry
      <3>2. generations[d] + 1 \in Nat /\ generations[d] + 1 <= MaxGeneration[d]
        <4>1. generations[d] \in Nat /\ MaxGeneration[d] \in Nat
          BY WorkspaceAssumption
        <4>2. generations[d] < MaxGeneration[d]
          BY DEF NewEntry
        <4>. QED
          BY <4>1, <4>2
      <3>. QED
        BY <3>1, <3>2
    <2>3. instance' \subseteq {x \in Entries : worker'[x] = "ready"}
      BY <1>2, <1>3
    <2>4. fenced' \in BOOLEAN /\ scope' \in [Entries -> ScopeStates]
      BY DEF NewEntry
    <2>. QED
      BY <2>1, <2>2, <2>3, <2>4
  <1>. QED
    BY <1>5, <1>6, <1>7

LEMMA WorkKeeps ==
    ASSUME EntriesInv, NEW e \in Entries, Work(e), UNCHANGED call
    PROVE  \A f \in Entries : EntryInv(f)' /\ ReplacedInv(f)'
  <1> USE DEF EntriesInv, StoreTypeOK
  <1>1. CASE AwaitPrevious(e)
    <2>1. PICK b : b = Before(e)
      OBVIOUS
    <2>2. b \in Entries /\ b # e /\ Before(e)' = b /\ b[1] = e[1]
      BY <1>1, <2>1, NamedEntries DEF AwaitPrevious, ReplacedInv, Before
    <2>3. /\ \A f \in Entries : Moves(f)
          /\ b \in instance => scope'[b] \in {"closing", "closed"}
      BY <1>1, <2>1, <2>2, BeginCloseMoves DEF AwaitPrevious, Moves, BeginClose, EntryInv, Ready, ScopeStates
    <2>4. /\ To(e, IF b \in instance THEN "replace" ELSE "child")
          /\ ~Ready(e) /\ UNCHANGED <<previous, generations, instance>>
      BY <1>1, <2>1 DEF AwaitPrevious, storeVars, Ready
    <2>5. \A f \in Entries : f # e => EntryInv(f)' /\ ReplacedInv(f)'
      BY <2>3, <2>4, OthersKept
    <2>6. EntryInv(e)'
      BY <1>1, <2>3, <2>4 DEF EntryInv, To, AwaitPrevious, Moves
    <2>7. b \notin instance => scope[b] \in {"none", "closed"}
      BY <1>1, <2>1, <2>2 DEF EntryInv, AwaitPrevious, Ready
    <2>8. ReplacedInv(e)'
      <3>1. previous'[e] # NoEntry /\ previous'[e] \in 1 .. e[2] - 1
        BY <1>1, <2>4 DEF ReplacedInv, AwaitPrevious
      <3>2. worker'[b] = "ready" /\ worker[e] = "previous"
        BY <1>1, <2>1, <2>2, <2>4 DEF AwaitPrevious, To, Ready
      <3>3. CASE b \in instance
        BY <2>2, <2>3, <2>4, <3>1, <3>2, <3>3 DEF ReplacedInv, To
      <3>4. CASE b \notin instance
        BY <2>2, <2>3, <2>4, <2>7, <3>1, <3>2, <3>4 DEF ReplacedInv, To, Moves, Ready
      <3>. QED
        BY <3>3, <3>4
    <2>. QED
      BY <2>5, <2>6, <2>8
  <1>2. CASE PreviousClosed(e)
    <2>1. PICK b : b = Before(e)
      OBVIOUS
    <2>2. b \in Entries /\ b # e /\ Before(e)' = b /\ b \in instance
      BY <1>2, <2>1, NamedEntries DEF PreviousClosed, ReplacedInv, Before
    <2>3. \A f \in Entries : f # e => EntryInv(f)' /\ ReplacedInv(f)'
      BY <1>2, OthersKept DEF PreviousClosed, Ready, storeVars, scopeVars, Moves
    <2>4. EntryInv(e)'
      BY <1>2 DEF PreviousClosed, EntryInv, To, storeVars, scopeVars
    <2>5. ReplacedInv(e)'
      BY <1>2, <2>1, <2>2 DEF PreviousClosed, ReplacedInv, To, storeVars, scopeVars, Ready
    <2>. QED
      BY <2>3, <2>4, <2>5
  <1>3. CASE CreateScope(e)
    <2>1. /\ \A f \in Entries : f # e => Moves(f)
          /\ \E stage : To(e, stage) /\ stage \in {"boot", "evict"}
          /\ worker'[e] \in {"boot", "evict"}
          /\ worker'[e] = "boot" => scope'[e] = "open"
          /\ worker'[e] = "evict" => scope'[e] = scope[e]
          /\ UNCHANGED <<previous, generations, instance>>
      BY <1>3 DEF CreateScope, storeVars, To, Moves
    <2>2. \A f \in Entries : f # e => EntryInv(f)' /\ ReplacedInv(f)'
      BY <1>3, <2>1, OthersKept DEF CreateScope, Ready
    <2>3. EntryInv(e)'
      BY <1>3, <2>1 DEF CreateScope, EntryInv
    <2>4. PICK b : b = Before(e)
      OBVIOUS
    <2>5. Before(e)' = b /\ (previous[e] # NoEntry => b \in Entries /\ b # e)
      BY <2>1, <2>4, NamedEntries DEF Before
    <2>6. previous[e] # NoEntry => worker'[b] = worker[b] /\ scope'[b] = scope[b]
      BY <1>3, <2>5 DEF CreateScope, To
    <2>7. ReplacedInv(e)'
      BY <1>3, <2>1, <2>4, <2>5, <2>6 DEF CreateScope, ReplacedInv, Ready
    <2>. QED
      BY <2>2, <2>3, <2>7
  <1>4. CASE BootSucceeds(e) \/ AbortedClosed(e) \/ Evict(e)
    <2>1. /\ \A f \in Entries : Moves(f)
          /\ \E stage : To(e, stage)
          /\ worker[e] \in {"boot", "abort", "evict"} /\ worker'[e] \in {"ready", "evict"}
          /\ instance' = instance \/ instance' = instance \cup {e}
          /\ UNCHANGED <<previous, generations, scope>>
      BY <1>4 DEF BootSucceeds, AbortedClosed, Evict, storeVars, scopeVars, To, Moves
    <2>2. \A f \in Entries : f # e => EntryInv(f)' /\ ReplacedInv(f)'
      BY <2>1, OthersKept DEF Ready
    <2>3. EntryInv(e)'
      BY <1>4, <2>1 DEF EntryInv, BootSucceeds, AbortedClosed, Evict, To
    <2>4. PICK b : b = Before(e)
      OBVIOUS
    <2>5. Before(e)' = b /\ (previous[e] # NoEntry => b \in Entries /\ b # e)
      BY <2>1, <2>4, NamedEntries DEF Before
    <2>6. previous[e] # NoEntry => worker'[b] = worker[b]
      BY <1>4, <2>5 DEF BootSucceeds, AbortedClosed, Evict, To
    <2>7. ReplacedInv(e)'
      BY <2>1, <2>4, <2>5, <2>6 DEF ReplacedInv, Ready
    <2>. QED
      BY <2>2, <2>3, <2>7
  <1>5. CASE BootFails(e)
    <2>1. \A f \in Entries : Moves(f)
      BY <1>5, BeginCloseMoves DEF BootFails
    <2>2. /\ worker[e] = "boot" /\ To(e, "abort") /\ worker'[e] = "abort"
          /\ UNCHANGED <<previous, generations, instance>>
      BY <1>5 DEF BootFails, storeVars, To
    <2>3. \A f \in Entries : f # e => EntryInv(f)' /\ ReplacedInv(f)'
      BY <2>1, <2>2, OthersKept DEF Ready
    <2>4. EntryInv(e)'
      BY <1>5, <2>2 DEF EntryInv, BootFails, BeginClose, ScopeStates
    <2>5. PICK b : b = Before(e)
      OBVIOUS
    <2>6. Before(e)' = b /\ (previous[e] # NoEntry => b \in Entries /\ b # e)
      BY <2>2, <2>5, NamedEntries DEF Before
    <2>7. previous[e] # NoEntry => worker'[b] = worker[b] /\ Moves(b)
      BY <2>1, <2>2, <2>6 DEF To
    <2>8. ReplacedInv(e)'
      BY <2>2, <2>5, <2>6, <2>7 DEF ReplacedInv, Ready, Moves
    <2>. QED
      BY <2>3, <2>4, <2>8
  <1>. QED
    BY <1>1, <1>2, <1>3, <1>4, <1>5 DEF Work

LEMMA WorkTyped ==
    ASSUME EntriesInv, NEW e \in Entries, Work(e)
    PROVE  StoreTypeOK'
  <1> USE DEF EntriesInv, StoreTypeOK, Stages, ScopeStates
  <1>1. \E stage \in Stages : To(e, stage)
    BY DEF Work, AwaitPrevious, PreviousClosed, CreateScope, BootSucceeds, BootFails, AbortedClosed, Evict
  <1>2. worker' \in [Entries -> Stages]
    BY <1>1 DEF To
  <1>3. ~Ready(e)
    BY DEF Work, AwaitPrevious, PreviousClosed, CreateScope, BootSucceeds, BootFails, AbortedClosed, Evict, Ready
  <1>4. instance' \subseteq {f \in Entries : worker'[f] = "ready"}
    <2>1. CASE BootSucceeds(e)
      BY <2>1 DEF BootSucceeds, To
    <2>2. CASE ~BootSucceeds(e)
      <3>1. UNCHANGED instance
        BY <2>2 DEF Work, AwaitPrevious, PreviousClosed, CreateScope, BootFails, AbortedClosed, Evict
      <3>. QED
        BY <1>1, <1>3, <3>1 DEF To, Ready
    <2>. QED
      BY <2>1, <2>2
  <1>5. scope' \in [Entries -> ScopeStates] /\ children' \in Seq(Entries)
    <2>1. CASE AwaitPrevious(e)
      BY <2>1, BeginCloseMoves DEF AwaitPrevious
    <2>2. CASE CreateScope(e)
      <3>1. children' = children \/ children' = Append(children, e)
        BY <2>2 DEF CreateScope
      <3>2. scope' = scope \/ scope' = [scope EXCEPT ![e] = "open"]
        BY <2>2 DEF CreateScope
      <3>3. children' \in Seq(Entries)
        <4>1. children \in Seq(Entries)
          OBVIOUS
        <4>2. Append(children, e) \in Seq(Entries)
          BY ONLY <4>1, e \in Entries, AppendProperties
        <4>. QED
          BY ONLY <3>1, <4>1, <4>2
      <3>4. scope' \in [Entries -> ScopeStates]
        BY <3>2
      <3>. QED
        BY <3>3, <3>4
    <2>3. CASE BootFails(e)
      BY <2>3, BeginCloseMoves DEF BootFails
    <2>4. CASE PreviousClosed(e) \/ BootSucceeds(e) \/ AbortedClosed(e) \/ Evict(e)
      BY <2>4 DEF PreviousClosed, BootSucceeds, AbortedClosed, Evict, scopeVars
    <2>. QED
      BY <2>1, <2>2, <2>3, <2>4 DEF Work
  <1>6. UNCHANGED <<generations, fenced, previous, root>>
    BY DEF Work, AwaitPrevious, PreviousClosed, CreateScope, BootSucceeds, BootFails, AbortedClosed, Evict,
           storeVars, scopeVars
  <1>7. entries' = entries \/ entries' = EntriesWithout(e)
    BY DEF Work, AwaitPrevious, PreviousClosed, CreateScope, BootSucceeds, BootFails, AbortedClosed, Evict, storeVars
  <1>8. entries' \in [Directories -> Nat] /\ \A d \in Directories : entries'[d] \in {NoEntry, generations[d]}
    <2>1. CASE entries' = entries
      BY <2>1
    <2>2. CASE entries' = EntriesWithout(e)
      <3>1. PICK n \in Nat : n = IF entries[e[1]] = e[2] THEN NoEntry ELSE entries[e[1]]
        BY EntryShape DEF NoEntry
      <3>2. entries' = [entries EXCEPT ![e[1]] = n]
        BY <2>2, <3>1 DEF EntriesWithout
      <3>. QED
        BY <3>1, <3>2, EntryShape, SMTT(20)
    <2>. QED
      BY <1>7, <2>1, <2>2
  <1>. QED
    BY <1>2, <1>4, <1>5, <1>6, <1>8

\* What a step of a caller, or the closing of a scope, may do to the store.
QuietStep ==
    /\ UNCHANGED <<workerVars, generations, children>>
    /\ fenced' \in BOOLEAN
    /\ entries' \in [Directories -> Nat]
    /\ \A d \in Directories : entries'[d] \in {NoEntry, entries[d]}
    /\ root' \in {"open", "closing", "closed"} /\ (root' = "open" => root = "open")
    /\ scope' \in [Entries -> ScopeStates]
    /\ \A f \in Entries : Moves(f)

LEMMA QuietKeeps == ASSUME EntriesInv, QuietStep PROVE EntriesInv'
  <1>1. StoreTypeOK'
    BY DEF EntriesInv, StoreTypeOK, QuietStep, workerVars
  <1>. QED
    BY <1>1, AllKept DEF EntriesInv, QuietStep

LEMMA StutterIsQuiet == ASSUME EntriesInv, UNCHANGED <<storeVars, workerVars, scopeVars>> PROVE QuietStep
  BY DEF EntriesInv, StoreTypeOK, QuietStep, storeVars, scopeVars, Moves, NoEntry

LEMMA ForgettingIsQuiet ==
    ASSUME EntriesInv, NEW c, NEW e, ForgetAndClose(c, e) \/ UNCHANGED entries,
           UNCHANGED <<generations, fenced, workerVars, scopeVars>>
    PROVE  QuietStep
  <1>1. entries' = entries \/ entries' = [entries EXCEPT ![e[1]] = NoEntry]
    BY DEF ForgetAndClose
  <1>2. entries' \in [Directories -> Nat] /\ \A d \in Directories : entries'[d] \in {NoEntry, entries[d]}
    <2>1. entries \in [Directories -> Nat] /\ NoEntry \in Nat
      BY DEF EntriesInv, StoreTypeOK, NoEntry
    <2>2. entries' \in [Directories -> Nat]
      BY <1>1, <2>1
    <2>3. \A d \in Directories : entries'[d] \in {NoEntry, entries[d]}
      BY <1>1, <2>1
    <2>. QED
      BY <2>2, <2>3
  <1>. QED
    BY <1>2 DEF EntriesInv, StoreTypeOK, QuietStep, scopeVars, Moves

LEMMA TakingAllIsQuiet ==
    ASSUME EntriesInv, NEW c, NEW op, TakeAll(c, op), UNCHANGED <<generations, fenced, workerVars, scopeVars>>
    PROVE  QuietStep
  BY DEF EntriesInv, StoreTypeOK, QuietStep, scopeVars, Moves, NoEntry, TakeAll

LEMMA ClosingIsQuiet ==
    ASSUME EntriesInv, NEW e, BeginClose(e) \/ ScopeClosed(e), UNCHANGED <<storeVars, workerVars, root, children>>
    PROVE  QuietStep
  <1>1. scope' \in [Entries -> ScopeStates] /\ \A f \in Entries : Moves(f)
    BY BeginCloseMoves DEF ScopeClosed, Moves, EntriesInv, StoreTypeOK, ScopeStates
  <1>. QED
    BY <1>1 DEF QuietStep, EntriesInv, StoreTypeOK, storeVars, NoEntry

LEMMA CallersAreQuiet ==
    ASSUME EntriesInv, NEW c \in Callers,
           \/ \E d \in Directories : DisposeDirectory(c, d)
           \/ \E e \in Entries : Dispose(c, e)
           \/ DisposeAll(c) \/ Close(c) \/ CloseRoot(c) \/ Advance(c) \/ GiveUp(c)
    PROVE  QuietStep
  <1>1. ASSUME NEW d \in Directories, DisposeDirectory(c, d) PROVE QuietStep
    BY <1>1, StutterIsQuiet DEF DisposeDirectory
  <1>2. ASSUME NEW e \in Entries, Dispose(c, e) PROVE QuietStep
    BY <1>2, ForgettingIsQuiet DEF Dispose
  <1>3. CASE DisposeAll(c) \/ DisposeFenced(c)
    BY <1>3, TakingAllIsQuiet DEF DisposeAll, DisposeFenced
  <1>4. CASE Close(c) \/ CloseStore(c)
    BY <1>4 DEF Close, CloseStore, QuietStep, EntriesInv, StoreTypeOK, scopeVars, Moves, NoEntry
  <1>5. CASE CloseRoot(c) \/ EndDisposeAll(c)
    BY <1>5 DEF CloseRoot, EndDisposeAll, QuietStep, EntriesInv, StoreTypeOK, storeVars, Moves, NoEntry
  <1>6. CASE AnswerLoad(c) \/ TakeNext(c) \/ TargetClosed(c) \/ GiveUp(c)
    BY <1>6, StutterIsQuiet DEF AnswerLoad, TakeNext, TargetClosed, GiveUp
  <1>7. CASE DisposeAwaited(c)
    BY <1>7, ForgettingIsQuiet DEF DisposeAwaited
  <1>8. CASE CloseTarget(c)
    BY <1>8, ClosingIsQuiet DEF CloseTarget
  <1>. QED
    BY <1>1, <1>2, <1>3, <1>4, <1>5, <1>6, <1>7, <1>8 DEF Advance

\* Load and Reload, as far as they make an entry.
MakesEntry(c, d) ==
    /\ UNCHANGED scopeVars /\ ~fenced /\ call[c].at = "idle"
    /\ Continue(c, "load", "await", <<<<d, generations[d] + 1>>>>)
    /\ \/ NewEntry(d, "child", NoEntry) /\ entries[d] = NoEntry
       \/ NewEntry(d, "previous", entries[d]) /\ entries[d] # NoEntry

LEMMA LoadsMakeEntries ==
    ASSUME EntriesInv, NEW c \in Callers, NEW d \in Directories, Load(c, d) \/ Reload(c, d)
    PROVE  \/ MakesEntry(c, d)
           \/ /\ QuietStep /\ entries[d] # NoEntry /\ call[c].at = "idle" /\ UNCHANGED <<storeVars, scopeVars>>
              /\ Continue(c, "load", "await", <<Cached(d)>>)
  <1>1. CASE Load(c, d) /\ entries[d] # NoEntry
    <2>1. UNCHANGED <<storeVars, workerVars, scopeVars>> /\ Continue(c, "load", "await", <<Cached(d)>>)
      BY <1>1 DEF Load
    <2>. QED
      BY <1>1, <2>1, StutterIsQuiet DEF Load
  <1>2. CASE Load(c, d) /\ entries[d] = NoEntry
    BY <1>2 DEF Load, MakesEntry
  <1>3. CASE Reload(c, d)
    BY <1>3 DEF Reload, MakesEntry
  <1>. QED
    BY <1>1, <1>2, <1>3

LEMMA EntriesKept == ASSUME EntriesInv, [Next]_vars PROVE EntriesInv'
  <1>1. ASSUME NEW e \in Entries, Work(e) PROVE EntriesInv'
    BY <1>1, WorkKeeps, WorkTyped DEF EntriesInv, Work, AwaitPrevious, PreviousClosed, CreateScope, BootSucceeds,
        BootFails, AbortedClosed, Evict
  <1>2. ASSUME NEW e \in Entries, ScopeClosed(e) PROVE EntriesInv'
    BY <1>2, ClosingIsQuiet, QuietKeeps DEF ScopeClosed
  <1>3. ASSUME NEW c \in Callers, NEW d \in Directories, Load(c, d) \/ Reload(c, d) PROVE EntriesInv'
    <2>1. CASE MakesEntry(c, d)
      BY <2>1, NewEntryKeeps DEF MakesEntry, EntriesInv
    <2>. QED
      BY <1>3, <2>1, LoadsMakeEntries, QuietKeeps
  <1>4. ASSUME NEW c \in Callers,
               \/ \E d \in Directories : DisposeDirectory(c, d)
               \/ \E e \in Entries : Dispose(c, e)
               \/ DisposeAll(c) \/ Close(c) \/ CloseRoot(c) \/ Advance(c) \/ GiveUp(c)
        PROVE  EntriesInv'
    BY <1>4, CallersAreQuiet, QuietKeeps
  <1>5. CASE UNCHANGED vars
    BY <1>5, StutterIsQuiet, QuietKeeps DEF vars, storeVars, workerVars, scopeVars
  <1>. QED
    BY <1>1, <1>2, <1>3, <1>4, <1>5 DEF Next

\* A Reload boots the next generation only when the previous one is closed, no
\* matter who closes it or whether its boot failed (Reload).
THEOREM GenerationsFollow == Spec => []PreviousEndsFirst
  <1>1. Init => EntriesInv
    BY InitEntries
  <1>2. EntriesInv /\ [Next]_vars => EntriesInv'
    BY EntriesKept
  <1>3. EntriesInv => PreviousEndsFirst
    BY DEF EntriesInv, EntryInv, ReplacedInv, StoreTypeOK, Stages, PreviousEndsFirst
  <1>. QED
    BY <1>1, <1>2, <1>3, PTL DEF Spec

------------------------------------------------------------------------------
(* The callers.                                                             *)

\* Scopes only close, instances stay, and what was taken out of the cache does
\* not come back.
StoreStep ==
    \A e \in Entries :
        /\ scope[e] # "none" => Moves(e)
        /\ e \in instance => e \in instance'
        /\ worker[e] # "none" => worker'[e] # "none"
        /\ worker[e] # "none" /\ Cached(e[1]) # e => Cached(e[1])' # e

LEMMA QuietIsStoreStep == ASSUME EntriesInv, QuietStep PROVE StoreStep
  <1> SUFFICES ASSUME NEW e \in Entries, Cached(e[1]) # e PROVE Cached(e[1])' # e
    BY DEF StoreStep, QuietStep, workerVars
  <1>1. e = <<e[1], e[2]>> /\ e[1] \in Directories /\ e[2] # NoEntry
    BY EntryShape DEF NoEntry
  <1>2. entries[e[1]] # e[2] /\ entries'[e[1]] \in {NoEntry, entries[e[1]]}
    BY <1>1 DEF QuietStep, Cached
  <1>. QED
    BY <1>1, <1>2 DEF Cached

LEMMA WorkIsStoreStep == ASSUME EntriesInv, NEW x \in Entries, Work(x) PROVE StoreStep
  <1> USE DEF EntriesInv, StoreTypeOK
  <1>1. \E stage : To(x, stage) /\ stage # "none"
    BY DEF Work, AwaitPrevious, PreviousClosed, CreateScope, BootSucceeds, BootFails, AbortedClosed, Evict
  <1>2. instance \subseteq instance'
    BY DEF Work, AwaitPrevious, PreviousClosed, CreateScope, BootSucceeds, BootFails, AbortedClosed, Evict
  <1>3. ASSUME NEW e \in Entries, scope[e] # "none" PROVE Moves(e)
    <2>1. CASE AwaitPrevious(x)
      BY <2>1, BeginCloseMoves DEF AwaitPrevious, Moves
    <2>2. CASE CreateScope(x)
      BY <1>3, <2>2 DEF CreateScope, EntryInv, Moves
    <2>3. CASE BootFails(x)
      BY <2>3, BeginCloseMoves DEF BootFails
    <2>4. CASE PreviousClosed(x) \/ BootSucceeds(x) \/ AbortedClosed(x) \/ Evict(x)
      BY <2>4 DEF PreviousClosed, BootSucceeds, AbortedClosed, Evict, scopeVars, Moves
    <2>. QED
      BY <2>1, <2>2, <2>3, <2>4 DEF Work
  <1>4. ASSUME NEW e \in Entries, Cached(e[1]) # e PROVE Cached(e[1])' # e
    <2>1. e = <<e[1], e[2]>> /\ e[1] \in Directories /\ e[2] # NoEntry
      BY EntryShape DEF NoEntry
    <2>2. entries' = entries \/ entries' = EntriesWithout(x)
      BY DEF Work, AwaitPrevious, PreviousClosed, CreateScope, BootSucceeds, BootFails, AbortedClosed, Evict, storeVars
    <2>3. entries'[e[1]] \in {NoEntry, entries[e[1]]}
      BY <2>1, <2>2 DEF EntriesWithout
    <2>. QED
      BY <1>4, <2>1, <2>3 DEF Cached
  <1>. QED
    BY <1>1, <1>2, <1>3, <1>4 DEF StoreStep, To

LEMMA NewEntryIsStoreStep ==
    ASSUME EntriesInv, NEW c \in Callers, NEW d \in Directories, MakesEntry(c, d)
    PROVE  /\ StoreStep
           /\ \E e \in Entries :
                /\ e = <<d, generations[d] + 1>> /\ e[1] = d /\ worker[e] = "none" /\ worker'[e] # "none"
                /\ scope[e] = "none" /\ Cached(d)' = e
                /\ Continue(c, "load", "await", <<e>>)
  <1> USE DEF EntriesInv, StoreTypeOK
  <1>1. PICK g \in 1 .. MaxGeneration[d] : g = generations[d] + 1
    <2>1. generations[d] \in Nat /\ MaxGeneration[d] \in Nat
      BY WorkspaceAssumption
    <2>2. generations[d] < MaxGeneration[d]
      BY DEF NewEntry, MakesEntry
    <2>. QED
      BY <2>1, <2>2
  <1>2. PICK e : e = <<d, g>>
    OBVIOUS
  <1>3. e \in Entries /\ e[1] = d /\ e[2] = g
    BY <1>2, EntryShape
  <1>4. /\ entries' = [entries EXCEPT ![d] = g]
        /\ \E stage : worker' = [worker EXCEPT ![e] = stage] /\ stage # "none"
        /\ UNCHANGED <<instance, scope>>
    <2>1. PICK stage, replaced : NewEntry(d, stage, replaced) /\ stage # "none"
      BY DEF MakesEntry
    <2>2. /\ worker' = [worker EXCEPT ![<<d, g>>] = stage] /\ UNCHANGED instance
          /\ entries' = [entries EXCEPT ![d] = g]
      BY <1>1, <2>1 DEF NewEntry
    <2>. QED
      BY <1>2, <2>1, <2>2 DEF MakesEntry, scopeVars
  <1>5. worker[e] = "none" /\ scope[e] = "none"
    BY <1>1, <1>3 DEF EntryInv
  <1>6. ASSUME NEW f \in Entries, worker[f] # "none", Cached(f[1]) # f PROVE Cached(f[1])' # f
    <2>1. f = <<f[1], f[2]>> /\ f[1] \in Directories
      BY EntryShape
    <2>2. CASE f[1] = d
      BY <1>2, <1>4, <1>5, <1>6, <2>1, <2>2 DEF Cached
    <2>3. CASE f[1] # d
      BY <1>4, <1>6, <2>1, <2>3 DEF Cached
    <2>. QED
      BY <2>2, <2>3
  <1>7. StoreStep
    BY <1>4, <1>6 DEF StoreStep, Moves
  <1>8. Cached(d)' = e /\ Continue(c, "load", "await", <<e>>)
    BY <1>1, <1>2, <1>4 DEF Cached, MakesEntry
  <1>9. e = <<d, generations[d] + 1>> /\ worker'[e] # "none"
    BY <1>1, <1>2, <1>3, <1>4
  <1>. QED
    BY ONLY <1>3, <1>5, <1>7, <1>8, <1>9

\* What a caller knows stays true while others step.
LEMMA CallerKept ==
    ASSUME EntriesInv, StoreStep, NEW c \in Callers, call'[c] = call[c], call[c] \in Calls, CallAt(c), TakenOut(c)
    PROVE  CallAt(c)' /\ TakenOut(c)'
  <1>1. call[c].todo \in Seq(Entries)
    BY DEF Calls
  <1>2. call[c].todo # <<>> => Target(c) \in Entries
    BY <1>1, FrontIsSeq DEF Target
  <1>3. Target(c)' = Target(c)
    BY DEF Target
  <1>4. CallAt(c)'
    BY <1>2, <1>3 DEF CallAt, StoreStep, Moves
  <1>5. TakenOut(c)'
    <2> SUFFICES ASSUME NEW i \in 1 .. Len(call[c].todo)
                 PROVE  /\ call[c].op \in {"dispose", "all", "root"} =>
                            worker'[call[c].todo[i]] # "none" /\ Cached(call[c].todo[i][1])' # call[c].todo[i]
                        /\ call[c].op = "children" => scope'[call[c].todo[i]] # "none"
      BY DEF TakenOut
    <2>1. PICK e \in Entries : e = call[c].todo[i]
      BY <1>1, ElementOfSeq
    <2>. QED
      BY <2>1 DEF TakenOut, StoreStep, Moves
  <1>. QED
    BY <1>4, <1>5

LEMMA CallersKept ==
    ASSUME EntriesInv, CallsInv, StoreStep, NEW c \in Callers,
           call' \in [Callers -> Calls], \A x \in Callers : x # c => call'[x] = call[x],
           CallAt(c)', TakenOut(c)', UNCHANGED children, RootCalls'
    PROVE  CallsInv'
  <1>1. \A x \in Callers : x # c => CallAt(x)' /\ TakenOut(x)'
    BY CallerKept DEF CallsInv
  <1>2. \A i \in 1 .. Len(children) : scope'[children[i]] # "none"
    <2> TAKE i \in 1 .. Len(children)
    <2>1. children[i] \in Entries
      BY ElementOfSeq DEF EntriesInv, StoreTypeOK
    <2>. QED
      BY <2>1 DEF CallsInv, StoreStep, Moves
  <1>. QED
    BY <1>1, <1>2 DEF CallsInv

LEMMA Continued ==
    ASSUME CallsInv, NEW c \in Callers, NEW op, NEW at, NEW todo, Continue(c, op, at, todo)
    PROVE  /\ call'[c].op = op /\ call'[c].at = at /\ call'[c].todo = todo
           /\ \A x \in Callers : x # c => call'[x] = call[x]
  BY DEF CallsInv, Continue

LEMMA ReturnedAt ==
    ASSUME CallsInv, NEW c \in Callers, call' = [call EXCEPT ![c] = Return]
    PROVE  CallAt(c)' /\ TakenOut(c)' /\ call'[c].op = "none"
  <1>1. call'[c].op = "none" /\ call'[c].at = "idle" /\ call'[c].todo = <<>>
    BY DEF CallsInv, Return
  <1>. QED
    BY <1>1, EmptySeq DEF CallAt, TakenOut

LEMMA AwaitsOne ==
    ASSUME CallsInv, NEW c \in Callers, NEW e \in Entries, NEW op \in {"load", "directory"},
           Continue(c, op, "await", <<e>>)
    PROVE  CallAt(c)' /\ TakenOut(c)' /\ call'[c].op = op
  <1>1. call'[c].op = op /\ call'[c].at = "await" /\ call'[c].todo = <<e>>
    BY Continued
  <1>. QED
    BY <1>1 DEF CallAt, TakenOut

LEMMA DisposesOne ==
    ASSUME CallsInv, NEW c \in Callers, NEW e \in Entries, Continue(c, "dispose", "close", <<e>>),
           e \in instance', worker'[e] # "none", Cached(e[1])' # e
    PROVE  CallAt(c)' /\ TakenOut(c)' /\ call'[c].op = "dispose"
  <1>1. call'[c].op = "dispose" /\ call'[c].at = "close" /\ call'[c].todo = <<e>>
    BY Continued
  <1>2. Target(c)' = e
    BY <1>1 DEF Target, Last
  <1>3. call'[c].todo # <<>> /\ Len(call'[c].todo) = 1
    BY <1>1
  <1>4. CallAt(c)'
    BY <1>1, <1>2, <1>3 DEF CallAt
  <1>5. TakenOut(c)'
    BY <1>1 DEF TakenOut
  <1>. QED
    BY <1>1, <1>4, <1>5

LEMMA ForgetAndCloseAt ==
    ASSUME EntriesInv, CallsInv, NEW c \in Callers, NEW e \in Entries, ForgetAndClose(c, e), e \in instance,
           UNCHANGED workerVars
    PROVE  CallAt(c)' /\ TakenOut(c)' /\ call'[c].op \in {"none", "dispose"}
  <1>1. CASE Cached(e[1]) = e
    <2>1. Continue(c, "dispose", "close", <<e>>) /\ entries' = [entries EXCEPT ![e[1]] = NoEntry]
      BY <1>1 DEF ForgetAndClose
    <2>2. worker'[e] # "none" /\ e \in instance'
      BY DEF EntriesInv, StoreTypeOK, workerVars
    <2>3. Cached(e[1])' # e
      BY <2>1, EntryShape DEF Cached, NoEntry, EntriesInv, StoreTypeOK
    <2>. QED
      BY <2>1, <2>2, <2>3, DisposesOne
  <1>2. CASE Cached(e[1]) # e
    BY <1>2, ReturnedAt DEF ForgetAndClose
  <1>. QED
    BY <1>1, <1>2

LEMMA TakeAllAt ==
    ASSUME EntriesInv, CallsInv, NEW c \in Callers, NEW op \in {"all", "root"}, TakeAll(c, op), UNCHANGED workerVars
    PROVE  CallAt(c)' /\ TakenOut(c)' /\ call'[c].op = op
  <1>1. PICK todo \in Orders(CachedEntries) : Continue(c, op, "await", todo)
    BY DEF TakeAll
  <1>2. call'[c].op = op /\ call'[c].at = "await" /\ call'[c].todo = todo
    BY <1>1, Continued
  <1>3. CallAt(c)'
    BY <1>2 DEF CallAt
  <1>4. ASSUME NEW i \in 1 .. Len(todo) PROVE worker'[todo[i]] # "none" /\ Cached(todo[i][1])' # todo[i]
    <2>1. PICK e \in CachedEntries : e = todo[i]
      BY OrdersAreSeqs, ElementOfSeq
    <2>2. PICK d \in Directories : e = Cached(d) /\ entries[d] # NoEntry
      BY DEF CachedEntries
    <2>3. e \in Entries /\ e[1] = d /\ worker[e] # "none" /\ e[2] # NoEntry
      BY <2>2, NamedEntries, EntryShape DEF NoEntry
    <2>4. Cached(d)' # e
      BY <2>2, <2>3 DEF TakeAll, Cached
    <2>. QED
      BY <2>1, <2>3, <2>4 DEF workerVars
  <1>5. TakenOut(c)'
    BY <1>2, <1>4 DEF TakenOut
  <1>. QED
    BY <1>2, <1>3, <1>5

LEMMA ProceedAt ==
    ASSUME EntriesInv, CallsInv, StoreStep, NEW c \in Callers, Proceed(c),
           call[c].op \in {"dispose", "children", "all", "root"}, call[c].todo # <<>>
    PROVE  /\ CallAt(c)' /\ TakenOut(c)'
           /\ call[c].op = "dispose" => call'[c].op = "none"
           /\ call[c].op # "dispose" => call'[c].op = call[c].op /\ call'[c].todo = Front(call[c].todo)
  <1>1. CASE call[c].op = "dispose"
    BY <1>1, ReturnedAt DEF Proceed, CallsInv
  <1>2. CASE call[c].op # "dispose"
    <2>1. call[c] \in Calls /\ call[c].todo \in Seq(Entries)
      BY DEF CallsInv, Calls
    <2>2. PICK at \in {"await", "close"} : at = IF call[c].op = "children" THEN "close" ELSE "await"
      OBVIOUS
    <2>3. Front(call[c].todo) \in Seq(Entries)
      BY <2>1, FrontIsSeq
    <2>4. call'[c] = [call[c] EXCEPT !.todo = Front(call[c].todo), !.at = at]
      BY <1>2, <2>2 DEF Proceed, CallsInv
    <2>5. call'[c].op = call[c].op /\ call'[c].at = at /\ call'[c].todo = Front(call[c].todo)
      <3>1. PICK r \in Calls : r = call[c]
        BY <2>1
      <3>2. PICK todo \in Seq(Entries) : todo = Front(call[c].todo)
        BY <2>3
      <3>3. call'[c] = [r EXCEPT !.todo = todo, !.at = at]
        BY <2>4, <3>1, <3>2
      <3>4. call'[c].op = r.op /\ call'[c].at = at /\ call'[c].todo = todo
        BY ONLY <3>3, r \in Calls, todo \in Seq(Entries), at \in {"await", "close"} DEF Calls
      <3>. QED
        BY <3>1, <3>2, <3>4
    <2>6. CallAt(c)'
      BY <1>2, <2>2, <2>5 DEF CallAt
    <2>7. ASSUME NEW i \in 1 .. Len(Front(call[c].todo))
          PROVE  \E j \in 1 .. Len(call[c].todo) : call'[c].todo[i] = call[c].todo[j]
      BY <2>1, <2>5, FrontIsSeq
    <2>8. TakenOut(c)'
      <3> SUFFICES ASSUME NEW i \in 1 .. Len(Front(call[c].todo)), NEW e, e = call'[c].todo[i]
                   PROVE  /\ call[c].op \in {"dispose", "all", "root"} => worker'[e] # "none" /\ Cached(e[1])' # e
                          /\ call[c].op = "children" => scope'[e] # "none"
        BY <2>5 DEF TakenOut
      <3>1. PICK j \in 1 .. Len(call[c].todo) : e = call[c].todo[j]
        BY <2>7
      <3>2. e \in Entries
        BY <2>1, <3>1, ElementOfSeq
      <3>3. /\ call[c].op \in {"dispose", "all", "root"} => worker[e] # "none" /\ Cached(e[1]) # e
            /\ call[c].op = "children" => scope[e] # "none"
        BY <3>1 DEF CallsInv, TakenOut
      <3>. QED
        BY <3>2, <3>3 DEF StoreStep, Moves
    <2>. QED
      BY <1>2, <2>5, <2>6, <2>8
  <1>. QED
    BY <1>1, <1>2

\* The step of c leaves c with a true picture and the other callers alone.
Settled(c) ==
    /\ \A x \in Callers : x # c => call'[x] = call[x]
    /\ CallAt(c)' /\ TakenOut(c)'
    /\ RootCalls'
    /\ call'[c].op \in {"children", "root"} => call[c].op \in {"children", "root"} \/ CloseRoot(c)

LEMMA RootSame ==
    ASSUME CallsInv, NEW c \in Callers, UNCHANGED root, \A x \in Callers : x # c => call'[x] = call[x],
           call'[c].op \in {"children", "root"} <=> call[c].op \in {"children", "root"}
    PROVE  RootCalls'
  BY DEF CallsInv, RootCalls, RootCaller

LEMMA ProceedSettles ==
    ASSUME EntriesInv, CallsInv, StoreStep, NEW c \in Callers, Proceed(c), UNCHANGED root,
           call[c].op \in {"dispose", "children", "all", "root"}, call[c].todo # <<>>
    PROVE  Settled(c)
  <1>1. \A x \in Callers : x # c => call'[x] = call[x]
    BY DEF Proceed, CallsInv
  <1>. QED
    BY <1>1, ProceedAt, RootSame DEF Settled

LEMMA ClosersAct ==
    ASSUME EntriesInv, CallsInv, NEW c \in Callers, call[c].at \in {"close", "clean", "join"}
    PROVE  /\ call[c].op \in {"dispose", "children", "all", "root"}
           /\ call[c].at # "close" => call[c].todo # <<>>
           /\ call[c].todo # <<>> => Target(c) \in Entries /\ scope[Target(c)] # "none"
  <1>1. CallAt(c) /\ TakenOut(c) /\ call[c] \in Calls
    BY DEF CallsInv
  <1>2. call[c].op \in {"dispose", "children", "all", "root"}
    BY <1>1 DEF CallAt, Calls
  <1>3. ASSUME call[c].todo # <<>> PROVE Target(c) \in Entries /\ scope[Target(c)] # "none"
    <2>1. PICK n \in 1 .. Len(call[c].todo) : Target(c) = call[c].todo[n]
      BY <1>1, <1>3, FrontIsSeq DEF Target, Calls
    <2>2. Target(c) \in Entries
      BY <1>3, Targets
    <2>3. CASE call[c].op = "children"
      BY <1>1, <2>1, <2>2, <2>3 DEF TakenOut
    <2>4. CASE call[c].op # "children"
      BY <1>1, <2>2, <2>4 DEF CallAt, EntriesInv, EntryInv, StoreTypeOK
    <2>. QED
      BY <2>2, <2>3, <2>4
  <1>. QED
    BY <1>1, <1>2, <1>3 DEF CallAt

LEMMA CloseTargetSettles ==
    ASSUME EntriesInv, CallsInv, StoreStep, NEW c \in Callers, CloseTarget(c)
    PROVE  Settled(c)
  <1>1. PICK at \in {"clean", "join"} : Continue(c, call[c].op, at, call[c].todo)
    BY DEF CloseTarget
  <1>2. /\ call'[c].op = call[c].op /\ call'[c].at = at /\ call'[c].todo = call[c].todo
        /\ \A x \in Callers : x # c => call'[x] = call[x]
    BY <1>1, Continued
  <1>3. PICK e \in Entries : e = Target(c) /\ scope[e] # "none"
    BY ClosersAct DEF CloseTarget
  <1>4. Target(c)' = e
    BY <1>2, <1>3 DEF Target
  <1>5. scope'[e] \in {"closing", "closed"}
    BY <1>3 DEF CloseTarget, BeginClose, EntriesInv, StoreTypeOK, ScopeStates
  <1>6. CallAt(c) /\ TakenOut(c) /\ call[c].at = "close" /\ call[c].todo # <<>>
    BY DEF CallsInv, CloseTarget
  <1>7. CallAt(c)'
    BY <1>2, <1>3, <1>4, <1>5, <1>6, ClosersAct DEF CallAt, StoreStep
  <1>8. TakenOut(c)'
    <2> SUFFICES ASSUME NEW i \in 1 .. Len(call[c].todo), NEW x, x = call[c].todo[i]
                 PROVE  /\ call[c].op \in {"dispose", "all", "root"} => worker'[x] # "none" /\ Cached(x[1])' # x
                        /\ call[c].op = "children" => scope'[x] # "none"
      BY <1>2 DEF TakenOut
    <2>1. x \in Entries
      BY Targets, ElementOfSeq
    <2>2. /\ call[c].op \in {"dispose", "all", "root"} => worker[x] # "none" /\ Cached(x[1]) # x
          /\ call[c].op = "children" => scope[x] # "none"
      BY <1>6 DEF TakenOut
    <2>. QED
      BY <2>1, <2>2 DEF StoreStep, Moves
  <1>9. RootCalls'
    BY <1>2, RootSame DEF CloseTarget
  <1>. QED
    BY <1>2, <1>7, <1>8, <1>9 DEF Settled

LEMMA RootStepsSettle ==
    ASSUME EntriesInv, CallsInv, StoreStep, NEW c \in Callers, CloseRoot(c) \/ CloseStore(c) \/ EndDisposeAll(c)
    PROVE  Settled(c)
  <1>1. CASE CloseRoot(c)
    <2>1. /\ call'[c].op = "children" /\ call'[c].at = "close" /\ call'[c].todo = children
          /\ \A x \in Callers : x # c => call'[x] = call[x]
      BY <1>1, Continued DEF CloseRoot
    <2>2. CallAt(c)'
      BY <2>1 DEF CallAt
    <2>3. TakenOut(c)'
      BY <1>1, <2>1 DEF TakenOut, CallsInv, CloseRoot
    <2>4. RootCalls'
      BY <1>1, <2>1 DEF RootCalls, RootCaller, CallsInv, CloseRoot
    <2>. QED
      BY <1>1, <2>1, <2>2, <2>3, <2>4 DEF Settled
  <1>2. CASE CloseStore(c)
    <2>1. /\ call'[c].op = "root" /\ call'[c].at = "fence" /\ call'[c].todo = <<>>
          /\ \A x \in Callers : x # c => call'[x] = call[x]
      BY <1>2, Continued DEF CloseStore
    <2>2. CallAt(c)'
      BY <2>1 DEF CallAt
    <2>3. TakenOut(c)'
      BY <2>1, EmptySeq DEF TakenOut
    <2>4. RootCalls'
      BY <1>2, <2>1, RootSame DEF CloseStore, scopeVars
    <2>. QED
      BY <1>2, <2>1, <2>2, <2>3, <2>4 DEF Settled, CloseStore
  <1>3. CASE EndDisposeAll(c)
    <2>1. CallAt(c)' /\ TakenOut(c)' /\ call'[c].op = "none"
      BY <1>3, ReturnedAt DEF EndDisposeAll
    <2>2. \A x \in Callers : x # c => call'[x] = call[x]
      BY <1>3 DEF EndDisposeAll, CallsInv
    <2>3. RootCalls'
      <3>1. CASE call[c].op = "root"
        BY <1>3, <2>1, <2>2, <3>1 DEF RootCalls, RootCaller, CallsInv, EndDisposeAll
      <3>2. CASE call[c].op # "root"
        BY <1>3, <2>1, <2>2, <3>2, RootSame DEF EndDisposeAll
      <3>. QED
        BY <3>1, <3>2
    <2>. QED
      BY <2>1, <2>2, <2>3 DEF Settled
  <1>. QED
    BY <1>1, <1>2, <1>3

LEMMA OtherStepsSettle ==
    ASSUME EntriesInv, CallsInv, StoreStep, NEW c \in Callers,
           \/ \E d \in Directories : DisposeDirectory(c, d)
           \/ \E e \in Entries : Dispose(c, e)
           \/ DisposeAll(c) \/ Close(c) \/ AnswerLoad(c) \/ DisposeAwaited(c) \/ TakeNext(c)
           \/ TargetClosed(c) \/ DisposeFenced(c) \/ GiveUp(c)
    PROVE  Settled(c)
  <1>1. CallAt(c) /\ (call[c].at = "idle" <=> call[c].op = "none")
    BY DEF CallsInv, CallAt
  <1>2. ASSUME NEW d \in Directories, DisposeDirectory(c, d) PROVE Settled(c)
    <2>1. PICK e \in Entries : e = Cached(d)
      BY <1>2, NamedEntries DEF DisposeDirectory
    <2>2. Continue(c, "directory", "await", <<e>>) /\ call[c].op = "none" /\ UNCHANGED root
      BY <1>1, <1>2, <2>1 DEF DisposeDirectory, scopeVars
    <2>. QED
      BY <2>2, AwaitsOne, Continued, RootSame DEF Settled
  <1>3. ASSUME NEW e \in Entries, ForgetAndClose(c, e), e \in instance, call[c].op \in {"none", "directory"},
               UNCHANGED <<workerVars, scopeVars>>
        PROVE  Settled(c)
    <2>1. CallAt(c)' /\ TakenOut(c)' /\ call'[c].op \in {"none", "dispose"}
      BY <1>3, ForgetAndCloseAt
    <2>2. \A x \in Callers : x # c => call'[x] = call[x]
      BY <1>3 DEF ForgetAndClose, Continue, CallsInv
    <2>. QED
      BY <1>3, <2>1, <2>2, RootSame DEF Settled, scopeVars
  <1>4. ASSUME NEW op \in {"all", "root"}, TakeAll(c, op), UNCHANGED <<workerVars, scopeVars>>,
               op = "root" <=> call[c].op \in {"children", "root"}
        PROVE  Settled(c)
    <2>1. CallAt(c)' /\ TakenOut(c)' /\ call'[c].op = op
      BY <1>4, TakeAllAt
    <2>2. \A x \in Callers : x # c => call'[x] = call[x]
      BY <1>4 DEF TakeAll, Continue, CallsInv
    <2>. QED
      BY <1>4, <2>1, <2>2, RootSame DEF Settled, scopeVars
  <1>5. ASSUME call' = [call EXCEPT ![c] = Return], UNCHANGED root, call[c].op \notin {"children", "root"}
        PROVE  Settled(c)
    <2>1. \A x \in Callers : x # c => call'[x] = call[x]
      BY <1>5 DEF CallsInv
    <2>. QED
      BY <1>5, <2>1, ReturnedAt, RootSame DEF Settled
  <1>6. ASSUME NEW e \in Entries, Dispose(c, e) PROVE Settled(c)
    BY <1>1, <1>3, <1>6 DEF Dispose
  <1>7. CASE DisposeAll(c)
    BY <1>1, <1>4, <1>7 DEF DisposeAll
  <1>8. CASE DisposeFenced(c)
    BY <1>1, <1>4, <1>8 DEF DisposeFenced, CallAt
  <1>9. CASE Close(c)
    <2>1. /\ call'[c].op = "all" /\ call'[c].at = "fence" /\ call'[c].todo = <<>>
          /\ \A x \in Callers : x # c => call'[x] = call[x]
      BY <1>9, Continued DEF Close
    <2>2. CallAt(c)' /\ TakenOut(c)'
      BY <2>1, EmptySeq DEF CallAt, TakenOut
    <2>. QED
      BY <1>1, <1>9, <2>1, <2>2, RootSame DEF Settled, Close, scopeVars
  <1>10. CASE AnswerLoad(c)
    BY <1>5, <1>10 DEF AnswerLoad, Awaiting, scopeVars
  <1>11. CASE DisposeAwaited(c)
    <2>1. Target(c) \in Entries
      BY <1>11, Targets DEF DisposeAwaited, Awaiting
    <2>. QED
      BY <1>3, <1>5, <1>11, <2>1 DEF DisposeAwaited, Awaiting, scopeVars
  <1>12. CASE TakeNext(c)
    <2>1. CASE Target(c) \in instance
      <3>1. /\ call'[c].op = call[c].op /\ call'[c].at = "close" /\ call'[c].todo = call[c].todo
            /\ \A x \in Callers : x # c => call'[x] = call[x]
            /\ UNCHANGED <<workerVars, scopeVars, entries>>
        BY <1>12, <2>1, Continued DEF TakeNext, storeVars
      <3>2. Target(c)' = Target(c)
        BY <3>1 DEF Target
      <3>3. CallAt(c)'
        BY <1>12, <2>1, <3>1, <3>2 DEF TakeNext, Awaiting, CallAt, workerVars
      <3>4. TakenOut(c)'
        BY <3>1 DEF CallsInv, TakenOut, workerVars, scopeVars, Cached
      <3>. QED
        BY <3>1, <3>3, <3>4, RootSame DEF Settled, scopeVars
    <2>2. CASE Target(c) \notin instance
      BY <1>12, <2>2, ProceedSettles DEF TakeNext, Awaiting, scopeVars
    <2>. QED
      BY <2>1, <2>2
  <1>13. CASE TargetClosed(c)
    BY <1>13, ClosersAct, ProceedSettles DEF TargetClosed, scopeVars
  <1>14. CASE GiveUp(c)
    <2>1. CASE Awaiting(c, {"load", "directory"}) /\ call' = [call EXCEPT ![c] = Return]
      BY <1>5, <1>14, <2>1 DEF GiveUp, Awaiting, scopeVars
    <2>2. CASE call[c].at = "join" /\ Proceed(c)
      BY <1>14, <2>2, ClosersAct, ProceedSettles DEF GiveUp, scopeVars
    <2>3. CASE Awaiting(c, {"all", "root"}) /\ Proceed(c)
      BY <1>14, <2>3, ProceedSettles DEF GiveUp, Awaiting, scopeVars
    <2>. QED
      BY <1>14, <2>1, <2>2, <2>3 DEF GiveUp
  <1>. QED
    BY <1>2, <1>6, <1>7, <1>8, <1>9, <1>10, <1>11, <1>12, <1>13, <1>14

\* Every step, as the store, and as its callers see it.
LEMMA StepsOfTheStore == ASSUME EntriesInv, [Next]_vars PROVE StoreStep
  <1>1. ASSUME NEW e \in Entries, Work(e) \/ ScopeClosed(e) PROVE StoreStep
    BY <1>1, WorkIsStoreStep, ClosingIsQuiet, QuietIsStoreStep DEF ScopeClosed
  <1>2. ASSUME NEW c \in Callers, NEW d \in Directories, Load(c, d) \/ Reload(c, d) PROVE StoreStep
    BY <1>2, LoadsMakeEntries, NewEntryIsStoreStep, QuietIsStoreStep
  <1>3. ASSUME NEW c \in Callers,
               \/ \E d \in Directories : DisposeDirectory(c, d)
               \/ \E e \in Entries : Dispose(c, e)
               \/ DisposeAll(c) \/ Close(c) \/ CloseRoot(c) \/ Advance(c) \/ GiveUp(c)
        PROVE  StoreStep
    BY <1>3, CallersAreQuiet, QuietIsStoreStep
  <1>4. CASE UNCHANGED vars
    BY <1>4, StutterIsQuiet, QuietIsStoreStep DEF vars, storeVars, workerVars, scopeVars
  <1>. QED
    BY <1>1, <1>2, <1>3, <1>4 DEF Next

LEMMA CallsUntouched ==
    ASSUME EntriesInv, CallsInv, StoreStep, UNCHANGED <<call, root>>,
           \A i \in 1 .. Len(children') : scope'[children'[i]] # "none"
    PROVE  CallsInv'
  <1>1. \A c \in Callers : CallAt(c)' /\ TakenOut(c)'
    BY CallerKept DEF CallsInv
  <1>2. RootCalls'
    BY DEF CallsInv, RootCalls, RootCaller
  <1>. QED
    BY <1>1, <1>2 DEF CallsInv

LEMMA ChildrenKept ==
    ASSUME EntriesInv, CallsInv, StoreStep, UNCHANGED children
    PROVE  \A i \in 1 .. Len(children') : scope'[children'[i]] # "none"
  <1> SUFFICES ASSUME NEW i \in 1 .. Len(children) PROVE scope'[children[i]] # "none"
    OBVIOUS
  <1>1. children[i] \in Entries
    BY ElementOfSeq DEF EntriesInv, StoreTypeOK
  <1>. QED
    BY <1>1 DEF CallsInv, StoreStep, Moves

LEMMA CallsKept == ASSUME EntriesInv, CallsInv, [Next]_vars PROVE CallsInv'
  <1>0. StoreStep /\ call' \in [Callers -> Calls]
    BY StepsOfTheStore, CallsTyped
  <1>1. ASSUME NEW e \in Entries, Work(e) PROVE CallsInv'
    <2>1. UNCHANGED <<call, root>>
      BY <1>1 DEF Work, AwaitPrevious, PreviousClosed, CreateScope, BootSucceeds, BootFails, AbortedClosed, Evict, scopeVars
    <2>2. CASE UNCHANGED children
      BY <1>0, <2>1, <2>2, ChildrenKept, CallsUntouched
    <2>3. CASE children' = Append(children, e) /\ scope' = [scope EXCEPT ![e] = "open"]
      <3>1. children \in Seq(Entries)
        BY DEF EntriesInv, StoreTypeOK
      <3>2. ASSUME NEW i \in 1 .. Len(children') PROVE scope'[children'[i]] # "none"
        <4>1. children'[i] = e \/ (i \in 1 .. Len(children) /\ children'[i] = children[i])
          BY <2>3, <3>1, AppendProperties
        <4>2. i \in 1 .. Len(children) => children[i] \in Entries /\ scope[children[i]] # "none"
          BY <3>1, ElementOfSeq DEF CallsInv
        <4>. QED
          BY <2>3, <4>1, <4>2 DEF EntriesInv, StoreTypeOK
      <3>. QED
        BY <1>0, <2>1, <3>2, CallsUntouched
    <2>. QED
      BY <1>1, <2>2, <2>3
      DEF Work, AwaitPrevious, PreviousClosed, CreateScope, BootSucceeds, BootFails, AbortedClosed, Evict, scopeVars
  <1>2. ASSUME NEW e \in Entries, ScopeClosed(e) PROVE CallsInv'
    BY <1>0, <1>2, ChildrenKept, CallsUntouched DEF ScopeClosed
  <1>3. ASSUME NEW c \in Callers, Settled(c), UNCHANGED children PROVE CallsInv'
    BY <1>0, <1>3, CallersKept DEF Settled
  <1>4. ASSUME NEW c \in Callers, NEW d \in Directories, Load(c, d) \/ Reload(c, d) PROVE CallsInv'
    <2>1. PICK e \in Entries : Continue(c, "load", "await", <<e>>) /\ call[c].at = "idle" /\ UNCHANGED scopeVars
      BY <1>4, LoadsMakeEntries, NewEntryIsStoreStep, NamedEntries DEF MakesEntry
    <2>2. call[c].op = "none"
      BY <2>1 DEF CallsInv, CallAt
    <2>3. Settled(c)
      BY <2>1, <2>2, AwaitsOne, Continued, RootSame DEF Settled, scopeVars
    <2>. QED
      BY <1>3, <2>1, <2>3 DEF scopeVars
  <1>5. ASSUME NEW c \in Callers,
               \/ \E d \in Directories : DisposeDirectory(c, d)
               \/ \E e \in Entries : Dispose(c, e)
               \/ DisposeAll(c) \/ Close(c) \/ CloseRoot(c) \/ Advance(c) \/ GiveUp(c)
        PROVE  CallsInv'
    <2>1. UNCHANGED children
      BY <1>5, CallersAreQuiet DEF QuietStep
    <2>2. Settled(c)
      BY <1>0, <1>5, CloseTargetSettles, RootStepsSettle, OtherStepsSettle DEF Advance
    <2>. QED
      BY <1>3, <2>1, <2>2
  <1>6. CASE UNCHANGED vars
    BY <1>0, <1>6, ChildrenKept, CallsUntouched DEF vars
  <1>. QED
    BY <1>1, <1>2, <1>4, <1>5, <1>6 DEF Next

LEMMA InitCalls == Init => CallsInv
  <1> SUFFICES ASSUME Init PROVE CallsInv
    OBVIOUS
  <1>1. Return \in Calls
    BY EmptySeq DEF Return, Calls
  <1>2. call \in [Callers -> Calls] /\ \A c \in Callers : call[c] = Return
    BY <1>1 DEF Init
  <1>3. ASSUME NEW c \in Callers PROVE CallAt(c) /\ TakenOut(c) /\ ~RootCaller(c)
    <2>1. call[c].op = "none" /\ call[c].at = "idle" /\ call[c].todo = <<>>
      BY <1>2 DEF Return
    <2>. QED
      BY <2>1, EmptySeq DEF CallAt, TakenOut, RootCaller
  <1>4. RootCalls
    BY <1>3 DEF RootCalls, Init
  <1>. QED
    BY <1>2, <1>3, <1>4, EmptySeq DEF CallsInv, Init

\* Whatever the store is asked, every variable keeps its type (Workspace).
THEOREM StoreTypeCorrect == Spec => []TypeOK
  <1>1. Init => EntriesInv /\ CallsInv
    BY InitEntries, InitCalls
  <1>2. EntriesInv /\ CallsInv /\ [Next]_vars => EntriesInv' /\ CallsInv'
    BY EntriesKept, CallsKept
  <1>3. EntriesInv /\ CallsInv => TypeOK
    BY DEF EntriesInv, CallsInv, TypeOK
  <1>. QED
    BY <1>1, <1>2, <1>3, PTL DEF Spec

------------------------------------------------------------------------------
(* The cache.                                                               *)

\* What a Reload waits for has left the cache.
LEMMA ReplacedIsNotCached ==
    ASSUME EntriesInv, NEW x \in Entries, previous[x] # NoEntry
    PROVE  Cached(x[1]) # Before(x)
  <1>1. x[1] \in Directories /\ x[2] \in Nat \ {0}
    BY EntryShape
  <1>2. x[2] <= generations[x[1]] /\ previous[x] \in 1 .. x[2] - 1
    BY <1>1 DEF EntriesInv, StoreTypeOK, EntryInv, ReplacedInv
  <1>3. entries[x[1]] \in {NoEntry, generations[x[1]]} /\ generations[x[1]] \in Nat
    BY <1>1 DEF EntriesInv, StoreTypeOK
  <1>4. entries[x[1]] # previous[x]
    BY <1>1, <1>2, <1>3 DEF NoEntry
  <1>. QED
    BY <1>4 DEF Cached, Before

\* While the root is open, only its own failure closes what boots, and nothing
\* closes what is cached.
LEMMA OpenStays ==
    ASSUME EntriesInv, CallsInv, [Next]_vars, root = "open", NEW e \in Entries, scope[e] = "open",
           worker[e] = "boot" \/ (Ready(e) /\ Cached(e[1]) = e)
    PROVE  scope'[e] = "open" \/ BootFails(e)
  <1> USE DEF EntriesInv, StoreTypeOK
  <1>1. ASSUME NEW x, BeginClose(x), x # e PROVE scope'[e] = "open"
    BY <1>1 DEF BeginClose
  <1>2. ASSUME NEW x \in Entries, Work(x), ~BootFails(e) PROVE scope'[e] = "open"
    <2>1. CASE AwaitPrevious(x)
      <3>1. previous[x] # NoEntry /\ Ready(Before(x)) /\ Before(x) \in Entries /\ Before(x)[1] = x[1]
        BY <2>1, NamedEntries DEF AwaitPrevious, ReplacedInv
      <3>2. Before(x) # e
        BY <3>1, ReplacedIsNotCached DEF Ready
      <3>. QED
        BY <1>1, <2>1, <3>2 DEF AwaitPrevious
    <2>2. CASE CreateScope(x)
      BY <2>2 DEF CreateScope
    <2>3. CASE BootFails(x)
      BY <1>1, <1>2, <2>3 DEF BootFails
    <2>4. CASE PreviousClosed(x) \/ BootSucceeds(x) \/ AbortedClosed(x) \/ Evict(x)
      BY <2>4 DEF PreviousClosed, BootSucceeds, AbortedClosed, Evict, scopeVars
    <2>. QED
      BY <1>2, <2>1, <2>2, <2>3, <2>4 DEF Work
  <1>3. ASSUME NEW x \in Entries, ScopeClosed(x) PROVE scope'[e] = "open"
    BY <1>3 DEF ScopeClosed
  <1>4. ASSUME NEW c \in Callers, CloseTarget(c) PROVE scope'[e] = "open"
    <2>1. call[c].op \in {"dispose", "all", "root", "children"} /\ call[c].at = "close" /\ call[c].todo # <<>>
      BY <1>4, ClosersAct DEF CloseTarget
    <2>2. call[c].op # "children"
      BY DEF CallsInv, RootCalls, RootCaller
    <2>3. PICK n \in 1 .. Len(call[c].todo) : Target(c) = call[c].todo[n]
      BY <2>1, Targets, FrontIsSeq DEF Target
    <2>4. Target(c) \in instance /\ Cached(Target(c)[1]) # Target(c)
      BY <2>1, <2>2, <2>3 DEF CallsInv, CallAt, TakenOut
    <2>5. Target(c) # e
      BY <2>4 DEF Ready
    <2>. QED
      BY <1>1, <1>4, <2>5 DEF CloseTarget
  <1>5. CASE UNCHANGED scope
    BY <1>5
  <1>. QED
    BY <1>2, <1>3, <1>4, <1>5
    DEF Next, Load, Reload, DisposeDirectory, Dispose, DisposeAll, Close, CloseRoot, Advance, GiveUp, AnswerLoad,
        DisposeAwaited, TakeNext, TargetClosed, DisposeFenced, CloseStore, EndDisposeAll, scopeVars, vars

\* Only the goroutine of e moves e.
LEMMA StagesOf ==
    ASSUME EntriesInv, [Next]_vars, NEW e \in Entries
    PROVE  \/ worker'[e] = worker[e] /\ (e \in instance' <=> e \in instance)
           \/ Work(e)
           \/ worker[e] = "none" /\ worker'[e] \in {"child", "previous"} /\ e \notin instance' /\ Cached(e[1])' = e
  <1> USE DEF EntriesInv, StoreTypeOK
  <1>1. ASSUME NEW x \in Entries, Work(x), x # e
        PROVE worker'[e] = worker[e] /\ (e \in instance' <=> e \in instance)
    <2>1. \E stage : To(x, stage)
      BY <1>1 DEF Work, AwaitPrevious, PreviousClosed, CreateScope, BootSucceeds, BootFails, AbortedClosed, Evict
    <2>2. instance' = instance \/ instance' = instance \cup {x}
      BY <1>1 DEF Work, AwaitPrevious, PreviousClosed, CreateScope, BootSucceeds, BootFails, AbortedClosed, Evict
    <2>. QED
      BY <1>1, <2>1, <2>2 DEF To
  <1>2. CASE QuietStep \/ UNCHANGED vars
    BY <1>2 DEF QuietStep, workerVars, vars
  <1>3. ASSUME NEW c \in Callers, NEW d \in Directories, MakesEntry(c, d)
        PROVE \/ worker'[e] = worker[e] /\ (e \in instance' <=> e \in instance)
              \/ worker[e] = "none" /\ worker'[e] \in {"child", "previous"} /\ e \notin instance' /\ Cached(e[1])' = e
    <2>1. PICK x \in Entries : x = <<d, generations[d] + 1>> /\ worker[x] = "none" /\ Cached(d)' = x /\ x[1] = d
      <3>1. EntriesInv
        OBVIOUS
      <3>2. \E x \in Entries :
                /\ x = <<d, generations[d] + 1>> /\ x[1] = d /\ worker[x] = "none" /\ worker'[x] # "none"
                /\ scope[x] = "none" /\ Cached(d)' = x /\ Continue(c, "load", "await", <<x>>)
        BY ONLY <1>3, <3>1, c \in Callers, d \in Directories, NewEntryIsStoreStep
      <3>. QED
        BY <3>2
    <2>2. \E stage \in {"child", "previous"} : worker' = [worker EXCEPT ![x] = stage] /\ UNCHANGED instance
      BY <1>3, <2>1 DEF MakesEntry, NewEntry
    <2>. QED
      BY <2>1, <2>2
  <1>. QED
    BY <1>1, <1>2, <1>3, LoadsMakeEntries, CallersAreQuiet, ClosingIsQuiet DEF Next, ScopeClosed

LEMMA RootOnlyCloses == ASSUME EntriesInv, [Next]_vars, root' = "open" PROVE root = "open"
  <1>1. ASSUME NEW e \in Entries, Work(e) PROVE UNCHANGED root
    BY <1>1 DEF Work, AwaitPrevious, PreviousClosed, CreateScope, BootSucceeds, BootFails, AbortedClosed, Evict, scopeVars
  <1>. QED
    BY <1>1, LoadsMakeEntries, CallersAreQuiet DEF Next, ScopeClosed, MakesEntry, QuietStep, scopeVars, vars

LEMMA CacheKept == ASSUME EntriesInv, CallsInv, CacheInv, [Next]_vars PROVE CacheInv'
  <1> SUFFICES ASSUME root' = "open", NEW e \in Entries
               PROVE  /\ worker'[e] = "boot" => scope'[e] = "open"
                      /\ worker'[e] = "ready" /\ Cached(e[1])' = e => e \in instance' /\ scope'[e] = "open"
    BY DEF CacheInv, Ready
  <1>1. root = "open" /\ StoreStep
    BY RootOnlyCloses, StepsOfTheStore
  <1>2. CASE worker'[e] = worker[e] /\ (e \in instance' <=> e \in instance)
    <2>1. worker[e] # "none" /\ Cached(e[1])' = e => Cached(e[1]) = e
      BY <1>1 DEF StoreStep
    <2>2. ~BootFails(e)
      BY <1>2 DEF BootFails, To, EntriesInv, StoreTypeOK
    <2>. QED
      BY <1>1, <1>2, <2>1, <2>2, OpenStays DEF CacheInv, Ready
  <1>3. CASE Work(e)
    <2>1. CASE CreateScope(e)
      BY <2>1 DEF CreateScope, To, EntriesInv, StoreTypeOK
    <2>2. CASE BootSucceeds(e)
      BY <1>1, <2>2 DEF BootSucceeds, To, EntriesInv, StoreTypeOK, CacheInv, scopeVars
    <2>3. CASE Evict(e)
      <3>1. e = <<e[1], e[2]>> /\ e[1] \in Directories /\ e[2] # NoEntry
        BY EntryShape DEF NoEntry
      <3>2. Cached(e[1])' # e
        BY <2>3, <3>1 DEF Evict, EntriesWithout, Cached, EntriesInv, StoreTypeOK
      <3>3. worker'[e] = "ready"
        BY <2>3 DEF Evict, To, EntriesInv, StoreTypeOK
      <3>. QED
        BY <3>2, <3>3
    <2>4. CASE AwaitPrevious(e) \/ PreviousClosed(e) \/ BootFails(e) \/ AbortedClosed(e)
      <3>1. worker'[e] \in {"replace", "child", "abort", "evict"}
        BY <2>4 DEF AwaitPrevious, PreviousClosed, BootFails, AbortedClosed, To, EntriesInv, StoreTypeOK
      <3>. QED
        BY <3>1
    <2>. QED
      BY <1>3, <2>1, <2>2, <2>3, <2>4 DEF Work
  <1>. QED
    BY <1>2, <1>3, StagesOf

\* What Load hands out from the cache is alive: the scope of a cached instance
\* is open as long as the root is (Load, Dispose, Reload).
THEOREM TheCacheIsAlive == Spec => []CachedIsOpen
  <1> DEFINE Inv == EntriesInv /\ CallsInv /\ CacheInv
  <1>1. Init => Inv
    <2>1. Init => CacheInv
      BY DEF Init, CacheInv, Ready
    <2>. QED
      BY <2>1, InitEntries, InitCalls
  <1>2. Inv /\ [Next]_vars => Inv'
    BY EntriesKept, CallsKept, CacheKept
  <1>3. Inv => CachedIsOpen
    <2> SUFFICES ASSUME Inv, NEW d \in Directories, root = "open", entries[d] # NoEntry, Ready(Cached(d))
                 PROVE  Cached(d) \in instance /\ scope[Cached(d)] = "open"
      BY DEF CachedIsOpen
    <2>1. PICK e \in Entries : e = Cached(d) /\ e[1] = d
      BY NamedEntries
    <2>. QED
      BY <2>1 DEF CacheInv
  <1>. QED
    BY <1>1, <1>2, <1>3, PTL DEF Spec

------------------------------------------------------------------------------
(* The disposals.                                                           *)

LEMMA PreviousStays ==
    ASSUME EntriesInv, [Next]_vars, NEW x \in Entries, worker[x] # "none"
    PROVE  previous'[x] = previous[x]
  <1>1. ASSUME NEW e \in Entries, Work(e) \/ ScopeClosed(e) PROVE UNCHANGED previous
    BY <1>1 DEF Work, AwaitPrevious, PreviousClosed, CreateScope, BootSucceeds, BootFails, AbortedClosed, Evict,
        ScopeClosed, workerVars
  <1>2. CASE QuietStep \/ UNCHANGED vars
    BY <1>2 DEF QuietStep, workerVars, vars
  <1>3. ASSUME NEW c \in Callers, NEW d \in Directories, MakesEntry(c, d) PROVE previous'[x] = previous[x]
    <2>1. \E e \in Entries : e = <<d, generations[d] + 1>> /\ worker[e] = "none"
      <3>1. \E e \in Entries :
                /\ e = <<d, generations[d] + 1>> /\ e[1] = d /\ worker[e] = "none" /\ worker'[e] # "none"
                /\ scope[e] = "none" /\ Cached(d)' = e /\ Continue(c, "load", "await", <<e>>)
        BY ONLY EntriesInv, <1>3, c \in Callers, d \in Directories, NewEntryIsStoreStep
      <3>. QED
        BY <3>1
    <2>2. PICK e \in Entries : e = <<d, generations[d] + 1>> /\ worker[e] = "none"
      BY <2>1
    <2>3. PICK replaced : previous' = [previous EXCEPT ![e] = replaced]
      BY <1>3, <2>2 DEF MakesEntry, NewEntry
    <2>. QED
      BY <2>2, <2>3 DEF EntriesInv, StoreTypeOK
  <1>. QED
    BY <1>1, <1>2, <1>3, LoadsMakeEntries, CallersAreQuiet DEF Next

\* No entry becomes loose but a new one, which is cached.
LEMMA LooseBefore ==
    ASSUME EntriesInv, [Next]_vars, NEW e \in Entries, Loose(e)'
    PROVE  Loose(e) \/ Cached(e[1])' = e
  <1> USE DEF EntriesInv, StoreTypeOK
  <1>1. CASE worker'[e] = worker[e] /\ (e \in instance' <=> e \in instance)
    <2>1. worker[e] = "boot" \/ e \in instance => scope[e] # "none"
      BY DEF EntryInv
    <2>2. (worker[e] = "boot" \/ e \in instance) /\ scope'[e] = "open" => scope[e] = "open"
      BY <2>1, StepsOfTheStore DEF StoreStep, Moves
    <2>. QED
      BY <1>1, <2>2 DEF Loose
  <1>2. CASE Work(e)
    <2>1. CASE AwaitPrevious(e) \/ PreviousClosed(e) \/ CreateScope(e)
      BY <2>1 DEF AwaitPrevious, PreviousClosed, CreateScope, Loose
    <2>2. CASE BootSucceeds(e)
      BY <2>2 DEF BootSucceeds, scopeVars, To, Loose
    <2>3. CASE BootFails(e) \/ AbortedClosed(e) \/ Evict(e)
      <3>1. worker'[e] \in {"abort", "evict", "ready"} /\ e \notin instance'
        BY <2>3 DEF BootFails, AbortedClosed, Evict, To
      <3>. QED
        BY <3>1 DEF Loose
    <2>. QED
      BY <1>2, <2>1, <2>2, <2>3 DEF Work
  <1>. QED
    BY <1>1, <1>2, StagesOf

Holder(e) == Cached(e[1]) = e \/ Superseded(e) \/ BeingDisposed(e)

\* Who takes a loose entry out of the cache is bound to close it.
LEMMA CachedHandedOn ==
    ASSUME EntriesInv, CallsInv, [Next]_vars, NEW e \in Entries, Loose(e), Cached(e[1]) = e
    PROVE  Holder(e)'
  <1> SUFFICES ASSUME Cached(e[1])' # e PROVE Superseded(e)' \/ BeingDisposed(e)'
    BY DEF Holder
  <1>0. /\ e = <<e[1], e[2]>> /\ e[1] \in Directories /\ e[2] # NoEntry /\ entries[e[1]] = e[2]
        /\ entries'[e[1]] # entries[e[1]]
    BY EntryShape DEF Cached, NoEntry
  <1>1. ASSUME NEW x \in Entries, Work(x) PROVE FALSE
    <2>1. Evict(x)
      BY <1>0, <1>1 DEF Work, AwaitPrevious, PreviousClosed, CreateScope, BootSucceeds, BootFails, AbortedClosed, storeVars
    <2>2. x[1] = e[1] /\ x[2] = e[2]
      BY <1>0, <2>1 DEF Evict, EntriesWithout, EntriesInv, StoreTypeOK
    <2>3. x = e
      BY <1>0, <2>2, EntryShape
    <2>. QED
      BY <2>1, <2>3 DEF Evict, Loose, EntriesInv, StoreTypeOK
  <1>2. ASSUME NEW c \in Callers, NEW d \in Directories, MakesEntry(c, d) PROVE Superseded(e)'
    <2>1. NewEntry(d, "child", NoEntry) \/ NewEntry(d, "previous", entries[d])
      BY <1>2 DEF MakesEntry
    <2>2. entries' = [entries EXCEPT ![d] = generations[d] + 1]
      BY <2>1 DEF NewEntry
    <2>3. d = e[1]
      BY <1>0, <2>2 DEF EntriesInv, StoreTypeOK
    <2>4. NewEntry(d, "previous", e[2])
      BY <1>0, <1>2, <2>3 DEF MakesEntry
    <2>5. \E x \in Entries :
                /\ x = <<d, generations[d] + 1>> /\ x[1] = d /\ worker[x] = "none" /\ worker'[x] # "none"
                /\ scope[x] = "none" /\ Cached(d)' = x /\ Continue(c, "load", "await", <<x>>)
      BY ONLY EntriesInv, <1>2, c \in Callers, d \in Directories, NewEntryIsStoreStep
    <2>6. PICK x \in Entries : x = <<d, generations[d] + 1>> /\ x[1] = d
      BY <2>5
    <2>7. worker' = [worker EXCEPT ![x] = "previous"] /\ previous' = [previous EXCEPT ![x] = e[2]]
      BY <2>4, <2>6 DEF NewEntry
    <2>8. worker'[x] = "previous" /\ previous'[x] = e[2] /\ x = <<e[1], x[2]>> /\ x[2] \in Generations(e[1])
      BY <2>3, <2>6, <2>7, EntryShape DEF EntriesInv, StoreTypeOK
    <2>9. PICK g \in Generations(e[1]) : x = <<e[1], g>>
      BY <2>8
    <2>. QED
      BY <2>8, <2>9 DEF Superseded
  <1>3. ASSUME NEW c \in Callers, NEW x \in Entries, ForgetAndClose(c, x) PROVE BeingDisposed(e)'
    <2>1. Continue(c, "dispose", "close", <<x>>) /\ Cached(x[1]) = x /\ entries' = [entries EXCEPT ![x[1]] = NoEntry]
      BY <1>0, <1>3 DEF ForgetAndClose
    <2>2. x = e
      BY <1>0, <2>1, EntryShape DEF EntriesInv, StoreTypeOK, Cached
    <2>3. call'[c].op = "dispose" /\ call'[c].todo = <<e>>
      BY <2>1, <2>2, Continued
    <2>4. 1 \in DOMAIN call'[c].todo /\ call'[c].todo[1] = e
      BY <2>3
    <2>. QED
      BY <2>3, <2>4 DEF BeingDisposed
  <1>4. ASSUME NEW c \in Callers, NEW op \in {"all", "root"}, TakeAll(c, op) PROVE BeingDisposed(e)'
    <2>1. PICK todo \in Orders(CachedEntries) : Continue(c, op, "await", todo)
      BY <1>4 DEF TakeAll
    <2>2. e \in CachedEntries
      BY <1>0 DEF CachedEntries
    <2>3. PICK i \in DOMAIN todo : todo[i] = e
      BY <2>1, <2>2 DEF Orders
    <2>4. call'[c].op = op /\ call'[c].todo = todo
      BY <2>1, Continued
    <2>. QED
      BY <2>3, <2>4 DEF BeingDisposed
  <1>5. ASSUME NEW c \in Callers, NEW d \in Directories, Load(c, d) \/ Reload(c, d) PROVE Superseded(e)'
    BY <1>0, <1>2, <1>5, LoadsMakeEntries DEF storeVars
  <1>6. ASSUME NEW c \in Callers, DisposeAwaited(c) PROVE BeingDisposed(e)'
    <2>1. Target(c) \in Entries
      BY <1>6, Targets DEF DisposeAwaited, Awaiting
    <2>. QED
      BY <1>0, <1>3, <1>6, <2>1 DEF DisposeAwaited
  <1>7. ASSUME NEW c \in Callers, DisposeFenced(c) PROVE BeingDisposed(e)'
    BY <1>4, <1>7 DEF DisposeFenced, CallsInv, CallAt
  <1>8. ASSUME NEW c \in Callers, Advance(c) PROVE BeingDisposed(e)'
    BY <1>0, <1>6, <1>7, <1>8
    DEF Advance, AnswerLoad, TakeNext, CloseTarget, TargetClosed, CloseStore, EndDisposeAll, storeVars
  <1>. QED
    BY <1>0, <1>1, <1>3, <1>4, <1>5, <1>8
    DEF Next, ScopeClosed, DisposeDirectory, Dispose, DisposeAll, Close, CloseRoot, GiveUp, storeVars, vars

\* The goroutine of a Reload closes the instance it waited for.
LEMMA SupersededHandedOn ==
    ASSUME EntriesInv, [Next]_vars, NEW e \in Entries, Loose(e), Loose(e)', Superseded(e)
    PROVE  Superseded(e)'
  <1>1. PICK g \in Generations(e[1]) : previous[<<e[1], g>>] = e[2] /\ worker[<<e[1], g>>] = "previous"
    BY DEF Superseded
  <1>2. PICK x \in Entries : x = <<e[1], g>> /\ x[1] = e[1]
    <2>1. e[1] \in Directories
      BY EntryShape
    <2>. QED
      BY <1>1, <2>1, EntryShape DEF Generations
  <1>3. previous'[x] = e[2]
    BY <1>1, <1>2, PreviousStays
  <1>4. CASE worker'[x] = "previous"
    BY <1>2, <1>3, <1>4 DEF Superseded
  <1>5. CASE worker'[x] # "previous"
    <2>1. Work(x)
      BY <1>1, <1>2, <1>5, StagesOf
    <2>2. AwaitPrevious(x)
      BY <1>1, <1>2, <2>1 DEF Work, PreviousClosed, CreateScope, BootSucceeds, BootFails, AbortedClosed, Evict
    <2>3. Before(x) = e
      BY <1>1, <1>2, EntryShape DEF Before
    <2>4. Ready(e) /\ e \in instance /\ scope[e] = "open" /\ e # x
      BY <1>1, <1>2, <2>2, <2>3 DEF AwaitPrevious, Ready, Loose
    <2>5. scope'[e] = "closing" /\ worker'[e] = "ready"
      BY <2>2, <2>3, <2>4 DEF AwaitPrevious, BeginClose, Ready, To, EntriesInv, StoreTypeOK
    <2>. QED
      BY <2>5 DEF Loose
  <1>. QED
    BY <1>4, <1>5

\* A disposal goes on to the next entry when this one is closed.
LEMMA ProceedDisposes ==
    ASSUME EntriesInv, CallsInv, StoreStep, NEW c \in Callers, NEW e \in Entries, Proceed(c),
           call[c].op \in {"dispose", "children", "all", "root"},
           NEW i \in 1 .. Len(call[c].todo), call[c].todo[i] = e, Target(c) # e
    PROVE  BeingDisposed(e)'
  <1>1. call[c].todo \in Seq(Entries) /\ call[c].todo # <<>>
    BY Targets
  <1>2. Len(call[c].todo) \in Nat /\ i # Len(call[c].todo)
    BY <1>1 DEF Target, Last
  <1>3. call[c].op # "dispose"
    <2>1. call[c].op = "dispose" => Len(call[c].todo) = 1
      BY DEF CallsInv, CallAt
    <2>2. PICK n \in Nat : n = Len(call[c].todo) /\ i \in 1 .. n /\ i # n
      BY <1>2
    <2>3. n # 1
      <3>1. i \in Int /\ 1 <= i /\ i <= n
        BY <2>2
      <3>2. n = 1 => i = 1
        BY ONLY <3>1, n \in Nat
      <3>3. i # n
        BY <2>2
      <3>. QED
        BY ONLY <3>2, <3>3
    <2>. QED
      BY <2>1, <2>2, <2>3
  <1>4. call'[c].op = call[c].op /\ call'[c].todo = Front(call[c].todo)
    BY <1>1, <1>3, ProceedAt
  <1>5. i \in 1 .. Len(Front(call[c].todo)) /\ Front(call[c].todo)[i] = e /\ Front(call[c].todo) \in Seq(Entries)
    BY <1>1, <1>2, FrontIsSeq
  <1>. QED
    BY <1>4, <1>5 DEF BeingDisposed

LEMMA DisposalHandedOn ==
    ASSUME EntriesInv, CallsInv, [Next]_vars, ~CancelDisposeAll, NEW e \in Entries, Loose(e), Loose(e)', BeingDisposed(e)
    PROVE  BeingDisposed(e)'
  <1>1. PICK c \in Callers : \E i \in DOMAIN call[c].todo :
                call[c].todo[i] = e /\ call[c].op \in {"dispose", "all", "root", "children"}
    BY DEF BeingDisposed
  <1>2. PICK i \in 1 .. Len(call[c].todo) : call[c].todo[i] = e
    BY <1>1, Targets
  <1>3. /\ call[c].op \in {"dispose", "all", "root", "children"} /\ call[c].at \notin {"idle", "fence"}
        /\ call[c].todo # <<>>
    BY <1>1, <1>2, EmptySeq DEF CallsInv, CallAt
  <1>4. StoreStep
    BY StepsOfTheStore
  <1>5. ASSUME call'[c].op = call[c].op, call'[c].todo = call[c].todo PROVE BeingDisposed(e)'
    BY <1>1, <1>5 DEF BeingDisposed
  <1>6. ASSUME Proceed(c), UNCHANGED <<workerVars, scopeVars>>,
               \/ Ready(Target(c)) /\ Target(c) \notin instance
               \/ scope[Target(c)] \in {"closing", "closed"}
        PROVE BeingDisposed(e)'
    <2>1. Target(c) \in Entries
      BY <1>3, Targets
    <2>2. ~Loose(Target(c))
      BY <1>6, <2>1 DEF Loose, Ready, EntriesInv, EntryInv
    <2>. QED
      BY <1>2, <1>3, <1>4, <1>6, <2>2, ProceedDisposes
  <1>7. ASSUME NEW x \in Callers, x # c, Settled(x) PROVE BeingDisposed(e)'
    BY <1>5, <1>7 DEF Settled
  <1>8. ASSUME NEW x \in Callers, NEW d \in Directories, Load(x, d) \/ Reload(x, d) PROVE BeingDisposed(e)'
    <2>1. x # c /\ \E todo : Continue(x, "load", "await", todo)
      BY <1>3, <1>8 DEF Load, Reload
    <2>. QED
      BY <1>5, <2>1, Continued
  <1>9. ASSUME NEW x \in Callers, x # c,
               \/ \E d \in Directories : DisposeDirectory(x, d)
               \/ \E y \in Entries : Dispose(x, y)
               \/ DisposeAll(x) \/ Close(x) \/ CloseRoot(x) \/ Advance(x) \/ GiveUp(x)
        PROVE  BeingDisposed(e)'
    <2>1. Settled(x)
      BY <1>4, <1>9, CloseTargetSettles, RootStepsSettle, OtherStepsSettle DEF Advance
    <2>. QED
      BY <1>7, <1>9, <2>1
  <1>10. CASE Advance(c) \/ GiveUp(c)
    <2>1. CASE TakeNext(c)
      <3>1. CASE Target(c) \in instance
        BY <1>5, <2>1, <3>1, Continued DEF TakeNext
      <3>. QED
        BY <1>6, <2>1, <3>1 DEF TakeNext
    <2>2. CASE CloseTarget(c)
      <3>1. PICK at : Continue(c, call[c].op, at, call[c].todo)
        BY <2>2 DEF CloseTarget
      <3>. QED
        BY <1>5, <3>1, Continued
    <2>3. CASE TargetClosed(c)
      BY <1>6, <2>3 DEF TargetClosed
    <2>4. CASE GiveUp(c)
      <3>1. call[c].at = "join" /\ Proceed(c)
        BY <1>3, <2>4 DEF GiveUp, Awaiting
      <3>2. scope[Target(c)] \in {"closing", "closed"}
        BY <3>1 DEF CallsInv, CallAt
      <3>. QED
        BY <1>6, <2>4, <3>1, <3>2 DEF GiveUp
    <2>. QED
      BY <1>3, <1>10, <2>1, <2>2, <2>3, <2>4
      DEF Advance, AnswerLoad, DisposeAwaited, Awaiting, DisposeFenced, CloseStore, EndDisposeAll
  <1>11. ASSUME UNCHANGED call PROVE BeingDisposed(e)'
    BY <1>5, <1>11
  <1>12. ASSUME NEW x \in Entries, Work(x) \/ ScopeClosed(x) PROVE UNCHANGED call
    BY <1>12 DEF Work, AwaitPrevious, PreviousClosed, CreateScope, BootSucceeds, BootFails, AbortedClosed, Evict,
        ScopeClosed
  <1>. QED
    BY <1>3, <1>8, <1>9, <1>10, <1>11, <1>12
    DEF Next, DisposeDirectory, Dispose, DisposeAll, Close, CloseRoot, vars

\* No instance is orphaned: one that is open and no longer cached is about to be
\* closed by the Reload or the disposal that took it out of the cache, as long
\* as the context of DisposeAll and Close is not done while they wait.
THEOREM NothingIsOrphaned == ~CancelDisposeAll => (Spec => []NoOrphan)
  <1> SUFFICES ASSUME ~CancelDisposeAll PROVE Spec => []NoOrphan
    OBVIOUS
  <1> DEFINE Inv == EntriesInv /\ CallsInv /\ LooseInv
  <1>1. Init => Inv
    <2>1. Init => LooseInv
      BY DEF Init, LooseInv, Loose
    <2>. QED
      BY <2>1, InitEntries, InitCalls
  <1>2. Inv /\ [Next]_vars => Inv'
    <2> SUFFICES ASSUME Inv, [Next]_vars PROVE Inv'
      OBVIOUS
    <2>1. EntriesInv' /\ CallsInv'
      BY EntriesKept, CallsKept
    <2>2. ASSUME NEW e \in Entries, Loose(e)' PROVE Holder(e)'
      <3>1. CASE Loose(e)
        <4>1. Cached(e[1]) = e \/ Superseded(e) \/ BeingDisposed(e)
          BY <3>1 DEF LooseInv
        <4>2. CASE Cached(e[1]) = e
          BY <3>1, <4>2, CachedHandedOn
        <4>3. CASE Superseded(e)
          BY <2>2, <3>1, <4>3, SupersededHandedOn DEF Holder
        <4>4. CASE BeingDisposed(e)
          BY <2>2, <3>1, <4>4, DisposalHandedOn DEF Holder
        <4>. QED
          BY <4>1, <4>2, <4>3, <4>4
      <3>2. CASE ~Loose(e)
        BY <2>2, <3>2, LooseBefore DEF Holder
      <3>. QED
        BY <3>1, <3>2
    <2>3. LooseInv'
      BY <2>2 DEF LooseInv, Holder
    <2>. QED
      BY <2>1, <2>3
  <1>3. Inv => NoOrphan
    BY DEF LooseInv, Loose, NoOrphan, EntriesInv, StoreTypeOK
  <1>. QED
    BY <1>1, <1>2, <1>3, PTL DEF Spec

------------------------------------------------------------------------------
(* The root.                                                                *)

\* Once the root closes, it takes no children, and a scope that has ended stays so.
LEMMA EndedStays ==
    ASSUME EntriesInv, [Next]_vars, root # "open", NEW e \in Entries, scope[e] \in {"none", "closed"}
    PROVE  scope'[e] \in {"none", "closed"}
  <1> USE DEF EntriesInv, StoreTypeOK
  <1>1. CASE \A f \in Entries : Moves(f)
    BY <1>1 DEF Moves
  <1>2. ASSUME NEW x \in Entries, Work(x) PROVE \A f \in Entries : Moves(f)
    <2>1. CASE AwaitPrevious(x)
      BY <2>1, BeginCloseMoves DEF AwaitPrevious, Moves
    <2>2. CASE BootFails(x)
      BY <2>2, BeginCloseMoves DEF BootFails
    <2>3. CASE CreateScope(x)
      BY <2>3 DEF CreateScope, RootAccepts, Moves
    <2>4. CASE PreviousClosed(x) \/ BootSucceeds(x) \/ AbortedClosed(x) \/ Evict(x)
      BY <2>4 DEF PreviousClosed, BootSucceeds, AbortedClosed, Evict, scopeVars, Moves
    <2>. QED
      BY <1>2, <2>1, <2>2, <2>3, <2>4 DEF Work
  <1>3. CASE QuietStep \/ UNCHANGED vars \/ UNCHANGED scopeVars
    BY <1>3 DEF QuietStep, vars, scopeVars, Moves
  <1>. QED
    BY <1>1, <1>2, <1>3, LoadsMakeEntries, CallersAreQuiet, ClosingIsQuiet DEF Next, ScopeClosed, MakesEntry

LEMMA ListedKept == ASSUME EntriesInv, ChildrenListed, [Next]_vars PROVE ChildrenListed'
  <1> USE DEF EntriesInv, StoreTypeOK
  <1>1. CASE UNCHANGED children /\ \A f \in Entries : Moves(f)
    BY <1>1 DEF ChildrenListed, Moves
  <1>2. ASSUME NEW x \in Entries, Work(x), ~CreateScope(x) PROVE UNCHANGED children /\ \A f \in Entries : Moves(f)
    <2>1. CASE AwaitPrevious(x)
      BY <2>1, BeginCloseMoves DEF AwaitPrevious, Moves
    <2>2. CASE BootFails(x)
      BY <2>2, BeginCloseMoves DEF BootFails
    <2>3. CASE PreviousClosed(x) \/ BootSucceeds(x) \/ AbortedClosed(x) \/ Evict(x)
      BY <2>3 DEF PreviousClosed, BootSucceeds, AbortedClosed, Evict, scopeVars, Moves
    <2>. QED
      BY <1>2, <2>1, <2>2, <2>3 DEF Work
  <1>3. ASSUME NEW x \in Entries, CreateScope(x) PROVE ChildrenListed'
    <2>1. CASE UNCHANGED <<scope, children>>
      BY <2>1 DEF ChildrenListed
    <2>2. CASE scope' = [scope EXCEPT ![x] = "open"] /\ children' = Append(children, x)
      <3>1. children \in Seq(Entries)
        OBVIOUS
      <3>2. /\ Len(children') = Len(children) + 1 /\ children'[Len(children) + 1] = x
            /\ \A i \in 1 .. Len(children) : children'[i] = children[i]
            /\ Len(children) \in Nat
        BY ONLY <2>2, <3>1, x \in Entries, AppendProperties
      <3>3. ASSUME NEW e \in Entries, scope'[e] # "none" PROVE \E i \in 1 .. Len(children') : children'[i] = e
        <4>1. CASE e = x
          <5>1. Len(children) + 1 \in 1 .. Len(children')
            BY ONLY <3>2
          <5>. QED
            BY <3>2, <4>1, <5>1
        <4>2. CASE e # x
          <5>1. PICK i \in 1 .. Len(children) : children[i] = e
            BY <2>2, <3>3, <4>2 DEF ChildrenListed
          <5>. QED
            BY <3>2, <5>1
        <4>. QED
          BY <4>1, <4>2
      <3>. QED
        BY <3>3 DEF ChildrenListed
    <2>. QED
      BY <1>3, <2>1, <2>2 DEF CreateScope
  <1>4. CASE QuietStep \/ UNCHANGED vars \/ UNCHANGED scopeVars
    BY <1>1, <1>4 DEF QuietStep, vars, scopeVars, Moves
  <1>. QED
    BY <1>1, <1>2, <1>3, <1>4, LoadsMakeEntries, CallersAreQuiet, ClosingIsQuiet DEF Next, ScopeClosed, MakesEntry

LEMMA RootAtKept ==
    ASSUME EntriesInv, CallsInv, [Next]_vars, NEW c \in Callers, RootAt(c),
           call'[c].op = call[c].op, call'[c].todo = call[c].todo
    PROVE  RootAt(c)'
  <1>1. call[c].op \in {"children", "root"} => root # "open"
    BY DEF CallsInv, RootCalls, RootCaller
  <1>2. ASSUME call[c].op = "children", NEW e \in Entries
        PROVE scope'[e] \in {"none", "closed"} \/ \E i \in 1 .. Len(call[c].todo) : call[c].todo[i] = e
    BY <1>1, <1>2, EndedStays DEF RootAt
  <1>3. call[c].op = "root" => AllEnded'
    BY <1>1, EndedStays DEF RootAt, AllEnded
  <1>. QED
    BY <1>2, <1>3 DEF RootAt

LEMMA RootKept ==
    ASSUME EntriesInv, CallsInv, ChildrenListed, [Next]_vars, ~CancelDisposeAll, NEW c \in Callers, RootAt(c)
    PROVE  RootAt(c)'
  <1>0. StoreStep /\ CallsInv'
    BY StepsOfTheStore, CallsKept
  <1>1. ASSUME call'[c].op = call[c].op, call'[c].todo = call[c].todo PROVE RootAt(c)'
    BY <1>1, RootAtKept
  <1>2. ASSUME call'[c].op \notin {"children", "root"} PROVE RootAt(c)'
    BY <1>2 DEF RootAt
  <1>3. ASSUME NEW x \in Entries, Work(x) \/ ScopeClosed(x) PROVE UNCHANGED call
    BY <1>3 DEF Work, AwaitPrevious, PreviousClosed, CreateScope, BootSucceeds, BootFails, AbortedClosed, Evict,
        ScopeClosed
  <1>4. ASSUME NEW x \in Callers, NEW d \in Directories, Load(x, d) \/ Reload(x, d) PROVE RootAt(c)'
    <2>1. \E todo : Continue(x, "load", "await", todo)
      BY <1>4 DEF Load, Reload
    <2>. QED
      BY <1>1, <1>2, <2>1, Continued
  <1>5. ASSUME NEW x \in Callers, x # c,
               \/ \E d \in Directories : DisposeDirectory(x, d)
               \/ \E y \in Entries : Dispose(x, y)
               \/ DisposeAll(x) \/ Close(x) \/ CloseRoot(x) \/ Advance(x) \/ GiveUp(x)
        PROVE  RootAt(c)'
    <2>1. Settled(x)
      BY <1>0, <1>5, CloseTargetSettles, RootStepsSettle, OtherStepsSettle DEF Advance
    <2>. QED
      BY <1>1, <1>5, <2>1 DEF Settled
  <1>6. CASE CloseRoot(c)
    <2>1. call'[c].op = "children" /\ call'[c].todo = children /\ UNCHANGED scope
      BY <1>6, Continued DEF CloseRoot
    <2>. QED
      BY <2>1 DEF ChildrenListed, RootAt, EntriesInv, StoreTypeOK
  <1>7. CASE CloseStore(c)
    <2>1. call'[c].op = "root" /\ call[c].op = "children" /\ call[c].todo = <<>> /\ UNCHANGED scope
      BY <1>7, Continued DEF CloseStore, scopeVars
    <2>2. AllEnded'
      BY <2>1, EmptySeq DEF RootAt, AllEnded
    <2>. QED
      BY <2>1, <2>2 DEF RootAt
  <1>8. CASE call[c].op = "children" /\ Proceed(c) /\ scope[Target(c)] = "closed" /\ call[c].todo # <<>> /\ UNCHANGED scope
    <2>1. call'[c].op = "children" /\ call'[c].todo = Front(call[c].todo) /\ call[c].todo \in Seq(Entries)
      BY <1>0, <1>8, ProceedAt, Targets
    <2>2. ASSUME NEW e \in Entries, scope[e] \notin {"none", "closed"}
          PROVE  \E i \in 1 .. Len(Front(call[c].todo)) : Front(call[c].todo)[i] = e
      <3>1. PICK i \in 1 .. Len(call[c].todo) : call[c].todo[i] = e
        BY <1>8, <2>2 DEF RootAt
      <3>2. i # Len(call[c].todo)
        BY <1>8, <2>1, <2>2, <3>1 DEF Target, Last
      <3>3. i \in 1 .. Len(Front(call[c].todo))
        BY <1>8, <2>1, <3>2, FrontIsSeq
      <3>. QED
        BY <1>8, <2>1, <3>1, <3>3, FrontIsSeq
    <2>. QED
      BY <1>8, <2>1, <2>2 DEF RootAt
  <1>9. CASE call[c].op = "root"
    <2>1. AllEnded'
      BY <1>9, EndedStays DEF RootAt, AllEnded, CallsInv, RootCalls, RootCaller
    <2>2. CASE call'[c].op # "children"
      BY <2>1, <2>2 DEF RootAt
    <2>3. CASE call'[c].op = "children"
      BY <2>1, <2>3 DEF RootAt, AllEnded
    <2>. QED
      BY <2>2, <2>3
  <1>10. CASE Advance(c) /\ call[c].op = "children"
    <2>1. CASE CloseTarget(c)
      <3>1. \E at : Continue(c, call[c].op, at, call[c].todo)
        BY <2>1 DEF CloseTarget
      <3>. QED
        BY <1>1, <3>1, Continued
    <2>2. CASE TargetClosed(c)
      BY <1>8, <1>10, <2>2, ClosersAct DEF TargetClosed, scopeVars
    <2>. QED
      BY <1>7, <1>10, <2>1, <2>2
      DEF Advance, AnswerLoad, DisposeAwaited, TakeNext, Awaiting, DisposeFenced, EndDisposeAll, CallsInv, CallAt
  <1>11. CASE GiveUp(c) /\ call[c].op # "root"
    <2>1. CASE Awaiting(c, {"load", "directory"}) /\ call' = [call EXCEPT ![c] = Return]
      BY <1>2, <2>1, ReturnedAt
    <2>2. CASE call[c].op = "dispose" /\ call[c].at = "join" /\ Proceed(c)
      BY <1>0, <1>2, <2>2, ProceedAt, Targets
    <2>. QED
      BY <1>11, <2>1, <2>2 DEF GiveUp
  <1>12. CASE call[c].op \notin {"children", "root"} /\ ~CloseRoot(c)
    <2>1. CASE Advance(c) \/ GiveUp(c)
           \/ (\E d \in Directories : DisposeDirectory(c, d)) \/ (\E y \in Entries : Dispose(c, y))
           \/ DisposeAll(c) \/ Close(c)
      <3>1. Settled(c) /\ UNCHANGED root
        BY <1>0, <1>12, <2>1, CloseTargetSettles, RootStepsSettle, OtherStepsSettle
        DEF Advance, AnswerLoad, DisposeAwaited, TakeNext, CloseTarget, TargetClosed, DisposeFenced, CloseStore,
            EndDisposeAll, GiveUp, DisposeDirectory, Dispose, DisposeAll, Close, scopeVars
      <3>2. ~RootCaller(c)'
        BY <1>12, <3>1 DEF Settled, RootCaller
      <3>. QED
        BY <1>2, <3>2 DEF RootCaller
    <2>. QED
      BY <1>1, <1>3, <1>4, <1>5, <1>12, <2>1 DEF Next, vars
  <1>. QED
    BY <1>1, <1>3, <1>4, <1>5, <1>6, <1>9, <1>10, <1>11, <1>12
    DEF Next, DisposeDirectory, Dispose, DisposeAll, Close, CallsInv, CallAt, vars

\* When the root is closed no scope of an instance is left, not even one whose
\* boot raced with the shutdown (complete, Store.Close), as long as the context of
\* DisposeAll and Close is not done while they wait.
THEOREM TheRootEndsAll == ~CancelDisposeAll => (Spec => []RootLeavesNothing)
  <1> SUFFICES ASSUME ~CancelDisposeAll PROVE Spec => []RootLeavesNothing
    OBVIOUS
  <1> DEFINE Inv == EntriesInv /\ CallsInv /\ RootInv
  <1>1. Init => Inv
    <2> SUFFICES ASSUME Init PROVE Inv
      OBVIOUS
    <2>1. EntriesInv /\ CallsInv
      BY InitEntries, InitCalls
    <2>2. ChildrenListed /\ RootLeavesNothing
      BY DEF Init, ChildrenListed, RootLeavesNothing
    <2>3. \A c \in Callers : RootAt(c)
      BY DEF Init, RootAt, Return
    <2>. QED
      BY <2>1, <2>2, <2>3 DEF RootInv
  <1>2. Inv /\ [Next]_vars => Inv'
    <2> SUFFICES ASSUME Inv, [Next]_vars PROVE Inv'
      OBVIOUS
    <2>0. ChildrenListed /\ RootLeavesNothing /\ \A c \in Callers : RootAt(c)
      BY DEF RootInv
    <2>1. EntriesInv' /\ CallsInv' /\ ChildrenListed'
      BY <2>0, EntriesKept, CallsKept, ListedKept
    <2>2. \A c \in Callers : RootAt(c)'
      BY <2>0, RootKept
    <2>3. RootLeavesNothing'
      <3>1. CASE root = "closed"
        BY <2>0, <3>1, EndedStays DEF RootLeavesNothing
      <3>2. ASSUME NEW c \in Callers, EndDisposeAll(c), call[c].op = "root" PROVE RootLeavesNothing'
        BY <2>0, <3>2 DEF RootAt, AllEnded, RootLeavesNothing, EndDisposeAll
      <3>3. CASE root # "closed" /\ \A c \in Callers : ~(EndDisposeAll(c) /\ call[c].op = "root")
        <4>1. ASSUME NEW x \in Entries, Work(x) PROVE UNCHANGED root
          BY <4>1 DEF Work, AwaitPrevious, PreviousClosed, CreateScope, BootSucceeds, BootFails, AbortedClosed, Evict,
              scopeVars
        <4>2. root' # "closed"
          BY <3>3, <4>1
          DEF Next, ScopeClosed, Load, Reload, DisposeDirectory, Dispose, DisposeAll, Close, CloseRoot, Advance, GiveUp,
              AnswerLoad, DisposeAwaited, TakeNext, CloseTarget, TargetClosed, DisposeFenced, CloseStore, EndDisposeAll,
              scopeVars, vars
        <4>. QED
          BY <4>2 DEF RootLeavesNothing
      <3>. QED
        BY <3>1, <3>2, <3>3
    <2>. QED
      BY <2>1, <2>2, <2>3 DEF RootInv
  <1>3. Inv => RootLeavesNothing
    BY DEF RootInv
  <1>. QED
    BY <1>1, <1>2, <1>3, PTL DEF Spec
==============================================================================
