---------------------------- MODULE RuntimeProofs ----------------------------
(****************************************************************************)
(* Proofs of the safety of the runtime primitives, for all trees of scopes, *)
(* callers, producers, consumers, capacities and groups of processes: the   *)
(* inductive invariant of each says what its critical sections leave behind *)
(* for the others.                                                          *)
(****************************************************************************)
EXTENDS Scope, Sink, ChildProcess, SequenceTheorems, TLAPS

------------------------------------------------------------------------------
(* Queues.                                                                  *)

\* What leaves the queue t for s.
LEMMA HeadMoves ==
    ASSUME NEW S, NEW s \in Seq(S), NEW t \in Seq(S), t # <<>>
    PROVE  s \o t = Append(s, Head(t)) \o Tail(t)
  <1> DEFINE moved == Append(s, Head(t)) \o Tail(t)
  <1>1. Head(t) \in S /\ Tail(t) \in Seq(S)
    BY HeadTailProperties
  <1>2. s \o t \in Seq(S) /\ moved \in Seq(S)
    BY <1>1, ConcatProperties
  <1>3. Len(s \o t) = Len(moved)
    BY <1>1, ConcatProperties
  <1>4. ASSUME NEW i \in 1 .. Len(moved) PROVE (s \o t)[i] = moved[i]
    BY <1>1, <1>3, ConcatProperties, AppendProperties, HeadTailProperties
  <1>. QED
    BY <1>2, <1>3, <1>4, SeqEqual

------------------------------------------------------------------------------
(* The sink.                                                                *)

\* Values leave the sink in the order in which they were accepted, none twice
\* and none left out (Send, Receive).
FirstInFirstOut == accepted = received \o values

SinkInv ==
    /\ SinkTypeOK
    /\ \A p \in Producers : producer[p] = "checked" => sends[p] >= 1
    /\ FirstInFirstOut
    /\ ~done => beforeClose = Len(accepted)
    /\ \A c \in Consumers : consumer[c] = "drained" => done
    /\ ClosedMeansDrained

LEMMA SinkInitKeeps == SinkInit => SinkInv
  <1> SUFFICES ASSUME SinkInit PROVE SinkInv
    OBVIOUS
  <1> USE DEF SinkInit
  <1>1. <<>> \in Seq(Value) /\ Len(<<>>) = 0 /\ <<>> = <<>> \o <<>>
    BY EmptySeq, ConcatEmptySeq
  <1>2. SinkTypeOK
    <2>1. values \in Seq(Value) /\ Len(values) <= Capacity
      BY <1>1, SinkAssumption
    <2>2. sends \in [Producers -> 0 .. MaxSends] /\ beforeClose \in 0 .. Len(accepted)
      BY <1>1, SinkAssumption
    <2>3. accepted \in Seq(Value) /\ received \in Seq(Value)
      BY <1>1
    <2>. QED BY <2>1, <2>2, <2>3 DEF SinkTypeOK
  <1>3. FirstInFirstOut
    BY <1>1 DEF FirstInFirstOut
  <1>4. ClosedMeansDrained
    BY DEF ClosedMeansDrained
  <1>. QED
    BY <1>1, <1>2, <1>3, <1>4 DEF SinkInv

LEMMA BeginSendKeeps == ASSUME SinkInv, NEW p \in Producers, BeginSend(p) PROVE SinkInv'
  BY SinkAssumption DEF BeginSend, AtProducer, SinkInv, SinkTypeOK, FirstInFirstOut, ClosedMeansDrained

LEMMA SendValueKeeps == ASSUME SinkInv, NEW p \in Producers, SendValue(p) PROVE SinkInv'
  <1> USE DEF SinkInv, SinkTypeOK
  <1> DEFINE v == <<p, sends[p]>>
  <1>1. v \in Value /\ values \in Seq(Value) /\ received \in Seq(Value)
    BY SinkAssumption DEF SendValue, Value
  <1>2. /\ values' \in Seq(Value) /\ Len(values') = Len(values) + 1
        /\ accepted' \in Seq(Value) /\ Len(accepted') = Len(accepted) + 1
    BY <1>1 DEF SendValue
  <1>3. FirstInFirstOut'
    <2> HIDE DEF v
    <2>1. Append(accepted, v) = accepted \o <<v>> /\ Append(values, v) = values \o <<v>>
      BY <1>1, AppendIsConcat
    <2>2. (received \o values) \o <<v>> = received \o (values \o <<v>>)
      <3>1. <<v>> \in Seq(Value)
        BY ONLY <1>1
      <3>. QED
        BY ONLY <1>1, <3>1, ConcatAssociative
    <2>. QED
      BY <2>1, <2>2 DEF SendValue, FirstInFirstOut, v
  <1>. QED
    BY <1>2, <1>3, SinkAssumption
    DEF SendValue, AtProducer, Room, ClosedMeansDrained

LEMMA TakeValueKeeps == ASSUME SinkInv, NEW c \in Consumers, TakeValue(c) PROVE SinkInv'
  <1> USE DEF SinkInv, SinkTypeOK
  <1>1. /\ values' \in Seq(Value) /\ Len(values') = Len(values) - 1
        /\ received' \in Seq(Value) /\ Len(received') = Len(received) + 1
    BY DEF TakeValue
  <1>2. FirstInFirstOut'
    <2>1. received \o values = Append(received, Head(values)) \o Tail(values)
      BY HeadMoves DEF TakeValue
    <2>. QED BY <2>1 DEF TakeValue, FirstInFirstOut
  <1>. QED
    BY <1>1, <1>2, SinkAssumption DEF TakeValue, AtConsumer, ClosedMeansDrained

LEMMA ConsumerKeeps ==
    ASSUME SinkInv, NEW c \in Consumers, Receiving(c) \/ ReceiveCanceled(c) PROVE SinkInv'
  <1> USE DEF SinkInv, SinkTypeOK
  <1>1. CASE TakeValue(c)
    BY <1>1, TakeValueKeeps
  <1>2. CASE FindEmpty(c) \/ ReceiveCanceled(c)
    BY <1>2 DEF FindEmpty, ReceiveCanceled, AtConsumer, ClosedMeansDrained, FirstInFirstOut
  <1>3. CASE ReceiveClosed(c) /\ ~TakeValue(c)
    <2>1. values = <<>>
      BY <1>3 DEF ReceiveClosed
    <2>2. Len(received) = Len(accepted)
      BY <2>1, ConcatEmptySeq DEF FirstInFirstOut
    <2>3. beforeClose <= Len(received)
      BY <2>2
    <2> HIDE DEF TakeValue
    <2>. QED
      BY <1>3, <2>3 DEF ReceiveClosed, AtConsumer, ClosedMeansDrained, FirstInFirstOut
  <1>. QED
    BY <1>1, <1>2, <1>3 DEF Receiving, ReceiveValue

\* SinkInv is inductive.
LEMMA SinkInvariant == SinkSpec => []SinkInv
  <1>1. SinkInv /\ [SinkNext]_sinkVars => SinkInv'
    <2> SUFFICES ASSUME SinkInv, [SinkNext]_sinkVars PROVE SinkInv'
      OBVIOUS
    <2> USE DEF SinkInv, SinkTypeOK
    <2>1. ASSUME NEW p \in Producers, SendRefused(p) \/ SendCanceled(p) PROVE SinkInv'
      BY <2>1 DEF SendRefused, SendCanceled, AtProducer, ClosedMeansDrained, FirstInFirstOut
    <2>2. CASE CloseSink \/ UNCHANGED sinkVars
      BY <2>2 DEF CloseSink, sinkVars, ClosedMeansDrained, FirstInFirstOut
    <2>. QED
      BY <2>1, <2>2, BeginSendKeeps, SendValueKeeps, ConsumerKeeps DEF SinkNext, Sending
  <1>. QED
    BY <1>1, SinkInitKeeps, PTL DEF SinkSpec

\* A consumer that is told ErrClosed leaves behind no value that was accepted
\* before Close, however many producers and consumers share the sink (Receive).
THEOREM ClosedSinksAreDrained == SinkSpec => []ClosedMeansDrained
  BY SinkInvariant, PTL DEF SinkInv

\* Nothing is lost, invented or reordered between Send and Receive.
THEOREM SinkIsFirstInFirstOut == SinkSpec => []FirstInFirstOut
  BY SinkInvariant, PTL DEF SinkInv

------------------------------------------------------------------------------
(* The tree of scopes.                                                      *)

\* Everything a scope accepted is still with it, in order: its resources while
\* it is open, and while it closes the part that its cleanup has yet to close.
HeldInv(s) ==
    /\ state[s] = "absent" => given[s] = <<>> /\ resources[s] = <<>>
    /\ state[s] = "open" => resources[s] = given[s]
    /\ Len(pending[s]) <= Len(given[s])
    /\ \A i \in 1 .. Len(pending[s]) : pending[s][i] = given[s][i]

\* A resource is accepted once, by one scope; a child by the scope it names.
GivenOnce ==
    \A s, t \in Scopes : \A j \in 1 .. Len(given[s]), k \in 1 .. Len(given[t]) :
        given[s][j] = given[t][k] => s = t /\ j = k

\* How far a resource is, by where it stands in the scope that accepted it.
LeafAt(s, k) ==
    /\ state[s] = "open" \/ k < Len(pending[s]) => leaf[given[s][k]] = "owned"
    /\ k = Len(pending[s]) =>
        leaf[given[s][k]] = IF begun[s] THEN "closing" ELSE "owned"
    /\ state[s] # "open" /\ k > Len(pending[s]) => leaf[given[s][k]] = "closed"

GivenInv(s) ==
    \A k \in 1 .. Len(given[s]) :
        /\ given[s][k] \in Children => ParentOf[given[s][k]] = s /\ Created(given[s][k])
        /\ given[s][k] \in Leaves => LeafAt(s, k)

\* How often Close of a resource was called, and who has it.
LeafInv ==
    \A l \in Leaves :
        /\ closes[l] = IF leaf[l] \in {"closing", "closed"} THEN 1 ELSE 0
        /\ leaf[l] \in {"free", "rejected"} =>
            \A s \in Scopes : \A k \in 1 .. Len(given[s]) : given[s][k] # l

\* What the cleanup has passed is closed, unless its context ran out.
PassedInv ==
    \A s \in Scopes : state[s] = "closing" =>
        \A k \in 1 .. Len(given[s]) :
            k > Len(pending[s]) => Done(given[s][k]) \/ cleaner[s] \in expired

\* A scope that closes is the one its cleaner called Close of, or its parent's
\* cleanup is inside its Close on behalf of the same cleaner.
Called(s) == s = goal[cleaner[s]]
Within(s) ==
    /\ s \in Children
    /\ state[ParentOf[s]] = "closing" /\ begun[ParentOf[s]]
    /\ cleaner[ParentOf[s]] = cleaner[s]
    /\ Current(ParentOf[s]) = s

CleanerAt(s) ==
    /\ cleaner[s] \in Callers
    /\ goal[cleaner[s]] # None
    /\ state[goal[cleaner[s]]] = "closing"
    /\ cleaner[goal[cleaner[s]]] = cleaner[s]
    /\ Called(s) \/ Within(s)

CleanerInv == \A s \in Scopes : state[s] = "closing" => CleanerAt(s)

\* The scopes that exist form a forest: every set of them has one whose parent
\* is not in it.
Forest ==
    /\ \A s \in Children : Created(s) => Created(ParentOf[s])
    /\ \A T \in SUBSET {s \in Scopes : Created(s)} :
        T # {} => \E t \in T : t = Root \/ ParentOf[t] \notin T

ScopeInv ==
    /\ ScopeTypeOK
    /\ \A s \in Scopes : HeldInv(s) /\ GivenInv(s)
    /\ GivenOnce /\ LeafInv /\ PassedInv /\ CleanerInv /\ Forest

------------------------------------------------------------------------------
LEMMA ScopeInitKeeps == ScopeInit => ScopeInv
  <1> SUFFICES ASSUME ScopeInit PROVE ScopeInv
    OBVIOUS
  <1> USE ScopeAssumption DEF ScopeInit, Children
  <1>1. <<>> \in Seq(Items) /\ Len(<<>>) = 0 /\ DOMAIN <<>> = {}
    BY EmptySeq
  <1>2. ScopeTypeOK
    BY <1>1 DEF ScopeTypeOK
  <1>3. ASSUME NEW s \in Scopes PROVE HeldInv(s) /\ GivenInv(s)
    BY <1>1 DEF HeldInv, GivenInv
  <1>4. GivenOnce /\ LeafInv /\ PassedInv /\ CleanerInv
    BY <1>1 DEF GivenOnce, LeafInv, PassedInv, CleanerInv
  <1>5. Forest
    BY DEF Forest, Created
  <1>. QED
    BY <1>2, <1>3, <1>4, <1>5 DEF ScopeInv

\* What a scope accepted, as a sequence.
LEMMA GivenFacts ==
    ASSUME ScopeTypeOK, NEW s \in Scopes
    PROVE  /\ Len(given[s]) \in Nat /\ DOMAIN given[s] = 1 .. Len(given[s])
           /\ Len(pending[s]) \in Nat
           /\ \A k \in 1 .. Len(given[s]) : given[s][k] \in Items
  <1>1. given[s] \in Seq(Items) /\ pending[s] \in Seq(Items)
    BY DEF ScopeTypeOK
  <1>. QED
    BY <1>1, LenProperties, ElementOfSeq

\* Acceptance adds the resource at the end and touches nothing else.
Added(s, i) ==
    /\ given' \in [Scopes -> Seq(Items)] /\ resources' \in [Scopes -> Seq(Items)]
    /\ \A t \in Scopes \ {s} : given'[t] = given[t] /\ resources'[t] = resources[t]
    /\ resources[s] = given[s] => resources'[s] = given'[s]
    /\ Len(given'[s]) = Len(given[s]) + 1
    /\ \A t \in Scopes : \A k \in 1 .. Len(given'[t]) :
        \/ k \in 1 .. Len(given[t]) /\ given'[t][k] = given[t][k]
        \/ t = s /\ k = Len(given[s]) + 1 /\ given'[t][k] = i
    /\ \A t \in Scopes : \A k \in 1 .. Len(given[t]) :
        k \in 1 .. Len(given'[t]) /\ given'[t][k] = given[t][k]

LEMMA OwnFacts ==
    ASSUME ScopeTypeOK, NEW s \in Scopes, NEW i \in Items, Own(s, i)
    PROVE  Added(s, i)
  <1>1. given[s] \in Seq(Items) /\ resources[s] \in Seq(Items)
    BY DEF ScopeTypeOK
  <1>2. given'[s] = Append(given[s], i) /\ resources'[s] = Append(resources[s], i)
    BY DEF Own, ScopeTypeOK
  <1>3. given'[s] \in Seq(Items) /\ resources'[s] \in Seq(Items)
    BY <1>1, <1>2, AppendProperties
  <1>4. \A t \in Scopes \ {s} : given'[t] = given[t] /\ resources'[t] = resources[t]
    BY DEF Own, ScopeTypeOK
  <1>5. given' \in [Scopes -> Seq(Items)] /\ resources' \in [Scopes -> Seq(Items)]
    BY <1>3 DEF Own, ScopeTypeOK
  <1>6. /\ Len(given'[s]) = Len(given[s]) + 1
        /\ \A k \in 1 .. Len(given[s]) : given'[s][k] = given[s][k]
        /\ given'[s][Len(given[s]) + 1] = i
    BY <1>1, <1>2, AppendProperties
  <1>7. Len(given[s]) \in Nat
    BY <1>1
  <1>8. ASSUME NEW t \in Scopes, NEW k \in 1 .. Len(given'[t])
        PROVE  \/ k \in 1 .. Len(given[t]) /\ given'[t][k] = given[t][k]
               \/ t = s /\ k = Len(given[s]) + 1 /\ given'[t][k] = i
    <2>1. CASE t = s
      <3>1. k \in 1 .. Len(given[s]) \/ k = Len(given[s]) + 1
        BY <1>6, <1>7, <2>1
      <3>. QED BY <1>6, <2>1, <3>1
    <2>2. CASE t # s
      <3>1. given'[t] = given[t]
        BY <1>4, <2>2
      <3>. QED BY <3>1
    <2>. QED BY <2>1, <2>2
  <1>9. ASSUME NEW t \in Scopes, NEW k \in 1 .. Len(given[t])
        PROVE  k \in 1 .. Len(given'[t]) /\ given'[t][k] = given[t][k]
    <2>1. CASE t = s
      <3>1. k \in 1 .. Len(given'[s])
        BY <1>6, <1>7, <2>1
      <3>. QED BY <1>6, <2>1, <3>1
    <2>2. CASE t # s
      <3>1. given'[t] = given[t]
        BY <1>4, <2>2
      <3>. QED BY <3>1
    <2>. QED BY <2>1, <2>2
  <1>. QED
    BY <1>2, <1>4, <1>5, <1>6, <1>8, <1>9 DEF Added

\* A resource that was in no scope is then in one, once.
LEMMA OwnGivesOnce ==
    ASSUME GivenOnce, NEW s \in Scopes, NEW i, Added(s, i),
           \A t \in Scopes : \A k \in 1 .. Len(given[t]) : given[t][k] # i
    PROVE  GivenOnce'
  <1> SUFFICES ASSUME NEW t \in Scopes, NEW u \in Scopes,
                      NEW j \in 1 .. Len(given'[t]), NEW k \in 1 .. Len(given'[u]),
                      given'[t][j] = given'[u][k]
               PROVE  t = u /\ j = k
    BY DEF GivenOnce
  <1>1. \/ j \in 1 .. Len(given[t]) /\ given'[t][j] = given[t][j]
        \/ t = s /\ j = Len(given[s]) + 1 /\ given'[t][j] = i
    BY DEF Added
  <1>2. \/ k \in 1 .. Len(given[u]) /\ given'[u][k] = given[u][k]
        \/ u = s /\ k = Len(given[s]) + 1 /\ given'[u][k] = i
    BY DEF Added
  <1>. QED
    BY <1>1, <1>2 DEF GivenOnce

\* The next resource of a cleanup is one that the scope accepted.
LEMMA CurrentFacts ==
    ASSUME ScopeInv, NEW s \in Scopes, Working(s)
    PROVE  /\ Len(pending[s]) \in 1 .. Len(given[s])
           /\ Current(s) = given[s][Len(pending[s])]
           /\ Current(s) \in Items
  <1>1. pending[s] \in Seq(Items) /\ pending[s] # <<>>
    BY DEF ScopeInv, ScopeTypeOK, Working
  <1>2. Len(pending[s]) \in Nat \ {0}
    BY <1>1, EmptySeq
  <1>. QED
    BY <1>2, GivenFacts DEF ScopeInv, HeldInv, Current

------------------------------------------------------------------------------
\* A step that leaves a scope alone.
Untouched(s) ==
    /\ state'[s] = state[s] /\ pending'[s] = pending[s] /\ begun'[s] = begun[s]
    /\ resources'[s] = resources[s] /\ given'[s] = given[s]

LEMMA CleanerStays ==
    ASSUME NEW t, CleanerAt(t), cleaner'[t] = cleaner[t],
           goal'[cleaner[t]] = goal[cleaner[t]],
           state'[goal[cleaner[t]]] = state[goal[cleaner[t]]],
           cleaner'[goal[cleaner[t]]] = cleaner[goal[cleaner[t]]],
           Within(t) => Called(t) \/ Within(t)'
    PROVE  CleanerAt(t)'
  BY DEF CleanerAt, Called

LEMMA LeafAtStays ==
    ASSUME NEW s, NEW k, LeafAt(s, k),
           state'[s] = state[s], pending'[s] = pending[s], begun'[s] = begun[s],
           given'[s][k] = given[s][k], leaf'[given[s][k]] = leaf[given[s][k]]
    PROVE  LeafAt(s, k)'
  BY DEF LeafAt

LEMMA UntouchedKeeps ==
    ASSUME NEW s \in Scopes, HeldInv(s), GivenInv(s), Untouched(s),
           \A k \in 1 .. Len(given[s]) : given[s][k] \in Leaves =>
                leaf'[given[s][k]] = leaf[given[s][k]],
           \A t \in Scopes : Created(t) => Created(t)'
    PROVE  HeldInv(s)' /\ GivenInv(s)'
  <1> USE DEF Untouched
  <1>1. HeldInv(s)'
    BY DEF HeldInv
  <1>2. ASSUME NEW k \in 1 .. Len(given[s])
        PROVE  /\ given[s][k] \in Children =>
                        ParentOf[given[s][k]] = s /\ Created(given[s][k])'
               /\ given[s][k] \in Leaves => LeafAt(s, k)'
    <2>1. ASSUME given[s][k] \in Leaves PROVE LeafAt(s, k)'
      <3>1. LeafAt(s, k) /\ given'[s][k] = given[s][k]
        BY <2>1 DEF GivenInv
      <3>. QED BY <2>1, <3>1, LeafAtStays
    <2>. QED BY <2>1 DEF GivenInv, Children
  <1>3. GivenInv(s)'
    BY <1>2 DEF GivenInv
  <1>. QED BY <1>1, <1>3

\* Nothing that matters to PassedInv is undone.
LEMMA PassedStays ==
    ASSUME ScopeTypeOK, PassedInv, UNCHANGED given,
           \A i \in Items : Done(i) => Done(i)',
           \A s \in Scopes : state'[s] = "closing" =>
                \/ /\ state[s] = "closing"
                   /\ pending'[s] = pending[s]
                   /\ cleaner'[s] = cleaner[s]
                   /\ cleaner[s] \in expired => cleaner[s] \in expired'
                \/ Len(pending'[s]) = Len(given[s])
    PROVE  PassedInv'
  <1> SUFFICES ASSUME NEW s \in Scopes, state'[s] = "closing",
                      NEW k \in 1 .. Len(given[s]), k > Len(pending'[s])
               PROVE  Done(given[s][k])' \/ cleaner'[s] \in expired'
    BY DEF PassedInv
  <1>1. given[s][k] \in Items /\ Len(given[s]) \in Nat
    BY GivenFacts
  <1>2. CASE pending'[s] = pending[s] /\ state[s] = "closing"
             /\ cleaner'[s] = cleaner[s] /\ (cleaner[s] \in expired => cleaner[s] \in expired')
    <2>1. Done(given[s][k]) \/ cleaner[s] \in expired
      BY <1>2 DEF PassedInv
    <2>. QED BY <1>1, <1>2, <2>1
  <1>3. CASE Len(pending'[s]) = Len(given[s])
    BY <1>1, <1>3
  <1>. QED BY <1>2, <1>3

\* A resource that no scope has accepted is nobody's concern.
LEMMA StrayLeafKeeps ==
    ASSUME ScopeInv, NEW l \in Leaves, NEW x \in {"rejected", "closing", "closed"},
           UNCHANGED <<state, resources, pending, begun, cleaner, goal, expired, given>>,
           leaf' = [leaf EXCEPT ![l] = x],
           closes' = [closes EXCEPT ![l] = IF x = "rejected" THEN 0 ELSE 1],
           \A t \in Scopes : \A k \in 1 .. Len(given[t]) : given[t][k] # l
    PROVE  ScopeInv'
  <1>1. ScopeTypeOK /\ LeafInv
    BY DEF ScopeInv
  <1>3. ScopeTypeOK'
    BY <1>1 DEF ScopeTypeOK
  <1>4. ASSUME NEW t \in Scopes PROVE HeldInv(t)' /\ GivenInv(t)'
    <2>1. \A k \in 1 .. Len(given[t]) : given[t][k] \in Leaves =>
              leaf'[given[t][k]] = leaf[given[t][k]]
      BY <1>1 DEF ScopeTypeOK
    <2>2. Untouched(t) /\ HeldInv(t) /\ GivenInv(t)
      BY DEF ScopeInv, Untouched
    <2>3. \A u \in Scopes : Created(u) => Created(u)'
      BY DEF Created
    <2>. QED BY <2>1, <2>2, <2>3, UntouchedKeeps
  <1>5. GivenOnce' /\ CleanerInv' /\ Forest'
    BY DEF ScopeInv, GivenOnce, CleanerInv, CleanerAt, Called, Within, Current, Forest, Created
  <1>6. LeafInv'
    BY <1>1 DEF ScopeTypeOK, LeafInv
  <1>7. PassedInv'
    <2> SUFFICES ASSUME NEW s \in Scopes, state[s] = "closing",
                        NEW k \in 1 .. Len(given[s]), k > Len(pending[s])
                 PROVE  Done(given[s][k])' \/ cleaner[s] \in expired
      BY DEF PassedInv
    <2>1. Done(given[s][k]) \/ cleaner[s] \in expired
      BY DEF ScopeInv, PassedInv
    <2>2. Done(given[s][k])' = Done(given[s][k])
      BY <1>1, given[s][k] # l DEF Done, ScopeTypeOK
    <2>. QED BY <2>1, <2>2
  <1>. QED
    BY <1>3, <1>4, <1>5, <1>6, <1>7 DEF ScopeInv

LEMMA RejectedKeeps ==
    ASSUME ScopeInv, NEW l \in Leaves, CloseRejected(l) \/ RejectedClosed(l)
    PROVE  ScopeInv'
  <1>1. ScopeTypeOK /\ LeafInv
    BY DEF ScopeInv
  <1>2. CASE CloseRejected(l)
    <2>1. \A t \in Scopes : \A k \in 1 .. Len(given[t]) : given[t][k] # l
      BY <1>1, <1>2 DEF CloseRejected, LeafInv
    <2>2. closes[l] = 0
      BY <1>1, <1>2 DEF CloseRejected, LeafInv
    <2>3. closes' = [closes EXCEPT ![l] = 1]
      BY <1>2, <2>2 DEF CloseRejected
    <2>. QED BY <1>2, <2>1, <2>3, StrayLeafKeeps DEF CloseRejected
  <1>3. CASE RejectedClosed(l)
    <2>1. ASSUME NEW t \in Scopes, NEW k \in 1 .. Len(given[t]), given[t][k] = l PROVE FALSE
      <3>1. LeafAt(t, k) /\ leaf[given[t][k]] = "closing"
        BY <1>3, <2>1 DEF ScopeInv, GivenInv, RejectedClosed
      <3>2. Len(pending[t]) \in Nat /\ k \in Nat
        BY <1>1, GivenFacts
      <3>3. k = Len(pending[t]) /\ begun[t]
        BY <3>1, <3>2 DEF LeafAt
      <3>4. pending[t][k] = given[t][k]
        BY <3>2, <3>3 DEF ScopeInv, HeldInv
      <3>. QED BY <1>3, <2>1, <3>3, <3>4 DEF RejectedClosed
    <2>2. closes' = [closes EXCEPT ![l] = 1]
      BY <1>1, <1>3 DEF RejectedClosed, LeafInv, ScopeTypeOK
    <2>. QED BY <1>3, <2>1, <2>2, StrayLeafKeeps DEF RejectedClosed
  <1>. QED BY <1>2, <1>3

LEMMA RegisterKeeps ==
    ASSUME ScopeInv, NEW s \in Scopes, NEW l \in Leaves, Register(s, l)
    PROVE  ScopeInv'
  <1> USE ScopeAssumption DEF Children, Items
  <1>0. ScopeTypeOK
    BY DEF ScopeInv
  <1>1. \A t \in Scopes : \A k \in 1 .. Len(given[t]) : given[t][k] # l
    BY DEF ScopeInv, LeafInv, Register
  <1>2. /\ UNCHANGED <<state, pending, begun, cleaner, goal, expired, closes>>
        /\ Created(s) /\ leaf[l] = "free"
    BY DEF Register
  <1>3. CleanerInv' /\ Forest'
    BY <1>2 DEF ScopeInv, CleanerInv, CleanerAt, Called, Within, Current, Forest, Created
  <1>4. CASE ~Accepting(s)
    <2>1. closes' = [closes EXCEPT ![l] = 0]
      BY <1>0, <1>2 DEF ScopeInv, LeafInv, ScopeTypeOK
    <2>. QED
      BY <1>1, <1>2, <1>4, <2>1, StrayLeafKeeps DEF Register
  <1>5. CASE Accepting(s)
    <2>1. Own(s, l) /\ leaf' = [leaf EXCEPT ![l] = "owned"] /\ state[s] = "open"
      BY <1>5 DEF Register, Accepting
    <2>2. Added(s, l)
      BY <1>0, <2>1, OwnFacts
    <2>3. \A t \in Scopes : Len(given[t]) \in Nat /\ Len(pending[t]) \in Nat
      BY <1>0, GivenFacts
    <2>4. pending[s] = <<>> /\ Len(pending[s]) = 0
      BY <1>0, <2>1 DEF ScopeTypeOK
    <2>5. ScopeTypeOK'
      BY <1>0, <1>2, <2>1, <2>2 DEF ScopeTypeOK, Added
    <2>6. ASSUME NEW t \in Scopes PROVE HeldInv(t)' /\ GivenInv(t)'
      <3>1. HeldInv(t) /\ GivenInv(t)
        BY DEF ScopeInv
      <3>2. HeldInv(t)'
        BY <1>2, <2>1, <2>2, <2>3, <2>4, <3>1 DEF HeldInv, Added
      <3>3. ASSUME NEW k \in 1 .. Len(given[t]), given'[t][k] = given[t][k]
            PROVE  /\ given'[t][k] \in Children =>
                            ParentOf[given'[t][k]] = t /\ state'[given'[t][k]] # "absent"
                   /\ given'[t][k] \in Leaves => LeafAt(t, k)'
        <4>1. leaf'[given[t][k]] = leaf[given[t][k]]
          BY <1>0, <1>1, <2>1, given[t][k] # l DEF ScopeTypeOK
        <4>2. given[t][k] \in Leaves => LeafAt(t, k)'
          BY <1>2, <3>1, <3>3, <4>1, LeafAtStays DEF GivenInv
        <4>3. given[t][k] \in Children => ParentOf[given[t][k]] = t /\ Created(given[t][k])
          BY <3>1, <3>3 DEF GivenInv
        <4>. QED
          BY <1>2, <3>3, <4>2, <4>3 DEF Created
      <3>4. ASSUME t = s, NEW k, k = Len(given[s]) + 1, given'[t][k] = l
            PROVE  /\ given'[t][k] \notin Children
                   /\ LeafAt(t, k)'
        BY <1>0, <1>2, <2>1, <2>3, <2>4, <3>4 DEF LeafAt, ScopeTypeOK
      <3>5. ASSUME NEW k \in 1 .. Len(given'[t])
            PROVE  /\ given'[t][k] \in Children =>
                            ParentOf[given'[t][k]] = t /\ state'[given'[t][k]] # "absent"
                   /\ given'[t][k] \in Leaves => LeafAt(t, k)'
        <4>1. \/ k \in 1 .. Len(given[t]) /\ given'[t][k] = given[t][k]
              \/ t = s /\ k = Len(given[s]) + 1 /\ given'[t][k] = l
          BY <2>2 DEF Added
        <4>. QED BY <3>3, <3>4, <4>1
      <3>6. GivenInv(t)'
        BY <3>5 DEF GivenInv, Created
      <3>. QED BY <3>2, <3>6
    <2>7. GivenOnce'
      BY <1>1, <2>2, OwnGivesOnce DEF ScopeInv
    <2>8. LeafInv'
      <3>1. LeafInv
        BY DEF ScopeInv
      <3>2. ASSUME NEW m \in Leaves, leaf'[m] \in {"free", "rejected"},
                   NEW t \in Scopes, NEW k \in 1 .. Len(given'[t])
            PROVE  given'[t][k] # m
        <4>1. m # l /\ leaf[m] \in {"free", "rejected"}
          BY <1>0, <2>1, <3>2 DEF ScopeTypeOK
        <4>2. \A j \in 1 .. Len(given[t]) : given[t][j] # m
          BY <3>1, <4>1 DEF LeafInv
        <4>. QED BY <2>2, <4>1, <4>2 DEF Added
      <3>. QED
        BY <1>0, <1>2, <2>1, <3>1, <3>2 DEF LeafInv, ScopeTypeOK
    <2>9. PassedInv'
      BY <1>0, <1>1, <1>2, <2>1, <2>2 DEF ScopeInv, ScopeTypeOK, PassedInv, Done, Added
    <2>. QED
      BY <1>3, <2>5, <2>6, <2>7, <2>8, <2>9 DEF ScopeInv
  <1>. QED
    BY <1>4, <1>5

\* A child that comes into being joins the forest as a leaf of it.
LEMMA ForestGrows ==
    ASSUME ScopeTypeOK, Forest, NEW s \in Children, ~Created(s), Created(ParentOf[s]),
           \A t \in Scopes : Created(t)' <=> Created(t) \/ t = s
    PROVE  Forest'
  <1> USE ScopeAssumption DEF Children
  <1>1. ASSUME NEW t \in Children, Created(t)' PROVE Created(ParentOf[t])'
    BY <1>1 DEF Forest
  <1>2. ASSUME NEW T \in SUBSET {t \in Scopes : Created(t)'}, T # {}
        PROVE  \E t \in T : t = Root \/ ParentOf[t] \notin T
    <2>1. CASE T \subseteq {s}
      BY <1>2, <2>1
    <2>2. CASE ~(T \subseteq {s})
      <3> DEFINE older == T \ {s}
      <3>1. older \in SUBSET {t \in Scopes : Created(t)} /\ older # {}
        BY <1>2, <2>2
      <3>2. PICK t \in older : t = Root \/ ParentOf[t] \notin older
        BY <3>1 DEF Forest
      <3>3. t \in Scopes /\ Created(t)
        BY <3>1
      <3>4. t # Root => Created(ParentOf[t])
        BY <3>3 DEF Forest
      <3>5. t = Root \/ ParentOf[t] \notin T
        BY <3>2, <3>4
      <3>. QED BY <3>2, <3>5
    <2>. QED BY <2>1, <2>2
  <1>. QED
    BY <1>1, <1>2 DEF Forest

LEMMA ChildKeeps == ASSUME ScopeInv, NEW s \in Scopes, Child(s) PROVE ScopeInv'
  <1> USE ScopeAssumption DEF Children, Items
  <1>1. ScopeTypeOK /\ LeafInv /\ CleanerInv /\ Forest /\ GivenOnce /\ PassedInv
    BY DEF ScopeInv
  <1>2. /\ UNCHANGED <<pending, begun, cleaner, leaf, goal, expired, closes>>
        /\ s \in Children /\ state[s] = "absent" /\ Created(ParentOf[s])
    BY DEF Child, Created
  <1>3. PICK place \in {"open", "closed"} : state' = [state EXCEPT ![s] = place]
    BY DEF Child
  <1>4. /\ \A t \in Scopes \ {s} : state'[t] = state[t]
        /\ state'[s] = place
    BY <1>1, <1>3 DEF ScopeTypeOK
  <1>5. Forest'
    <2>1. \A t \in Scopes : Created(t)' <=> Created(t) \/ t = s
      BY <1>4 DEF Created
    <2>. QED BY <1>1, <1>2, <2>1, ForestGrows DEF Created
  <1>6. CleanerInv'
    <2> SUFFICES ASSUME NEW t \in Scopes, state'[t] = "closing" PROVE CleanerAt(t)'
      BY DEF CleanerInv
    <2>1. t # s /\ state[t] = "closing"
      BY <1>4
    <2>2. CleanerAt(t)
      BY <1>1, <2>1 DEF CleanerInv
    <2>3. goal[cleaner[t]] \in Scopes /\ goal[cleaner[t]] # s
      BY <1>1, <1>2, <2>2 DEF ScopeTypeOK, CleanerAt
    <2>4. Within(t) => Within(t)'
      BY <1>2, <1>4 DEF Within, Current
    <2>. QED BY <1>2, <1>4, <2>2, <2>3, <2>4, CleanerStays DEF CleanerAt
  <1>7. \A t \in Scopes : \A k \in 1 .. Len(given[t]) : given[t][k] # s
    BY <1>2 DEF ScopeInv, GivenInv, Created
  <1>8. \A i \in Items : Done(i) => Done(i)'
    BY <1>2, <1>4 DEF Done
  <1>9. /\ given[s] = <<>> /\ resources[s] = <<>>
        /\ pending[s] = <<>> /\ begun[s] = FALSE /\ Len(<<>>) = 0
    BY <1>1, <1>2 DEF ScopeInv, HeldInv, ScopeTypeOK
  <1>10. /\ HeldInv(s) /\ GivenInv(s)
         /\ Len(given[s]) = 0
    BY <1>9 DEF ScopeInv
  <1>11. \A u \in Scopes : Created(u) => Created(u)'
    BY <1>4 DEF Created
  <1>12. CASE UNCHANGED <<resources, given>>
    <2>1. ScopeTypeOK'
      BY <1>1, <1>2, <1>3, <1>9, <1>12 DEF ScopeTypeOK
    <2>2. ASSUME NEW t \in Scopes PROVE HeldInv(t)' /\ GivenInv(t)'
      <3>1. CASE t = s
        BY <1>2, <1>4, <1>9, <1>10, <1>12, <3>1 DEF HeldInv, GivenInv
      <3>2. CASE t # s
        <4>1. Untouched(t) /\ HeldInv(t) /\ GivenInv(t)
          BY <1>2, <1>4, <1>12, <3>2 DEF ScopeInv, Untouched
        <4>. QED BY <1>2, <1>11, <4>1, UntouchedKeeps
      <3>. QED BY <3>1, <3>2
    <2>3. GivenOnce' /\ LeafInv'
      BY <1>1, <1>2, <1>12 DEF GivenOnce, LeafInv
    <2>4. PassedInv'
      BY <1>1, <1>2, <1>4, <1>8, <1>12, PassedStays
    <2>. QED
      BY <1>5, <1>6, <2>1, <2>2, <2>3, <2>4 DEF ScopeInv
  <1>13. CASE Accepting(ParentOf[s]) /\ Own(ParentOf[s], s)
    <2> DEFINE p == ParentOf[s]
    <2>1. p \in Scopes /\ p # s /\ state[p] = "open" /\ state'[p] = "open"
      BY <1>2, <1>4, <1>13 DEF Accepting
    <2> HIDE DEF p
    <2>2. Added(p, s)
      BY <1>1, <1>2, <1>13, <2>1, OwnFacts DEF p
    <2>3. pending[p] = <<>> /\ Len(pending[p]) = 0
      BY <1>1, <2>1 DEF ScopeTypeOK
    <2>4. ScopeTypeOK'
      BY <1>1, <1>2, <1>3, <1>9, <2>1, <2>2 DEF ScopeTypeOK, Added
    <2>5. ASSUME NEW t \in Scopes PROVE HeldInv(t)' /\ GivenInv(t)'
      <3>1. HeldInv(t) /\ GivenInv(t)
        BY DEF ScopeInv
      <3>2. CASE t = s
        BY <1>2, <1>4, <1>9, <1>10, <2>1, <2>2, <3>2 DEF HeldInv, GivenInv, Added
      <3>3. CASE t # s /\ t # p
        <4>1. Untouched(t)
          BY <1>2, <1>4, <2>2, <3>3 DEF Untouched, Added
        <4>. QED BY <1>2, <1>11, <3>1, <4>1, UntouchedKeeps
      <3>4. CASE t = p
        <4>1. Len(given[p]) \in Nat /\ Len(given'[p]) = Len(given[p]) + 1
          BY <1>1, <2>1, <2>2, GivenFacts DEF Added
        <4>2. HeldInv(p)'
          BY <1>2, <2>1, <2>2, <2>3, <3>1, <3>4, <4>1 DEF HeldInv, Added
        <4>3. ASSUME NEW k \in 1 .. Len(given'[p])
              PROVE  /\ given'[p][k] \in Children =>
                            ParentOf[given'[p][k]] = p /\ state'[given'[p][k]] # "absent"
                     /\ given'[p][k] \in Leaves => LeafAt(p, k)'
          <5>1. CASE k \in 1 .. Len(given[p]) /\ given'[p][k] = given[p][k]
            <6>1. given[p][k] \in Children => ParentOf[given[p][k]] = p /\ Created(given[p][k])
              BY <3>1, <3>4, <5>1 DEF GivenInv
            <6>2. given[p][k] \in Leaves => LeafAt(p, k)'
              BY <1>2, <2>1, <3>1, <3>4, <5>1, LeafAtStays DEF GivenInv
            <6>. QED BY <1>11, <5>1, <6>1, <6>2 DEF Created
          <5>2. CASE given'[p][k] = s
            BY <1>2, <1>4, <5>2 DEF p
          <5>3. \/ k \in 1 .. Len(given[p]) /\ given'[p][k] = given[p][k]
                \/ given'[p][k] = s
            BY <2>1, <2>2 DEF Added
          <5>. QED BY <5>1, <5>2, <5>3
        <4>4. GivenInv(p)'
          BY <4>3 DEF GivenInv, Created
        <4>. QED BY <3>4, <4>2, <4>4
      <3>. QED BY <3>2, <3>3, <3>4
    <2>6. GivenOnce'
      BY <1>1, <1>7, <2>1, <2>2, OwnGivesOnce
    <2>7. LeafInv'
      <3>1. ASSUME NEW m \in Leaves, leaf[m] \in {"free", "rejected"},
                   NEW t \in Scopes, NEW k \in 1 .. Len(given'[t])
            PROVE  given'[t][k] # m
        <4>1. m # s /\ \A j \in 1 .. Len(given[t]) : given[t][j] # m
          BY <1>1, <1>2, <3>1 DEF LeafInv
        <4>. QED BY <2>2, <4>1 DEF Added
      <3>. QED
        BY <1>1, <1>2, <3>1 DEF LeafInv
    <2>8. PassedInv'
      <3> SUFFICES ASSUME NEW t \in Scopes, state'[t] = "closing",
                          NEW k \in 1 .. Len(given'[t]), k > Len(pending[t]),
                          NEW i, i = given'[t][k]
                   PROVE  Done(i)' \/ cleaner[t] \in expired
        BY <1>2 DEF PassedInv, Done
      <3>1. t # s /\ t # p /\ state[t] = "closing"
        BY <1>4, <2>1
      <3>2. k \in 1 .. Len(given[t]) /\ given'[t][k] = given[t][k]
        BY <2>2, <3>1 DEF Added
      <3>3. Done(given[t][k]) \/ cleaner[t] \in expired
        BY <1>1, <3>1, <3>2 DEF PassedInv
      <3>4. given[t][k] \in Items
        BY <1>1, <3>2, GivenFacts
      <3>. QED BY <1>8, <3>2, <3>3, <3>4
    <2>. QED
      BY <1>5, <1>6, <2>4, <2>5, <2>6, <2>7, <2>8 DEF ScopeInv
  <1>. QED
    BY <1>12, <1>13 DEF Child

------------------------------------------------------------------------------
\* What the first Close of a scope does to it, and to no other.
LEMMA StartFacts ==
    ASSUME ScopeInv, NEW s \in Scopes, state[s] = "open", NEW c \in Callers,
           StartCleanup(s, c), UNCHANGED <<leaf, given>>, begun'[s] = begun[s]
    PROVE  /\ \A t \in Scopes \ {s} :
                /\ state'[t] = state[t] /\ pending'[t] = pending[t]
                /\ resources'[t] = resources[t] /\ cleaner'[t] = cleaner[t]
           /\ state'[s] = "closing" /\ pending'[s] = given[s]
           /\ resources'[s] = <<>> /\ cleaner'[s] = c
           /\ state' \in [Scopes -> {"absent", "open", "closing", "closed"}]
           /\ pending' \in [Scopes -> Seq(Items)] /\ resources' \in [Scopes -> Seq(Items)]
           /\ cleaner' \in [Scopes -> Callers \cup {None}]
           /\ begun[s] = FALSE
           /\ \A t \in Scopes : Created(t)' <=> Created(t)
           /\ \A i \in Items : Done(i) => Done(i)'
           /\ HeldInv(s)' /\ GivenInv(s)'
  <1> USE ScopeAssumption DEF Children, Items
  <1>1. ScopeTypeOK
    BY DEF ScopeInv
  <1>2. /\ resources[s] = given[s] /\ pending[s] = <<>> /\ begun[s] = FALSE
        /\ given[s] \in Seq(Items) /\ Len(given[s]) \in Nat /\ Len(<<>>) = 0
    BY <1>1, GivenFacts DEF ScopeInv, HeldInv, ScopeTypeOK
  <1>3. /\ \A t \in Scopes \ {s} :
                /\ state'[t] = state[t] /\ pending'[t] = pending[t]
                /\ resources'[t] = resources[t] /\ cleaner'[t] = cleaner[t]
        /\ state'[s] = "closing" /\ pending'[s] = given[s]
        /\ resources'[s] = <<>> /\ cleaner'[s] = c
    BY <1>1, <1>2 DEF StartCleanup, ScopeTypeOK
  <1>4. <<>> \in Seq(Items)
    BY EmptySeq
  <1>5. /\ state' \in [Scopes -> {"absent", "open", "closing", "closed"}]
        /\ pending' \in [Scopes -> Seq(Items)] /\ resources' \in [Scopes -> Seq(Items)]
        /\ cleaner' \in [Scopes -> Callers \cup {None}]
    BY <1>1, <1>2, <1>4 DEF StartCleanup, ScopeTypeOK
  <1>6. \A t \in Scopes : Created(t)' <=> Created(t)
    BY <1>3 DEF Created
  <1>7. \A i \in Items : Done(i) => Done(i)'
    BY <1>3 DEF Done
  <1>8. HeldInv(s)'
    BY <1>2, <1>3 DEF HeldInv
  <1>9. ASSUME NEW k \in 1 .. Len(given[s])
        PROVE  /\ given[s][k] \in Children =>
                        ParentOf[given[s][k]] = s /\ Created(given[s][k])'
               /\ given[s][k] \in Leaves => LeafAt(s, k)'
    <2>1. /\ given[s][k] \in Children => ParentOf[given[s][k]] = s /\ Created(given[s][k])
          /\ given[s][k] \in Leaves => leaf[given[s][k]] = "owned"
      BY DEF ScopeInv, GivenInv, LeafAt
    <2>2. given[s][k] \in Leaves => LeafAt(s, k)'
      BY <1>2, <1>3, <2>1 DEF LeafAt
    <2>. QED BY <1>6, <2>1, <2>2
  <1>10. GivenInv(s)'
    BY <1>9 DEF GivenInv
  <1>. QED
    BY <1>2, <1>3, <1>5, <1>6, <1>7, <1>8, <1>10

LEMMA CallCloseKeeps ==
    ASSUME ScopeInv, NEW c \in Callers, NEW s \in Scopes, CallClose(c, s)
    PROVE  ScopeInv'
  <1> USE ScopeAssumption DEF Children, Items
  <1>1. ScopeTypeOK /\ LeafInv /\ CleanerInv /\ Forest /\ GivenOnce /\ PassedInv
    BY DEF ScopeInv
  <1>2. /\ UNCHANGED <<begun, leaf, expired, given, closes>>
        /\ goal[c] = None /\ goal' = [goal EXCEPT ![c] = s]
    BY DEF CallClose
  <1>3. GivenOnce' /\ LeafInv'
    BY <1>1, <1>2 DEF GivenOnce, LeafInv
  <1>4. ASSUME NEW t \in Scopes, state[t] = "closing"
        PROVE  CleanerAt(t) /\ goal'[cleaner[t]] = goal[cleaner[t]]
    BY <1>1, <1>2, <1>4 DEF CleanerInv, CleanerAt, ScopeTypeOK
  <1>5. CASE state[s] = "open" /\ StartCleanup(s, c)
    <2>1. /\ \A t \in Scopes \ {s} :
                /\ state'[t] = state[t] /\ pending'[t] = pending[t]
                /\ resources'[t] = resources[t] /\ cleaner'[t] = cleaner[t]
          /\ state'[s] = "closing" /\ pending'[s] = given[s]
          /\ resources'[s] = <<>> /\ cleaner'[s] = c
          /\ state' \in [Scopes -> {"absent", "open", "closing", "closed"}]
          /\ pending' \in [Scopes -> Seq(Items)] /\ resources' \in [Scopes -> Seq(Items)]
          /\ cleaner' \in [Scopes -> Callers \cup {None}]
          /\ begun[s] = FALSE
          /\ \A t \in Scopes : Created(t)' <=> Created(t)
          /\ \A i \in Items : Done(i) => Done(i)'
          /\ HeldInv(s)' /\ GivenInv(s)'
      BY <1>2, <1>5, StartFacts
    <2>2. ScopeTypeOK'
      BY <1>1, <1>2, <2>1 DEF ScopeTypeOK
    <2>3. ASSUME NEW t \in Scopes PROVE HeldInv(t)' /\ GivenInv(t)'
      <3>1. CASE t # s
        <4>1. Untouched(t) /\ HeldInv(t) /\ GivenInv(t)
          BY <1>2, <2>1, <3>1 DEF ScopeInv, Untouched
        <4>. QED BY <1>2, <2>1, <4>1, UntouchedKeeps
      <3>. QED BY <2>1, <3>1
    <2>4. PassedInv'
      BY <1>1, <1>2, <2>1, PassedStays
    <2>5. ASSUME NEW t \in Scopes, state'[t] = "closing" PROVE CleanerAt(t)'
      <3>1. CASE t = s
        BY <1>1, <1>2, <2>1, <3>1 DEF CleanerAt, Called, ScopeTypeOK
      <3>2. CASE t # s
        <4>1. state[t] = "closing" /\ CleanerAt(t) /\ goal'[cleaner[t]] = goal[cleaner[t]]
          BY <1>4, <2>1, <2>5, <3>2
        <4>2. goal[cleaner[t]] \in Scopes \ {s}
          BY <1>1, <1>5, <4>1 DEF CleanerAt, ScopeTypeOK
        <4>3. Within(t) => Within(t)'
          BY <1>2, <1>5, <2>1, <3>2 DEF Within, Current
        <4>. QED BY <2>1, <3>2, <4>1, <4>2, <4>3, CleanerStays
      <3>. QED BY <3>1, <3>2
    <2>6. CleanerInv' /\ Forest'
      BY <1>1, <2>1, <2>5 DEF CleanerInv, Forest
    <2>. QED
      BY <1>3, <2>2, <2>3, <2>4, <2>6 DEF ScopeInv
  <1>6. CASE NoCleanup
    <2>1. UNCHANGED <<state, cleaner, pending, resources>>
      BY <1>6 DEF NoCleanup
    <2>2. ScopeTypeOK'
      BY <1>1, <1>2, <2>1 DEF ScopeTypeOK
    <2>3. ASSUME NEW t \in Scopes PROVE HeldInv(t)' /\ GivenInv(t)'
      BY <1>2, <2>1 DEF ScopeInv, HeldInv, GivenInv, LeafAt, Created
    <2>4. PassedInv' /\ Forest'
      BY <1>1, <1>2, <2>1 DEF PassedInv, Done, Forest, Created
    <2>5. ASSUME NEW t \in Scopes, state'[t] = "closing" PROVE CleanerAt(t)'
      <3>1. CleanerAt(t) /\ goal'[cleaner[t]] = goal[cleaner[t]]
        BY <1>4, <2>1, <2>5
      <3>2. Within(t) => Within(t)'
        BY <1>2, <2>1 DEF Within, Current
      <3>. QED BY <2>1, <3>1, <3>2, CleanerStays
    <2>6. CleanerInv'
      BY <2>5 DEF CleanerInv
    <2>. QED
      BY <1>3, <2>2, <2>3, <2>4, <2>6 DEF ScopeInv
  <1>. QED
    BY <1>5, <1>6 DEF CallClose

\* A context that ends, a Close that returns: the cleanups do not notice, for
\* while one of a caller's scopes closes the Close of that caller goes on.
LEMMA CallerKeeps ==
    ASSUME ScopeInv, NEW c \in Callers, Expire(c) \/ ReturnClose(c)
    PROVE  ScopeInv'
  <1>1. ScopeTypeOK /\ LeafInv /\ CleanerInv /\ Forest /\ GivenOnce /\ PassedInv
    BY DEF ScopeInv
  <1>2. UNCHANGED <<state, resources, pending, begun, cleaner, leaf, given, closes>>
    BY DEF Expire, ReturnClose
  <1>3. ScopeTypeOK'
    BY <1>1, <1>2 DEF ScopeTypeOK, Expire, ReturnClose
  <1>4. ASSUME NEW t \in Scopes PROVE HeldInv(t)' /\ GivenInv(t)'
    BY <1>2 DEF ScopeInv, HeldInv, GivenInv, LeafAt, Created
  <1>5. GivenOnce' /\ LeafInv' /\ Forest'
    BY <1>1, <1>2 DEF GivenOnce, LeafInv, Forest, Created
  <1>6. ASSUME NEW t \in Scopes, state[t] = "closing"
        PROVE  /\ CleanerAt(t)
               /\ goal'[cleaner[t]] = goal[cleaner[t]]
               /\ cleaner[t] \in expired => cleaner[t] \in expired'
    <2>1. CleanerAt(t)
      BY <1>1, <1>6 DEF CleanerInv
    <2>2. CASE Expire(c)
      BY <2>1, <2>2 DEF Expire
    <2>3. CASE ReturnClose(c)
      <3>1. cleaner[t] # c
        BY <2>1, <2>3 DEF ReturnClose, Released, CleanerAt
      <3>. QED BY <1>1, <2>1, <2>3, <3>1 DEF ReturnClose, ScopeTypeOK
    <2>. QED BY <2>2, <2>3
  <1>7. PassedInv'
    BY <1>1, <1>2, <1>6, PassedStays DEF Done
  <1>8. ASSUME NEW t \in Scopes, state'[t] = "closing" PROVE CleanerAt(t)'
    <2>1. CleanerAt(t) /\ goal'[cleaner[t]] = goal[cleaner[t]]
      BY <1>2, <1>6, <1>8
    <2>2. Within(t) => Within(t)'
      BY <1>2 DEF Within, Current
    <2>. QED BY <1>2, <2>1, <2>2, CleanerStays
  <1>9. CleanerInv'
    BY <1>8 DEF CleanerInv
  <1>. QED
    BY <1>3, <1>4, <1>5, <1>7, <1>9 DEF ScopeInv

LEMMA CloseLeafKeeps == ASSUME ScopeInv, NEW s \in Scopes, CloseLeaf(s) PROVE ScopeInv'
  <1> USE ScopeAssumption DEF Children, Items
  <1> DEFINE l == Current(s)
  <1>1. ScopeTypeOK /\ LeafInv /\ CleanerInv /\ Forest /\ GivenOnce /\ PassedInv
    BY DEF ScopeInv
  <1>2. /\ UNCHANGED <<state, resources, pending, cleaner, goal, expired, given>>
        /\ Working(s) /\ ~begun[s] /\ l \in Leaves
        /\ begun' = [begun EXCEPT ![s] = TRUE]
        /\ leaf' = [leaf EXCEPT ![l] = "closing"]
        /\ closes' = [closes EXCEPT ![l] = @ + 1]
    BY DEF CloseLeaf
  <1>3. /\ Len(pending[s]) \in 1 .. Len(given[s])
        /\ l = given[s][Len(pending[s])]
    BY <1>2, CurrentFacts, GivenFacts, <1>1
  <1> HIDE DEF l
  <1>4. leaf[l] = "owned" /\ closes[l] = 0
    <2>1. LeafAt(s, Len(pending[s]))
      BY <1>2, <1>3 DEF ScopeInv, GivenInv
    <2>2. leaf[l] = "owned"
      BY <1>2, <1>3, <2>1 DEF LeafAt
    <2>. QED BY <1>1, <1>2, <2>2 DEF LeafInv
  <1>5. ScopeTypeOK'
    BY <1>1, <1>2, <1>4 DEF ScopeTypeOK, Working
  <1>6. GivenOnce' /\ Forest'
    BY <1>1, <1>2 DEF GivenOnce, Forest, Created
  <1>7. LeafInv'
    BY <1>1, <1>2, <1>4 DEF LeafInv, ScopeTypeOK
  <1>8. PassedInv'
    <2>1. \A i \in Items : Done(i) => Done(i)'
      BY <1>1, <1>2, <1>4 DEF Done, ScopeTypeOK
    <2>. QED BY <1>1, <1>2, <2>1, PassedStays
  <1>9. ASSUME NEW t \in Scopes, state'[t] = "closing" PROVE CleanerAt(t)'
    <2>1. CleanerAt(t)
      BY <1>1, <1>2, <1>9 DEF CleanerInv
    <2>2. Within(t) => Within(t)'
      BY <1>1, <1>2 DEF Within, Current, ScopeTypeOK
    <2>. QED BY <1>2, <2>1, <2>2, CleanerStays
  <1>10. CleanerInv'
    BY <1>9 DEF CleanerInv
  <1>11. \A u \in Scopes : Created(u) => Created(u)'
    BY <1>2 DEF Created
  <1>12. ASSUME NEW t \in Scopes PROVE HeldInv(t)' /\ GivenInv(t)'
    <2>1. HeldInv(t) /\ GivenInv(t)
      BY DEF ScopeInv
    <2>2. CASE t # s
      <3>1. \A k \in 1 .. Len(given[t]) : given[t][k] # l
        BY <1>1, <1>3, <2>2 DEF GivenOnce
      <3>2. \A k \in 1 .. Len(given[t]) : leaf'[given[t][k]] = leaf[given[t][k]]
        BY <1>1, <1>2, <3>1 DEF ScopeTypeOK
      <3>3. Untouched(t)
        BY <1>1, <1>2, <2>2 DEF Untouched, ScopeTypeOK
      <3>. QED BY <1>11, <2>1, <3>2, <3>3, UntouchedKeeps
    <2>3. CASE t = s
      <3>1. HeldInv(s)'
        BY <1>2, <2>1, <2>3 DEF HeldInv
      <3>2. ASSUME NEW k \in 1 .. Len(given[s]), given[s][k] \in Leaves PROVE LeafAt(s, k)'
        <4>1. CASE k = Len(pending[s])
          BY <1>1, <1>2, <1>3, <4>1 DEF LeafAt, ScopeTypeOK, Working
        <4>2. CASE k # Len(pending[s])
          <5>1. given[s][k] # l
            BY <1>1, <1>3, <4>2 DEF GivenOnce
          <5>2. leaf'[given[s][k]] = leaf[given[s][k]]
            BY <1>1, <1>2, <5>1 DEF ScopeTypeOK
          <5>3. LeafAt(s, k)
            BY <2>1, <2>3, <3>2 DEF GivenInv
          <5>. QED BY <1>2, <4>2, <5>2, <5>3 DEF LeafAt
        <4>. QED BY <4>1, <4>2
      <3>3. GivenInv(s)'
        BY <1>2, <1>11, <2>1, <2>3, <3>2 DEF GivenInv
      <3>. QED BY <2>3, <3>1, <3>3
    <2>. QED BY <2>2, <2>3
  <1>. QED
    BY <1>5, <1>6, <1>7, <1>8, <1>10, <1>12 DEF ScopeInv

\* The cleanup enters the Close of a child: of one that is open on its own
\* behalf, of any other as one more caller that waits.
LEMMA CloseChildKeeps == ASSUME ScopeInv, NEW s \in Scopes, CloseChild(s) PROVE ScopeInv'
  <1> USE ScopeAssumption DEF Children, Items
  <1>0. PICK u \in Children : u = Current(s)
    BY DEF CloseChild
  <1>1. ScopeTypeOK /\ LeafInv /\ CleanerInv /\ Forest /\ GivenOnce /\ PassedInv
    BY DEF ScopeInv
  <1>2. /\ UNCHANGED <<leaf, goal, expired, given, closes>>
        /\ Working(s) /\ ~begun[s]
        /\ begun' = [begun EXCEPT ![s] = TRUE]
        /\ \/ state[u] = "open" /\ StartCleanup(u, cleaner[s])
           \/ NoCleanup
    BY <1>0 DEF CloseChild
  <1>3. /\ Len(pending[s]) \in 1 .. Len(given[s])
        /\ u = given[s][Len(pending[s])]
    BY <1>0, <1>1, <1>2, CurrentFacts, GivenFacts
  <1>4. ParentOf[u] = s
    BY <1>2, <1>3 DEF ScopeInv, GivenInv
  <1>5. state[s] = "closing" /\ pending[s] # <<>> /\ CleanerAt(s)
    BY <1>1, <1>2 DEF CleanerInv, Working
  <1>6. u = pending[s][Len(pending[s])]
    BY <1>0 DEF Current
  <1>7. GivenOnce' /\ LeafInv'
    BY <1>1, <1>2 DEF GivenOnce, LeafInv
  <1>8. ASSUME NEW t \in Scopes, HeldInv(t), GivenInv(t), pending'[t] = pending[t],
               state'[t] = state[t], resources'[t] = resources[t],
               \A v \in Scopes : Created(v)' <=> Created(v)
        PROVE  HeldInv(t)' /\ GivenInv(t)'
    <2>1. CASE t # s
      <3>1. Untouched(t)
        BY <1>1, <1>2, <1>8, <2>1 DEF Untouched, ScopeTypeOK
      <3>. QED BY <1>2, <1>8, <3>1, UntouchedKeeps
    <2>2. CASE t = s
      <3>1. HeldInv(s)'
        BY <1>2, <1>8, <2>2 DEF HeldInv
      <3>2. ASSUME NEW k \in 1 .. Len(given[s]), given[s][k] \in Leaves PROVE LeafAt(s, k)'
        <4>1. k # Len(pending[s])
          BY <1>2, <1>3, <3>2
        <4>2. LeafAt(s, k)
          BY <1>8, <2>2, <3>2 DEF GivenInv
        <4>. QED BY <1>2, <1>8, <2>2, <4>1, <4>2 DEF LeafAt
      <3>3. GivenInv(s)'
        BY <1>2, <1>8, <2>2, <3>2 DEF GivenInv
      <3>. QED BY <2>2, <3>1, <3>3
    <2>. QED BY <2>1, <2>2
  <1>9. CASE state[u] = "open" /\ StartCleanup(u, cleaner[s])
    <2>1. u # s /\ u \in Scopes /\ begun'[u] = begun[u]
      BY <1>1, <1>2, <1>5, <1>9 DEF ScopeTypeOK
    <2>2. /\ \A t \in Scopes \ {u} :
                /\ state'[t] = state[t] /\ pending'[t] = pending[t]
                /\ resources'[t] = resources[t] /\ cleaner'[t] = cleaner[t]
          /\ state'[u] = "closing" /\ pending'[u] = given[u]
          /\ resources'[u] = <<>> /\ cleaner'[u] = cleaner[s]
          /\ state' \in [Scopes -> {"absent", "open", "closing", "closed"}]
          /\ pending' \in [Scopes -> Seq(Items)] /\ resources' \in [Scopes -> Seq(Items)]
          /\ cleaner' \in [Scopes -> Callers \cup {None}]
          /\ begun[u] = FALSE
          /\ \A t \in Scopes : Created(t)' <=> Created(t)
          /\ \A i \in Items : Done(i) => Done(i)'
          /\ HeldInv(u)' /\ GivenInv(u)'
      BY <1>2, <1>5, <1>9, <2>1, StartFacts DEF CleanerAt
    <2>3. ScopeTypeOK'
      BY <1>1, <1>2, <1>5, <2>1, <2>2 DEF ScopeTypeOK
    <2>4. ASSUME NEW t \in Scopes PROVE HeldInv(t)' /\ GivenInv(t)'
      <3>1. CASE t # u
        BY <1>8, <2>2, <3>1 DEF ScopeInv
      <3>. QED BY <2>2, <3>1
    <2>5. PassedInv'
      BY <1>1, <1>2, <2>1, <2>2, PassedStays
    <2>6. ASSUME NEW t \in Scopes, state'[t] = "closing" PROVE CleanerAt(t)'
      <3>1. CASE t = u
        <4>1. goal[cleaner[s]] \in Scopes \ {u}
          BY <1>1, <1>5, <1>9 DEF CleanerAt, ScopeTypeOK
        <4>2. Within(u)'
          BY <1>1, <1>2, <1>4, <1>5, <1>6, <2>1, <2>2 DEF Within, Current, ScopeTypeOK
        <4>. QED BY <1>2, <1>5, <2>2, <3>1, <4>1, <4>2 DEF CleanerAt
      <3>2. CASE t # u
        <4>1. state[t] = "closing" /\ CleanerAt(t)
          BY <1>1, <2>2, <2>6, <3>2 DEF CleanerInv
        <4>2. goal[cleaner[t]] \in Scopes \ {u}
          BY <1>1, <1>9, <4>1 DEF CleanerAt, ScopeTypeOK
        <4>3. Within(t) => Within(t)'
          BY <1>1, <1>2, <1>9, <2>2, <3>2 DEF Within, Current, ScopeTypeOK
        <4>. QED BY <1>2, <2>2, <3>2, <4>1, <4>2, <4>3, CleanerStays
      <3>. QED BY <3>1, <3>2
    <2>7. CleanerInv' /\ Forest'
      BY <1>1, <2>2, <2>6 DEF CleanerInv, Forest
    <2>. QED
      BY <1>7, <2>3, <2>4, <2>5, <2>7 DEF ScopeInv
  <1>10. CASE NoCleanup
    <2>1. UNCHANGED <<state, cleaner, pending, resources>>
      BY <1>10 DEF NoCleanup
    <2>2. ScopeTypeOK'
      BY <1>1, <1>2, <1>5, <2>1 DEF ScopeTypeOK
    <2>3. \A v \in Scopes : Created(v)' <=> Created(v)
      BY <2>1 DEF Created
    <2>4. ASSUME NEW t \in Scopes PROVE HeldInv(t)' /\ GivenInv(t)'
      BY <1>8, <2>1, <2>3 DEF ScopeInv
    <2>5. PassedInv' /\ Forest'
      BY <1>1, <1>2, <2>1 DEF PassedInv, Done, Forest, Created
    <2>6. ASSUME NEW t \in Scopes, state'[t] = "closing" PROVE CleanerAt(t)'
      <3>1. CleanerAt(t)
        BY <1>1, <2>1, <2>6 DEF CleanerInv
      <3>2. Within(t) => Within(t)'
        BY <1>1, <1>2, <2>1 DEF Within, Current, ScopeTypeOK
      <3>. QED BY <1>2, <2>1, <3>1, <3>2, CleanerStays
    <2>7. CleanerInv'
      BY <2>6 DEF CleanerInv
    <2>. QED
      BY <1>7, <2>2, <2>4, <2>5, <2>7 DEF ScopeInv
  <1>. QED
    BY <1>2, <1>9, <1>10

\* The last of a sequence goes.
LEMMA DropLastFacts ==
    ASSUME NEW S, NEW q \in Seq(S), q # <<>>
    PROVE  /\ DropLast(q) \in Seq(S)
           /\ Len(DropLast(q)) = Len(q) - 1
           /\ \A i \in 1 .. Len(q) - 1 : DropLast(q)[i] = q[i]
  <1>1. Len(q) \in Nat \ {0}
    BY EmptySeq
  <1>2. \A i \in 1 .. Len(q) - 1 : q[i] \in S
    BY <1>1, ElementOfSeq
  <1>3. PICK m \in Int : m = Len(q) - 1
    BY <1>1
  <1>4. /\ SubSeq(q, 1, m) \in Seq(S)
        /\ Len(SubSeq(q, 1, m)) = IF 1 <= m THEN m - 1 + 1 ELSE 0
        /\ \A i \in 1 .. m - 1 + 1 : SubSeq(q, 1, m)[i] = q[1 + i - 1]
    BY <1>2, <1>3, SubSeqProperties
  <1>. QED
    BY <1>1, <1>3, <1>4 DEF DropLast

LEMMA ItemClosedKeeps == ASSUME ScopeInv, NEW s \in Scopes, ItemClosed(s) PROVE ScopeInv'
  <1> USE ScopeAssumption DEF Children, Items
  <1>0. PICK i, n : i = Current(s) /\ n = Len(pending[s])
    OBVIOUS
  <1>1. ScopeTypeOK /\ LeafInv /\ CleanerInv /\ Forest /\ GivenOnce /\ PassedInv
    BY DEF ScopeInv
  <1>2. /\ UNCHANGED <<state, resources, cleaner, goal, expired, given, closes>>
        /\ Working(s) /\ begun[s]
        /\ begun' = [begun EXCEPT ![s] = FALSE]
        /\ pending' = [pending EXCEPT ![s] = DropLast(@)]
        /\ \/ i \in Leaves /\ leaf' = [leaf EXCEPT ![i] = "closed"]
           \/ i \in Children /\ ChildDone(s) /\ leaf' = leaf
    BY <1>0 DEF ItemClosed
  <1>3. n \in 1 .. Len(given[s]) /\ i = given[s][n] /\ Len(given[s]) \in Nat
    BY <1>0, <1>1, <1>2, CurrentFacts, GivenFacts
  <1>4. state[s] = "closing" /\ CleanerAt(s)
    BY <1>1, <1>2 DEF CleanerInv, Working
  <1>5. /\ pending'[s] \in Seq(Items) /\ Len(pending'[s]) = n - 1
        /\ \A k \in 1 .. n - 1 : pending'[s][k] = pending[s][k]
        /\ \A t \in Scopes \ {s} : pending'[t] = pending[t] /\ begun'[t] = begun[t]
        /\ begun'[s] = FALSE
    <2>1. pending[s] \in Seq(Items) /\ pending[s] # <<>> /\ pending'[s] = DropLast(pending[s])
      BY <1>1, <1>2 DEF ScopeTypeOK, Working
    <2>. QED BY <1>0, <1>1, <1>2, <2>1, DropLastFacts DEF ScopeTypeOK
  <1>6. i \in Leaves => leaf[i] = "closing"
    <2>1. i \in Leaves => LeafAt(s, n)
      BY <1>3 DEF ScopeInv, GivenInv
    <2>. QED BY <1>0, <1>2, <1>3, <2>1 DEF LeafAt
  <1>7. Done(i)' \/ cleaner[s] \in expired
    <2>1. CASE i \in Leaves
      BY <1>1, <1>2, <2>1 DEF Done, ScopeTypeOK
    <2>2. CASE i \notin Leaves
      BY <1>0, <1>2, <2>2 DEF Done, ChildDone
    <2>. QED BY <2>1, <2>2
  <1>8. \A x \in Items : Done(x) => Done(x)'
    BY <1>1, <1>2, <1>6 DEF Done, ScopeTypeOK
  <1>9. /\ \A x \in Leaves : x # i => leaf'[x] = leaf[x]
        /\ i \in Leaves => leaf'[i] = "closed"
        /\ leaf' \in [Leaves -> {"free", "owned", "closing", "closed", "rejected"}]
    BY <1>1, <1>2 DEF ScopeTypeOK
  <1>10. ScopeTypeOK'
    BY <1>1, <1>2, <1>4, <1>5, <1>9 DEF ScopeTypeOK
  <1>11. GivenOnce' /\ Forest'
    BY <1>1, <1>2 DEF GivenOnce, Forest, Created
  <1>12. LeafInv'
    <2> SUFFICES ASSUME NEW l \in Leaves
                 PROVE  /\ closes[l] = IF leaf'[l] \in {"closing", "closed"} THEN 1 ELSE 0
                        /\ leaf'[l] \in {"free", "rejected"} =>
                            \A t \in Scopes : \A k \in 1 .. Len(given[t]) : given[t][k] # l
      BY <1>2 DEF LeafInv
    <2>1. CASE l = i
      BY <1>1, <1>6, <1>9, <2>1 DEF LeafInv
    <2>2. CASE l # i
      BY <1>1, <1>9, <2>2 DEF LeafInv
    <2>. QED BY <2>1, <2>2
  <1>13. PassedInv'
    <2> SUFFICES ASSUME NEW t \in Scopes, state[t] = "closing",
                        NEW k \in 1 .. Len(given[t]), k > Len(pending'[t]),
                        NEW x, x = given[t][k]
                 PROVE  Done(x)' \/ cleaner[t] \in expired
      BY <1>2 DEF PassedInv, Done
    <2>1. CASE t = s /\ k = n
      BY <1>3, <1>7, <2>1
    <2>2. CASE ~(t = s /\ k = n)
      <3>1. k > Len(pending[t])
        BY <1>0, <1>3, <1>5, <2>2
      <3>2. Done(given[t][k]) \/ cleaner[t] \in expired
        BY <1>1, <3>1 DEF PassedInv
      <3>3. given[t][k] \in Items
        BY <1>1, GivenFacts
      <3>. QED BY <1>8, <3>2, <3>3
    <2>. QED BY <2>1, <2>2
  <1>14. ASSUME NEW t \in Scopes, state'[t] = "closing" PROVE CleanerAt(t)'
    <2>1. CleanerAt(t)
      BY <1>1, <1>2, <1>14 DEF CleanerInv
    <2>2. ASSUME Within(t), ~Called(t) PROVE Within(t)'
      <3>1. CASE ParentOf[t] # s
        BY <1>2, <1>5, <2>2, <3>1 DEF Within, Current
      <3>2. CASE ParentOf[t] = s
        <4>1. t = i /\ cleaner[t] = cleaner[s] /\ state[t] = "closing"
          BY <1>0, <1>2, <1>14, <2>2, <3>2 DEF Within
        <4>2. t \in Children
          BY <2>2 DEF Within
        <4>. QED BY <1>0, <1>2, <4>1, <4>2, ~ChildDone(s) DEF ChildDone
      <3>. QED BY <3>1, <3>2
    <2>. QED BY <1>2, <2>1, <2>2, CleanerStays
  <1>15. CleanerInv'
    BY <1>14 DEF CleanerInv
  <1>16. \A u \in Scopes : Created(u) => Created(u)'
    BY <1>2 DEF Created
  <1>17. ASSUME NEW t \in Scopes PROVE HeldInv(t)' /\ GivenInv(t)'
    <2>1. HeldInv(t) /\ GivenInv(t)
      BY DEF ScopeInv
    <2>2. CASE t # s
      <3>1. \A k \in 1 .. Len(given[t]) : given[t][k] \in Leaves =>
                leaf'[given[t][k]] = leaf[given[t][k]]
        BY <1>1, <1>3, <1>9, <2>2 DEF GivenOnce
      <3>2. Untouched(t)
        BY <1>2, <1>5, <2>2 DEF Untouched
      <3>. QED BY <1>16, <2>1, <3>1, <3>2, UntouchedKeeps
    <2>3. CASE t = s
      <3>1. HeldInv(s)'
        <4>1. \A k \in 1 .. n - 1 : pending'[s][k] = given[s][k]
          BY <1>0, <1>3, <1>5, <2>1, <2>3 DEF HeldInv
        <4>. QED BY <1>2, <1>3, <1>4, <1>5, <4>1 DEF HeldInv
      <3>2. ASSUME NEW k \in 1 .. Len(given[s]), given[s][k] \in Leaves PROVE LeafAt(s, k)'
        <4>1. LeafAt(s, k)
          BY <2>1, <2>3, <3>2 DEF GivenInv
        <4>2. CASE k = n
          <5>1. leaf'[given[s][k]] = "closed" /\ k > Len(pending'[s])
            BY <1>3, <1>5, <1>9, <3>2, <4>2
          <5>. QED BY <1>2, <1>3, <1>4, <1>5, <4>2, <5>1 DEF LeafAt
        <4>3. CASE k # n
          <5>1. leaf'[given[s][k]] = leaf[given[s][k]]
            BY <1>1, <1>3, <1>9, <3>2, <4>3 DEF GivenOnce
          <5>. QED BY <1>0, <1>2, <1>3, <1>4, <1>5, <4>1, <4>3, <5>1 DEF LeafAt
        <4>. QED BY <4>2, <4>3
      <3>3. GivenInv(s)'
        BY <1>2, <1>16, <2>1, <2>3, <3>2 DEF GivenInv
      <3>. QED BY <2>3, <3>1, <3>3
    <2>. QED BY <2>2, <2>3
  <1>. QED
    BY <1>10, <1>11, <1>12, <1>13, <1>15, <1>17 DEF ScopeInv

\* When a cleanup is over, its caller cleans up nothing else: a scope that still
\* closed on its behalf would lie within one that does, up to this one, and the
\* forest has no way up without end.
LEMMA FinishCloseKeeps == ASSUME ScopeInv, NEW s \in Scopes, FinishClose(s) PROVE ScopeInv'
  <1> USE ScopeAssumption DEF Children, Items
  <1>1. ScopeTypeOK /\ LeafInv /\ CleanerInv /\ Forest /\ GivenOnce /\ PassedInv
    BY DEF ScopeInv
  <1>2. /\ UNCHANGED <<resources, pending, begun, cleaner, leaf, goal, expired, given, closes>>
        /\ state[s] = "closing" /\ pending[s] = <<>> /\ ~begun[s]
        /\ state' = [state EXCEPT ![s] = "closed"]
    BY <1>1 DEF FinishClose, ScopeTypeOK
  <1>3. state'[s] = "closed" /\ \A t \in Scopes \ {s} : state'[t] = state[t]
    BY <1>1, <1>2 DEF ScopeTypeOK
  <1>4. ScopeTypeOK'
    BY <1>1, <1>2 DEF ScopeTypeOK
  <1>5. \A t \in Scopes : Created(t)' <=> Created(t)
    BY <1>2, <1>3 DEF Created
  <1>6. GivenOnce' /\ LeafInv' /\ Forest'
    BY <1>1, <1>2, <1>5 DEF GivenOnce, LeafInv, Forest
  <1>7. PassedInv'
    <2>1. \A i \in Items : Done(i) => Done(i)'
      BY <1>2, <1>3 DEF Done
    <2>. QED BY <1>1, <1>2, <1>3, <2>1, PassedStays
  <1>8. ASSUME NEW t \in Scopes PROVE HeldInv(t)' /\ GivenInv(t)'
    <2>1. HeldInv(t) /\ GivenInv(t)
      BY DEF ScopeInv
    <2>2. CASE t # s
      <3>1. Untouched(t)
        BY <1>2, <1>3, <2>2 DEF Untouched
      <3>. QED BY <1>2, <1>5, <2>1, <3>1, UntouchedKeeps
    <2>3. CASE t = s
      <3>1. Len(pending[s]) = 0
        BY <1>2
      <3>2. HeldInv(s)'
        BY <1>2, <1>3, <2>1, <2>3 DEF HeldInv
      <3>3. ASSUME NEW k \in 1 .. Len(given[s]), given[s][k] \in Leaves PROVE LeafAt(s, k)'
        BY <1>2, <1>3, <2>1, <2>3, <3>1, <3>3 DEF GivenInv, LeafAt
      <3>4. GivenInv(s)'
        BY <1>2, <1>5, <2>1, <2>3, <3>3 DEF GivenInv
      <3>. QED BY <2>3, <3>2, <3>4
    <2>. QED BY <2>2, <2>3
  <1>9. ASSUME NEW t \in Scopes, state'[t] = "closing" PROVE CleanerAt(t)'
    <2>1. t # s /\ state[t] = "closing" /\ CleanerAt(t)
      BY <1>1, <1>3, <1>9 DEF CleanerInv
    <2>2. goal[cleaner[t]] # s
      <3> SUFFICES ASSUME goal[cleaner[t]] = s PROVE FALSE
        OBVIOUS
      <3> DEFINE others == {u \in Scopes \ {s} : state[u] = "closing" /\ cleaner[u] = cleaner[t]}
      <3>1. /\ \A u \in others : u \in Scopes /\ Created(u)
            /\ others # {}
        BY <2>1 DEF Created
      <3>2. PICK u \in others : u = Root \/ ParentOf[u] \notin others
        BY <1>1, <3>1 DEF Forest
      <3>3. CleanerAt(u) /\ ~Called(u)
        BY <1>1, <3>2 DEF CleanerInv, Called
      <3>4. Within(u)
        BY <3>3 DEF CleanerAt
      <3>5. ParentOf[u] = s
        BY <3>2, <3>4 DEF Within
      <3>. QED BY <1>2, <3>4, <3>5 DEF Within
    <2>3. goal[cleaner[t]] \in Scopes
      BY <1>1, <2>1 DEF CleanerAt, ScopeTypeOK
    <2>4. Within(t) => Within(t)'
      BY <1>2, <1>3 DEF Within, Current
    <2>. QED BY <1>2, <1>3, <2>1, <2>2, <2>3, <2>4, CleanerStays
  <1>10. CleanerInv'
    BY <1>9 DEF CleanerInv
  <1>. QED
    BY <1>4, <1>6, <1>7, <1>8, <1>10 DEF ScopeInv

\* ScopeInv is inductive.
LEMMA ScopeInvariant == ScopeSpec => []ScopeInv
  <1>1. ScopeInv /\ [ScopeNext]_scopeVars => ScopeInv'
    <2> SUFFICES ASSUME ScopeInv, [ScopeNext]_scopeVars PROVE ScopeInv'
      OBVIOUS
    <2>1. ASSUME NEW s \in Scopes, Cleanup(s) PROVE ScopeInv'
      BY <2>1, CloseLeafKeeps, CloseChildKeeps, ItemClosedKeeps, FinishCloseKeeps DEF Cleanup
    <2>2. CASE UNCHANGED scopeVars
      <3> USE <2>2 DEF scopeVars
      <3>1. ScopeTypeOK' /\ \A s \in Scopes : HeldInv(s)' /\ GivenInv(s)'
        BY DEF ScopeInv, ScopeTypeOK, HeldInv, GivenInv, LeafAt, Created
      <3>2. GivenOnce' /\ LeafInv' /\ PassedInv'
        BY DEF ScopeInv, GivenOnce, LeafInv, PassedInv, Done
      <3>3. CleanerInv' /\ Forest'
        BY DEF ScopeInv, CleanerInv, CleanerAt, Called, Within, Current, Forest, Created
      <3>. QED BY <3>1, <3>2, <3>3 DEF ScopeInv
    <2>. QED
      BY <2>1, <2>2, RegisterKeeps, ChildKeeps, RejectedKeeps, CallCloseKeeps, CallerKeeps
      DEF ScopeNext
  <1>. QED
    BY <1>1, ScopeInitKeeps, PTL DEF ScopeSpec

\* In every tree of scopes, however its callers register, close and give up, no
\* resource is closed twice and a closed scope has left none open (Register,
\* Close, closeReverse).
THEOREM ScopesLeakNothing == ScopeSpec => []NothingLeaks
  <1>1. ScopeInv => NothingLeaks
    <2> SUFFICES ASSUME ScopeInv PROVE NothingLeaks
      OBVIOUS
    <2>1. ASSUME NEW l \in Leaves PROVE closes[l] <= 1
      BY DEF ScopeInv, LeafInv
    <2>2. ASSUME NEW s \in Scopes, state[s] = "closed",
                 NEW k \in DOMAIN given[s], given[s][k] \in Leaves
          PROVE  leaf[given[s][k]] = "closed"
      <3>1. k \in 1 .. Len(given[s])
        BY GivenFacts DEF ScopeInv
      <3>2. pending[s] = <<>> /\ Len(pending[s]) = 0
        BY <2>2 DEF ScopeInv, ScopeTypeOK
      <3>. QED BY <2>2, <3>1, <3>2 DEF ScopeInv, GivenInv, LeafAt
    <2>. QED BY <2>1, <2>2 DEF NothingLeaks
  <1>. QED
    BY <1>1, ScopeInvariant, PTL

\* The cleanup of a scope keeps the reverse order of registration through the
\* whole subtree, whoever cleans up and whoever else closes parts of it.
THEOREM ScopesCloseInReverse == ScopeSpec => []ReverseOrder
  <1>1. ScopeInv => ReverseOrder
    <2> SUFFICES ASSUME ScopeInv, NEW s \in Scopes, state[s] = "closing",
                        NEW j \in DOMAIN given[s], NEW k \in DOMAIN given[s], j < k,
                        given[s][j] \in Leaves, leaf[given[s][j]] \in {"closing", "closed"}
                 PROVE  Done(given[s][k]) \/ cleaner[s] \in expired
      BY DEF ReverseOrder
    <2>1. /\ j \in 1 .. Len(given[s]) /\ k \in 1 .. Len(given[s])
          /\ Len(pending[s]) \in Nat
      BY GivenFacts DEF ScopeInv
    <2>2. LeafAt(s, j)
      BY <2>1 DEF ScopeInv, GivenInv
    <2>3. j >= Len(pending[s])
      BY <2>1, <2>2 DEF LeafAt
    <2>. QED
      BY <2>1, <2>3 DEF ScopeInv, PassedInv
  <1>. QED
    BY <1>1, ScopeInvariant, PTL

------------------------------------------------------------------------------
(* The child process.                                                       *)

\* Wait of exec.Cmd has seen the exit of the child; its watcher has answered.
Collected == collector \notin {"unstarted", "failed", "wait"}
Watched == collector \in {"pipes", "read", "publish", "done"}
ContextRead == collector \in {"publish", "done"}

ChildKinds ==
    /\ ChildTypeOK
    /\ waitErr \in {"nil", "exit", "context", "delay"}
    /\ contextErr \in {"live", "canceled", "timeout"}
    /\ interrupted \in BOOLEAN /\ graceEnded \in BOOLEAN /\ forced \in BOOLEAN

\* Nobody signals a child whose context is live.
SignalInv ==
    /\ \A c \in Closers : closer[c] # "idle" => runCtx # "live"
    /\ grace # "none" => runCtx # "live"
    /\ termed # {} => grace # "none"
    /\ interrupted => runCtx # "live"

\* The group is killed by an escalation, and the child is marked before.
ForceInv ==
    /\ forceOnce = "armed" => forced
    /\ exit = "killed" => forced \/ watcher = "killed"
    /\ forced => graceEnded \/ lapsed # {}
    /\ grace = "force" => graceEnded
    /\ \A c \in Closers : closer[c] = "force" => lapsed # {}

\* What each step of the collector has read stays true.
CollectInv ==
    /\ collector \in {"unstarted", "failed"} => alive = {} /\ exit = "none"
    /\ Collected =>
        /\ Leader \notin alive
        /\ waitErr = "nil" => exit = "zero"
        /\ waitErr = "exit" => exit # "zero"
    /\ Watched => watcher \in {"killed", "over"}
    /\ ContextRead =>
        /\ contextErr # "live" => contextErr = runCtx
        /\ contextErr = "live" => Leader \notin termed /\ ~interrupted
    /\ childDone =>
        /\ childResult.error = Classified
        /\ childResult.exit = exit
        /\ childResult.forced = forced

ChildInv == ChildKinds /\ SignalInv /\ ForceInv /\ CollectInv

LEMMA ChildInitKeeps == ChildInit => ChildInv
  BY ChildAssumption
  DEF ChildInit, ChildInv, ChildKinds, ChildTypeOK, SignalInv, ForceInv, CollectInv,
      Collected, Watched, ContextRead, childDone, Members

LEMMA StartKeeps ==
    ASSUME ChildInv, StartFails \/ Start \/ EndRunContext
    PROVE  ChildInv'
  <1> USE ChildAssumption
      DEF groupVars, signalVars, watchVars, closeVars, collectVars, ChildInv, ChildKinds,
          ChildTypeOK, SignalInv, ForceInv, CollectInv, Collected, Watched, ContextRead,
          childDone, Members
  <1>1. CASE StartFails
    BY <1>1 DEF StartFails
  <1>2. CASE Start
    <2>1. ChildKinds'
      BY <1>2 DEF Start
    <2>2. SignalInv' /\ CollectInv'
      BY <1>2 DEF Start
    <2>3. ForceInv'
      BY <1>2 DEF Start
    <2>. QED BY <2>1, <2>2, <2>3
  <1>3. CASE EndRunContext
    BY <1>3 DEF EndRunContext
  <1>. QED
    BY <1>1, <1>2, <1>3

LEMMA ExitKeeps == ASSUME ChildInv, NEW p \in Members, Exit(p) PROVE ChildInv'
  BY ChildAssumption
  DEF Exit, Dies, signalVars, watchVars, closeVars, collectVars, Classified,
      ChildInv, ChildKinds, ChildTypeOK, SignalInv, ForceInv, CollectInv,
      Collected, Watched, ContextRead, childDone, Members

LEMMA CollectKeeps == ASSUME ChildInv, Collect PROVE ChildInv'
  <1> USE ChildAssumption
      DEF groupVars, signalVars, watchVars, closeVars, ChildInv, ChildKinds, ChildTypeOK,
          SignalInv, ForceInv, CollectInv, Collected, Watched, ContextRead, childDone, Members
  <1>1. CASE Reap
    BY <1>1 DEF Reap
  <1>2. CASE TakeWatch
    BY <1>2 DEF TakeWatch
  <1>3. CASE AwaitPipes
    BY <1>3 DEF AwaitPipes
  <1>4. CASE ReadContext
    BY <1>4 DEF ReadContext
  <1>5. CASE Publish
    BY <1>5 DEF Publish, Cancel, Classified
  <1>. QED
    BY <1>1, <1>2, <1>3, <1>4, <1>5 DEF Collect

LEMMA TerminateKeeps == ASSUME ChildInv, Terminate PROVE ChildInv'
  <1> USE ChildAssumption
      DEF groupVars, signalVars, watchVars, closeVars, collectVars, ChildInv, ChildKinds,
          ChildTypeOK, SignalInv, ForceInv, CollectInv, Collected, Watched, ContextRead,
          childDone, finished, Classified, Members
  <1>1. CASE GraceOver
    BY <1>1 DEF GraceOver
  <1>2. CASE GraceTimer
    BY <1>2 DEF GraceTimer
  <1>3. CASE ForceChild
    <2>1. ForceInv'
      BY <1>3 DEF ForceChild, Forcing
    <2>2. ChildTypeOK' /\ UNCHANGED <<waitErr, contextErr, interrupted, graceEnded>>
      BY <1>3 DEF ForceChild
    <2>4. forced' \in BOOLEAN
      BY <1>3 DEF ForceChild
    <2>5. SignalInv'
      BY <1>3 DEF ForceChild
    <2>3. CollectInv'
      BY <1>3 DEF ForceChild
    <2>. QED BY <2>1, <2>2, <2>3, <2>4, <2>5
  <1>4. CASE KillGroup
    <2>1. ForceInv'
      BY <1>4 DEF KillGroup, Dies
    <2>2. ChildKinds' /\ SignalInv'
      BY <1>4 DEF KillGroup, Dies
    <2>3. CollectInv'
      BY <1>4 DEF KillGroup, Dies
    <2>. QED BY <2>1, <2>2, <2>3
  <1>5. CASE WatchContext
    BY <1>5 DEF WatchContext, RequestGraceful, GroupExists, Reaped
  <1>6. CASE WatchDelay
    BY <1>6 DEF WatchDelay, Dies
  <1>. QED
    BY <1>1, <1>2, <1>3, <1>4, <1>5, <1>6 DEF Terminate

LEMMA StopKeeps ==
    ASSUME ChildInv, NEW c \in Closers,
           StopChild(c) \/ StopRequests(c) \/ StopLapses(c) \/ StopReturns(c)
    PROVE  ChildInv'
  <1> USE ChildAssumption
      DEF groupVars, signalVars, watchVars, closeVars, collectVars, ChildInv, ChildKinds,
          ChildTypeOK, SignalInv, ForceInv, CollectInv, Collected, Watched, ContextRead,
          childDone, Classified, Members, At
  <1>1. CASE StopChild(c)
    BY <1>1 DEF StopChild, Cancel
  <1>2. CASE StopRequests(c)
    BY <1>2 DEF StopRequests, RequestGraceful, GroupExists, Reaped
  <1>3. CASE StopLapses(c)
    BY <1>3 DEF StopLapses
  <1>4. CASE StopReturns(c)
    BY <1>4 DEF StopReturns
  <1>. QED
    BY <1>1, <1>2, <1>3, <1>4

\* ChildInv is inductive.
LEMMA ChildInvariant == ChildSpec => []ChildInv
  <1>1. ChildInv /\ [ChildNext]_childVars => ChildInv'
    <2> SUFFICES ASSUME ChildInv, [ChildNext]_childVars PROVE ChildInv'
      OBVIOUS
    <2>1. CASE UNCHANGED childVars
      BY <2>1
      DEF childVars, groupVars, signalVars, watchVars, closeVars, collectVars, ChildInv,
          ChildKinds, ChildTypeOK, SignalInv, ForceInv, CollectInv, Collected, Watched,
          ContextRead, childDone, Classified
    <2>. QED
      BY <2>1, StartKeeps, ExitKeeps, CollectKeeps, TerminateKeeps, StopKeeps DEF ChildNext
  <1>. QED
    BY <1>1, ChildInitKeeps, PTL DEF ChildSpec

\* Whatever the group does with its signals and pipes and whoever stops it, the
\* published result is true (collect, classifyWait, force, Close).
THEOREM ResultsAreTrue == ChildSpec => []ResultIsTrue
  <1>1. ChildInv => ResultIsTrue
    <2> SUFFICES ASSUME ChildInv, childDone PROVE ResultIsTrue
      BY DEF ResultIsTrue
    <2> USE DEF ChildInv, ChildKinds, CollectInv, Collected, Watched, ContextRead, childDone
    <2>0. /\ contextErr # "live" => childResult.error = contextErr
          /\ contextErr = "live" /\ waitErr = "nil" => childResult.error = "nil"
          /\ contextErr = "live" /\ waitErr = "exit" => childResult.error = "exit_failure"
          /\ contextErr = "live" /\ waitErr \in {"context", "delay"} =>
                childResult.error = "wait_failure"
      BY DEF Classified
    <2>1. childResult.error = "nil" => contextErr = "live" /\ waitErr = "nil"
      BY <2>0
    <2>2. childResult.error \in {"canceled", "timeout"} => childResult.error = runCtx
      BY DEF Classified
    <2>3. childResult.error = "exit_failure" => contextErr = "live" /\ waitErr = "exit"
      BY <2>0
    <2>4. childResult.exit = "killed" /\ watcher # "killed" => childResult.forced
      BY DEF ForceInv
    <2>5. childResult.forced => graceEnded \/ lapsed # {}
      BY DEF ForceInv
    <2>. QED
      BY <2>1, <2>2, <2>3, <2>4, <2>5 DEF ResultIsTrue
  <1>. QED
    BY <1>1, ChildInvariant, PTL
==============================================================================
