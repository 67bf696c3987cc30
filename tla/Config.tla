------------------------------- MODULE Config -------------------------------
(****************************************************************************)
(* config.Manager and config.Resolver (src/internal/config): a Reload reads *)
(* its sources in the order of their precedence, merges them leaf by leaf,  *)
(* keeping the source each leaf came from, and publishes the snapshot as    *)
(* the next generation; a failure leaves the last valid snapshot.           *)
(*                                                                          *)
(* A JSON object is a function from the paths of its leaves to their        *)
(* values, an empty object being a leaf.  The files belong to others and    *)
(* may change between two reads: a read returns any member of Contents,     *)
(* which says how far the text gets (the stage that refuses it).            *)
(****************************************************************************)
EXTENDS Naturals, Integers, Sequences, SequencesExt, FiniteSets, Functions

CONSTANTS
    Reloaders,    \* callers of Reload
    SourceLists,  \* the sources a caller may give: sequences of records
    Contents,     \* what a source may hold: [stage, doc]
    NoReloader

ASSUME ReloaderAssumption == NoReloader \notin Reloaders

VARIABLES
    current,      \* Manager.current
    reloadMu,     \* the caller holding Manager.reloadMu
    reload        \* per caller: the state of its call

configVars == <<current, reloadMu, reload>>

-----------------------------------------------------------------------------
(* Values and their merge (value.go).                                       *)

EmptyObject == [kind |-> "empty", items |-> <<>>]
Instructions == <<"instructions">>
NoDocument == [p \in {} |-> EmptyObject]

\* The keys of the user interface, which the resolver drops.
DroppedKeys == {"theme", "keybinds", "tui"}

Below(p, q) == IsStrictPrefix(p, q)

\* There is an object at p, maybe empty.
ObjectAt(value, p) ==
    \/ \E q \in DOMAIN value : Below(p, q)
    \/ p \in DOMAIN value /\ value[p] = EmptyObject

\* An empty object merged into an object changes nothing.
Lands(value, doc, p) == ~(doc[p] = EmptyObject /\ ObjectAt(value, p))

\* The first occurrence of each item, in their order.
FirstOccurrences(items) ==
    LET firsts == {i \in DOMAIN items : \A j \in 1 .. i - 1 : items[j] # items[i]}
        place(i) == Cardinality({j \in firsts : j <= i})
    IN [n \in 1 .. Cardinality(firsts) |-> items[CHOOSE i \in firsts : place(i) = n]]

\* mergeInstructions
Union(first, second) ==
    [kind |-> "array", items |-> FirstOccurrences(first.items \o second.items)]

MergedLeaf(value, doc, p) ==
    IF p = Instructions /\ p \in DOMAIN value THEN Union(value[p], doc[p]) ELSE doc[p]

\* Where the merge of the leaf p stops descending: the first place on the way
\* that is no object of the target.
Replaced(value, p) ==
    LET stops == {n \in 1 .. Len(p) : n = Len(p) \/ ~ObjectAt(value, SubSeq(p, 1, n))}
    IN SubSeq(p, 1, CHOOSE n \in stops : \A k \in stops : n <= k)

\* Mutant of MergeValues: what is below a replaced leaf stays.
MergeKeeping(value, doc) ==
    [p \in DOMAIN value \cup DOMAIN doc |->
        IF p \in DOMAIN doc THEN MergedLeaf(value, doc, p) ELSE value[p]]

\* mergeValues: the leaves of doc replace what they meet.
MergeValues(value, doc) ==
    LET landing == {p \in DOMAIN doc : Lands(value, doc, p)}
        kept == {q \in DOMAIN value :
                    \A p \in landing : ~IsPrefix(p, q) /\ ~IsPrefix(q, p)}
    IN [p \in kept \cup landing |->
           IF p \in landing THEN MergedLeaf(value, doc, p) ELSE value[p]]

\* clearOrigins and setOrigins: an origin goes when something replaces the
\* place it is of, or a place above it.  The origin of an empty object that
\* is filled later stays, on a path that is no leaf any more.
MergeOrigins(value, origins, doc, ref) ==
    LET landing == {p \in DOMAIN doc : Lands(value, doc, p)}
        kept == {q \in DOMAIN origins :
                    \A p \in landing : ~IsPrefix(Replaced(value, p), q)}
    IN [p \in kept \cup landing |-> IF p \in landing THEN ref ELSE origins[p]]

-----------------------------------------------------------------------------
(* Sources (config.go).                                                     *)

Precedence == [remote |-> 0, global |-> 10, custom |-> 20, project |-> 30,
               directory |-> 40, inline |-> 50, organization |-> 60,
               managed |-> 70, managed_preference |-> 80]

Rank(kind) == IF kind \in DOMAIN Precedence THEN Precedence[kind] ELSE -1

\* SortStableFunc by the precedence of the kinds.
InPrecedence(list) ==
    LET before(i, j) == \/ Rank(list[i].kind) < Rank(list[j].kind)
                        \/ Rank(list[i].kind) = Rank(list[j].kind) /\ i < j
        place(i) == Cardinality({j \in DOMAIN list : before(j, i)}) + 1
    IN [n \in DOMAIN list |-> list[CHOOSE i \in DOMAIN list : place(i) = n]]

NoSnapshot == [value |-> NoDocument, origins |-> <<>>, sources |-> <<>>, generation |-> 0]

Idle == [phase |-> "idle", left |-> <<>>, seen |-> {}, next |-> NoSnapshot]

ConfigInit ==
    /\ current = NoSnapshot
    /\ reloadMu = NoReloader
    /\ reload = [c \in Reloaders |-> Idle]

CallReload(c, list) ==
    /\ reload[c].phase = "idle"
    /\ reload' = [reload EXCEPT ![c].phase = "locking", ![c].left = InPrecedence(list)]
    /\ UNCHANGED <<current, reloadMu>>

\* Reload takes its lock and the generation after the current one.
LockReload(c) ==
    /\ reload[c].phase = "locking" /\ reloadMu = NoReloader
    /\ reloadMu' = c
    /\ reload' = [reload EXCEPT ![c].phase = "resolving",
                                ![c].next.generation = current.generation + 1]
    /\ UNCHANGED current

\* The call ends with the snapshot and the error, or no error.
AnswerReload(c, phase, snapshot) ==
    /\ reload' = [reload EXCEPT ![c] = [Idle EXCEPT !.phase = phase, !.next = snapshot]]
    /\ reloadMu' = IF reloadMu = c THEN NoReloader ELSE reloadMu

SourceRefused(source, seen) == source.id \in seen \/ Rank(source.kind) < 0

\* read: an optional source may be missing.
Skipped(source, content) == content.stage = "missing" /\ source.optional
Reads(source, content) ==
    content.stage # "read" /\ (content.stage = "missing" => source.optional)

\* substitute: a {file:...} that cannot be read, or has no directory.
Substitutes(content) == content.stage # "substitute"

\* parseJSONC: comments, trailing commas, and an object at the root.
Parses(content) == content.stage # "parse"

\* validateTopLevel: known keys of the right kinds.
Validates(content) == content.stage # "validate"

\* What is left is an object, none of whose leaves is below another; its
\* instructions are an array.
IsObject(doc) ==
    /\ \A p \in DOMAIN doc : p \in Seq(STRING) /\ p # <<>>
    /\ \A p, q \in DOMAIN doc : ~Below(p, q) /\ ~Below(Instructions, p)
    /\ Instructions \in DOMAIN doc =>
          LET leaf == doc[Instructions]
          IN leaf.kind = "array" /\ leaf.items \in Seq(ToSet(leaf.items))

ASSUME ContentsAssumption ==
    \A content \in Contents : Parses(content) /\ Validates(content) => IsObject(content.doc)

Usable(source, content) ==
    /\ Reads(source, content)
    /\ Substitutes(content) /\ Parses(content) /\ Validates(content)

\* One round of Resolve: the next source is read, substituted, parsed,
\* validated and merged.
ResolveSource(c) ==
    /\ reload[c].phase = "resolving" /\ reload[c].left # <<>>
    /\ \E content \in Contents :
          LET source == Head(reload[c].left)
              next == reload[c].next
              doc == Restrict(content.doc,
                              {p \in DOMAIN content.doc : p[1] \notin DroppedKeys})
              ref == [id |-> source.id, kind |-> source.kind, digest |-> doc]
              merged == [value |-> MergeValues(next.value, doc),
                         origins |-> MergeOrigins(next.value, next.origins, doc, ref),
                         sources |-> Append(next.sources, ref),
                         generation |-> next.generation]
          IN /\ ~SourceRefused(source, reload[c].seen)
             /\ Usable(source, content)
             /\ reload' = [reload EXCEPT ![c].left = Tail(@),
                                         ![c].seen = @ \cup {source.id},
                                         ![c].next = IF Skipped(source, content)
                                                     THEN next ELSE merged]
    /\ UNCHANGED <<current, reloadMu>>

\* The source is refused or a stage fails: Reload returns the last valid
\* snapshot with the error.
ResolveFails(c) ==
    /\ reload[c].phase = "resolving" /\ reload[c].left # <<>>
    /\ LET source == Head(reload[c].left)
       IN \/ SourceRefused(source, reload[c].seen)
          \/ \E content \in Contents : ~Usable(source, content)
    /\ AnswerReload(c, "failed", current)
    /\ UNCHANGED current

\* The context ended: Resolve looks before every source.
ReloadCanceled(c) ==
    /\ reload[c].phase = "resolving" /\ reload[c].left # <<>>
    /\ AnswerReload(c, "failed", current)
    /\ UNCHANGED current

PublishSnapshot(c) ==
    /\ reload[c].phase = "resolving" /\ reload[c].left = <<>>
    /\ current' = reload[c].next
    /\ AnswerReload(c, "answered", reload[c].next)

ConfigNext == \E c \in Reloaders :
    \/ \E list \in SourceLists[c] : CallReload(c, list)
    \/ LockReload(c)
    \/ ResolveSource(c)
    \/ ResolveFails(c)
    \/ ReloadCanceled(c)
    \/ PublishSnapshot(c)

ConfigSpec == ConfigInit /\ [][ConfigNext]_configVars

-----------------------------------------------------------------------------
(* Correctness.                                                             *)

\* The leaf p of the source i is not overridden by a source after it: nothing
\* there is below p, and what is at p or above it is an empty object, which
\* leaves an object as it is.
Survives(refs, i, p) ==
    \A j \in i + 1 .. Len(refs) : \A q \in DOMAIN refs[j].digest :
        LET over == refs[j].digest[q]
        IN /\ ~Below(p, q)
           /\ Below(q, p) => over = EmptyObject
           /\ q = p => over = EmptyObject /\ refs[i].digest[p] = EmptyObject

\* A leaf of the merged value, and a source it may be from.
LeafOf(refs, i, p) ==
    /\ p \in DOMAIN refs[i].digest
    /\ Survives(refs, i, p)
    /\ refs[i].digest[p] = EmptyObject =>
          \A j \in 1 .. i : \A q \in DOMAIN refs[j].digest :
              Below(p, q) => ~Survives(refs, j, q)

InstructedBy(refs) == {i \in DOMAIN refs : Instructions \in DOMAIN refs[i].digest}

\* The instructions of all sources, once each if more than one has any.
AreUnited(items, refs) ==
    /\ ToSet(items) = UNION {ToSet(refs[i].digest[Instructions].items) : i \in InstructedBy(refs)}
    /\ \A i, j \in InstructedBy(refs) : i # j => IsInjective(items)

\* The published value is what the precedence of the sources promises, leaf
\* by leaf and whatever the order of the merge did: it has exactly the leaves
\* that no later source overrides, with their values, and the recorded origin
\* of each is a source that has that very value there (of the instructions,
\* the last that has any; their arrays are united).
ProvenanceIsTrue ==
    LET refs == current.sources
    IN /\ DOMAIN current.value =
             {p \in UNION {DOMAIN refs[i].digest : i \in DOMAIN refs} :
                 \E i \in DOMAIN refs : LeafOf(refs, i, p)}
       /\ \A p \in DOMAIN current.value : \E i \in DOMAIN refs :
             /\ LeafOf(refs, i, p) /\ current.origins[p] = refs[i]
             /\ IF p = Instructions
                THEN AreUnited(current.value[p].items, refs)
                ELSE current.value[p] = refs[i].digest[p]

\* Concurrent reloads do not overwrite one another: a generation names one
\* snapshot, the newest of which is the current one.
GenerationsDiffer ==
    \A c, d \in Reloaders : reload[c].phase = "answered" /\ reload[d].phase = "answered" =>
        /\ reload[c].next.generation <= current.generation
        /\ reload[c].next.generation = current.generation => reload[c].next = current
        /\ reload[c].next.generation = reload[d].next.generation => c = d

\* A published snapshot is what its sources say, and the only one of its
\* generation, whoever reloads at the same time (Reload, Resolve).
SnapshotsAreTrue == ProvenanceIsTrue /\ GenerationsDiffer
=============================================================================
