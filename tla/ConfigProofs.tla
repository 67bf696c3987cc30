---------------------------- MODULE ConfigProofs -----------------------------
(****************************************************************************)
(* Proofs about the configuration: whatever sources there are and whoever   *)
(* reloads at the same time, a published snapshot has exactly the leaves    *)
(* that no later source overrides, each with its value and its origin, and  *)
(* a generation of its own.                                                 *)
(*                                                                          *)
(* Merged is what every snapshot under way satisfies after each source.     *)
(****************************************************************************)
EXTENDS Config, SequenceTheorems, FiniteSetTheorems, WellFoundedInduction, TLAPS

Paths == Seq(STRING)

------------------------------------------------------------------------------
(* Paths.                                                                   *)

LEMMA PrefixAt ==
    ASSUME NEW p \in Paths, NEW q \in Paths
    PROVE  IsPrefix(p, q) <=> Len(p) <= Len(q) /\ \A i \in 1 .. Len(p) : p[i] = q[i]
  <1>1. Len(p) \in Nat /\ Len(q) \in Nat
    BY DEF Paths
  <1>2. /\ SubSeq(p, 1, Len(p)) \in Seq(STRING) /\ Len(SubSeq(p, 1, Len(p))) = Len(p)
        /\ \A i \in 1 .. Len(p) : SubSeq(p, 1, Len(p))[i] = p[i]
    BY <1>1 DEF Paths
  <1>3. ASSUME Len(p) <= Len(q)
        PROVE  /\ SubSeq(q, 1, Len(p)) \in Seq(STRING) /\ Len(SubSeq(q, 1, Len(p))) = Len(p)
               /\ \A i \in 1 .. Len(p) : SubSeq(q, 1, Len(p))[i] = q[i]
    BY <1>1, <1>3 DEF Paths
  <1>4. CASE Len(p) <= Len(q)
    <2>1. ASSUME \A i \in 1 .. Len(p) : p[i] = q[i]
          PROVE  SubSeq(p, 1, Len(p)) = SubSeq(q, 1, Len(p))
      BY <1>2, <1>3, <1>4, <2>1, SeqEqual
    <2> QED
      BY <1>2, <1>3, <1>4, <2>1 DEF IsPrefix
  <1>5. CASE ~(Len(p) <= Len(q))
    BY <1>5 DEF IsPrefix
  <1> QED
    BY <1>4, <1>5

\* Prefixes are an order, and those of one path are a chain.
LEMMA PathsAreOrdered ==
    /\ \A p \in Paths : IsPrefix(p, p) /\ ~Below(p, p)
    /\ \A p, q \in Paths : IsPrefix(p, q) <=> p = q \/ Below(p, q)
    /\ \A p, q \in Paths : Below(p, q) => ~IsPrefix(q, p)
    /\ \A p, q, r \in Paths : Below(p, q) /\ Below(q, r) => Below(p, r)
    /\ \A p, q, r \in Paths : Below(p, r) /\ Below(q, r) => p = q \/ Below(p, q) \/ Below(q, p)
  <1>1. \A p \in Paths : IsPrefix(p, p)
    BY PrefixAt DEF Paths
  <1>2. ASSUME NEW p \in Paths, NEW q \in Paths, IsPrefix(p, q), IsPrefix(q, p)
        PROVE  p = q
    <2>1. Len(p) = Len(q) /\ \A i \in 1 .. Len(p) : p[i] = q[i]
      BY <1>2, PrefixAt DEF Paths
    <2> QED
      BY <2>1, SeqEqual DEF Paths
  <1>3. ASSUME NEW p \in Paths, NEW q \in Paths, NEW r \in Paths, IsPrefix(p, q), IsPrefix(q, r)
        PROVE  IsPrefix(p, r)
    <2>1. Len(p) \in Nat /\ Len(q) \in Nat /\ Len(r) \in Nat
      BY DEF Paths
    <2> QED
      BY <1>3, <2>1, PrefixAt
  <1>4. ASSUME NEW p \in Paths, NEW q \in Paths, NEW r \in Paths, IsPrefix(p, r), IsPrefix(q, r)
        PROVE  IsPrefix(p, q) \/ IsPrefix(q, p)
    <2>1. Len(p) \in Nat /\ Len(q) \in Nat /\ Len(r) \in Nat
      BY DEF Paths
    <2> QED
      BY <1>4, <2>1, PrefixAt
  <1>5. \A p, q \in Paths : Below(p, q) <=> IsPrefix(p, q) /\ p # q
    BY DEF Below, IsStrictPrefix
  <1>6. ASSUME NEW p \in Paths, NEW q \in Paths
        PROVE  /\ IsPrefix(p, q) <=> p = q \/ Below(p, q)
               /\ Below(p, q) => ~IsPrefix(q, p)
    BY <1>1, <1>2, <1>5
  <1>7. ASSUME NEW p \in Paths, NEW q \in Paths, NEW r \in Paths, Below(p, q), Below(q, r)
        PROVE  Below(p, r)
    <2>1. IsPrefix(p, q) /\ p # q /\ IsPrefix(q, r)
      BY <1>5, <1>7
    <2>2. IsPrefix(p, r)
      BY <1>3, <2>1
    <2>3. p # r
      BY <1>2, <2>1
    <2> QED
      BY <1>5, <2>2, <2>3
  <1>8. ASSUME NEW p \in Paths, NEW q \in Paths, NEW r \in Paths, Below(p, r), Below(q, r)
        PROVE  p = q \/ Below(p, q) \/ Below(q, p)
    <2>1. IsPrefix(p, q) \/ IsPrefix(q, p)
      BY <1>4, <1>5, <1>8
    <2> QED
      BY <1>5, <2>1

  <1>9. \A p \in Paths : IsPrefix(p, p) /\ ~Below(p, p)
    BY <1>1, <1>5
  <1>10. \A p, q \in Paths : IsPrefix(p, q) <=> p = q \/ Below(p, q)
    BY <1>6
  <1>11. \A p, q \in Paths : Below(p, q) => ~IsPrefix(q, p)
    BY <1>6
  <1>12. \A p, q, r \in Paths : Below(p, q) /\ Below(q, r) => Below(p, r)
    BY <1>7
  <1>13. \A p, q, r \in Paths : Below(p, r) /\ Below(q, r) => p = q \/ Below(p, q) \/ Below(q, p)
    BY <1>8
  <1> QED
    BY <1>9, <1>10, <1>11, <1>12, <1>13

------------------------------------------------------------------------------
(* The merge of a document.                                                 *)

Landing(value, doc) == {p \in DOMAIN doc : Lands(value, doc, p)}
Kept(value, doc) ==
    {q \in DOMAIN value : \A p \in Landing(value, doc) : ~IsPrefix(p, q) /\ ~IsPrefix(q, p)}

\* Nothing in doc overrides the leaf at p.
Spares(doc, p, leaf) ==
    \A q \in DOMAIN doc :
        /\ ~Below(p, q)
        /\ Below(q, p) => doc[q] = EmptyObject
        /\ q = p => doc[q] = EmptyObject /\ leaf = EmptyObject

LEMMA MergedValue ==
    ASSUME NEW value, NEW doc
    PROVE  /\ DOMAIN MergeValues(value, doc) = Kept(value, doc) \cup Landing(value, doc)
           /\ \A p \in Landing(value, doc) :
                MergeValues(value, doc)[p] = MergedLeaf(value, doc, p)
           /\ \A p \in Kept(value, doc) :
                p \notin Landing(value, doc) => MergeValues(value, doc)[p] = value[p]
  BY DEF MergeValues, Kept, Landing

\* An array is no empty object.
LEMMA InstructionsLand ==
    ASSUME NEW doc, IsObject(doc)
    PROVE  /\ Instructions \in DOMAIN doc => doc[Instructions] # EmptyObject
           /\ \A value : Instructions \in DOMAIN doc => Instructions \in Landing(value, doc)
  BY DEF IsObject, EmptyObject, Landing, Lands

\* What does not land is an empty object where there is one already, which
\* the merge leaves there.
LEMMA Skips ==
    ASSUME NEW value, IsObject(value), NEW doc, IsObject(doc),
           NEW q \in DOMAIN doc \ Landing(value, doc)
    PROVE  /\ doc[q] = EmptyObject
           /\ \/ q \in Kept(value, doc) /\ value[q] = EmptyObject
              \/ \E r \in Kept(value, doc) : Below(q, r)
  <1>1. doc[q] = EmptyObject /\ ObjectAt(value, q)
    BY DEF Landing, Lands
  <1>2. /\ q \in Paths /\ \A p \in DOMAIN doc : p \in Paths /\ ~Below(p, q) /\ ~Below(q, p)
        /\ \A r \in DOMAIN value : r \in Paths
    BY DEF IsObject, Paths
  <1>3. ASSUME NEW r \in DOMAIN value, r = q \/ Below(q, r)
        PROVE  r \in Kept(value, doc)
    <2> SUFFICES ASSUME NEW p \in Landing(value, doc), IsPrefix(p, r) \/ IsPrefix(r, p)
                 PROVE  FALSE
      BY DEF Kept
    <2>1. p \in Paths /\ r \in Paths /\ p # q /\ ~Below(p, q) /\ ~Below(q, p)
      BY <1>2 DEF Landing
    <2>2. p = r \/ Below(p, r) \/ Below(r, p)
      BY <2>1, PathsAreOrdered
    <2> QED
      BY <1>2, <1>3, <2>1, <2>2, PathsAreOrdered
  <1>4. CASE \E r \in DOMAIN value : Below(q, r)
    BY <1>1, <1>3, <1>4
  <1>5. CASE q \in DOMAIN value /\ value[q] = EmptyObject
    BY <1>1, <1>3, <1>5
  <1> QED
    BY <1>1, <1>4, <1>5 DEF ObjectAt

\* The leaves of the value that are kept are those that doc spares.
LEMMA KeptIfSpared ==
    ASSUME NEW value, IsObject(value), NEW doc, IsObject(doc), NEW p \in DOMAIN value
    PROVE  /\ p \in Kept(value, doc) => Spares(doc, p, value[p])
           /\ Spares(doc, p, value[p]) => p \in Kept(value, doc)
  <1>1. /\ p \in Paths /\ \A r \in DOMAIN value : r \in Paths /\ ~Below(p, r) /\ ~Below(r, p)
        /\ \A q \in DOMAIN doc : q \in Paths
    BY DEF IsObject, Paths
  <1>2. ASSUME p \in Kept(value, doc), NEW q \in DOMAIN doc
        PROVE  /\ ~Below(p, q)
               /\ Below(q, p) => doc[q] = EmptyObject
               /\ q = p => doc[q] = EmptyObject /\ value[p] = EmptyObject
    <2>1. CASE q \in Landing(value, doc)
      <3>1. ~IsPrefix(q, p) /\ ~IsPrefix(p, q)
        BY <1>2, <2>1 DEF Kept
      <3> QED
        BY <1>1, <3>1, PathsAreOrdered
    <2>2. CASE q \notin Landing(value, doc)
      <3>1. /\ doc[q] = EmptyObject
            /\ \/ q \in DOMAIN value /\ value[q] = EmptyObject
               \/ \E r \in DOMAIN value : Below(q, r)
        BY <2>2, Skips DEF Kept
      <3> QED
        BY <1>1, <3>1, PathsAreOrdered
    <2> QED
      BY <2>1, <2>2
  <1>3. ASSUME Spares(doc, p, value[p]), NEW q \in Landing(value, doc)
        PROVE  ~IsPrefix(q, p) /\ ~IsPrefix(p, q)
    <2>1. q \in DOMAIN doc /\ ~(doc[q] = EmptyObject /\ ObjectAt(value, q))
      BY DEF Landing, Lands
    <2>2. ~Below(p, q) /\ ~Below(q, p) /\ q # p
      BY <1>3, <2>1 DEF Spares, ObjectAt
    <2> QED
      BY <1>1, <2>1, <2>2, PathsAreOrdered
  <1> QED
    BY <1>2, <1>3 DEF Spares, Kept

\* What is below a leaf that doc spares, it spares as well.
LEMMA SparesBelow ==
    ASSUME NEW doc, IsObject(doc), NEW p \in Paths, NEW q \in Paths, NEW leaf, NEW other,
           Spares(doc, p, leaf), Below(p, q)
    PROVE  Spares(doc, q, other)
  <1> SUFFICES ASSUME NEW r \in DOMAIN doc
               PROVE  /\ ~Below(q, r)
                      /\ Below(r, q) => doc[r] = EmptyObject
                      /\ r = q => FALSE
    BY DEF Spares
  <1>1. r \in Paths
    BY DEF IsObject, Paths
  <1>2. ~Below(p, r) /\ (Below(r, p) \/ r = p => doc[r] = EmptyObject)
    BY DEF Spares
  <1> QED
    BY <1>1, <1>2, PathsAreOrdered

------------------------------------------------------------------------------
(* The leaves of the sources, with one more.                                *)

LEMMA OneMoreSource ==
    ASSUME NEW S, NEW refs \in Seq(S), NEW ref \in S
    PROVE  /\ Append(refs, ref) \in Seq(S) /\ Len(refs) \in Nat
           /\ Len(Append(refs, ref)) = Len(refs) + 1
           /\ DOMAIN refs = 1 .. Len(refs)
           /\ DOMAIN Append(refs, ref) = DOMAIN refs \cup {Len(refs) + 1}
           /\ Append(refs, ref)[Len(refs) + 1] = ref
           /\ \A i \in DOMAIN refs : Append(refs, ref)[i] = refs[i]
  OBVIOUS

LEMMA SurvivesOneMore ==
    ASSUME NEW S, NEW refs \in Seq(S), NEW ref \in S, NEW p
    PROVE  /\ Survives(Append(refs, ref), Len(refs) + 1, p)
           /\ \A i \in DOMAIN refs :
                Survives(Append(refs, ref), i, p)
                    <=> Survives(refs, i, p) /\ Spares(ref.digest, p, refs[i].digest[p])
  <1> DEFINE more == Append(refs, ref)
             n == Len(refs)
  <1>1. /\ n \in Nat /\ Len(more) = n + 1 /\ DOMAIN refs = 1 .. n /\ more[n + 1] = ref
        /\ \A i \in 1 .. n : more[i] = refs[i]
    BY OneMoreSource
  <1> HIDE DEF more, n
  <1>2. Survives(more, n + 1, p)
    BY <1>1 DEF Survives
  <1>3. ASSUME NEW i \in 1 .. n
        PROVE  Survives(more, i, p)
                    <=> Survives(refs, i, p) /\ Spares(ref.digest, p, refs[i].digest[p])
    <2>1. i + 1 .. n + 1 = (i + 1 .. n) \cup {n + 1} /\ (i + 1 .. n) \subseteq 1 .. n
      BY <1>1
    <2>2. Survives(more, i, p) => Survives(refs, i, p) /\ Spares(ref.digest, p, refs[i].digest[p])
      BY <1>1, <2>1 DEF Survives, Spares, n
    <2>3. Survives(refs, i, p) /\ Spares(ref.digest, p, refs[i].digest[p]) => Survives(more, i, p)
      BY <1>1, <2>1 DEF Survives, Spares, n
    <2> QED
      BY <2>2, <2>3
  <1> QED
    BY <1>1, <1>2, <1>3 DEF more, n

\* A leaf of a source before the last: it was one, and the last spares it.
LEMMA LeafOfOneMore ==
    ASSUME NEW S, NEW refs \in Seq(S), NEW ref \in S, NEW i \in DOMAIN refs, NEW p,
           IsObject(ref.digest), \A j \in DOMAIN refs : IsObject(refs[j].digest)
    PROVE  LeafOf(Append(refs, ref), i, p)
                <=> LeafOf(refs, i, p) /\ Spares(ref.digest, p, refs[i].digest[p])
  <1> DEFINE more == Append(refs, ref)
  <1>1. /\ more[i] = refs[i] /\ i \in Nat /\ \A j \in 1 .. i : j \in DOMAIN refs /\ more[j] = refs[j]
    BY OneMoreSource
  <1>2. \A j \in DOMAIN refs : \A q :
            Survives(more, j, q)
                <=> Survives(refs, j, q) /\ Spares(ref.digest, q, refs[j].digest[q])
    BY SurvivesOneMore
  <1>3. \A j \in DOMAIN refs : \A q \in DOMAIN refs[j].digest : q \in Paths
    BY DEF IsObject, Paths
  <1> HIDE DEF more
  <1>4. ASSUME LeafOf(refs, i, p), Spares(ref.digest, p, refs[i].digest[p])
        PROVE  LeafOf(more, i, p)
    BY <1>1, <1>2, <1>4 DEF LeafOf
  <1>5. ASSUME LeafOf(more, i, p)
        PROVE  LeafOf(refs, i, p) /\ Spares(ref.digest, p, refs[i].digest[p])
    <2>1. /\ p \in DOMAIN refs[i].digest
          /\ Survives(refs, i, p) /\ Spares(ref.digest, p, refs[i].digest[p])
      BY <1>1, <1>2, <1>5 DEF LeafOf
    <2>2. ASSUME refs[i].digest[p] = EmptyObject, NEW j \in 1 .. i,
                 NEW q \in DOMAIN refs[j].digest, Below(p, q)
          PROVE  ~Survives(refs, j, q)
      <3>1. ~Survives(more, j, q)
        BY <1>1, <1>5, <2>2 DEF LeafOf
      <3>2. Spares(ref.digest, q, refs[j].digest[q])
        BY <1>1, <1>3, <2>1, <2>2, SparesBelow
      <3> QED
        BY <1>1, <1>2, <3>1, <3>2
    <2> QED
      BY <2>1, <2>2 DEF LeafOf
  <1> QED
    BY <1>4, <1>5 DEF more

------------------------------------------------------------------------------
(* The invariant of the merge.                                              *)

\* A leaf of the value is one of a source, which is its origin.
FromSource(snap, p) ==
    /\ p \in DOMAIN snap.origins
    /\ \E i \in DOMAIN snap.sources :
          /\ LeafOf(snap.sources, i, p) /\ snap.origins[p] = snap.sources[i]
          /\ IF p = Instructions THEN AreUnited(snap.value[p].items, snap.sources)
             ELSE snap.value[p] = snap.sources[i].digest[p]

Merged(snap) ==
    /\ snap.sources \in Seq(ToSet(snap.sources))
    /\ \A i \in DOMAIN snap.sources : IsObject(snap.sources[i].digest)
    /\ IsObject(snap.value)
    /\ \A i \in DOMAIN snap.sources : \A p \in DOMAIN snap.sources[i].digest :
          LeafOf(snap.sources, i, p) => p \in DOMAIN snap.value
    /\ \A p \in DOMAIN snap.value : FromSource(snap, p)
    /\ \A i \in DOMAIN snap.sources : \A p \in DOMAIN snap.sources[i].digest :
          Survives(snap.sources, i, p) =>
              p \in DOMAIN snap.value \/ \E q \in DOMAIN snap.value : Below(p, q)
    /\ InstructedBy(snap.sources) # {} => Instructions \in DOMAIN snap.value

------------------------------------------------------------------------------
(* The instructions.                                                        *)

LEMMA LeastOf ==
    ASSUME NEW T \in SUBSET Nat, T # {}
    PROVE  \E n \in T : \A m \in T : n <= m
  <1> DEFINE R == {ss \in Nat \X Nat : ss[1] < ss[2]}
  <1>1. IsWellFoundedOn(R, Nat)
    BY NatLessThanWellFounded DEF OpToRel
  <1>2. PICK n \in T : \A m \in T : <<m, n>> \notin R
    BY <1>1, WFMin
  <1>3. ASSUME NEW m \in T
        PROVE  n <= m
    <2>1. m \in Nat /\ n \in Nat /\ <<m, n>> \in Nat \X Nat
      OBVIOUS
    <2>2. ~(m < n)
      BY <1>2, <2>1
    <2> QED
      BY <2>1, <2>2
  <1> QED
    BY <1>3

\* A finite set of positions has one at every place, and only one.
LEMMA Places ==
    ASSUME NEW n \in Nat, NEW K \in SUBSET (1 .. n)
    PROVE  LET place(i) == Cardinality({j \in K : j <= i})
           IN /\ Cardinality(K) \in Nat
              /\ \A i \in K : place(i) \in 1 .. Cardinality(K)
              /\ \A i, k \in K : place(i) = place(k) => i = k
              /\ \A m \in 1 .. Cardinality(K) : \E i \in K : place(i) = m
  <1> DEFINE U(i) == {j \in K : j <= i}
             N == Cardinality(K)
             f == [i \in K |-> Cardinality(U(i))]
  <1>1. IsFiniteSet(K) /\ N \in Nat
    <2>1. IsFiniteSet(1 .. n)
      BY FS_Interval
    <2> QED
      BY <2>1, FS_Subset, FS_CardinalityType
  <1>2. ASSUME NEW i \in K
        PROVE  /\ IsFiniteSet(U(i)) /\ Cardinality(U(i)) \in Nat
               /\ Cardinality(U(i)) <= N /\ Cardinality(U(i)) # 0
    <2>1. U(i) \in SUBSET K /\ i \in U(i)
      OBVIOUS
    <2>2. IsFiniteSet(U(i)) /\ Cardinality(U(i)) <= N
      BY <1>1, <2>1, FS_Subset
    <2>3. Cardinality(U(i)) \in Nat /\ (Cardinality(U(i)) = 0 <=> U(i) = {})
      BY <2>2, FS_CardinalityType, FS_EmptySet
    <2> QED
      BY <2>1, <2>2, <2>3
  <1>3. ASSUME NEW i \in K, NEW k \in K, i < k
        PROVE  Cardinality(U(i)) # Cardinality(U(k))
    <2>1. U(i) \in SUBSET U(k) /\ k \in U(k) /\ k \notin U(i)
      <3>1. k \in Int /\ i \in Int /\ \A j \in K : j \in Int
        OBVIOUS
      <3>2. (\A j \in K : j <= i => j <= k) /\ k <= k /\ ~(k <= i)
        BY <1>3, <3>1
      <3> QED
        BY <3>2
    <2>2. IsFiniteSet(U(k))
      BY <1>2
    <2> QED
      BY <2>1, <2>2, FS_Subset
  <1>4. \A i, k \in K : Cardinality(U(i)) = Cardinality(U(k)) => i = k
    <2>1. \A i, k \in K : i = k \/ i < k \/ k < i
      OBVIOUS
    <2> QED
      BY <1>3, <2>1
  <1>5. \A i \in K : Cardinality(U(i)) \in 1 .. N
    BY <1>1, <1>2
  <1>6. f \in Injection(K, 1 .. N)
    BY <1>4, <1>5 DEF Injection, IsInjective
  <1>7. IsFiniteSet(1 .. N) /\ Cardinality(1 .. N) = N
    BY <1>1, FS_Interval
  <1>8. f \in Surjection(K, 1 .. N)
    BY <1>6, <1>7, FS_Injection
  <1>9. \A m \in 1 .. N : \E i \in K : f[i] = m
    BY <1>8 DEF Surjection
  <1> QED
    BY <1>1, <1>4, <1>5, <1>9

\* The items of two arrays.
LEMMA ConcatIsASequence ==
    ASSUME NEW a, a \in Seq(ToSet(a)), NEW b, b \in Seq(ToSet(b))
    PROVE  a \o b \in Seq(ToSet(a \o b)) /\ ToSet(a \o b) = ToSet(a) \cup ToSet(b)
  <1> DEFINE T == ToSet(a) \cup ToSet(b)
             c == a \o b
  <1>1. /\ a \in Seq(T) /\ b \in Seq(T) /\ Len(a) \in Nat /\ Len(b) \in Nat
        /\ DOMAIN a = 1 .. Len(a) /\ DOMAIN b = 1 .. Len(b)
    BY SeqMonotonic
  <1>2. /\ c \in Seq(T) /\ Len(c) = Len(a) + Len(b) /\ DOMAIN c = 1 .. Len(a) + Len(b)
        /\ \A i \in 1 .. Len(a) + Len(b) : c[i] = IF i <= Len(a) THEN a[i] ELSE b[i - Len(a)]
    <2> HIDE DEF T
    <2> QED
      BY <1>1, ConcatProperties
  <1> HIDE DEF c
  <1>3. c \in Seq(ToSet(c))
    <2>1. c \in [1 .. Len(a) + Len(b) -> ToSet(c)]
      BY <1>2 DEF ToSet
    <2> QED
      BY <1>1, <2>1, SeqDef
  <1>4. ToSet(c) \subseteq T
    BY <1>2 DEF ToSet
  <1>5. ASSUME NEW i \in 1 .. Len(a)
        PROVE  a[i] \in ToSet(c)
    <2>1. i \in DOMAIN c /\ c[i] = a[i]
      BY <1>1, <1>2
    <2> QED
      BY <2>1 DEF ToSet
  <1>6. ASSUME NEW i \in 1 .. Len(b)
        PROVE  b[i] \in ToSet(c)
    <2>1. Len(a) + i \in DOMAIN c /\ c[Len(a) + i] = b[i]
      BY <1>1, <1>2
    <2> QED
      BY <2>1 DEF ToSet
  <1>7. T \subseteq ToSet(c)
    BY <1>1, <1>5, <1>6 DEF ToSet
  <1> QED
    BY <1>3, <1>4, <1>7 DEF c

\* Every item once.
LEMMA OnceEach ==
    ASSUME NEW items, items \in Seq(ToSet(items))
    PROVE  /\ FirstOccurrences(items) \in Seq(ToSet(FirstOccurrences(items)))
           /\ ToSet(FirstOccurrences(items)) = ToSet(items)
           /\ IsInjective(FirstOccurrences(items))
  <1> DEFINE firsts == {i \in DOMAIN items : \A j \in 1 .. i - 1 : items[j] # items[i]}
             place(i) == Cardinality({j \in firsts : j <= i})
             N == Cardinality(firsts)
             at(m) == CHOOSE i \in firsts : place(i) = m
             f == FirstOccurrences(items)
  <1>1. /\ Len(items) \in Nat /\ DOMAIN items = 1 .. Len(items)
        /\ firsts \in SUBSET (1 .. Len(items))
    OBVIOUS
  <1>2. /\ N \in Nat
        /\ \A i \in firsts : place(i) \in 1 .. N
        /\ \A i, k \in firsts : place(i) = place(k) => i = k
        /\ \A m \in 1 .. N : \E i \in firsts : place(i) = m
    <2> HIDE DEF firsts
    <2> QED
      BY <1>1, Places
  <1>3. f = [m \in 1 .. N |-> items[at(m)]]
    BY DEF FirstOccurrences
  <1>4. \A i, k \in firsts : items[i] = items[k] => i = k
    <2> SUFFICES ASSUME NEW i \in firsts, NEW k \in firsts, items[i] = items[k], i # k
                 PROVE  FALSE
      OBVIOUS
    <2>1. i \in 1 .. k - 1 \/ k \in 1 .. i - 1
      BY <1>1
    <2> QED
      BY <2>1
  <1>5. \A k \in DOMAIN items : \E i \in firsts : items[i] = items[k]
    <2> SUFFICES ASSUME NEW k \in DOMAIN items
                 PROVE  \E i \in firsts : items[i] = items[k]
      OBVIOUS
    <2> DEFINE T == {j \in DOMAIN items : items[j] = items[k]}
    <2>1. T \in SUBSET Nat /\ T # {}
      BY <1>1
    <2>2. PICK i \in T : \A m \in T : i <= m
      <3> HIDE DEF T
      <3> QED
        BY <2>1, LeastOf
    <2>3. \A j \in 1 .. i - 1 : items[j] # items[i]
      <3> SUFFICES ASSUME NEW j \in 1 .. i - 1, items[j] = items[i]
                   PROVE  FALSE
        OBVIOUS
      <3>1. i \in Nat /\ j \in DOMAIN items /\ j < i
        BY <1>1
      <3>2. j \in T
        BY <3>1
      <3> QED
        BY <2>2, <3>1, <3>2
    <2> QED
      BY <2>3
  <1> HIDE DEF firsts, place, N
  <1>6. \A m \in 1 .. N : at(m) \in firsts /\ place(at(m)) = m
    BY <1>2
  <1>7. \A i \in firsts : at(place(i)) = i
    BY <1>2, <1>6
  <1> HIDE DEF at, f
  <1>8. DOMAIN f = 1 .. N /\ \A m \in 1 .. N : f[m] = items[at(m)]
    BY <1>3
  <1>9. f \in Seq(ToSet(f))
    <2>1. f \in [1 .. N -> ToSet(f)]
      BY <1>3, <1>8 DEF ToSet
    <2> QED
      BY <1>2, <2>1, SeqDef
  <1>10. ToSet(f) = ToSet(items)
    <2>1. ToSet(f) \subseteq ToSet(items)
      BY <1>1, <1>6, <1>8 DEF ToSet
    <2>2. ASSUME NEW i \in firsts
          PROVE  items[i] \in ToSet(f)
      BY <1>2, <1>7, <1>8 DEF ToSet
    <2> QED
      BY <1>5, <2>1, <2>2 DEF ToSet
  <1>11. IsInjective(f)
    <2> SUFFICES ASSUME NEW a \in 1 .. N, NEW b \in 1 .. N, f[a] = f[b]
                 PROVE  a = b
      BY <1>8 DEF IsInjective
    <2>1. items[at(a)] = items[at(b)] /\ at(a) \in firsts /\ at(b) \in firsts
      BY <1>6, <1>8
    <2>2. at(a) = at(b)
      BY <1>4, <2>1
    <2> QED
      BY <1>6, <2>2
  <1> QED
    BY <1>9, <1>10, <1>11 DEF f

------------------------------------------------------------------------------
(* A merge keeps the invariant.                                             *)

\* Where a leaf lands, the origin of no leaf that is kept goes.
LEMMA OriginsStay ==
    ASSUME NEW value, IsObject(value), NEW doc, IsObject(doc),
           NEW p \in Kept(value, doc), NEW q \in Landing(value, doc)
    PROVE  ~IsPrefix(Replaced(value, q), p)
  <1> DEFINE stops == {n \in 1 .. Len(q) : n = Len(q) \/ ~ObjectAt(value, SubSeq(q, 1, n))}
             n == CHOOSE m \in stops : \A k \in stops : m <= k
             o == SubSeq(q, 1, n)
  <1>1. /\ p \in Paths /\ q \in Paths /\ q # <<>> /\ p \in DOMAIN value
        /\ ~IsPrefix(q, p) /\ ~IsPrefix(p, q)
    BY DEF Kept, Landing, IsObject, Paths
  <1>2. Len(q) \in stops /\ stops \in SUBSET Nat
    BY <1>1 DEF Paths
  <1>3. n \in stops
    <2> HIDE DEF stops
    <2>1. \E m \in stops : \A k \in stops : m <= k
      BY <1>2, LeastOf
    <2> QED
      BY <2>1
  <1>4. Replaced(value, q) = o
    BY DEF Replaced
  <1> HIDE DEF n
  <1>5. n \in 1 .. Len(q) /\ (n = Len(q) \/ ~ObjectAt(value, o))
    BY <1>3
  <1>6. /\ o \in Paths /\ Len(o) = n /\ \A i \in 1 .. n : o[i] = q[i]
    BY <1>1, <1>5 DEF Paths
  <1> HIDE DEF o, stops
  <1>7. IsPrefix(o, q)
    BY <1>1, <1>5, <1>6, PrefixAt DEF Paths
  <1>8. CASE n = Len(q)
    <2>1. o = q
      BY <1>1, <1>6, <1>8, SeqEqual DEF Paths
    <2> QED
      BY <1>1, <1>4, <2>1
  <1>9. CASE ~ObjectAt(value, o)
    <2>1. ~Below(o, p)
      BY <1>1, <1>9 DEF ObjectAt
    <2>2. o # p
      BY <1>1, <1>7
    <2> QED
      BY <1>1, <1>4, <1>6, <2>1, <2>2, PathsAreOrdered
  <1> QED
    BY <1>5, <1>8, <1>9

LEMMA MergedOrigins ==
    ASSUME NEW value, IsObject(value), NEW doc, IsObject(doc), NEW origins, NEW ref
    PROVE  LET more == MergeOrigins(value, origins, doc, ref)
           IN /\ \A p \in Landing(value, doc) : p \in DOMAIN more /\ more[p] = ref
              /\ \A p \in Kept(value, doc) :
                    p \in DOMAIN origins => p \in DOMAIN more /\ more[p] = origins[p]
  <1> DEFINE kept == {q \in DOMAIN origins :
                         \A p \in Landing(value, doc) : ~IsPrefix(Replaced(value, p), q)}
             more == MergeOrigins(value, origins, doc, ref)
  <1>1. more = [p \in kept \cup Landing(value, doc) |->
                   IF p \in Landing(value, doc) THEN ref ELSE origins[p]]
    BY DEF MergeOrigins, Landing
  <1>2. ASSUME NEW p \in Kept(value, doc), p \in DOMAIN origins
        PROVE  p \in kept /\ p \notin Landing(value, doc)
    <2>1. p \in kept
      BY <1>2, OriginsStay
    <2>2. p \in Paths
      BY DEF Kept, IsObject, Paths
    <2> QED
      BY <2>1, <2>2, PathsAreOrdered DEF Kept
  <1> HIDE DEF kept, more
  <1> QED
    BY <1>1, <1>2 DEF more

\* The leaves of the merged value are again those of an object.
LEMMA MergedIsObject ==
    ASSUME NEW value, IsObject(value), NEW doc, IsObject(doc)
    PROVE  IsObject(MergeValues(value, doc))
  <1> DEFINE merged == MergeValues(value, doc)
             K == Kept(value, doc)
             L == Landing(value, doc)
  <1>1. /\ DOMAIN merged = K \cup L /\ K \subseteq DOMAIN value /\ L \subseteq DOMAIN doc
        /\ \A p \in L : merged[p] = MergedLeaf(value, doc, p)
        /\ \A p \in K : p \notin L => merged[p] = value[p]
    BY MergedValue DEF Kept, Landing
  <1>2. \A p \in DOMAIN value \cup DOMAIN doc :
            p \in Paths /\ p # <<>> /\ ~Below(Instructions, p)
    BY DEF IsObject, Paths
  <1>3. \A p, q \in DOMAIN merged : ~Below(p, q)
    <2>1. \A p, q \in K : ~Below(p, q)
      BY <1>1 DEF IsObject
    <2>2. \A p, q \in L : ~Below(p, q)
      BY <1>1 DEF IsObject
    <2>3. \A p \in K, q \in L : ~IsPrefix(p, q) /\ ~IsPrefix(q, p)
      BY DEF Kept
    <2>4. \A p \in K, q \in L : ~Below(p, q) /\ ~Below(q, p)
      BY <1>1, <1>2, <2>3, PathsAreOrdered
    <2> QED
      BY <1>1, <2>1, <2>2, <2>4
  <1>4. ASSUME Instructions \in DOMAIN merged
        PROVE  /\ merged[Instructions].kind = "array"
               /\ merged[Instructions].items \in Seq(ToSet(merged[Instructions].items))
    <2>1. CASE Instructions \notin L
      BY <1>1, <1>4, <2>1 DEF IsObject
    <2>2. CASE Instructions \in L /\ Instructions \notin DOMAIN value
      <3>1. merged[Instructions] = doc[Instructions] /\ Instructions \in DOMAIN doc
        BY <1>1, <2>2 DEF MergedLeaf
      <3> QED
        BY <3>1 DEF IsObject
    <2>3. CASE Instructions \in L /\ Instructions \in DOMAIN value
      <3> DEFINE a == value[Instructions].items
                 b == doc[Instructions].items
      <3>1. /\ a \in Seq(ToSet(a)) /\ b \in Seq(ToSet(b))
        BY <1>1, <2>3 DEF IsObject
      <3>2. merged[Instructions] = [kind |-> "array", items |-> FirstOccurrences(a \o b)]
        BY <1>1, <2>3 DEF MergedLeaf, Union
      <3> HIDE DEF a, b
      <3>3. a \o b \in Seq(ToSet(a \o b))
        BY <3>1, ConcatIsASequence
      <3>4. /\ FirstOccurrences(a \o b) \in Seq(ToSet(FirstOccurrences(a \o b)))
        BY <3>3, OnceEach
      <3>5. /\ merged[Instructions].kind = "array"
            /\ merged[Instructions].items = FirstOccurrences(a \o b)
        BY <3>2
      <3> HIDE DEF merged
      <3> QED
        BY <3>4, <3>5
    <2> QED
      BY <2>1, <2>2, <2>3
  <1> HIDE DEF merged
  <1> QED
    BY <1>1, <1>2, <1>3, <1>4 DEF IsObject, Paths, merged

\* The instructions of the merged value, if the last source has any.
LEMMA MergedInstructions ==
    ASSUME NEW snap, Merged(snap), NEW ref, IsObject(ref.digest),
           NEW refs, refs = Append(snap.sources, ref),
           Instructions \in DOMAIN ref.digest
    PROVE  AreUnited(MergedLeaf(snap.value, ref.digest, Instructions).items, refs)
  <1> DEFINE n == Len(snap.sources)
             Of(i) == ToSet(refs[i].digest[Instructions].items)
             a == snap.value[Instructions].items
             b == ref.digest[Instructions].items
             leaf == MergedLeaf(snap.value, ref.digest, Instructions)
             before == InstructedBy(snap.sources)
  <1>1. /\ n \in Nat /\ DOMAIN snap.sources = 1 .. n /\ DOMAIN refs = 1 .. n \cup {n + 1}
        /\ refs[n + 1] = ref /\ \A i \in 1 .. n : refs[i] = snap.sources[i]
    BY OneMoreSource, SeqMonotonic DEF Merged
  <1>2. InstructedBy(refs) = before \cup {n + 1} /\ before \subseteq 1 .. n /\ Of(n + 1) = ToSet(b)
    BY <1>1 DEF InstructedBy
  <1>3. UNION {Of(i) : i \in InstructedBy(refs)} = (UNION {Of(i) : i \in before}) \cup ToSet(b)
    <2> HIDE DEF Of, before, n
    <2> QED
      BY <1>2
  <1>4. UNION {Of(i) : i \in before}
          = UNION {ToSet(snap.sources[i].digest[Instructions].items) : i \in before}
    BY <1>1, <1>2
  <1>5. CASE Instructions \in DOMAIN snap.value
    <2>1. leaf.items = FirstOccurrences(a \o b)
      BY <1>5 DEF MergedLeaf, Union
    <2>2. AreUnited(a, snap.sources)
      BY <1>5 DEF Merged, FromSource
    <2>3. a \in Seq(ToSet(a)) /\ b \in Seq(ToSet(b))
      BY <1>5 DEF Merged, IsObject
    <2>4. /\ ToSet(FirstOccurrences(a \o b)) = ToSet(a) \cup ToSet(b)
          /\ IsInjective(FirstOccurrences(a \o b))
      <3> HIDE DEF a, b
      <3>1. a \o b \in Seq(ToSet(a \o b)) /\ ToSet(a \o b) = ToSet(a) \cup ToSet(b)
        BY <2>3, ConcatIsASequence
      <3> QED
        BY <3>1, OnceEach
    <2>5. ToSet(a) = UNION {Of(i) : i \in before}
      BY <1>4, <2>2 DEF AreUnited
    <2> HIDE DEF leaf
    <2>6. ToSet(leaf.items) = UNION {Of(i) : i \in InstructedBy(refs)}
      BY <1>3, <2>1, <2>4, <2>5
    <2> QED
      BY <2>1, <2>4, <2>6 DEF AreUnited, leaf
  <1>6. CASE Instructions \notin DOMAIN snap.value
    <2>1. before = {} /\ leaf = ref.digest[Instructions]
      BY <1>6 DEF Merged, MergedLeaf
    <2>2. InstructedBy(refs) = {n + 1}
      BY <1>2, <2>1
    <2>3. ToSet(leaf.items) = UNION {Of(i) : i \in InstructedBy(refs)}
      BY <1>2, <2>1, <2>2
    <2> QED
      BY <2>2, <2>3 DEF AreUnited
  <1> QED
    BY <1>5, <1>6

\* A path that is not that of the root is not above the instructions.
LEMMA NothingAbove ==
    ASSUME NEW q \in Paths, q # <<>>, Instructions \in Paths
    PROVE  ~Below(q, Instructions)
  <1>1. Len(Instructions) = 1
    BY DEF Instructions
  <1>2. Len(q) \in Nat \ {0}
    BY DEF Paths
  <1>3. ASSUME IsPrefix(q, Instructions)
        PROVE  q = Instructions
    <2>1. Len(q) = Len(Instructions) /\ \A i \in 1 .. Len(q) : q[i] = Instructions[i]
      BY <1>1, <1>2, <1>3, PrefixAt
    <2> QED
      BY <1>1, <2>1, SeqEqual DEF Paths
  <1>4. ~IsStrictPrefix(q, Instructions)
    BY <1>3 DEF IsStrictPrefix
  <1> QED
    BY <1>1, <1>4 DEF Below

LEMMA MergeKeeps ==
    ASSUME NEW snap, Merged(snap), NEW ref, IsObject(ref.digest), NEW next,
           next.value = MergeValues(snap.value, ref.digest),
           next.origins = MergeOrigins(snap.value, snap.origins, ref.digest, ref),
           next.sources = Append(snap.sources, ref)
    PROVE  Merged(next)
  <1> DEFINE value == snap.value
             doc == ref.digest
             refs == snap.sources
             more == next.sources
             n == Len(snap.sources)
             K == Kept(value, doc)
             L == Landing(value, doc)
  <1>1. /\ refs \in Seq(ToSet(refs) \cup {ref}) /\ IsObject(value) /\ IsObject(doc)
        /\ \A i \in DOMAIN refs : IsObject(refs[i].digest)
    BY SeqMonotonic DEF Merged
  <1>2. /\ n \in Nat /\ DOMAIN refs = 1 .. n /\ DOMAIN more = 1 .. n \cup {n + 1} /\ Len(more) = n + 1
        /\ more[n + 1] = ref /\ \A i \in 1 .. n : more[i] = refs[i]
    BY <1>1, OneMoreSource
  <1>3. /\ DOMAIN next.value = K \cup L /\ K \subseteq DOMAIN value /\ L \subseteq DOMAIN doc
        /\ \A p \in L : next.value[p] = MergedLeaf(value, doc, p)
        /\ \A p \in K : p \notin L => next.value[p] = value[p]
    <2>1. K \subseteq DOMAIN value /\ L \subseteq DOMAIN doc
      BY DEF Kept, Landing
    <2>2. next.value = MergeValues(value, doc) /\ K = Kept(value, doc) /\ L = Landing(value, doc)
      OBVIOUS
    <2> HIDE DEF K, L, value, doc
    <2>3. /\ DOMAIN MergeValues(value, doc) = Kept(value, doc) \cup Landing(value, doc)
          /\ \A p \in Landing(value, doc) : MergeValues(value, doc)[p] = MergedLeaf(value, doc, p)
          /\ \A p \in Kept(value, doc) :
                p \notin Landing(value, doc) => MergeValues(value, doc)[p] = value[p]
      BY MergedValue
    <2> QED
      BY <2>1, <2>2, <2>3
  <1>4. /\ \A p \in L : p \in DOMAIN next.origins /\ next.origins[p] = ref
        /\ \A p \in K : p \in DOMAIN snap.origins =>
                p \in DOMAIN next.origins /\ next.origins[p] = snap.origins[p]
    BY <1>1, MergedOrigins
  <1>5. /\ \A p : Survives(more, n + 1, p)
        /\ \A i \in DOMAIN refs : \A p :
             /\ Survives(more, i, p) <=> Survives(refs, i, p) /\ Spares(doc, p, refs[i].digest[p])
             /\ LeafOf(more, i, p) <=> LeafOf(refs, i, p) /\ Spares(doc, p, refs[i].digest[p])
    <2>1. more = Append(refs, ref) /\ n = Len(refs) /\ doc = ref.digest /\ ref \in ToSet(refs) \cup {ref}
      OBVIOUS
    <2> HIDE DEF refs, more, n, doc
    <2> QED
      BY <1>1, <2>1, SurvivesOneMore, LeafOfOneMore
  <1>6. /\ \A p \in DOMAIN value \cup DOMAIN doc : p \in Paths
        /\ \A i \in DOMAIN refs : \A p \in DOMAIN refs[i].digest : p \in Paths
    BY <1>1 DEF IsObject, Paths
  <1>7. /\ \A p \in K : Spares(doc, p, value[p]) /\ p \notin L
        /\ \A p \in DOMAIN value : Spares(doc, p, value[p]) => p \in K
    <2>1. \A p \in K : p \notin L
      BY <1>3, <1>6, PathsAreOrdered DEF Kept
    <2> QED
      BY <1>1, <1>3, <2>1, KeptIfSpared
  <1>8. /\ \A q \in DOMAIN doc \ L :
              doc[q] = EmptyObject /\ (q \in K \/ \E r \in K : Below(q, r))
        /\ Instructions \in DOMAIN doc => Instructions \in L /\ doc[Instructions] # EmptyObject
    BY <1>1, Skips, InstructionsLand
  <1>9. next.value = MergeValues(value, doc)
    OBVIOUS
  <1>10. /\ \A p \in DOMAIN value : FromSource(snap, p)
         /\ \A i \in DOMAIN refs : \A p \in DOMAIN refs[i].digest :
              /\ LeafOf(refs, i, p) => p \in DOMAIN value
              /\ Survives(refs, i, p) =>
                   p \in DOMAIN value \/ \E q \in DOMAIN value : Below(p, q)
         /\ InstructedBy(refs) # {} => Instructions \in DOMAIN value
    BY DEF Merged
  <1>11. more \in Seq(ToSet(more))
    <2>1. more = Append(refs, ref) /\ ref \in ToSet(refs) \cup {ref}
      OBVIOUS
    <2> HIDE DEF refs, more, n
    <2>2. more \in Seq(ToSet(refs) \cup {ref})
      BY <1>1, <2>1, AppendProperties
    <2>3. \A i \in 1 .. n + 1 : more[i] \in ToSet(more)
      BY <1>2 DEF ToSet
    <2>4. more \in [1 .. n + 1 -> ToSet(more)]
      BY <1>2, <2>2, <2>3
    <2> QED
      BY <1>2, <2>4, SeqDef
  <1>12. refs = snap.sources /\ value = snap.value /\ more = next.sources /\ doc = ref.digest
    OBVIOUS
  <1>13. Instructions \in L => AreUnited(MergedLeaf(value, doc, Instructions).items, more)
    BY <1>3, MergedInstructions
  <1> HIDE DEF value, doc, refs, more, n, K, L
  <1>14. \A i \in DOMAIN more : IsObject(more[i].digest)
    BY <1>1, <1>2, <1>12
  <1>15. IsObject(next.value)
    BY <1>1, <1>9, MergedIsObject
  \* What doc spares of the value is kept, or is there again below.
  <1>16. ASSUME NEW p \in DOMAIN value, NEW leaf, Spares(doc, p, leaf)
         PROVE  p \in K \cup L
    <2>1. CASE p \in DOMAIN doc
      <3>1. \A r \in K : ~Below(p, r)
        BY <1>1, <1>3 DEF IsObject
      <3> QED
        BY <1>8, <2>1, <3>1
    <2>2. CASE p \notin DOMAIN doc
      BY <1>7, <1>16, <2>2 DEF Spares
    <2> QED
      BY <2>1, <2>2
  <1>17. ASSUME NEW p \in K
         PROVE  FromSource(next, p)
    <2>1. PICK i \in DOMAIN refs :
            /\ p \in DOMAIN snap.origins
            /\ LeafOf(refs, i, p) /\ snap.origins[p] = refs[i]
            /\ IF p = Instructions THEN AreUnited(value[p].items, refs)
               ELSE value[p] = refs[i].digest[p]
      BY <1>3, <1>10, <1>12 DEF FromSource
    <2>2. p = Instructions => p \notin DOMAIN doc
      BY <1>7, <1>8
    <2>3. Spares(doc, p, refs[i].digest[p])
      BY <1>7, <2>1, <2>2 DEF Spares
    <2>4. LeafOf(more, i, p) /\ i \in DOMAIN more /\ more[i] = refs[i]
      BY <1>2, <1>5, <2>1, <2>3
    <2>5. /\ p \in DOMAIN next.origins /\ next.origins[p] = more[i]
          /\ next.value[p] = value[p]
      BY <1>3, <1>4, <1>7, <2>1, <2>4
    <2>6. p = Instructions => AreUnited(value[p].items, more)
      <3> SUFFICES ASSUME p = Instructions
                   PROVE  AreUnited(value[p].items, more)
        OBVIOUS
      <3>1. InstructedBy(more) = InstructedBy(refs) /\ InstructedBy(refs) \subseteq DOMAIN refs
        BY <1>2, <1>12, <2>2 DEF InstructedBy
      <3>2. \A j \in InstructedBy(refs) : more[j] = refs[j]
        BY <1>2, <3>1
      <3>3. UNION {ToSet(more[j].digest[Instructions].items) : j \in InstructedBy(more)}
              = UNION {ToSet(refs[j].digest[Instructions].items) : j \in InstructedBy(refs)}
        BY <3>1, <3>2
      <3> QED
        BY <2>1, <3>1, <3>3 DEF AreUnited
    <2> QED
      BY <1>12, <2>1, <2>4, <2>5, <2>6 DEF FromSource
  <1>18. ASSUME NEW p \in L
         PROVE  FromSource(next, p)
    <2>1. n + 1 \in DOMAIN more /\ more[n + 1].digest = doc /\ p \in DOMAIN doc
      BY <1>2, <1>3, <1>12
    <2>2. ASSUME doc[p] = EmptyObject, NEW j \in 1 .. n + 1, NEW q \in DOMAIN more[j].digest,
                 Below(p, q)
          PROVE  ~Survives(more, j, q)
      <3>1. CASE j = n + 1
        BY <1>1, <2>1, <2>2, <3>1 DEF IsObject
      <3>2. CASE j \in 1 .. n
        <4> SUFFICES ASSUME Survives(more, j, q)
                     PROVE  FALSE
          OBVIOUS
        <4>1. j \in DOMAIN refs /\ q \in DOMAIN refs[j].digest /\ Survives(refs, j, q)
          BY <1>2, <1>5, <2>2, <3>2
        <4>2. PICK r \in DOMAIN value : r = q \/ Below(q, r)
          BY <1>10, <4>1
        <4>3. Below(p, r)
          BY <1>6, <2>1, <2>2, <4>1, <4>2, PathsAreOrdered
        <4>4. ~ObjectAt(value, p)
          BY <2>2 DEF L, Landing, Lands
        <4> QED
          BY <4>3, <4>4 DEF ObjectAt
      <3> QED
        BY <1>2, <3>1, <3>2
    <2>3. LeafOf(more, n + 1, p)
      BY <1>5, <2>1, <2>2 DEF LeafOf
    <2>4. /\ p \in DOMAIN next.origins /\ next.origins[p] = more[n + 1]
          /\ next.value[p] = MergedLeaf(value, doc, p)
      BY <1>2, <1>3, <1>4
    <2>5. p # Instructions => MergedLeaf(value, doc, p) = doc[p]
      BY DEF MergedLeaf
    <2> QED
      BY <1>12, <1>13, <2>1, <2>3, <2>4, <2>5 DEF FromSource
  <1>19. ASSUME NEW i \in DOMAIN more, NEW p \in DOMAIN more[i].digest, LeafOf(more, i, p)
         PROVE  p \in DOMAIN next.value
    <2>1. CASE i \in DOMAIN refs
      <3>1. LeafOf(refs, i, p) /\ Spares(doc, p, refs[i].digest[p]) /\ p \in DOMAIN refs[i].digest
        BY <1>2, <1>5, <1>19, <2>1
      <3>2. p \in DOMAIN value
        BY <1>10, <2>1, <3>1
      <3> QED
        BY <1>3, <1>16, <3>1, <3>2
    <2>2. CASE i = n + 1
      <3>1. p \in DOMAIN doc
        BY <1>2, <1>12, <2>2
      <3>2. ASSUME p \notin L, NEW r \in K, Below(p, r)
            PROVE  FALSE
        <4>1. doc[p] = EmptyObject
          BY <1>8, <3>1, <3>2
        <4>2. PICK j \in DOMAIN more : LeafOf(more, j, r)
          BY <1>12, <1>17 DEF FromSource
        <4>3. j \in 1 .. i /\ r \in DOMAIN more[j].digest /\ Survives(more, j, r)
          BY <1>2, <2>2, <4>2 DEF LeafOf
        <4>4. more[i].digest[p] = EmptyObject
          BY <1>2, <1>12, <2>2, <4>1
        <4> QED
          BY <1>19, <3>2, <4>3, <4>4 DEF LeafOf
      <3> QED
        BY <1>3, <1>8, <3>1, <3>2
    <2> QED
      BY <1>2, <2>1, <2>2
  <1>20. ASSUME NEW i \in DOMAIN more, NEW p \in DOMAIN more[i].digest, Survives(more, i, p)
         PROVE  p \in DOMAIN next.value \/ \E q \in DOMAIN next.value : Below(p, q)
    <2>1. CASE i \in DOMAIN refs
      <3>1. /\ p \in DOMAIN refs[i].digest /\ p \in Paths
            /\ Survives(refs, i, p) /\ Spares(doc, p, refs[i].digest[p])
        BY <1>2, <1>5, <1>6, <1>20, <2>1
      <3>2. CASE p \in DOMAIN value
        BY <1>3, <1>16, <3>1, <3>2
      <3>3. ASSUME NEW r \in DOMAIN value, Below(p, r)
            PROVE  r \in K
        BY <1>1, <1>6, <1>7, <3>1, <3>3, SparesBelow
      <3> QED
        BY <1>3, <1>10, <2>1, <3>1, <3>2, <3>3
    <2>2. CASE i = n + 1
      <3>1. p \in DOMAIN doc
        BY <1>2, <1>12, <2>2
      <3> QED
        BY <1>3, <1>8, <3>1
    <2> QED
      BY <1>2, <2>1, <2>2
  <1>21. ASSUME InstructedBy(more) # {}
         PROVE  Instructions \in DOMAIN next.value
    <2>1. CASE Instructions \in DOMAIN doc
      BY <1>3, <1>8, <2>1
    <2>2. CASE Instructions \notin DOMAIN doc
      <3>1. InstructedBy(refs) # {}
        BY <1>2, <1>12, <1>21, <2>2 DEF InstructedBy
      <3>2. Instructions \in DOMAIN value
        BY <1>10, <3>1
      <3>3. \A q \in DOMAIN doc : ~Below(q, Instructions) /\ ~Below(Instructions, q)
        <4>1. Instructions \in Paths
          BY <1>6, <3>2
        <4> QED
          BY <1>1, <4>1, NothingAbove DEF IsObject, Paths
      <3>4. Spares(doc, Instructions, value[Instructions])
        BY <2>2, <3>3 DEF Spares
      <3> QED
        BY <1>3, <1>7, <3>2, <3>4
    <2> QED
      BY <2>1, <2>2
  <1> QED
    BY <1>3, <1>11, <1>12, <1>14, <1>15, <1>17, <1>18, <1>19, <1>20, <1>21 DEF Merged

------------------------------------------------------------------------------
(* Reloads.                                                                 *)

\* A snapshot has four fields, and so has the state of a call.
Whole(snap) == DOMAIN snap = {"value", "origins", "sources", "generation"}
WholeCall(call) == DOMAIN call = {"phase", "left", "seen", "next"}

\* What the snapshot of a call is, by its phase: nothing before it has the
\* lock, the next generation while it has it, and one of those that were
\* published when it is answered.
CallInv(c) ==
    /\ WholeCall(reload[c]) /\ Whole(reload[c].next)
    /\ reload[c].phase = "resolving" <=> reloadMu = c
    /\ reload[c].phase \in {"idle", "locking"} => reload[c].next = NoSnapshot
    /\ reload[c].phase = "resolving" =>
          Merged(reload[c].next) /\ reload[c].next.generation = current.generation + 1
    /\ reload[c].phase = "answered" => reload[c].next.generation \in 1 .. current.generation

ConfigInv ==
    /\ Merged(current) /\ Whole(current) /\ current.generation \in Nat
    /\ DOMAIN reload = Reloaders
    /\ \A c \in Reloaders : CallInv(c)
    /\ GenerationsDiffer

LEMMA MergedAlike ==
    ASSUME NEW snap, NEW next, Merged(snap), next.value = snap.value,
           next.origins = snap.origins, next.sources = snap.sources
    PROVE  Merged(next)
  BY DEF Merged, FromSource

LEMMA NothingIsMerged == Merged(NoSnapshot) /\ Whole(NoSnapshot) /\ NoSnapshot.generation = 0
  <1>1. /\ NoSnapshot.sources = <<>> /\ NoSnapshot.value = NoDocument /\ DOMAIN NoDocument = {}
        /\ NoSnapshot.generation = 0 /\ DOMAIN NoSnapshot.sources = {}
    BY DEF NoSnapshot, NoDocument
  <1>2. NoSnapshot.sources \in Seq(ToSet(NoSnapshot.sources))
    BY <1>1 DEF ToSet
  <1>3. IsObject(NoSnapshot.value) /\ InstructedBy(NoSnapshot.sources) = {}
    BY <1>1 DEF IsObject, InstructedBy
  <1>4. Whole(NoSnapshot)
    BY DEF Whole, NoSnapshot
  <1> QED
    BY <1>1, <1>2, <1>3, <1>4 DEF Merged

LEMMA NoCallsYet == ConfigInit => ConfigInv
  <1> SUFFICES ASSUME ConfigInit
               PROVE  ConfigInv
    OBVIOUS
  <1>1. /\ current = NoSnapshot /\ reloadMu = NoReloader
        /\ reload = [c \in Reloaders |-> Idle]
    BY DEF ConfigInit
  <1>2. /\ Idle.phase = "idle" /\ Idle.next = NoSnapshot /\ WholeCall(Idle)
    BY DEF Idle, WholeCall
  <1>3. ASSUME NEW c \in Reloaders
        PROVE  CallInv(c)
    BY <1>1, <1>2, NothingIsMerged, ReloaderAssumption DEF CallInv
  <1>4. GenerationsDiffer
    BY <1>1, <1>2 DEF GenerationsDiffer
  <1> QED
    BY <1>1, <1>3, <1>4, NothingIsMerged DEF ConfigInv

\* The step is one of the call of c, which takes or gives up the lock or
\* leaves it alone.
StepOf(c) ==
    /\ DOMAIN reload' = Reloaders
    /\ \A d \in Reloaders : d # c => reload'[d] = reload[d]
    /\ reloadMu' \in {reloadMu, NoReloader, c}
    /\ reloadMu' # reloadMu => reloadMu \in {NoReloader, c}

\* A call that is not answered leaves the generations alone, and the other
\* calls where they are.
LEMMA StepStands ==
    ASSUME ConfigInv, NEW c \in Reloaders, StepOf(c), current' = current,
           CallInv(c)', reload'[c].phase # "answered"
    PROVE  ConfigInv'
  <1>1. ASSUME NEW d \in Reloaders, d # c
        PROVE  CallInv(d)'
    <2>1. reload'[d] = reload[d] /\ (reloadMu' = d <=> reloadMu = d) /\ CallInv(d)
      BY <1>1, ReloaderAssumption DEF ConfigInv, StepOf
    <2> QED
      BY <2>1 DEF CallInv
  <1>2. GenerationsDiffer'
    BY DEF ConfigInv, GenerationsDiffer, StepOf
  <1> QED
    BY <1>1, <1>2 DEF ConfigInv, Merged, FromSource, Whole, StepOf

LEMMA CallReloadStands ==
    ASSUME ConfigInv, NEW c \in Reloaders, NEW list, CallReload(c, list)
    PROVE  ConfigInv'
  <1>1. /\ reload[c].phase = "idle" /\ current' = current /\ reloadMu' = reloadMu
        /\ CallInv(c) /\ DOMAIN reload = Reloaders
    BY DEF CallReload, ConfigInv
  <1>2. /\ reload'[c].phase = "locking" /\ reload'[c].next = reload[c].next
        /\ DOMAIN reload'[c] = DOMAIN reload[c]
    BY <1>1 DEF CallReload, CallInv, WholeCall
  <1>3. StepOf(c)
    BY <1>1 DEF CallReload, StepOf
  <1>4. CallInv(c)'
    BY <1>1, <1>2 DEF CallInv, WholeCall
  <1> QED
    BY <1>1, <1>2, <1>3, <1>4, StepStands

LEMMA LockReloadStands ==
    ASSUME ConfigInv, NEW c \in Reloaders, LockReload(c)
    PROVE  ConfigInv'
  <1>1. /\ reload[c].phase = "locking" /\ current' = current /\ reloadMu' = c /\ reloadMu = NoReloader
        /\ WholeCall(reload[c]) /\ Whole(reload[c].next) /\ reload[c].next = NoSnapshot
        /\ DOMAIN reload = Reloaders
    BY DEF LockReload, ConfigInv, CallInv
  <1>2. /\ reload'[c].phase = "resolving" /\ DOMAIN reload'[c] = DOMAIN reload[c]
        /\ reload'[c].next = [reload[c].next EXCEPT !.generation = current.generation + 1]
    BY <1>1 DEF LockReload, WholeCall
  <1>3. /\ reload'[c].next.generation = current.generation + 1 /\ Whole(reload'[c].next)
        /\ reload'[c].next.value = NoSnapshot.value
        /\ reload'[c].next.origins = NoSnapshot.origins
        /\ reload'[c].next.sources = NoSnapshot.sources
    BY <1>1, <1>2 DEF Whole
  <1>4. Merged(reload'[c].next)
    BY <1>3, NothingIsMerged, MergedAlike
  <1>5. StepOf(c)
    BY <1>1 DEF LockReload, StepOf
  <1>6. CallInv(c)'
    BY <1>1, <1>2, <1>3, <1>4 DEF CallInv, WholeCall, Whole, Merged, FromSource
  <1> QED
    BY <1>1, <1>2, <1>5, <1>6, StepStands

LEMMA ResolveSourceStands ==
    ASSUME ConfigInv, NEW c \in Reloaders, ResolveSource(c)
    PROVE  ConfigInv'
  <1>1. PICK content \in Contents :
          LET source == Head(reload[c].left)
              next == reload[c].next
              doc == Restrict(content.doc,
                              {p \in DOMAIN content.doc : p[1] \notin DroppedKeys})
              ref == [id |-> source.id, kind |-> source.kind, digest |-> doc]
              merged == [value |-> MergeValues(next.value, doc),
                         origins |-> MergeOrigins(next.value, next.origins, doc, ref),
                         sources |-> Append(next.sources, ref),
                         generation |-> next.generation]
          IN /\ Usable(source, content)
             /\ reload' = [reload EXCEPT ![c].left = Tail(@),
                                         ![c].seen = @ \cup {source.id},
                                         ![c].next = IF Skipped(source, content)
                                                     THEN next ELSE merged]
    BY DEF ResolveSource
  <1> DEFINE source == Head(reload[c].left)
             next == reload[c].next
             doc == Restrict(content.doc,
                             {p \in DOMAIN content.doc : p[1] \notin DroppedKeys})
             ref == [id |-> source.id, kind |-> source.kind, digest |-> doc]
             merged == [value |-> MergeValues(next.value, doc),
                        origins |-> MergeOrigins(next.value, next.origins, doc, ref),
                        sources |-> Append(next.sources, ref),
                        generation |-> next.generation]
             snap == IF Skipped(source, content) THEN next ELSE merged
  <1>2. /\ reload[c].phase = "resolving" /\ current' = current /\ reloadMu' = reloadMu
        /\ WholeCall(reload[c]) /\ Whole(next) /\ reloadMu = c /\ Merged(next)
        /\ next.generation = current.generation + 1 /\ DOMAIN reload = Reloaders
    BY DEF ResolveSource, ConfigInv, CallInv
  <1>3. /\ reload' = [reload EXCEPT ![c].left = Tail(@), ![c].seen = @ \cup {source.id},
                                    ![c].next = snap]
        /\ Usable(source, content)
    BY <1>1
  <1>4. IsObject(content.doc)
    BY <1>3, ContentsAssumption DEF Usable
  <1>5. IsObject(doc)
    <2>1. /\ DOMAIN doc \subseteq DOMAIN content.doc
          /\ \A p \in DOMAIN doc : doc[p] = content.doc[p]
      BY DEF Restrict
    <2> HIDE DEF doc
    <2> QED
      BY <1>4, <2>1 DEF IsObject
  <1> HIDE DEF source, doc, next
  <1>6. /\ merged.value = MergeValues(next.value, ref.digest)
        /\ merged.origins = MergeOrigins(next.value, next.origins, ref.digest, ref)
        /\ merged.sources = Append(next.sources, ref)
        /\ merged.generation = next.generation /\ Whole(merged) /\ ref.digest = doc
    BY DEF Whole
  <1> HIDE DEF merged, ref
  <1>7. Merged(merged)
    BY <1>2, <1>5, <1>6, MergeKeeps
  <1>8. Merged(snap) /\ Whole(snap) /\ snap.generation = current.generation + 1
    BY <1>2, <1>6, <1>7
  <1> HIDE DEF snap
  <1>9. /\ reload'[c].phase = "resolving" /\ reload'[c].next = snap
        /\ DOMAIN reload'[c] = DOMAIN reload[c]
    BY <1>2, <1>3 DEF WholeCall
  <1>10. StepOf(c)
    BY <1>2, <1>3 DEF StepOf
  <1>11. CallInv(c)'
    BY <1>2, <1>8, <1>9 DEF CallInv, WholeCall, Whole, Merged, FromSource
  <1> QED
    BY <1>2, <1>9, <1>10, <1>11, StepStands

\* The fields of an answer.
LEMMA Answered ==
    ASSUME ConfigInv, NEW c \in Reloaders, reload[c].phase = "resolving",
           NEW phase, NEW snap, AnswerReload(c, phase, snap)
    PROVE  /\ reload'[c].phase = phase /\ reload'[c].next = snap /\ WholeCall(reload'[c])
           /\ StepOf(c) /\ reloadMu' = NoReloader /\ c # NoReloader
  <1>1. DOMAIN reload = Reloaders /\ reloadMu = c
    BY DEF ConfigInv, CallInv
  <1>2. DOMAIN Idle = {"phase", "left", "seen", "next"}
    BY DEF Idle
  <1>3. reload' = [reload EXCEPT ![c] = [Idle EXCEPT !.phase = phase, !.next = snap]]
    BY DEF AnswerReload
  <1>4. reloadMu' = NoReloader /\ c # NoReloader
    BY <1>1, ReloaderAssumption DEF AnswerReload
  <1> QED
    BY <1>1, <1>2, <1>3, <1>4 DEF StepOf, WholeCall

LEMMA FailureStands ==
    ASSUME ConfigInv, NEW c \in Reloaders, reload[c].phase = "resolving",
           AnswerReload(c, "failed", current), current' = current
    PROVE  ConfigInv'
  <1>1. /\ reload'[c].phase = "failed" /\ reload'[c].next = current /\ WholeCall(reload'[c])
        /\ StepOf(c) /\ reloadMu' = NoReloader /\ c # NoReloader
    BY Answered
  <1>2. CallInv(c)'
    BY <1>1 DEF CallInv, ConfigInv, Whole, WholeCall
  <1> QED
    BY <1>1, <1>2, StepStands

LEMMA PublishStands ==
    ASSUME ConfigInv, NEW c \in Reloaders, PublishSnapshot(c)
    PROVE  ConfigInv'
  <1> DEFINE snap == reload[c].next
  <1>1. /\ reload'[c].phase = "answered" /\ reload'[c].next = snap /\ WholeCall(reload'[c])
        /\ StepOf(c) /\ reloadMu' = NoReloader /\ c # NoReloader
    BY Answered DEF PublishSnapshot
  <1>2. /\ Merged(snap) /\ Whole(snap) /\ snap.generation = current.generation + 1
        /\ current.generation \in Nat /\ current' = snap /\ reloadMu = c
    BY DEF ConfigInv, CallInv, PublishSnapshot
  <1>3. \A d \in Reloaders : d # c => reload'[d] = reload[d]
    BY <1>1 DEF StepOf
  <1> HIDE DEF snap
  <1>4. CallInv(c)'
    BY <1>1, <1>2 DEF CallInv, WholeCall, Whole
  <1>5. ASSUME NEW d \in Reloaders, d # c
        PROVE  CallInv(d)'
    <2>1. CallInv(d) /\ reload'[d] = reload[d]
      BY <1>3, <1>5 DEF ConfigInv
    <2>2. reload[d].phase # "resolving" /\ reloadMu' # d
      BY <1>1, <1>2, <1>5, <2>1, ReloaderAssumption DEF CallInv
    <2>3. reload[d].phase = "answered" => reload[d].next.generation \in 1 .. current'.generation
      BY <1>2, <2>1 DEF CallInv
    <2> QED
      BY <1>1, <2>1, <2>2, <2>3 DEF CallInv
  \* The generation published is greater than all that were answered before.
  <1>6. GenerationsDiffer'
    <2>1. \A d \in Reloaders : d # c /\ reload[d].phase = "answered" =>
              reload[d].next.generation \in Nat /\ reload[d].next.generation < snap.generation
      BY <1>2 DEF ConfigInv, CallInv
    <2>2. \A a, b \in Reloaders :
            a # c /\ b # c /\ reload[a].phase = "answered" /\ reload[b].phase = "answered"
            /\ reload[a].next.generation = reload[b].next.generation => a = b
      BY DEF ConfigInv, GenerationsDiffer
    <2>3. snap.generation \in Nat
      BY <1>2
    <2>4. ASSUME NEW a \in Reloaders, reload'[a].phase = "answered"
          PROVE  /\ a # c => reload[a].phase = "answered" /\ reload'[a].next = reload[a].next
                 /\ reload'[a].next.generation <= snap.generation
                 /\ reload'[a].next.generation = snap.generation => a = c
      BY <1>1, <1>3, <2>1, <2>3, <2>4
    <2>5. ASSUME NEW a \in Reloaders, NEW b \in Reloaders,
                 reload'[a].phase = "answered", reload'[b].phase = "answered"
          PROVE  /\ reload'[a].next.generation <= snap.generation
                 /\ reload'[a].next.generation = snap.generation => reload'[a].next = snap
                 /\ reload'[a].next.generation = reload'[b].next.generation => a = b
      <3>1. /\ reload'[a].next.generation <= snap.generation
            /\ reload'[a].next.generation = snap.generation => reload'[a].next = snap
        BY <1>1, <2>4, <2>5
      <3>2. CASE a = c
        BY <1>1, <2>4, <2>5, <3>1, <3>2
      <3>3. CASE b = c
        BY <1>1, <2>4, <2>5, <3>1, <3>3
      <3>4. CASE a # c /\ b # c
        BY <2>2, <2>4, <2>5, <3>1, <3>4
      <3> QED
        BY <3>2, <3>3, <3>4
    <2> QED
      BY <1>2, <2>5 DEF GenerationsDiffer
  <1>7. Merged(current)' /\ Whole(current)' /\ (current.generation \in Nat)'
    BY <1>2 DEF Merged, FromSource, Whole
  <1> QED
    BY <1>1, <1>4, <1>5, <1>6, <1>7 DEF ConfigInv, StepOf

\* Whatever the configuration does, ConfigInv stands.
LEMMA ConfigStands == ConfigInv /\ [ConfigNext]_configVars => ConfigInv'
  <1> SUFFICES ASSUME ConfigInv, [ConfigNext]_configVars
               PROVE  ConfigInv'
    OBVIOUS
  <1>1. ASSUME NEW c \in Reloaders, NEW list, CallReload(c, list)
        PROVE  ConfigInv'
    BY <1>1, CallReloadStands
  <1>2. ASSUME NEW c \in Reloaders, LockReload(c)
        PROVE  ConfigInv'
    BY <1>2, LockReloadStands
  <1>3. ASSUME NEW c \in Reloaders, ResolveSource(c)
        PROVE  ConfigInv'
    BY <1>3, ResolveSourceStands
  <1>4. ASSUME NEW c \in Reloaders, ResolveFails(c) \/ ReloadCanceled(c)
        PROVE  ConfigInv'
    BY <1>4, FailureStands DEF ResolveFails, ReloadCanceled
  <1>5. ASSUME NEW c \in Reloaders, PublishSnapshot(c)
        PROVE  ConfigInv'
    BY <1>5, PublishStands
  <1>6. CASE UNCHANGED configVars
    <2>1. current' = current /\ reloadMu' = reloadMu /\ reload' = reload
      BY <1>6 DEF configVars
    <2>2. Merged(current)' /\ Whole(current)' /\ (current.generation \in Nat)'
      BY <2>1 DEF ConfigInv, Merged, FromSource, Whole
    <2>3. ASSUME NEW c \in Reloaders
          PROVE  CallInv(c)'
      <3>1. CallInv(c)
        BY DEF ConfigInv
      <3> QED
        BY <2>1, <3>1 DEF CallInv, Merged, FromSource, Whole, WholeCall
    <2>4. GenerationsDiffer'
      BY <2>1 DEF ConfigInv, GenerationsDiffer
    <2> QED
      BY <2>1, <2>2, <2>3, <2>4 DEF ConfigInv
  <1> QED
    BY <1>1, <1>2, <1>3, <1>4, <1>5, <1>6 DEF ConfigNext

\* A merged snapshot has exactly the leaves that no later source overrides.
LEMMA MergedIsTrue == Merged(current) => ProvenanceIsTrue
  <1> SUFFICES ASSUME Merged(current)
               PROVE  ProvenanceIsTrue
    OBVIOUS
  <1> DEFINE refs == current.sources
  <1>1. /\ \A i \in DOMAIN refs : \A p \in DOMAIN refs[i].digest :
              LeafOf(refs, i, p) => p \in DOMAIN current.value
        /\ \A p \in DOMAIN current.value : FromSource(current, p)
    BY DEF Merged
  <1>2. \A i \in DOMAIN refs : \A p : LeafOf(refs, i, p) => p \in DOMAIN refs[i].digest
    BY DEF LeafOf
  <1>3. \A p \in DOMAIN current.value : \E i \in DOMAIN refs :
          /\ LeafOf(refs, i, p) /\ current.origins[p] = refs[i]
          /\ IF p = Instructions THEN AreUnited(current.value[p].items, refs)
             ELSE current.value[p] = refs[i].digest[p]
    BY <1>1 DEF FromSource
  <1> HIDE DEF refs
  <1>4. DOMAIN current.value = {p \in UNION {DOMAIN refs[i].digest : i \in DOMAIN refs} :
                                    \E i \in DOMAIN refs : LeafOf(refs, i, p)}
    BY <1>1, <1>2, <1>3
  <1> QED
    BY <1>3, <1>4 DEF ProvenanceIsTrue, refs

\* Every snapshot published by a reload has, for whatever sources and files,
\* exactly the leaves that the precedence of its sources promises, each with
\* its value and the source it came from, and no two reloads, however they
\* interleave, answer with the same generation (Manager.Reload).
THEOREM SnapshotsStayTrue == ConfigSpec => []SnapshotsAreTrue
  <1>1. ConfigInv => SnapshotsAreTrue
    BY MergedIsTrue DEF ConfigInv, SnapshotsAreTrue
  <1> QED
    BY NoCallsYet, ConfigStands, <1>1, PTL DEF ConfigSpec

==============================================================================
