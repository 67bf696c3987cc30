----------------------------- MODULE PartsProofs -----------------------------
(****************************************************************************)
(* Proofs of the safety of the parts that run by themselves: the credential *)
(* of a provider, the migrations of the file, backup and rebuild, and the   *)
(* worktrees; for every number of callers and any length of a run.          *)
(****************************************************************************)
EXTENDS Credentials, Migrations, Maintenance, Worktrees,
        SequenceTheorems, FiniteSetTheorems, TLAPS

------------------------------------------------------------------------------
(* Credentials.                                                             *)

CredentialTypeOK ==
    /\ memory \in [Buffers -> Nat]
    /\ puts \in 0 .. MaxPuts /\ entry \in 0 .. puts
    /\ place \in [Attempts -> {"idle", "leased", "secret", "request", "release"}]
    /\ leaseAt = [a \in Attempts |-> <<"lease", a>>]
    /\ secretAt = [a \in Attempts |-> <<"secret", a>>]
    /\ header \in [Attempts -> Nat] /\ leased \in [Attempts -> Nat]

\* The copies of the key that each step of an attempt leaves behind.
AttemptAt(a) ==
    LET lease == memory[<<"lease", a>>]
        secret == memory[<<"secret", a>>] IN
    /\ place[a] # "idle" => leased[a] # Zero
    /\ place[a] \in {"leased", "secret", "request"} => lease = leased[a]
    /\ place[a] \in {"secret", "request"} => secret = leased[a]
    /\ place[a] \in {"idle", "leased", "release"} => secret = Zero
    /\ place[a] = "idle" => lease = Zero
    /\ header[a] = IF place[a] = "request" THEN leased[a] ELSE Zero

StoreHolds == \A v \in 1 .. MaxPuts : memory[Stored(v)] = IF v = entry THEN v ELSE Zero

CredentialInv == CredentialTypeOK /\ (\A a \in Attempts : AttemptAt(a)) /\ StoreHolds

\* The store and each attempt have buffers of their own.
LEMMA BuffersAreApart ==
    /\ \A a \in Attempts : <<"lease", a>> \in Buffers /\ <<"secret", a>> \in Buffers
    /\ \A v \in 1 .. MaxPuts : Stored(v) \in Buffers
    /\ \A a, b \in Attempts : <<"lease", a>> # <<"secret", b>>
    /\ \A a \in Attempts : \A v : Stored(v) # <<"lease", a>> /\ Stored(v) # <<"secret", a>>
    /\ \A v, w : Stored(v) = Stored(w) => v = w
  BY DEF Buffers, Stored

\* Steps of the store leave the buffers of the attempts alone.
LEMMA StoreStepKeeps == ASSUME CredentialInv, Put \/ Delete PROVE CredentialInv'
  <1> USE CredentialAssumption, BuffersAreApart DEF CredentialInv, CredentialTypeOK
  <1>1. CredentialTypeOK'
    <2>1. CASE entry = Zero
      BY <2>1 DEF Put, Delete, ClearedEntry, Cleared, Zero
    <2>2. CASE entry # Zero
      <3>1. ClearedEntry \in [Buffers -> Nat]
        BY <2>2 DEF ClearedEntry, Cleared, Zero
      <3>. QED BY <3>1 DEF Put, Delete, Zero
    <2>. QED BY <2>1, <2>2
  <1>2. ASSUME NEW a \in Attempts PROVE AttemptAt(a)'
    <2>1. /\ memory'[<<"lease", a>>] = memory[<<"lease", a>>]
          /\ memory'[<<"secret", a>>] = memory[<<"secret", a>>]
      BY DEF Put, Delete, ClearedEntry, Cleared
    <2>2. AttemptAt(a) /\ UNCHANGED <<place, header, leased>>
      BY DEF Put, Delete
    <2>. QED BY <2>1, <2>2 DEF AttemptAt
  <1>3. StoreHolds'
    <2> SUFFICES ASSUME NEW v \in 1 .. MaxPuts
                 PROVE  memory'[Stored(v)] = IF v = entry' THEN v ELSE Zero
      BY DEF StoreHolds
    <2>1. memory[Stored(v)] = IF v = entry THEN v ELSE Zero
      BY DEF StoreHolds
    <2>2. CASE Put
      BY <2>1, <2>2 DEF Put, ClearedEntry, Cleared, Zero
    <2>3. CASE Delete
      BY <2>1, <2>3 DEF Delete, ClearedEntry, Cleared, Zero
    <2>. QED BY <2>2, <2>3
  <1>. QED BY <1>1, <1>2, <1>3

AttemptStep(a) ==
    Lease(a) \/ LeaseRefused(a) \/ Secret(a) \/ Authorize(a) \/ DeleteHeader(a) \/ CloseLease(a)

\* A step of an attempt leaves those of the store and of the others alone.
LEMMA AttemptStepKeeps ==
    ASSUME CredentialInv, NEW a \in Attempts, AttemptStep(a) PROVE CredentialInv'
  <1> USE CredentialAssumption, BuffersAreApart DEF CredentialInv, CredentialTypeOK
  <1>1. entry # Zero => entry \in 1 .. MaxPuts /\ memory[Stored(entry)] = entry
    BY DEF StoreHolds, Zero
  <1>2. CredentialTypeOK'
    <2>1. CASE Lease(a)
      BY <1>1, <2>1 DEF Lease, To
    <2>2. CASE Secret(a)
      BY <2>2 DEF Secret, To
    <2>3. CASE LeaseRefused(a) \/ CloseLease(a) \/ DeleteHeader(a)
      <3>1. PICK b \in Buffers : memory' = [memory EXCEPT ![b] = 0]
        BY <2>3 DEF LeaseRefused, CloseLease, DeleteHeader, Cleared, Zero
      <3>2. header' \in [Attempts -> Nat]
        BY <2>3 DEF LeaseRefused, CloseLease, DeleteHeader, Zero
      <3>. QED BY <2>3, <3>1, <3>2 DEF LeaseRefused, CloseLease, DeleteHeader, To
    <2>4. CASE Authorize(a)
      BY <2>4 DEF Authorize, To
    <2>. QED BY <2>1, <2>2, <2>3, <2>4 DEF AttemptStep
  <1>3. AttemptAt(a)'
    BY <1>1 DEF AttemptAt, AttemptStep, Lease, LeaseRefused, Secret, Authorize, DeleteHeader,
                CloseLease, Cleared, To, Zero
  <1>4. ASSUME NEW b \in Attempts, b # a PROVE AttemptAt(b)'
    BY <1>4 DEF AttemptAt, AttemptStep, Lease, LeaseRefused, Secret, Authorize, DeleteHeader,
                CloseLease, Cleared, To
  <1>5. StoreHolds'
    BY DEF StoreHolds, AttemptStep, Lease, LeaseRefused, Secret, Authorize, DeleteHeader,
           CloseLease, Cleared
  <1>. QED BY <1>2, <1>3, <1>4, <1>5

\* An attempt sends the key that was stored when it began, whatever becomes of
\* it in the store meanwhile, and leaves no copy of it behind (Lease, Put,
\* Delete, Close, storeCredential.Acquire).
THEOREM LeasesAreIntact == CredentialSpec => []LeaseIsIntact
  <1>1. CredentialInit => CredentialInv
    BY CredentialAssumption, BuffersAreApart
    DEF CredentialInit, CredentialInv, CredentialTypeOK, AttemptAt, StoreHolds, Zero
  <1>2. CredentialInv /\ [CredentialNext]_credentialVars => CredentialInv'
    <2> SUFFICES ASSUME CredentialInv, [CredentialNext]_credentialVars PROVE CredentialInv'
      OBVIOUS
    <2>1. CASE UNCHANGED credentialVars
      BY <2>1 DEF credentialVars, CredentialInv, CredentialTypeOK, AttemptAt, StoreHolds
    <2>. QED
      BY <2>1, StoreStepKeeps, AttemptStepKeeps DEF CredentialNext, AttemptStep
  <1>3. CredentialInv => LeaseIsIntact
    BY DEF CredentialInv, CredentialTypeOK, AttemptAt, StoreHolds, LeaseIsIntact, Zero
  <1>. QED
    BY <1>1, <1>2, <1>3, PTL DEF CredentialSpec

------------------------------------------------------------------------------
(* Sequences of rows.                                                       *)

LEMMA InsertAtProperties ==
    ASSUME NEW S, NEW s \in Seq(S), NEW e \in S, NEW i \in 1 .. Len(s) + 1
    PROVE  /\ InsertAt(s, i, e) \in Seq(S)
           /\ Len(InsertAt(s, i, e)) = Len(s) + 1
           /\ \A j \in 1 .. Len(s) + 1 :
                InsertAt(s, i, e)[j] = IF j < i THEN s[j] ELSE IF j = i THEN e ELSE s[j - 1]
  <1> DEFINE front == SubSeq(s, 1, i - 1)
             back == SubSeq(s, i, Len(s))
  <1>1. /\ front \in Seq(S) /\ Len(front) = i - 1
        /\ \A j \in 1 .. i - 1 : front[j] = s[j]
    <2>1. PICK m \in Int : m = i - 1
      OBVIOUS
    <2>2. \A j \in 1 .. m : s[j] \in S
      BY <2>1
    <2>. QED BY <2>1, <2>2, SubSeqProperties
  <1>2. /\ back \in Seq(S) /\ Len(back) = Len(s) - i + 1
        /\ \A j \in 1 .. Len(s) - i + 1 : back[j] = s[i + j - 1]
    <2>1. Len(s) \in Int /\ \A j \in i .. Len(s) : s[j] \in S
      OBVIOUS
    <2>. QED BY <2>1, SubSeqProperties
  <1>3. <<e>> \in Seq(S) /\ Len(<<e>>) = 1 /\ <<e>>[1] = e
    OBVIOUS
  <1> HIDE DEF front, back
  <1>4. PICK begun : begun = front \o <<e>>
    OBVIOUS
  <1>5. /\ begun \in Seq(S) /\ Len(begun) = i
        /\ \A j \in 1 .. i : begun[j] = IF j < i THEN s[j] ELSE e
    BY <1>1, <1>3, <1>4, ConcatProperties
  <1>6. /\ begun \o back \in Seq(S) /\ Len(begun \o back) = Len(s) + 1
        /\ \A j \in 1 .. Len(s) + 1 : (begun \o back)[j] = IF j <= i THEN begun[j] ELSE back[j - i]
    <2>1. Len(begun) + Len(back) = Len(s) + 1
      BY <1>2, <1>5
    <2>2. /\ begun \o back \in Seq(S) /\ Len(begun \o back) = Len(begun) + Len(back)
          /\ \A j \in 1 .. Len(begun) + Len(back) :
                (begun \o back)[j] = IF j <= Len(begun) THEN begun[j] ELSE back[j - Len(begun)]
      BY <1>2, <1>5, ConcatProperties
    <2>3. Len(begun) = i
      BY <1>5
    <2>. QED BY <2>1, <2>2, <2>3
  <1>7. ASSUME NEW j \in 1 .. Len(s) + 1
        PROVE  (begun \o back)[j] = IF j < i THEN s[j] ELSE IF j = i THEN e ELSE s[j - 1]
    <2>1. CASE j <= i
      BY <1>5, <1>6, <2>1
    <2>2. CASE j > i
      <3>1. j - i \in 1 .. Len(s) - i + 1 /\ i + (j - i) - 1 = j - 1
        BY <2>2
      <3>2. back[j - i] = s[j - 1]
        BY <1>2, <3>1
      <3>3. (begun \o back)[j] = back[j - i]
        BY <1>6, <2>2, SMTT(20)
      <3>4. ~(j < i) /\ j # i
        BY <2>2
      <3>. QED BY <3>2, <3>3, <3>4
    <2>3. j <= i \/ j > i
      OBVIOUS
    <2>. QED BY <2>1, <2>2, <2>3
  <1>. QED
    BY <1>4, <1>6, <1>7 DEF InsertAt, front, back

LEMMA PrefixProperties ==
    ASSUME NEW S, NEW s \in Seq(S), NEW t \in Seq(S)
    PROVE  IsPrefix(s, t) <=> Len(s) <= Len(t) /\ \A i \in 1 .. Len(s) : s[i] = t[i]
  <1>1. SubSeq(s, 1, Len(s)) = s
    BY SubSeqFull
  <1>2. ASSUME Len(s) <= Len(t)
        PROVE  /\ SubSeq(t, 1, Len(s)) \in Seq(S)
               /\ Len(SubSeq(t, 1, Len(s))) = Len(s)
               /\ \A i \in 1 .. Len(s) : SubSeq(t, 1, Len(s))[i] = t[i]
    <2>1. \A i \in 1 .. Len(s) : t[i] \in S
      BY <1>2
    <2>. QED BY <2>1, SubSeqProperties
  <1>. QED
    BY <1>1, <1>2, SeqEqual DEF IsPrefix

\* What is left of a catalog after its first k migrations.
From(c, k) == SubSeq(c, k + 1, Len(c))

LEMMA FromProperties ==
    ASSUME NEW S, NEW c \in Seq(S), NEW k \in 0 .. Len(c)
    PROVE  /\ From(c, k) \in Seq(S)
           /\ From(c, k) # <<>> =>
                /\ k + 1 \in 1 .. Len(c) /\ Head(From(c, k)) = c[k + 1]
                /\ Tail(From(c, k)) = From(c, k + 1)
           /\ From(c, k) = <<>> => k = Len(c)
  <1>1. PICK m \in Int : m = k + 1
    OBVIOUS
  <1>2. Len(c) \in Int /\ \A i \in m .. Len(c) : c[i] \in S
    BY <1>1
  <1>3. /\ From(c, k) \in Seq(S)
        /\ Len(From(c, k)) = IF m <= Len(c) THEN Len(c) - m + 1 ELSE 0
    BY <1>1, <1>2, SubSeqProperties DEF From
  <1>4. ASSUME From(c, k) # <<>> PROVE k + 1 \in 1 .. Len(c)
    BY <1>1, <1>3, <1>4
  <1>5. ASSUME m \in 1 .. Len(c)
        PROVE  Head(From(c, k)) = c[m] /\ Tail(From(c, k)) = SubSeq(c, m + 1, Len(c))
    <2>1. Len(c) \in m .. Len(c)
      BY <1>5
    <2>. QED BY <1>1, <1>5, <2>1, HeadTailOfSubSeq DEF From
  <1>6. From(c, k) = <<>> => k = Len(c)
    BY <1>1, <1>3
  <1>. QED
    BY <1>1, <1>3, <1>4, <1>5, <1>6 DEF From

------------------------------------------------------------------------------
(* Migrations.                                                              *)

MigrationTypeOK ==
    /\ applied \in Seq(MigrationRow) /\ scripts \in Seq(MigrationRow)
    /\ opener \in [Openers -> {"closed", "plan", "apply", "tx", "open", "failed"}]
    /\ plan \in [Openers -> Seq(MigrationRow)]
    /\ inserted \in [Openers -> SUBSET MigrationRow]

OncePerID ==
    \A i, j \in 1 .. Len(applied) : applied[i].id = applied[j].id => i = j

\* The first k migrations of a process are applied, and it has the others left.
Passed(o, k) ==
    /\ plan[o] = From(Catalog[o], k)
    /\ \A i \in 1 .. k : Catalog[o][i] \in ToSet(applied)

Planned(o) ==
    /\ opener[o] \in {"apply", "tx"} => \E k \in 0 .. Len(Catalog[o]) : Passed(o, k)
    /\ opener[o] = "tx" => plan[o] # <<>>

\* What several binaries can rely on whatever their catalogs are: a script runs
\* once, its effects and its row come together, what was reported is there, and
\* who has opened the file finds all of its own catalog (ApplyMigration).
EachOnce ==
    /\ OncePerID
    /\ Len(scripts) = Len(applied) /\ ToSet(scripts) = ToSet(applied)
    /\ \A o \in Openers :
        /\ inserted[o] \subseteq ToSet(applied)
        /\ opener[o] = "open" => ToSet(Catalog[o]) \subseteq ToSet(applied)

MigrationInv == MigrationTypeOK /\ EachOnce /\ (\A o \in Openers : Planned(o))

\* Catalogs that begin alike number their next migrations alike: builds of one
\* line of development, which may differ in what a migration does.  Without it
\* two builds can both apply their own second migration, because ApplyMigration
\* looks for the row of its own only, and the table is a prefix of neither.
SharedNumbering ==
    \A o, p \in Openers : \A i \in 1 .. Len(Catalog[o]) :
        /\ i <= Len(Catalog[p])
        /\ \A j \in 1 .. i - 1 : Catalog[o][j] = Catalog[p][j]
        => Catalog[o][i].id = Catalog[p][i].id

\* With such catalogs the first k applied migrations are those of the process.
PassedInOrder(o, k) ==
    /\ plan[o] = From(Catalog[o], k)
    /\ k <= Len(applied) /\ \A i \in 1 .. k : applied[i] = Catalog[o][i]

PlannedInOrder(o) ==
    opener[o] \in {"apply", "tx"} => \E k \in 0 .. Len(Catalog[o]) : PassedInOrder(o, k)

OrderInv ==
    MigrationInv /\ EachOnceInOrder /\ \A o \in Openers : PlannedInOrder(o)

LEMMA ToSetProperties ==
    ASSUME NEW S, NEW s \in Seq(S)
    PROVE  \A x : x \in ToSet(s) <=> \E i \in 1 .. Len(s) : s[i] = x
  BY DEF ToSet

LEMMA CatalogProperties ==
    ASSUME NEW o \in Openers
    PROVE  /\ Catalog[o] \in Seq(MigrationRow)
           /\ \A row \in MigrationRow : row.id \in Nat
           /\ \A i, j \in 1 .. Len(Catalog[o]) : i < j => Catalog[o][i].id < Catalog[o][j].id
  <1>1. \A p \in Openers : DOMAIN Catalog[p] = 1 .. Len(Catalog[p])
    BY MigrationAssumption DEF CatalogAssumption
  <1>. QED
    BY <1>1, MigrationAssumption DEF CatalogAssumption, MigrationRow

\* How many rows are before a new one, and that they may be all.
LEMMA BeforeProperties ==
    ASSUME NEW row, applied \in Seq(MigrationRow)
    PROVE  /\ Cardinality(Earlier(row)) \in 0 .. Len(applied)
           /\ (\A i \in 1 .. Len(applied) : applied[i].id < row.id)
                => Cardinality(Earlier(row)) = Len(applied)
  <1>1. Len(applied) \in Nat
    OBVIOUS
  <1>2. /\ IsFiniteSet(1 .. Len(applied))
        /\ Cardinality(1 .. Len(applied)) = Len(applied)
    BY <1>1, FS_Interval
  <1>3. Earlier(row) \subseteq 1 .. Len(applied)
    BY DEF Earlier
  <1>4. Cardinality(Earlier(row)) \in Nat /\ Cardinality(Earlier(row)) <= Len(applied)
    BY <1>2, <1>3, FS_Subset, FS_CardinalityType
  <1>5. (\A i \in 1 .. Len(applied) : applied[i].id < row.id) => Earlier(row) = 1 .. Len(applied)
    BY DEF Earlier
  <1>. QED
    BY <1>1, <1>2, <1>4, <1>5

\* The table with one row more.
LEMMA RecordedProperties ==
    ASSUME NEW row \in MigrationRow, applied \in Seq(MigrationRow), applied' = Recorded(row)
    PROVE  /\ applied' \in Seq(MigrationRow) /\ Len(applied') = Len(applied) + 1
           /\ ToSet(applied') = ToSet(applied) \cup {row}
           /\ OncePerID /\ (\A i \in 1 .. Len(applied) : applied[i].id # row.id) => OncePerID'
           /\ (\A i \in 1 .. Len(applied) : applied[i].id < row.id)
                => applied' = Append(applied, row)
  <1>1. PICK k \in 1 .. Len(applied) + 1 : k = Cardinality(Earlier(row)) + 1
    BY BeforeProperties
  <1>2. /\ applied' \in Seq(MigrationRow) /\ Len(applied') = Len(applied) + 1
        /\ \A j \in 1 .. Len(applied) + 1 :
            applied'[j] = IF j < k THEN applied[j] ELSE IF j = k THEN row ELSE applied[j - 1]
    BY <1>1, InsertAtProperties DEF Recorded
  <1>3. ToSet(applied') = ToSet(applied) \cup {row}
    <2>1. ASSUME NEW x \in ToSet(applied') PROVE x \in ToSet(applied) \cup {row}
      BY <1>2, <2>1, ToSetProperties
    <2>2. ASSUME NEW i \in 1 .. Len(applied) PROVE applied[i] \in ToSet(applied')
      <3>1. CASE i < k
        BY <1>2, <3>1, ToSetProperties
      <3>2. CASE i >= k
        <4>1. i + 1 \in 1 .. Len(applied) + 1 /\ ~(i + 1 < k) /\ i + 1 # k /\ (i + 1) - 1 = i
          BY <3>2
        <4>2. applied'[i + 1] = applied[i]
          BY <1>2, <4>1
        <4>. QED BY <1>2, <4>1, <4>2, ToSetProperties
      <3>. QED BY <3>1, <3>2
    <2>3. row \in ToSet(applied')
      <3>1. k \in 1 .. Len(applied') /\ applied'[k] = row
        BY <1>2
      <3>. QED BY <1>2, <3>1, ToSetProperties
    <2>. QED
      BY <2>1, <2>2, <2>3, ToSetProperties
  <1>4. ASSUME OncePerID, \A i \in 1 .. Len(applied) : applied[i].id # row.id
        PROVE  OncePerID'
    <2> SUFFICES ASSUME NEW i \in 1 .. Len(applied) + 1, NEW j \in 1 .. Len(applied) + 1,
                        applied'[i].id = applied'[j].id
                 PROVE  i = j
      BY <1>2 DEF OncePerID
    <2>1. ASSUME NEW m \in 1 .. Len(applied) + 1, m # k
          PROVE  LET old == IF m < k THEN m ELSE m - 1
                 IN  old \in 1 .. Len(applied) /\ applied'[m] = applied[old]
      BY <1>2, <2>1
    <2>2. applied'[k] = row
      BY <1>2
    <2>3. CASE i # k /\ j # k
      <3>1. PICK a \in 1 .. Len(applied) :
                a = (IF i < k THEN i ELSE i - 1) /\ applied'[i] = applied[a]
        BY <2>1, <2>3
      <3>2. PICK b \in 1 .. Len(applied) :
                b = (IF j < k THEN j ELSE j - 1) /\ applied'[j] = applied[b]
        BY <2>1, <2>3
      <3>3. a = b
        BY <1>4, <3>1, <3>2 DEF OncePerID
      <3>. QED BY <2>3, <3>1, <3>2, <3>3
    <2>4. CASE i = k \/ j = k
      BY <1>4, <2>1, <2>2, <2>4
    <2>. QED BY <2>3, <2>4
  <1>5. ASSUME \A i \in 1 .. Len(applied) : applied[i].id < row.id
        PROVE  applied' = Append(applied, row)
    <2>1. k = Len(applied) + 1
      BY <1>1, <1>5, BeforeProperties
    <2>2. /\ Append(applied, row) \in Seq(MigrationRow)
          /\ Len(Append(applied, row)) = Len(applied) + 1
          /\ \A j \in 1 .. Len(applied) : Append(applied, row)[j] = applied[j]
          /\ Append(applied, row)[Len(applied) + 1] = row
      BY AppendProperties
    <2>3. \A j \in 1 .. Len(applied') : applied'[j] = Append(applied, row)[j]
      BY <1>2, <2>1, <2>2
    <2>. QED
      BY <1>2, <2>2, <2>3, SeqEqual
  <1>. QED
    BY <1>2, <1>3, <1>4, <1>5

\* The next migration of a process in a transaction.
LEMMA NextRow ==
    ASSUME MigrationTypeOK, NEW o \in Openers, NEW k \in 0 .. Len(Catalog[o]),
           plan[o] = From(Catalog[o], k), plan[o] # <<>>
    PROVE  /\ k + 1 \in 1 .. Len(Catalog[o]) /\ Head(plan[o]) = Catalog[o][k + 1]
           /\ Head(plan[o]) \in MigrationRow
           /\ Tail(plan[o]) = From(Catalog[o], k + 1)
  BY CatalogProperties, FromProperties

\* A script and its row are committed together, and neither was there before.
LEMMA CommitRowKeeps ==
    ASSUME MigrationInv, NEW o \in Openers, opener[o] = "tx", PendingRow(o), CommitRow(o)
    PROVE  /\ Head(plan[o]) \in MigrationRow
           /\ applied' \in Seq(MigrationRow) /\ scripts' \in Seq(MigrationRow)
           /\ OncePerID'
           /\ Len(scripts') = Len(applied') /\ ToSet(scripts') = ToSet(applied')
           /\ ToSet(applied') = ToSet(applied) \cup {Head(plan[o])}
  <1> USE DEF MigrationInv, EachOnce
  <1>1. PICK row \in MigrationRow : row = Head(plan[o])
    <2>1. plan[o] # <<>> /\ \E k \in 0 .. Len(Catalog[o]) : plan[o] = From(Catalog[o], k)
      BY DEF Planned, Passed
    <2>. QED BY <2>1, NextRow
  <1>2. applied \in Seq(MigrationRow) /\ scripts \in Seq(MigrationRow)
    BY DEF MigrationTypeOK
  <1>3. applied' = Recorded(row) /\ scripts' = Append(scripts, row)
    BY <1>1 DEF CommitRow
  <1>4. \A i \in 1 .. Len(applied) : applied[i].id # row.id
    BY <1>1, <1>2 DEF PendingRow, Row
  <1>5. /\ applied' \in Seq(MigrationRow) /\ Len(applied') = Len(applied) + 1
        /\ ToSet(applied') = ToSet(applied) \cup {row} /\ OncePerID'
    BY <1>2, <1>3, <1>4, RecordedProperties
  <1>6. scripts' \in Seq(MigrationRow) /\ Len(scripts') = Len(scripts) + 1
    BY <1>2, <1>3, AppendProperties
  <1>7. ToSet(scripts') = ToSet(scripts) \cup {row}
    <2>1. \A i \in 1 .. Len(scripts) : scripts'[i] = scripts[i]
      BY <1>2, <1>3, AppendProperties
    <2>2. scripts'[Len(scripts')] = row /\ Len(scripts') \in 1 .. Len(scripts')
      BY <1>2, <1>3, <1>6, AppendProperties
    <2>3. ASSUME NEW x \in ToSet(scripts') PROVE x \in ToSet(scripts) \cup {row}
      <3>1. PICK i \in 1 .. Len(scripts') : scripts'[i] = x
        BY <1>6, <2>3, ToSetProperties
      <3>2. i \in 1 .. Len(scripts) \/ i = Len(scripts')
        BY <1>2, <1>6
      <3>. QED BY <1>2, <2>1, <2>2, <3>1, <3>2, ToSetProperties
    <2>4. ASSUME NEW x \in ToSet(scripts) PROVE x \in ToSet(scripts')
      <3>1. PICK i \in 1 .. Len(scripts) : scripts[i] = x
        BY <1>2, <2>4, ToSetProperties
      <3>2. i \in 1 .. Len(scripts') /\ scripts'[i] = x
        BY <1>2, <1>6, <2>1, <3>1
      <3>. QED BY <1>6, <3>2, ToSetProperties
    <2>5. row \in ToSet(scripts')
      BY <1>6, <2>2, ToSetProperties
    <2>. QED BY <2>3, <2>4, <2>5
  <1>. QED
    BY <1>1, <1>2, <1>5, <1>6, <1>7

\* What a process has planned outlives the steps of the others.
LEMMA PlanStays ==
    ASSUME NEW o \in Openers, Planned(o), opener'[o] = opener[o], plan'[o] = plan[o],
           ToSet(applied) \subseteq ToSet(applied')
    PROVE  Planned(o)'
  BY DEF Planned, Passed

\* A migration that is applied leaves the plan.
LEMMA PlanShrinks ==
    ASSUME MigrationTypeOK, NEW o \in Openers, Planned(o), opener[o] = "tx", EndMigration(o),
           ToSet(applied) \subseteq ToSet(applied'), Head(plan[o]) \in ToSet(applied')
    PROVE  Planned(o)'
  <1>1. PICK k \in 0 .. Len(Catalog[o]) : Passed(o, k)
    BY DEF Planned
  <1>2. /\ k + 1 \in 1 .. Len(Catalog[o]) /\ Head(plan[o]) = Catalog[o][k + 1]
        /\ Tail(plan[o]) = From(Catalog[o], k + 1)
    BY <1>1, NextRow DEF Planned, Passed
  <1>3. plan'[o] = Tail(plan[o]) /\ opener'[o] = "apply"
    BY DEF EndMigration, OpenerAt, MigrationTypeOK
  <1>4. \A i \in 1 .. k + 1 : Catalog[o][i] \in ToSet(applied')
    BY <1>1, <1>2 DEF Passed
  <1>5. k + 1 \in 0 .. Len(Catalog[o])
    BY <1>2
  <1>. QED
    BY <1>2, <1>3, <1>4, <1>5 DEF Planned, Passed

\* Steps that leave the tables alone: what is new is where a process is.
LEMMA OpenerStepKeeps ==
    ASSUME MigrationInv, NEW o \in Openers, UNCHANGED <<applied, scripts>>,
           opener' \in [Openers -> {"closed", "plan", "apply", "tx", "open", "failed"}],
           plan' \in [Openers -> Seq(MigrationRow)],
           inserted' = inserted \/ inserted' = [inserted EXCEPT ![o] = {}],
           \A p \in Openers \ {o} : opener'[p] = opener[p] /\ plan'[p] = plan[p],
           Planned(o)',
           opener'[o] = "open" => opener[o] = "open" \/ ToSet(Catalog[o]) \subseteq ToSet(applied)
    PROVE  MigrationInv'
  <1> USE DEF MigrationInv
  <1>1. MigrationTypeOK'
    BY DEF MigrationTypeOK
  <1>2. EachOnce'
    BY DEF EachOnce, OncePerID, MigrationTypeOK
  <1>3. ASSUME NEW p \in Openers PROVE Planned(p)'
    BY PlanStays
  <1>. QED
    BY <1>1, <1>2, <1>3

LEMMA PlaceStepKeeps ==
    ASSUME MigrationInv, NEW o \in Openers,
           OpenStore(o) \/ BeginMigration(o) \/ Abandon(o) \/ OpenerExit(o)
    PROVE  MigrationInv'
  <1> USE DEF MigrationInv, MigrationTypeOK
  <1>1. <<>> \in Seq(MigrationRow)
    OBVIOUS
  <1>2. CASE OpenStore(o) \/ BeginMigration(o)
    <2>1. Planned(o)'
      BY <1>2 DEF OpenStore, BeginMigration, OpenerAt, Planned, Passed
    <2>. QED
      BY <1>2, <2>1, OpenerStepKeeps DEF OpenStore, BeginMigration, OpenerAt
  <1>3. CASE Abandon(o) \/ OpenerExit(o)
    <2>1. Planned(o)'
      BY <1>3 DEF Abandon, OpenerExit, Give, OpenerAt, Planned
    <2>. QED
      BY <1>1, <1>3, <2>1, OpenerStepKeeps DEF Abandon, OpenerExit, Give, OpenerAt
  <1>. QED BY <1>2, <1>3

LEMMA ApplyMigrationsKeeps ==
    ASSUME MigrationInv, NEW o \in Openers, ApplyMigrations(o) PROVE MigrationInv'
  <1> USE DEF MigrationInv, MigrationTypeOK
  <1>1. CASE PlanMigrations(o) /\ plan' = [plan EXCEPT ![o] = From(Catalog[o], Len(applied))]
             /\ OpenerAt(o, "apply")
    <2>1. Len(applied) \in 0 .. Len(Catalog[o])
          /\ \A i \in 1 .. Len(applied) : applied[i] = Catalog[o][i]
      BY <1>1, CatalogProperties, PrefixProperties DEF PlanMigrations
    <2>2. From(Catalog[o], Len(applied)) \in Seq(MigrationRow)
      BY <2>1, CatalogProperties, FromProperties
    <2>3. \A i \in 1 .. Len(applied) : Catalog[o][i] \in ToSet(applied)
      BY <2>1, ToSetProperties
    <2>4. Planned(o)'
      BY <1>1, <2>1, <2>3 DEF Planned, Passed, OpenerAt, ApplyMigrations
    <2>. QED
      BY <1>1, <2>2, <2>4, OpenerStepKeeps DEF OpenerAt, ApplyMigrations
  <1>2. CASE OpenerAt(o, "failed") /\ UNCHANGED plan
    <2>1. Planned(o)'
      BY <1>2 DEF Planned, OpenerAt
    <2>. QED
      BY <1>2, <2>1, OpenerStepKeeps DEF OpenerAt, ApplyMigrations
  <1>. QED
    BY <1>1, <1>2 DEF ApplyMigrations, From

LEMMA AlreadyAppliedKeeps ==
    ASSUME MigrationInv, NEW o \in Openers, AlreadyApplied(o) PROVE MigrationInv'
  <1> USE DEF MigrationInv, AlreadyApplied
  <1>1. Head(plan[o]) \in ToSet(applied)
    BY ToSetProperties DEF Exact, Row, MigrationTypeOK
  <1>2. Planned(o)'
    BY <1>1, PlanShrinks
  <1>3. Tail(plan[o]) \in Seq(MigrationRow)
    BY HeadTailProperties DEF Planned, MigrationTypeOK
  <1>. QED
    BY <1>2, <1>3, OpenerStepKeeps DEF EndMigration, OpenerAt, MigrationTypeOK

LEMMA CommitKeeps ==
    ASSUME MigrationInv, NEW o \in Openers, Commit(o) \/ CommitUnreported(o)
    PROVE  MigrationInv'
  <1> USE DEF MigrationInv
  <1>1. opener[o] = "tx" /\ PendingRow(o) /\ CommitRow(o)
    BY DEF Commit, CommitUnreported
  <1>2. PICK row \in MigrationRow :
            /\ row = Head(plan[o])
            /\ applied' \in Seq(MigrationRow) /\ scripts' \in Seq(MigrationRow)
            /\ OncePerID'
            /\ Len(scripts') = Len(applied') /\ ToSet(scripts') = ToSet(applied')
            /\ ToSet(applied') = ToSet(applied) \cup {row}
    BY <1>1, CommitRowKeeps
  <1>3. /\ Tail(plan[o]) \in Seq(MigrationRow) /\ <<>> \in Seq(MigrationRow)
    BY <1>1, HeadTailProperties DEF Planned, MigrationTypeOK
  <1>4. MigrationTypeOK'
    <2>1. opener' \in [Openers -> {"closed", "plan", "apply", "tx", "open", "failed"}]
      BY DEF MigrationTypeOK, Commit, CommitUnreported, EndMigration, Give, OpenerAt
    <2>2. plan' \in [Openers -> Seq(MigrationRow)]
      BY <1>3 DEF MigrationTypeOK, Commit, CommitUnreported, EndMigration, Give
    <2>3. inserted' \in [Openers -> SUBSET MigrationRow]
      <3>1. inserted' = inserted \/ inserted' = [inserted EXCEPT ![o] = inserted[o] \cup {row}]
        BY <1>2 DEF Commit, CommitUnreported
      <3>2. inserted[o] \cup {row} \in SUBSET MigrationRow
        BY DEF MigrationTypeOK
      <3>. QED BY <3>1, <3>2 DEF MigrationTypeOK
    <2>. QED BY <1>2, <2>1, <2>2, <2>3 DEF MigrationTypeOK
  <1>5. \A p \in Openers : p # o => opener'[p] = opener[p] /\ plan'[p] = plan[p]
    BY DEF MigrationTypeOK, Commit, CommitUnreported, EndMigration, Give, OpenerAt
  <1>6. Planned(o)'
    <2>1. CASE Commit(o)
      BY <1>1, <1>2, <2>1, PlanShrinks DEF Commit
    <2>2. CASE CommitUnreported(o)
      BY <2>2 DEF CommitUnreported, Give, OpenerAt, Planned, MigrationTypeOK
    <2>. QED BY <2>1, <2>2
  <1>7. ASSUME NEW p \in Openers, p # o PROVE Planned(p)'
    BY <1>2, <1>5, <1>7, PlanStays
  <1>8. EachOnce'
    <2>1. ASSUME NEW p \in Openers PROVE inserted'[p] \subseteq ToSet(applied')
      BY <1>2 DEF EachOnce, Commit, CommitUnreported, MigrationTypeOK
    <2>2. ASSUME NEW p \in Openers, opener'[p] = "open"
          PROVE  ToSet(Catalog[p]) \subseteq ToSet(applied')
      BY <1>2, <1>5, <2>2
      DEF EachOnce, Commit, CommitUnreported, EndMigration, Give, OpenerAt, MigrationTypeOK
    <2>. QED BY <1>2, <2>1, <2>2 DEF EachOnce
  <1>. QED
    BY <1>4, <1>6, <1>7, <1>8

LEMMA OpenedKeeps ==
    ASSUME MigrationInv, NEW o \in Openers, Opened(o) PROVE MigrationInv'
  <1> USE DEF MigrationInv, MigrationTypeOK
  <1>1. PICK k \in 0 .. Len(Catalog[o]) : Passed(o, k)
    BY DEF Planned, Opened
  <1>2. k = Len(Catalog[o])
    BY <1>1, CatalogProperties, FromProperties DEF Passed, Opened
  <1>3. ASSUME NEW x \in ToSet(Catalog[o]) PROVE x \in ToSet(applied)
    <2>1. PICK i \in 1 .. Len(Catalog[o]) : Catalog[o][i] = x
      BY CatalogProperties, ToSetProperties
    <2>. QED BY <1>1, <1>2, <2>1 DEF Passed
  <1>4. Planned(o)'
    BY DEF Planned, Opened, OpenerAt
  <1>. QED
    BY <1>3, <1>4, OpenerStepKeeps DEF Opened, OpenerAt

LEMMA MigrationInitKeeps == MigrationInit => MigrationInv
  <1> SUFFICES ASSUME MigrationInit PROVE MigrationInv
    OBVIOUS
  <1>1. <<>> \in Seq(MigrationRow) /\ Len(<<>>) = 0
    OBVIOUS
  <1>. QED
    BY <1>1 DEF MigrationInit, MigrationInv, MigrationTypeOK, EachOnce, OncePerID, Planned

\* MigrationInv is inductive.
LEMMA MigrationInvariant == MigrationSpec => []MigrationInv
  <1>1. MigrationInv /\ [MigrationNext]_migrationVars => MigrationInv'
    <2> SUFFICES ASSUME MigrationInv, [MigrationNext]_migrationVars PROVE MigrationInv'
      OBVIOUS
    <2>1. CASE UNCHANGED migrationVars
      BY <2>1 DEF migrationVars, MigrationInv, MigrationTypeOK, EachOnce, OncePerID, Planned, Passed
    <2>. QED
      BY <2>1, PlaceStepKeeps, ApplyMigrationsKeeps, AlreadyAppliedKeeps, CommitKeeps, OpenedKeeps
      DEF MigrationNext, Migrate
  <1>. QED
    BY <1>1, MigrationInitKeeps, PTL DEF MigrationSpec

\* Whatever the catalogs of the binaries are, each script runs once, with its
\* row, and a process that has opened the file finds its catalog applied.
THEOREM MigrationsRunOnce == MigrationSpec => []EachOnce
  BY MigrationInvariant, PTL DEF MigrationInv

\* A process meets the rows of others at the place where it would put its own.
LEMMA NextIsNext ==
    ASSUME SharedNumbering, OrderInv, NEW o \in Openers, NEW k \in 0 .. Len(Catalog[o]),
           PassedInOrder(o, k), plan[o] # <<>>
    PROVE  /\ PendingRow(o) => Len(applied) = k
           /\ Exact(o) => k + 1 <= Len(applied) /\ applied[k + 1] = Catalog[o][k + 1]
  <1>1. applied \in Seq(MigrationRow) /\ OncePerID
    BY DEF OrderInv, MigrationInv, MigrationTypeOK, EachOnce
  <1>2. /\ k + 1 \in 1 .. Len(Catalog[o]) /\ Head(plan[o]) = Catalog[o][k + 1]
    BY NextRow DEF PassedInOrder, OrderInv, MigrationInv
  <1>3. PICK p \in Openers :
            /\ Len(applied) <= Len(Catalog[p])
            /\ \A i \in 1 .. Len(applied) : applied[i] = Catalog[p][i]
    <2>1. PICK p \in Openers : IsPrefix(applied, Catalog[p])
      BY DEF OrderInv, EachOnceInOrder
    <2>. QED BY <1>1, <2>1, CatalogProperties, PrefixProperties
  <1>4. ASSUME Len(applied) > k
        PROVE  k + 1 \in 1 .. Len(applied) /\ applied[k + 1].id = Catalog[o][k + 1].id
    <2>1. k + 1 \in 1 .. Len(applied) /\ k + 1 <= Len(Catalog[p])
      BY <1>1, <1>3, <1>4, CatalogProperties
    <2>2. \A j \in 1 .. (k + 1) - 1 : Catalog[o][j] = Catalog[p][j]
      BY <1>3, <2>1 DEF PassedInOrder
    <2>3. Catalog[o][k + 1].id = Catalog[p][k + 1].id
      BY <1>2, <2>1, <2>2 DEF SharedNumbering
    <2>. QED BY <1>3, <2>1, <2>3
  <1>5. k <= Len(applied) /\ Len(applied) \in Nat
    BY <1>1 DEF PassedInOrder
  <1>6. ASSUME PendingRow(o) PROVE Len(applied) = k
    BY <1>1, <1>2, <1>4, <1>5, <1>6 DEF PendingRow, Row
  <1>7. ASSUME Exact(o) PROVE k + 1 <= Len(applied) /\ applied[k + 1] = Catalog[o][k + 1]
    <2>1. PICK i \in 1 .. Len(applied) : applied[i] = Catalog[o][k + 1]
      BY <1>1, <1>2, <1>7 DEF Exact, Row
    <2>2. Len(applied) > k
      <3>1. ASSUME i <= k PROVE FALSE
        <4>1. applied[i] = Catalog[o][i]
          BY <2>1, <3>1 DEF PassedInOrder
        <4>2. i < k + 1 /\ i \in 1 .. Len(Catalog[o])
          BY <1>2, <1>5, <2>1, <3>1
        <4>3. Catalog[o][i].id < Catalog[o][k + 1].id
          BY <1>2, <4>2, CatalogProperties
        <4>4. Catalog[o][i].id \in Nat
          BY <1>3, <2>1, <4>1, CatalogProperties, <1>1, ElementOfSeq
        <4>. QED
          BY <2>1, <4>1, <4>3, <4>4
      <3>. QED BY <1>5, <2>1, <3>1
    <2>3. i = k + 1
      BY <1>1, <1>4, <2>1, <2>2 DEF OncePerID
    <2>. QED BY <2>1, <2>3
  <1>. QED
    BY <1>6, <1>7

\* A new row is the last one, and continues the catalog of who commits it.
LEMMA CommitInOrder ==
    ASSUME SharedNumbering, OrderInv, NEW o \in Openers, NEW k \in 0 .. Len(Catalog[o]),
           PassedInOrder(o, k), plan[o] # <<>>, PendingRow(o), CommitRow(o)
    PROVE  /\ applied' = scripts' /\ IsPrefix(applied', Catalog[o])
           /\ applied' \in Seq(MigrationRow) /\ Len(applied') = Len(applied) + 1
           /\ \A i \in 1 .. Len(applied) : applied'[i] = applied[i]
           /\ Len(applied) = k /\ applied'[k + 1] = Catalog[o][k + 1]
  <1>1. applied \in Seq(MigrationRow) /\ Len(applied) = k
    BY NextIsNext DEF OrderInv, MigrationInv, MigrationTypeOK
  <1>2. PICK row \in MigrationRow : row = Head(plan[o])
    BY NextRow DEF PassedInOrder, OrderInv, MigrationInv
  <1>3. k + 1 \in 1 .. Len(Catalog[o]) /\ row = Catalog[o][k + 1]
    BY <1>2, NextRow DEF PassedInOrder, OrderInv, MigrationInv
  <1>4. \A i \in 1 .. Len(applied) : applied[i].id < row.id
    BY <1>1, <1>3, CatalogProperties DEF PassedInOrder
  <1>5. applied' = Append(applied, row)
    BY <1>1, <1>2, <1>4, RecordedProperties DEF CommitRow
  <1>6. /\ applied' \in Seq(MigrationRow) /\ Len(applied') = Len(applied) + 1
        /\ \A i \in 1 .. Len(applied) : applied'[i] = applied[i]
        /\ applied'[Len(applied) + 1] = row
    BY <1>1, <1>5, AppendProperties
  <1>7. \A i \in 1 .. Len(applied') : applied'[i] = Catalog[o][i]
    BY <1>1, <1>3, <1>6 DEF PassedInOrder
  <1>8. IsPrefix(applied', Catalog[o])
    BY <1>1, <1>3, <1>6, <1>7, CatalogProperties, PrefixProperties
  <1>9. applied' = scripts'
    BY <1>2, <1>5 DEF CommitRow, OrderInv, EachOnceInOrder
  <1>. QED
    BY <1>1, <1>3, <1>6, <1>8, <1>9

\* What the plan of a process says about the table outlives what others append.
LEMMA OrderStays ==
    ASSUME NEW o \in Openers, PlannedInOrder(o), opener'[o] = opener[o], plan'[o] = plan[o],
           applied \in Seq(MigrationRow), applied' \in Seq(MigrationRow),
           Len(applied) <= Len(applied'),
           \A i \in 1 .. Len(applied) : applied'[i] = applied[i]
    PROVE  PlannedInOrder(o)'
  <1>1. ASSUME NEW k \in 0 .. Len(Catalog[o]), PassedInOrder(o, k) PROVE PassedInOrder(o, k)'
    BY <1>1, CatalogProperties DEF PassedInOrder
  <1>. QED
    BY <1>1 DEF PlannedInOrder

\* Steps that leave the tables alone.
LEMMA OpenerStepInOrder ==
    ASSUME OrderInv, MigrationInv', NEW o \in Openers, UNCHANGED <<applied, scripts>>,
           \A p \in Openers \ {o} : opener'[p] = opener[p] /\ plan'[p] = plan[p],
           PlannedInOrder(o)',
           opener'[o] = "open" => opener[o] = "open" \/ IsPrefix(Catalog[o], applied)
    PROVE  OrderInv'
  <1>1. EachOnceInOrder'
    BY DEF OrderInv, EachOnceInOrder, MigrationInv, EachOnce
  <1>2. ASSUME NEW p \in Openers PROVE PlannedInOrder(p)'
    BY OrderStays DEF OrderInv, MigrationInv, MigrationTypeOK
  <1>. QED
    BY <1>1, <1>2 DEF OrderInv

LEMMA NoCommitInOrder ==
    ASSUME SharedNumbering, OrderInv, MigrationInv', NEW o \in Openers,
           \/ OpenStore(o) \/ ApplyMigrations(o) \/ BeginMigration(o) \/ AlreadyApplied(o)
           \/ Abandon(o) \/ Opened(o) \/ OpenerExit(o)
    PROVE  OrderInv'
  <1>1. MigrationTypeOK /\ PlannedInOrder(o) /\ Planned(o)
    BY DEF OrderInv, MigrationInv
  <1>2. UNCHANGED <<applied, scripts>>
    BY DEF OpenStore, ApplyMigrations, BeginMigration, AlreadyApplied, Abandon, Opened, OpenerExit
  <1>3. \A p \in Openers \ {o} : opener'[p] = opener[p] /\ plan'[p] = plan[p]
    BY <1>1 DEF MigrationTypeOK, OpenStore, ApplyMigrations, BeginMigration, AlreadyApplied,
                EndMigration, Abandon, Opened, OpenerExit, Give, OpenerAt
  <1>4. CASE OpenStore(o) \/ Abandon(o) \/ OpenerExit(o)
    <2>1. opener'[o] \notin {"apply", "tx", "open"}
      BY <1>1, <1>4 DEF MigrationTypeOK, OpenStore, Abandon, OpenerExit, Give, OpenerAt
    <2>. QED
      BY <1>2, <1>3, <2>1, OpenerStepInOrder DEF PlannedInOrder
  <1>5. CASE ApplyMigrations(o)
    <2>1. CASE opener'[o] = "failed"
      BY <1>2, <1>3, <2>1, OpenerStepInOrder DEF PlannedInOrder
    <2>2. CASE PlanMigrations(o) /\ plan'[o] = From(Catalog[o], Len(applied))
               /\ opener'[o] = "apply"
      <3>1. Len(applied) \in 0 .. Len(Catalog[o])
            /\ \A i \in 1 .. Len(applied) : applied[i] = Catalog[o][i]
        BY <1>1, <2>2, CatalogProperties, PrefixProperties DEF PlanMigrations, MigrationTypeOK
      <3>2. PlannedInOrder(o)'
        BY <1>2, <2>2, <3>1 DEF PlannedInOrder, PassedInOrder
      <3>. QED BY <1>2, <1>3, <2>2, <3>2, OpenerStepInOrder
    <2>. QED
      BY <1>1, <1>5, <2>1, <2>2 DEF ApplyMigrations, OpenerAt, MigrationTypeOK, From
  <1>6. CASE BeginMigration(o)
    <2>1. PlannedInOrder(o)' /\ opener'[o] = "tx"
      BY <1>1, <1>6
      DEF PlannedInOrder, PassedInOrder, BeginMigration, OpenerAt, MigrationTypeOK
    <2>. QED BY <1>2, <1>3, <2>1, OpenerStepInOrder
  <1>7. CASE AlreadyApplied(o)
    <2>1. PICK k \in 0 .. Len(Catalog[o]) : PassedInOrder(o, k)
      BY <1>1, <1>7 DEF PlannedInOrder, AlreadyApplied
    <2>2. plan[o] # <<>> /\ Exact(o)
      BY <1>1, <1>7 DEF Planned, AlreadyApplied
    <2>3. k + 1 <= Len(applied) /\ applied[k + 1] = Catalog[o][k + 1]
      BY <2>1, <2>2, NextIsNext
    <2>4. k + 1 \in 1 .. Len(Catalog[o]) /\ Tail(plan[o]) = From(Catalog[o], k + 1)
      BY <1>1, <2>1, <2>2, NextRow DEF PassedInOrder
    <2>5. plan'[o] = Tail(plan[o]) /\ opener'[o] = "apply"
      BY <1>1, <1>7 DEF AlreadyApplied, EndMigration, OpenerAt, MigrationTypeOK
    <2>6. PassedInOrder(o, k + 1)'
      BY <1>2, <2>1, <2>3, <2>4, <2>5 DEF PassedInOrder
    <2>7. PlannedInOrder(o)'
      BY <2>4, <2>6 DEF PlannedInOrder
    <2>. QED BY <1>2, <1>3, <2>5, <2>7, OpenerStepInOrder
  <1>8. CASE Opened(o)
    <2>1. PICK k \in 0 .. Len(Catalog[o]) : PassedInOrder(o, k)
      BY <1>1, <1>8 DEF PlannedInOrder, Opened
    <2>2. k = Len(Catalog[o])
      BY <1>8, <2>1, CatalogProperties, FromProperties DEF PassedInOrder, Opened
    <2>3. IsPrefix(Catalog[o], applied)
      BY <1>1, <2>1, <2>2, CatalogProperties, PrefixProperties DEF PassedInOrder, MigrationTypeOK
    <2>4. opener'[o] = "open"
      BY <1>1, <1>8 DEF Opened, OpenerAt, MigrationTypeOK
    <2>. QED BY <1>2, <1>3, <2>3, <2>4, OpenerStepInOrder DEF PlannedInOrder
  <1>. QED
    BY <1>4, <1>5, <1>6, <1>7, <1>8

LEMMA SomeCommitInOrder ==
    ASSUME SharedNumbering, OrderInv, MigrationInv', NEW o \in Openers,
           Commit(o) \/ CommitUnreported(o)
    PROVE  OrderInv'
  <1>1. MigrationTypeOK /\ PlannedInOrder(o) /\ Planned(o)
    BY DEF OrderInv, MigrationInv
  <1>2. opener[o] = "tx" /\ PendingRow(o) /\ CommitRow(o) /\ plan[o] # <<>>
    BY <1>1 DEF Commit, CommitUnreported, Planned
  <1>3. PICK k \in 0 .. Len(Catalog[o]) : PassedInOrder(o, k)
    BY <1>1, <1>2 DEF PlannedInOrder
  <1>4. /\ applied' = scripts' /\ IsPrefix(applied', Catalog[o])
        /\ applied' \in Seq(MigrationRow) /\ Len(applied') = Len(applied) + 1
        /\ \A i \in 1 .. Len(applied) : applied'[i] = applied[i]
        /\ Len(applied) = k /\ applied'[k + 1] = Catalog[o][k + 1]
    BY <1>2, <1>3, CommitInOrder
  <1>5. applied \in Seq(MigrationRow) /\ Len(applied) <= Len(applied')
    BY <1>1, <1>4 DEF MigrationTypeOK
  <1>6. \A p \in Openers : p # o => opener'[p] = opener[p] /\ plan'[p] = plan[p]
    BY <1>1 DEF MigrationTypeOK, Commit, CommitUnreported, EndMigration, Give, OpenerAt
  <1>7. PlannedInOrder(o)'
    <2>1. CASE Commit(o)
      <3>1. k + 1 \in 1 .. Len(Catalog[o]) /\ Tail(plan[o]) = From(Catalog[o], k + 1)
        BY <1>1, <1>2, <1>3, NextRow DEF PassedInOrder
      <3>2. plan'[o] = Tail(plan[o])
        BY <1>1, <2>1 DEF Commit, EndMigration, MigrationTypeOK
      <3>3. \A i \in 1 .. k + 1 : applied'[i] = Catalog[o][i]
        BY <1>3, <1>4 DEF PassedInOrder
      <3>4. PassedInOrder(o, k + 1)'
        BY <1>4, <3>1, <3>2, <3>3 DEF PassedInOrder
      <3>. QED BY <3>1, <3>4 DEF PlannedInOrder
    <2>2. CASE CommitUnreported(o)
      BY <1>1, <2>2 DEF CommitUnreported, Give, OpenerAt, PlannedInOrder, MigrationTypeOK
    <2>. QED BY <2>1, <2>2
  <1>8. ASSUME NEW p \in Openers PROVE PlannedInOrder(p)'
    BY <1>4, <1>5, <1>6, <1>7, OrderStays DEF OrderInv
  <1>9. EachOnceInOrder'
    <2>1. ASSUME NEW p \in Openers, opener'[p] = "open" PROVE IsPrefix(Catalog[p], applied')
      <3>1. opener[p] = "open"
        BY <1>1, <1>6, <2>1
        DEF Commit, CommitUnreported, EndMigration, Give, OpenerAt, MigrationTypeOK
      <3>2. IsPrefix(Catalog[p], applied)
        BY <3>1 DEF OrderInv, EachOnceInOrder
      <3>3. /\ Len(Catalog[p]) <= Len(applied)
            /\ \A i \in 1 .. Len(Catalog[p]) : Catalog[p][i] = applied[i]
        BY <1>5, <3>2, CatalogProperties, PrefixProperties
      <3>4. /\ Len(Catalog[p]) <= Len(applied')
            /\ \A i \in 1 .. Len(Catalog[p]) : Catalog[p][i] = applied'[i]
        BY <1>4, <1>5, <3>3, CatalogProperties
      <3>. QED BY <1>4, <3>4, CatalogProperties, PrefixProperties
    <2>2. \A p \in Openers : inserted'[p] \subseteq ToSet(applied')
      BY DEF MigrationInv, EachOnce
    <2>. QED BY <1>4, <2>1, <2>2 DEF EachOnceInOrder
  <1>. QED
    BY <1>8, <1>9 DEF OrderInv

\* Where the catalogs number their migrations alike, each script runs in the
\* order of its ID and the table never has a hole: what is applied is a prefix
\* of a catalog, and the whole of that of a process that has opened the file
\* (ApplyMigration, PlanMigrations).
THEOREM MigrationsRunInOrder == SharedNumbering => (MigrationSpec => []EachOnceInOrder)
  <1> SUFFICES ASSUME SharedNumbering PROVE MigrationSpec => []EachOnceInOrder
    OBVIOUS
  <1>1. MigrationInit => OrderInv
    <2> SUFFICES ASSUME MigrationInit PROVE OrderInv
      OBVIOUS
    <2>1. MigrationInv
      BY MigrationInitKeeps
    <2>2. applied = <<>> /\ applied \in Seq(MigrationRow) /\ Len(applied) = 0
      BY DEF MigrationInit
    <2>3. ASSUME NEW o \in Openers PROVE IsPrefix(applied, Catalog[o])
      <3>1. Catalog[o] \in Seq(MigrationRow) /\ Len(applied) <= Len(Catalog[o])
        BY <2>2, CatalogProperties
      <3>2. \A i \in 1 .. Len(applied) : applied[i] = Catalog[o][i]
        BY <2>2
      <3>. QED BY <2>2, <3>1, <3>2, PrefixProperties
    <2>4. \A o \in Openers : inserted[o] = {} /\ opener[o] = "closed"
      BY DEF MigrationInit
    <2>5. EachOnceInOrder
      BY <2>3, <2>4, MigrationAssumption DEF MigrationInit, EachOnceInOrder
    <2>. QED
      BY <2>1, <2>4, <2>5 DEF OrderInv, PlannedInOrder
  <1>2. OrderInv /\ [MigrationNext]_migrationVars /\ MigrationInv' => OrderInv'
    <2> SUFFICES ASSUME OrderInv, [MigrationNext]_migrationVars, MigrationInv' PROVE OrderInv'
      OBVIOUS
    <2>1. CASE UNCHANGED migrationVars
      BY <2>1 DEF migrationVars, OrderInv, EachOnceInOrder, PlannedInOrder, PassedInOrder
    <2>. QED
      BY <2>1, NoCommitInOrder, SomeCommitInOrder DEF MigrationNext, Migrate
  <1>3. OrderInv => EachOnceInOrder
    BY DEF OrderInv
  <1>. QED
    BY <1>1, <1>2, <1>3, MigrationInvariant, PTL DEF MigrationSpec

------------------------------------------------------------------------------
(* Backup and rebuild.                                                      *)

Places == {"idle", "wait", "held", "tx", "project", "copied", "ready", "database", "linked",
           "undo"}

StoreTypeOK ==
    /\ log \in 0 .. MaxEvents /\ live \subseteq 1 .. log
    /\ token \subseteq Operations \cup {"close"}
    /\ locked \in BOOLEAN
    /\ operation \in [Operations -> Places]
    /\ copy \in Content \cup {NoFile} /\ copied \in Content \cup {NoFile}
    /\ snapshot \in Content \cup {NoFile, Foreign} /\ manifest \in Content \cup {NoFile, Foreign}
    /\ published \subseteq {"database", "manifest"}
    /\ kept \in Content \cup {NoFile}

\* Who is past the token holds it, and each step of it is for one kind of call.
HolderAt(o) ==
    /\ operation[o] \notin {"idle", "wait"} => token = {o}
    /\ operation[o] \in {"copied", "ready", "database", "linked", "undo"} => Kind[o] = "backup"
    /\ operation[o] \in {"tx", "project"} => Kind[o] # "backup" /\ locked

\* A rebuild has projected the first events of those that are committed, none
\* of which can follow while it holds the lock.
RebuildAt(o) ==
    operation[o] = "project" => source = log /\ \E n \in 0 .. log : shadow = 1 .. n

\* What a backup has made, by its place.
BackupAt(o) ==
    /\ operation[o] \in {"copied", "ready", "database", "linked"} => copy \in Content
    /\ operation[o] \in {"ready", "database", "linked"} => copied = copy
    /\ operation[o] = "ready" => manifest \notin Content
    /\ operation[o] \in {"database", "linked"} => snapshot = copy /\ "database" \in published
    /\ operation[o] = "database" => "manifest" \notin published
    /\ operation[o] = "linked" => "manifest" \in published

\* A manifest is published after its database and withdrawn before it, or left
\* where that has failed; what has succeeded is not withdrawn.
FilesMatch ==
    /\ manifest \in Content => snapshot = manifest \/ (snapshot \notin Content /\ "manifest" \in left)
    /\ "database" \in published => snapshot \in Content
    /\ "manifest" \in published => "database" \in published /\ manifest \in Content
    /\ "database" \in published /\ manifest \in Content =>
        "manifest" \in published \/ "manifest" \in left
    /\ published # {} => \E o \in Operations : operation[o] \in {"database", "linked", "undo"}
    /\ ~died /\ left = {} /\ published = {} => (snapshot \in Content <=> manifest \in Content)
    /\ kept # NoFile => published = {} /\ snapshot = kept /\ manifest = kept

\* Every copy was one of a projection of what it holds.
Sound(file) == file \in Content => file[2] \subseteq 1 .. file[1]
CopiesSound == Sound(copy) /\ Sound(copied) /\ Sound(snapshot) /\ Sound(manifest)

MaintenanceInv ==
    /\ StoreTypeOK /\ FilesMatch /\ CopiesSound
    /\ \A o \in Operations : HolderAt(o) /\ RebuildAt(o) /\ BackupAt(o)

\* A call that has not the token has nothing at stake.
LEMMA NothingAtStake ==
    ASSUME NEW o \in Operations, operation'[o] \in {"idle", "wait"}
    PROVE  HolderAt(o)' /\ RebuildAt(o)' /\ BackupAt(o)'
  BY DEF HolderAt, RebuildAt, BackupAt

\* So a step of the holder concerns the holder alone.
LEMMA HolderStepKeeps ==
    ASSUME MaintenanceInv, NEW o \in Operations, operation[o] \notin {"idle", "wait"},
           \A p \in Operations \ {o} : operation'[p] = operation[p],
           StoreTypeOK', FilesMatch', CopiesSound', HolderAt(o)', RebuildAt(o)', BackupAt(o)'
    PROVE  MaintenanceInv'
  <1>1. ASSUME NEW p \in Operations, p # o PROVE operation'[p] \in {"idle", "wait"}
    <2>1. token = {o}
      BY DEF MaintenanceInv, HolderAt
    <2>. QED BY <1>1, <2>1 DEF MaintenanceInv, HolderAt
  <1>. QED
    BY <1>1, NothingAtStake DEF MaintenanceInv

LEMMA MaintenanceInitKeeps == MaintenanceInit => MaintenanceInv
  <1> SUFFICES ASSUME MaintenanceInit PROVE MaintenanceInv
    OBVIOUS
  <1> USE MaintenanceAssumption DEF MaintenanceInit
  <1>1. StoreTypeOK
    <2>1. log \in 0 .. MaxEvents /\ live \subseteq 1 .. log
      OBVIOUS
    <2>2. operation \in [Operations -> Places]
      BY DEF Places
    <2>. QED BY <2>1, <2>2 DEF StoreTypeOK
  <1>2. FilesMatch /\ CopiesSound
    BY DEF FilesMatch, CopiesSound, Sound
  <1>3. \A o \in Operations : HolderAt(o) /\ RebuildAt(o) /\ BackupAt(o)
    BY DEF HolderAt, RebuildAt, BackupAt
  <1>. QED
    BY <1>1, <1>2, <1>3 DEF MaintenanceInv

LEMMA WaiterStepKeeps ==
    ASSUME MaintenanceInv, NEW o \in Operations, Enter(o) \/ StopWaiting(o) \/ TakeToken(o)
    PROVE  MaintenanceInv'
  <1> USE DEF MaintenanceInv, StoreTypeOK, Places
  <1>1. UNCHANGED <<tableVars, closing, broken, shadowVars, fileVars, died>>
    BY DEF Enter, StopWaiting, TakeToken, fenceVars
  <1>2. StoreTypeOK' /\ CopiesSound'
    BY <1>1 DEF Enter, StopWaiting, TakeToken, fenceVars, Go, CopiesSound, Sound, tableVars,
                shadowVars, fileVars
  <1>3. \A p \in Operations : p # o => operation'[p] = operation[p]
    BY DEF Enter, StopWaiting, TakeToken, Go
  <1>4. /\ operation[o] \in {"idle", "wait"} /\ operation'[o] \in {"idle", "wait", "held"}
        /\ operation'[o] = "held" => token' = {o} /\ token = {}
        /\ operation'[o] # "held" => token' = token
    BY DEF Enter, StopWaiting, TakeToken, Go, fenceVars
  <1>5. FilesMatch'
    BY <1>1, <1>3, <1>4 DEF FilesMatch, fileVars
  <1>6. HolderAt(o)' /\ RebuildAt(o)' /\ BackupAt(o)'
    BY <1>4 DEF HolderAt, RebuildAt, BackupAt
  <1>7. ASSUME NEW p \in Operations, p # o PROVE HolderAt(p)' /\ RebuildAt(p)' /\ BackupAt(p)'
    BY <1>1, <1>3, <1>4, <1>7 DEF HolderAt, RebuildAt, BackupAt, tableVars, shadowVars, fileVars
  <1>. QED
    BY <1>2, <1>5, <1>6, <1>7

\* A step that is not of a backup under way leaves its files alone.
LEMMA FilesStay ==
    ASSUME FilesMatch, CopiesSound, UNCHANGED <<fileVars, died>>,
           NEW o \in Operations, operation[o] \notin {"database", "linked", "undo"},
           \A p \in Operations \ {o} : operation'[p] = operation[p]
    PROVE  FilesMatch' /\ CopiesSound'
  <1>1. FilesMatch'
    BY DEF FilesMatch, fileVars
  <1>2. CopiesSound'
    BY DEF CopiesSound, Sound, fileVars
  <1>. QED BY <1>1, <1>2

\* The holder leaves, or goes on within its transaction.
LEMMA TransactionStepKeeps ==
    ASSUME MaintenanceInv, NEW o \in Operations,
           \/ RefuseOperation(o) \/ BeginImmediate(o) \/ RollBack(o) \/ CommitEvent(o)
           \/ RebuildProjection(o)
    PROVE  MaintenanceInv'
  <1> DEFINE Tx == \/ RefuseOperation(o) \/ BeginImmediate(o) \/ RollBack(o) \/ CommitEvent(o)
                   \/ CreateShadow(o) \/ ProjectEvent(o) \/ SwapShadow(o)
  <1>0. Tx
    BY DEF RebuildProjection
  <1>1. /\ operation \in [Operations -> Places] /\ HolderAt(o) /\ RebuildAt(o)
        /\ log \in 0 .. MaxEvents /\ live \subseteq 1 .. log /\ locked \in BOOLEAN
        /\ token \subseteq Operations \cup {"close"}
    BY DEF MaintenanceInv, StoreTypeOK
  <1>2. /\ operation[o] \in {"held", "tx", "project"}
        /\ \A p \in Operations \ {o} : operation'[p] = operation[p]
        /\ UNCHANGED <<fileVars, died>>
    BY <1>0, <1>1 DEF RefuseOperation, BeginImmediate, RollBack, CommitEvent, CreateShadow,
                      ProjectEvent, SwapShadow, Leave, Go
  <1>3. FilesMatch' /\ CopiesSound'
    BY <1>2, FilesStay DEF MaintenanceInv
  <1>4. operation' \in [Operations -> Places]
    BY <1>0, <1>1 DEF RefuseOperation, BeginImmediate, RollBack, CommitEvent, CreateShadow,
                      ProjectEvent, SwapShadow, Leave, Go, Places
  <1>5. log' \in 0 .. MaxEvents /\ live' \subseteq 1 .. log'
    <2>1. CASE CommitEvent(o)
      BY <1>1, <2>1, MaintenanceAssumption DEF CommitEvent, AppendEvent
    <2>2. CASE SwapShadow(o)
      BY <1>1, <2>2 DEF SwapShadow, RebuildAt
    <2>3. CASE UNCHANGED <<log, live>>
      BY <1>1, <2>3
    <2>. QED
      BY <1>0, <2>1, <2>2, <2>3 DEF RefuseOperation, BeginImmediate, RollBack, CreateShadow,
                                    ProjectEvent, tableVars
  <1>6. token' \subseteq Operations \cup {"close"} /\ locked' \in BOOLEAN
    BY <1>0, <1>1 DEF RefuseOperation, BeginImmediate, RollBack, CommitEvent, CreateShadow,
                      ProjectEvent, SwapShadow, Leave, tableVars, fenceVars
  <1>7. StoreTypeOK'
    BY <1>2, <1>4, <1>5, <1>6 DEF StoreTypeOK, MaintenanceInv, fileVars
  <1>8. HolderAt(o)' /\ RebuildAt(o)' /\ BackupAt(o)'
    <2>1. CASE RefuseOperation(o) \/ RollBack(o) \/ CommitEvent(o) \/ SwapShadow(o)
      <3>1. operation'[o] = "idle"
        BY <1>1, <2>1 DEF RefuseOperation, RollBack, CommitEvent, SwapShadow, Leave, Go
      <3>. QED BY <3>1, NothingAtStake
    <2>2. CASE BeginImmediate(o)
      BY <1>1, <2>2 DEF BeginImmediate, Go, fenceVars, HolderAt, RebuildAt, BackupAt
    <2>3. CASE CreateShadow(o)
      <3>1. shadow' = 1 .. 0 /\ 0 \in 0 .. log' /\ source' = log'
        BY <1>1, <2>3 DEF CreateShadow, tableVars
      <3>. QED
        BY <1>1, <2>3, <3>1 DEF CreateShadow, Go, fenceVars, tableVars, HolderAt, RebuildAt, BackupAt
    <2>4. CASE ProjectEvent(o)
      <3>1. operation[o] = "project" /\ source = log /\ UNCHANGED <<tableVars, token, operation, source>>
        BY <1>1, <2>4 DEF ProjectEvent, RebuildAt, fenceVars
      <3>2. PICK n \in 0 .. log : shadow = 1 .. n
        BY <1>1, <3>1 DEF RebuildAt
      <3>3. Cardinality(shadow) = n
        BY <3>2, FS_Interval, n \in Nat
      <3>4. n + 1 \in 0 .. log /\ shadow' = 1 .. n + 1
        BY <1>1, <2>4, <3>1, <3>2, <3>3 DEF ProjectEvent
      <3>. QED
        BY <1>1, <3>1, <3>4 DEF tableVars, HolderAt, RebuildAt, BackupAt
    <2>. QED BY <1>0, <2>1, <2>2, <2>3, <2>4
  <1>. QED
    BY <1>2, <1>3, <1>7, <1>8, HolderStepKeeps

\* The steps of a backup.
LEMMA BackupStepKeeps ==
    ASSUME MaintenanceInv, NEW o \in Operations, Backup(o)
    PROVE  MaintenanceInv'
  <1>1. /\ StoreTypeOK /\ FilesMatch /\ CopiesSound
        /\ HolderAt(o) /\ RebuildAt(o) /\ BackupAt(o)
    BY DEF MaintenanceInv
  <1>2. /\ operation[o] \in {"held", "copied", "ready", "database", "linked", "undo"}
        /\ Kind[o] = "backup"
    BY <1>1 DEF HolderAt, Backup, CopyOnline, DescribeCopy, LinkDatabase, LinkManifest,
                SyncDirectory, FailBackup, Unpublish, EndBackup
  <1>3. token = {o} /\ \A p \in Operations \ {o} : operation[p] \in {"idle", "wait"}
    BY <1>2 DEF MaintenanceInv, HolderAt
  <1>4. \A p \in Operations \ {o} : operation'[p] = operation[p]
    BY <1>1 DEF Backup, CopyOnline, DescribeCopy, LinkDatabase, LinkManifest,
                SyncDirectory, FailBackup, Unpublish, EndBackup, Leave, Go, StoreTypeOK
  <1>5. published # {} => operation[o] \in {"database", "linked", "undo"}
    BY <1>1, <1>3 DEF FilesMatch
  <1>6. UNCHANGED <<tableVars, shadowVars, died>>
    BY DEF Backup, CopyOnline, DescribeCopy, LinkDatabase, LinkManifest,
           SyncDirectory, FailBackup, Unpublish, EndBackup
  <1>7. /\ token' = token \/ (operation'[o] = "idle" /\ token' = {})
        /\ operation' \in [Operations -> Places]
        /\ operation'[o] \in {"idle", "copied", "ready", "database", "linked", "undo"}
    <2>1. /\ token' = token \/ (operation'[o] = "idle" /\ token' = {})
          /\ operation'[o] \in {"idle", "copied", "ready", "database", "linked", "undo"}
      <3>1. CASE EndBackup(o)
        BY <1>1, <1>3, <3>1 DEF EndBackup, Leave, Go, StoreTypeOK
      <3>2. CASE ~EndBackup(o)
        <4>1. token' = token
          BY <3>2 DEF Backup, CopyOnline, DescribeCopy, LinkDatabase, LinkManifest,
                      SyncDirectory, FailBackup, Unpublish, fenceVars
        <4>2. operation'[o] \in {"copied", "ready", "database", "linked", "undo"}
          BY <1>1, <3>2 DEF Backup, CopyOnline, DescribeCopy, LinkDatabase, LinkManifest,
                            SyncDirectory, FailBackup, Unpublish, Go, StoreTypeOK
        <4>. QED BY <4>1, <4>2
      <3>. QED BY <3>1, <3>2
    <2>2. operation' = operation \/ operation' = [operation EXCEPT ![o] = operation'[o]]
      BY <1>1 DEF Backup, CopyOnline, DescribeCopy, LinkDatabase, LinkManifest, SyncDirectory,
                  FailBackup, Unpublish, EndBackup, Leave, Go, StoreTypeOK
    <2>. QED
      BY <1>1, <2>1, <2>2 DEF StoreTypeOK, Places
  <1>8. HolderAt(o)' /\ RebuildAt(o)'
    BY <1>2, <1>3, <1>7 DEF HolderAt, RebuildAt
  <1>9. ASSUME /\ copy' \in Content \cup {NoFile} /\ copied' \in Content \cup {NoFile}
               /\ snapshot' \in Content \cup {NoFile, Foreign}
               /\ manifest' \in Content \cup {NoFile, Foreign}
               /\ published' \subseteq {"database", "manifest"}
               /\ kept' \in Content \cup {NoFile}
        PROVE  StoreTypeOK'
    BY <1>1, <1>3, <1>6, <1>7, <1>9 DEF StoreTypeOK, tableVars
  <1>10. ASSUME StoreTypeOK', FilesMatch', CopiesSound', BackupAt(o)' PROVE MaintenanceInv'
    BY <1>2, <1>4, <1>8, <1>10, HolderStepKeeps
  <1> USE MaintenanceAssumption DEF StoreTypeOK
  <1>11. CASE CopyOnline(o)
    <2>1. UNCHANGED <<copied, snapshot, manifest, published, kept, left, died>>
          /\ copy' = <<log, live>>
          /\ operation'[o] = "copied" /\ published = {}
      BY <1>1, <1>5, <1>11 DEF CopyOnline, Go
    <2>2. copy' \in Content /\ Sound(copy')
      <3>1. log \in 0 .. MaxEvents /\ live \in SUBSET (1 .. log)
        BY <1>1
      <3>2. 1 .. log \subseteq 1 .. MaxEvents
        BY <3>1
      <3>3. live \in SUBSET (1 .. MaxEvents)
        BY <3>1, <3>2
      <3>. QED
        BY ONLY <2>1, <3>1, <3>3 DEF Content, Sound
    <2>3. FilesMatch' /\ BackupAt(o)'
      BY <1>1, <2>1, <2>2 DEF FilesMatch, BackupAt
    <2>. QED
      BY <1>1, <1>9, <1>10, <2>1, <2>2, <2>3 DEF CopiesSound, Sound
  <1>12. CASE DescribeCopy(o)
    <2>1. UNCHANGED <<copy, snapshot, manifest, published, kept, left, died>> /\ copied' = copy
          /\ operation[o] = "copied" /\ operation'[o] = "ready" /\ published = {}
          /\ manifest = NoFile
      BY <1>1, <1>5, <1>12 DEF DescribeCopy, TargetsAbsent, Go
    <2>2. FilesMatch' /\ BackupAt(o)'
      BY <1>1, <2>1 DEF FilesMatch, BackupAt
    <2>. QED
      BY <1>1, <1>9, <1>10, <2>1, <2>2 DEF CopiesSound, Sound
  <1>13. CASE LinkDatabase(o)
    <2>1. UNCHANGED <<copy, copied, manifest, kept, left, died>> /\ snapshot' = copy /\ snapshot = NoFile
          /\ operation[o] = "ready" /\ operation'[o] = "database" /\ published' = {"database"}
      BY <1>1, <1>13 DEF LinkDatabase, Go
    <2>2. copy \in Content /\ manifest \notin Content
      BY <1>1, <2>1 DEF BackupAt, FilesMatch
    <2>3. FilesMatch' /\ BackupAt(o)'
      BY <1>1, <2>1, <2>2 DEF FilesMatch, BackupAt
    <2>. QED
      BY <1>1, <1>9, <1>10, <2>1, <2>2, <2>3 DEF CopiesSound, Sound
  <1>14. CASE LinkManifest(o)
    <2>1. UNCHANGED <<copy, copied, snapshot, kept, left, died>> /\ manifest' = copied
          /\ operation[o] = "database" /\ operation'[o] = "linked"
          /\ published' = published \cup {"manifest"}
      BY <1>1, <1>14 DEF LinkManifest, Go
    <2>2. copy \in Content /\ copied = copy /\ snapshot = copy /\ "database" \in published
      BY <1>1, <2>1 DEF BackupAt
    <2>3. FilesMatch' /\ BackupAt(o)'
      BY <1>1, <2>1, <2>2 DEF FilesMatch, BackupAt
    <2>. QED
      BY <1>1, <1>9, <1>10, <2>1, <2>2, <2>3 DEF CopiesSound, Sound
  <1>15. CASE SyncDirectory(o)
    <2>1. UNCHANGED <<copy, copied, snapshot, manifest, left, died>>
          /\ published' = {} /\ kept' = copy
          /\ operation[o] = "linked" /\ operation'[o] = "undo"
      BY <1>1, <1>15 DEF SyncDirectory, Go
    <2>2. copy \in Content /\ snapshot = copy /\ manifest = copy
      BY <1>1, <2>1 DEF BackupAt, FilesMatch
    <2>3. FilesMatch' /\ BackupAt(o)'
      BY <1>1, <2>1, <2>2 DEF FilesMatch, BackupAt
    <2>. QED
      BY <1>1, <1>9, <1>10, <2>1, <2>2, <2>3 DEF CopiesSound, Sound
  <1>16. CASE FailBackup(o)
    <2>1. UNCHANGED <<copy, copied, snapshot, manifest, published, kept, left, died>>
          /\ operation'[o] = "undo"
      BY <1>1, <1>16 DEF FailBackup, Go, fileVars
    <2>2. FilesMatch' /\ BackupAt(o)'
      BY <1>1, <2>1 DEF FilesMatch, BackupAt
    <2>. QED
      BY <1>1, <1>9, <1>10, <2>1, <2>2 DEF CopiesSound, Sound
  <1>17. CASE Unpublish(o)
    <2>1. UNCHANGED <<copy, copied, kept, died, operation>> /\ operation[o] = "undo"
      BY <1>17 DEF Unpublish
    <2>2. published # {} /\ kept = NoFile
      BY <1>1, <1>17 DEF Unpublish, FilesMatch
    <2>3. CASE "manifest" \in published /\ RemoveManifest
      <3>1. published = {"database", "manifest"} /\ published' = {"database"} /\ UNCHANGED snapshot
        BY <1>1, <2>3 DEF RemoveManifest, FilesMatch
      <3>2. FilesMatch' /\ BackupAt(o)'
        <4>1. CASE manifest' = NoFile /\ UNCHANGED left
          BY <1>1, <2>1, <2>2, <3>1, <4>1 DEF FilesMatch, BackupAt
        <4>2. CASE left' = left \cup {"manifest"} /\ UNCHANGED manifest
          BY <1>1, <2>1, <2>2, <3>1, <4>2 DEF FilesMatch, BackupAt
        <4>. QED BY <2>3, <4>1, <4>2 DEF RemoveManifest
      <3>. QED
        BY <1>1, <1>9, <1>10, <2>1, <2>3, <3>1, <3>2 DEF RemoveManifest, CopiesSound, Sound
    <2>4. CASE published = {"database"} /\ RemoveDatabase
      <3>1. published' = {} /\ UNCHANGED manifest
        BY <2>4 DEF RemoveDatabase
      <3>2. FilesMatch' /\ BackupAt(o)'
        <4>1. CASE snapshot' = NoFile /\ UNCHANGED left
          BY <1>1, <2>1, <2>2, <2>4, <3>1, <4>1 DEF FilesMatch, BackupAt
        <4>2. CASE left' = left \cup {"database"} /\ UNCHANGED snapshot
          BY <1>1, <2>1, <2>2, <2>4, <3>1, <4>2 DEF FilesMatch, BackupAt
        <4>. QED BY <2>4, <4>1, <4>2 DEF RemoveDatabase
      <3>. QED
        BY <1>1, <1>9, <1>10, <2>1, <2>4, <3>1, <3>2 DEF RemoveDatabase, CopiesSound, Sound
    <2>. QED BY <1>17, <2>3, <2>4 DEF Unpublish
  <1>18. CASE EndBackup(o)
    <2>1. UNCHANGED <<snapshot, manifest, published, kept, left, died>> /\ published = {}
          /\ copy' = NoFile /\ copied' = NoFile /\ operation'[o] = "idle"
      BY <1>1, <1>18 DEF EndBackup, Leave, Go
    <2>2. FilesMatch' /\ BackupAt(o)'
      BY <1>1, <2>1 DEF FilesMatch, BackupAt
    <2>. QED
      BY <1>1, <1>9, <1>10, <2>1, <2>2 DEF CopiesSound, Sound
  <1>. QED
    BY <1>11, <1>12, <1>13, <1>14, <1>15, <1>16, <1>17, <1>18 DEF Backup

\* Steps of the process, of other processes and of those who share the directory.
LEMMA OutsideStepKeeps ==
    ASSUME MaintenanceInv, CloseStore \/ OtherWrite \/ CreateForeign \/ ProcessDies
    PROVE  MaintenanceInv'
  <1>1. StoreTypeOK /\ FilesMatch /\ CopiesSound
    BY DEF MaintenanceInv
  <1> USE MaintenanceAssumption
  <1>2. CASE CloseStore
    <2>1. UNCHANGED <<tableVars, operation, shadowVars, fileVars, died>>
          /\ (token' = token \/ (token = {} /\ token' = {"close"}))
      BY <1>2 DEF CloseStore
    <2>2. StoreTypeOK' /\ FilesMatch' /\ CopiesSound'
      BY <1>1, <2>1 DEF StoreTypeOK, FilesMatch, CopiesSound, Sound, tableVars, fileVars
    <2>3. ASSUME NEW o \in Operations PROVE HolderAt(o)' /\ RebuildAt(o)' /\ BackupAt(o)'
      BY <2>1 DEF MaintenanceInv, HolderAt, RebuildAt, BackupAt, tableVars, shadowVars, fileVars
    <2>. QED BY <2>2, <2>3 DEF MaintenanceInv
  <1>3. CASE OtherWrite
    <2>1. UNCHANGED <<locked, token, operation, shadowVars, fileVars, died>> /\ ~locked
      BY <1>3 DEF OtherWrite, fenceVars
    <2>2. log' \in 0 .. MaxEvents /\ live' \subseteq 1 .. log'
      BY <1>1, <1>3 DEF OtherWrite, AppendEvent, StoreTypeOK
    <2>3. StoreTypeOK' /\ FilesMatch' /\ CopiesSound'
      BY <1>1, <2>1, <2>2 DEF StoreTypeOK, FilesMatch, CopiesSound, Sound, fileVars
    <2>4. ASSUME NEW o \in Operations PROVE HolderAt(o)' /\ RebuildAt(o)' /\ BackupAt(o)'
      BY <2>1 DEF MaintenanceInv, HolderAt, RebuildAt, BackupAt, fileVars
    <2>. QED BY <2>3, <2>4 DEF MaintenanceInv
  <1>4. CASE CreateForeign
    <2>1. /\ UNCHANGED <<tableVars, token, operation, shadowVars, copy, copied, published>>
          /\ UNCHANGED <<kept, left, died>>
          /\ \/ snapshot = NoFile /\ snapshot' = Foreign /\ UNCHANGED manifest
             \/ manifest = NoFile /\ manifest' = Foreign /\ UNCHANGED snapshot
      BY <1>4 DEF CreateForeign, fenceVars
    <2>2. StoreTypeOK' /\ CopiesSound'
      BY <1>1, <2>1 DEF StoreTypeOK, CopiesSound, Sound, tableVars
    <2>3. FilesMatch'
      BY <1>1, <2>1 DEF FilesMatch
    <2>4. ASSUME NEW o \in Operations PROVE HolderAt(o)' /\ RebuildAt(o)' /\ BackupAt(o)'
      <3>1. HolderAt(o) /\ RebuildAt(o) /\ BackupAt(o)
        BY DEF MaintenanceInv
      <3>2. BackupAt(o)'
        BY <2>1, <3>1 DEF BackupAt
      <3>. QED BY <2>1, <3>1, <3>2 DEF HolderAt, RebuildAt, tableVars, shadowVars
    <2>. QED BY <2>2, <2>3, <2>4 DEF MaintenanceInv
  <1>5. CASE ProcessDies
    <2>1. \A o \in Operations : HolderAt(o)' /\ RebuildAt(o)' /\ BackupAt(o)'
      BY <1>5, NothingAtStake DEF ProcessDies
    <2>2. StoreTypeOK'
      BY <1>1, <1>5 DEF ProcessDies, StoreTypeOK, Places
    <2>3. FilesMatch' /\ CopiesSound'
      BY <1>1, <1>5 DEF ProcessDies, FilesMatch, CopiesSound, Sound
    <2>. QED BY <2>1, <2>2, <2>3 DEF MaintenanceInv
  <1>. QED
    BY <1>2, <1>3, <1>4, <1>5

\* MaintenanceInv is inductive.
LEMMA MaintenanceInvariant == MaintenanceSpec => []MaintenanceInv
  <1>1. MaintenanceInv /\ [MaintenanceNext]_maintenanceVars => MaintenanceInv'
    <2> SUFFICES ASSUME MaintenanceInv, [MaintenanceNext]_maintenanceVars PROVE MaintenanceInv'
      OBVIOUS
    <2>1. CASE UNCHANGED maintenanceVars
      <3>1. StoreTypeOK' /\ FilesMatch' /\ CopiesSound'
        BY <2>1 DEF MaintenanceInv, maintenanceVars, tableVars, fenceVars, fileVars, StoreTypeOK,
                    FilesMatch, CopiesSound, Sound
      <3>2. \A o \in Operations : HolderAt(o)' /\ RebuildAt(o)' /\ BackupAt(o)'
        BY <2>1 DEF MaintenanceInv, maintenanceVars, tableVars, fenceVars, fileVars, shadowVars,
                    HolderAt, RebuildAt, BackupAt
      <3>. QED BY <3>1, <3>2 DEF MaintenanceInv
    <2>. QED
      BY <2>1, WaiterStepKeeps, TransactionStepKeeps, BackupStepKeeps, OutsideStepKeeps
      DEF MaintenanceNext
  <1>. QED
    BY <1>1, MaintenanceInitKeeps, PTL DEF MaintenanceSpec

\* Whatever fails, dies or is in the way between the steps of a backup, and
\* whatever cannot be removed after it: a manifest and a database side by side
\* belong together, what has succeeded stays, and what is left alone is what a
\* death or a failed removal has left (Backup and its deferred functions).
THEOREM ManifestsAreTrue == MaintenanceSpec => []ManifestIsTrue
  <1>1. MaintenanceInv => ManifestIsTrue
    BY DEF MaintenanceInv, FilesMatch, CopiesSound, Sound, ManifestIsTrue
  <1>. QED
    BY <1>1, MaintenanceInvariant, PTL

\* No event is committed between the query of a rebuild and its swap, and none
\* is skipped (RebuildProjection).
THEOREM RebuildsAreComplete == MaintenanceSpec => RebuildIsComplete
  <1> DEFINE Complete == \A o \in Operations :
                operation[o] = "project" /\ operation'[o] = "idle" /\ live' # live =>
                    live' = 1 .. log'
  <1>1. MaintenanceInv /\ [MaintenanceNext]_maintenanceVars => [Complete]_maintenanceVars
    <2> SUFFICES ASSUME MaintenanceInv, MaintenanceNext,
                        NEW o \in Operations, operation[o] = "project",
                        operation'[o] = "idle", live' # live
                 PROVE  live' = 1 .. log'
      OBVIOUS
    <2>1. SwapShadow(o)
      <3>1. \A p \in Operations \ {o} : operation[p] \in {"idle", "wait"}
        BY DEF MaintenanceInv, HolderAt
      <3>2. operation \in [Operations -> Places]
        BY DEF MaintenanceInv, StoreTypeOK
      <3>3. PICK p \in Operations : CommitEvent(p) \/ SwapShadow(p)
        <4>1. ~(CloseStore \/ OtherWrite \/ CreateForeign \/ ProcessDies)
          BY DEF CloseStore, OtherWrite, CreateForeign, ProcessDies, tableVars
        <4>2. \A p \in Operations :
                ~(\/ Enter(p) \/ StopWaiting(p) \/ TakeToken(p) \/ RefuseOperation(p)
                  \/ BeginImmediate(p) \/ RollBack(p) \/ Backup(p))
          BY DEF Enter, StopWaiting, TakeToken, RefuseOperation, BeginImmediate, RollBack, Backup,
                 CopyOnline, DescribeCopy, LinkDatabase, LinkManifest, SyncDirectory, FailBackup,
                 Unpublish, EndBackup, tableVars
        <4>3. \A p \in Operations : ~CreateShadow(p) /\ ~ProjectEvent(p)
          BY DEF CreateShadow, ProjectEvent, tableVars
        <4>. QED
          BY <4>1, <4>2, <4>3 DEF MaintenanceNext, RebuildProjection
      <3>4. p = o
        BY <3>1, <3>3 DEF CommitEvent, SwapShadow
      <3>. QED BY <3>3, <3>4 DEF CommitEvent
    <2>2. source = log /\ \E n \in 0 .. log : shadow = 1 .. n
      BY DEF MaintenanceInv, RebuildAt
    <2>3. PICK n \in 0 .. log : shadow = 1 .. n
      BY <2>2
    <2>4. n \in Nat /\ Cardinality(shadow) = n
      BY <2>3, FS_Interval DEF MaintenanceInv, StoreTypeOK
    <2>. QED
      BY <2>1, <2>2, <2>3, <2>4 DEF SwapShadow
  <1>. QED
    BY <1>1, MaintenanceInvariant, PTL DEF MaintenanceSpec, RebuildIsComplete

------------------------------------------------------------------------------
(* Worktrees.                                                               *)

\* Which operation can be at a step.
PhaseInv ==
    /\ step = "idle" <=> doing = "none"
    /\ step \in {"add", "verify", "populate", "compensate"} => doing = "create"
    /\ step = "inspect" => doing = "remove"
    /\ step \in {"detach", "erase", "branch"} => doing \in {"create", "remove"}
    /\ step = "reset" => doing = "reset"

\* What the manager has made stays its own until it takes it away.
MadeInv ==
    doing = "create" =>
        /\ step \in {"verify", "populate", "compensate", "detach"} => directory[name] = "manager"
        /\ step = "populate" => attached[name] = "manager"
        /\ step \in {"verify", "populate", "compensate", "detach", "erase", "branch"} =>
            branch[name] = "manager"
        /\ step \in {"populate", "compensate", "detach", "erase", "branch"} => name \in owned

\* What a removal has taken away stays away, though others may be in its place.
TakenInv ==
    /\ step \in {"erase", "branch"} => attached[name] # "manager"
    /\ step = "branch" => directory[name] # "manager"

WorktreeInv == WorktreeTypeOK /\ PhaseInv /\ MadeInv /\ TakenInv

LEMMA TreesTyped ==
    ASSUME WorktreeInv
    PROVE  /\ directory \in [Names -> Makers] /\ branch \in [Names -> Makers]
           /\ attached \in [Names -> Makers] /\ name \in Names
  BY DEF WorktreeInv, WorktreeTypeOK

LEMMA CreateStepKeeps == ASSUME WorktreeInv, Create PROVE WorktreeInv'
  <1> USE TreesTyped DEF WorktreeInv
  <1>1. ASSUME NEW n \in Names, Candidate(n) PROVE WorktreeInv'
    BY <1>1 DEF Candidate, Begin, treeVars, WorktreeTypeOK, PhaseInv, MadeInv, TakenInv
  <1>2. ASSUME Added(name)
        PROVE  /\ directory' \in [Names -> Makers] /\ branch' \in [Names -> Makers]
               /\ attached' \in [Names -> Makers] /\ dirty' \subseteq Names
               /\ directory'[name] = "manager" /\ branch'[name] = "manager"
               /\ attached'[name] = "manager"
    BY <1>2 DEF Added, Makers, WorktreeTypeOK
  <1>3. CASE Add
    BY <1>2, <1>3 DEF Add, Then, WorktreeTypeOK, PhaseInv, MadeInv, TakenInv
  <1>4. CASE AddFails
    <2>1. /\ directory' \in [Names -> Makers] /\ branch' \in [Names -> Makers]
          /\ attached' \in [Names -> Makers] /\ dirty' \subseteq Names
      BY <1>2, <1>4 DEF AddFails, treeVars, Makers, WorktreeTypeOK
    <2>. QED
      BY <1>4, <2>1 DEF AddFails, AnswerManager, WorktreeTypeOK, PhaseInv, MadeInv, TakenInv
  <1>5. CASE Verify
    BY <1>5 DEF Verify, Managed, treeVars, WorktreeTypeOK, PhaseInv, MadeInv, TakenInv
  <1>6. CASE VerifyFails
    BY <1>6 DEF VerifyFails, AnswerManager, treeVars, WorktreeTypeOK, PhaseInv, MadeInv, TakenInv
  <1>7. CASE Populate
    BY <1>7 DEF Populate, AnswerManager, WorktreeTypeOK, PhaseInv, MadeInv, TakenInv
  <1>8. CASE PopulateFails
    BY <1>8 DEF PopulateFails, Then, WorktreeTypeOK, PhaseInv, MadeInv, TakenInv
  <1>9. CASE Compensate
    BY <1>9 DEF Compensate, Then, Failed, AnswerManager, treeVars, WorktreeTypeOK, PhaseInv,
                MadeInv, TakenInv
  <1>. QED
    BY <1>1, <1>3, <1>4, <1>5, <1>6, <1>7, <1>8, <1>9 DEF Create

LEMMA RemoveStepKeeps == ASSUME WorktreeInv, RemoveSteps PROVE WorktreeInv'
  <1> USE TreesTyped DEF WorktreeInv
  <1>1. ASSUME NEW n \in Names, NEW forced \in BOOLEAN, RemoveWorktree(n, forced)
        PROVE  WorktreeInv'
    <2>1. /\ doing' = "remove" /\ name' = n /\ UNCHANGED treeVars
          /\ step' \in {"inspect", "detach", "erase"}
          /\ step' = "erase" => attached[n] = "none"
          /\ owned' \subseteq Names
      BY <1>1 DEF RemoveWorktree, Begin, Managed, Makers, WorktreeTypeOK
    <2>. QED
      BY <2>1 DEF treeVars, WorktreeTypeOK, PhaseInv, MadeInv, TakenInv
  <1>2. CASE Inspect
    BY <1>2 DEF Inspect, Then, Failed, AnswerManager, treeVars, WorktreeTypeOK, PhaseInv,
                MadeInv, TakenInv
  <1>3. CASE Detach
    <2>1. /\ directory' \in [Names -> Makers] /\ attached' \in [Names -> Makers]
          /\ attached'[name] = "none" /\ directory'[name] \in {"none", directory[name]}
      BY <1>3 DEF Detach, Makers
    <2>. QED
      BY <1>3, <2>1 DEF Detach, Then, WorktreeTypeOK, PhaseInv, MadeInv, TakenInv
  <1>4. CASE DetachFails
    <2>1. directory' \in [Names -> Makers] /\ attached' \in [Names -> Makers]
      BY <1>4 DEF DetachFails, treeVars, Makers
    <2>. QED
      BY <1>4, <2>1 DEF DetachFails, Failed, AnswerManager, treeVars, WorktreeTypeOK, PhaseInv,
                        MadeInv, TakenInv
  <1>5. CASE Erase
    <2>1. directory' \in [Names -> Makers] /\ directory'[name] = "none"
      BY <1>5 DEF Erase, Makers
    <2>. QED
      BY <1>5, <2>1 DEF Erase, Then, WorktreeTypeOK, PhaseInv, MadeInv, TakenInv
  <1>6. CASE EraseFails
    BY <1>6 DEF EraseFails, Failed, AnswerManager, treeVars, WorktreeTypeOK, PhaseInv, MadeInv,
                TakenInv
  <1>7. CASE DeleteBranch \/ DeleteBranchFails
    <2>1. branch' \in [Names -> Makers]
      BY <1>7 DEF DeleteBranch, DeleteBranchFails, Makers
    <2>. QED
      BY <1>7, <2>1 DEF DeleteBranch, DeleteBranchFails, Undone, RemoveDone, Failed, AnswerManager,
                        WorktreeTypeOK, PhaseInv, MadeInv, TakenInv
  <1>. QED
    BY <1>1, <1>2, <1>3, <1>4, <1>5, <1>6, <1>7 DEF RemoveSteps

LEMMA OtherStepKeeps ==
    ASSUME WorktreeInv, \/ List \/ ResetSteps \/ RestartManager
                        \/ \E n \in Names : Reset(n) \/ Others(n)
    PROVE  WorktreeInv'
  <1> USE TreesTyped DEF WorktreeInv
  <1>1. CASE List
    BY <1>1 DEF List, treeVars, WorktreeTypeOK, PhaseInv, MadeInv, TakenInv
  <1>2. CASE ResetSteps
    BY <1>2 DEF ResetSteps, Failed, AnswerManager, WorktreeTypeOK, PhaseInv, MadeInv, TakenInv
  <1>3. CASE RestartManager
    BY <1>3 DEF RestartManager, treeVars, WorktreeTypeOK, PhaseInv, MadeInv, TakenInv
  <1>4. ASSUME NEW n \in Names, Reset(n) PROVE WorktreeInv'
    BY <1>4 DEF Reset, Begin, treeVars, WorktreeTypeOK, PhaseInv, MadeInv, TakenInv
  <1>5. ASSUME NEW n \in Names, Others(n) PROVE WorktreeInv'
    <2>1. /\ directory' \in [Names -> Makers] /\ branch' \in [Names -> Makers]
          /\ attached' \in [Names -> Makers] /\ dirty' \subseteq Names
      BY <1>5 DEF Others, Makers, WorktreeTypeOK
    <2>2. UNCHANGED <<owned, doing, step, name>>
      BY <1>5 DEF Others
    <2>3. /\ directory[name] = "manager" => directory'[name] = "manager"
          /\ branch[name] = "manager" => branch'[name] = "manager"
          /\ directory[name] # "none" => attached'[name] = attached[name]
          /\ attached'[name] \in {attached[name], "other"}
          /\ directory'[name] \in {directory[name], "other"}
      BY <1>5 DEF Others
    <2>. QED
      BY <2>1, <2>2, <2>3 DEF WorktreeTypeOK, PhaseInv, MadeInv, TakenInv
  <1>. QED
    BY <1>1, <1>2, <1>3, <1>4, <1>5

\* WorktreeInv is inductive.
LEMMA WorktreeInvariant == WorktreeSpec => []WorktreeInv
  <1>1. WorktreeInit => WorktreeInv
    BY DEF WorktreeInit, WorktreeInv, WorktreeTypeOK, Makers, PhaseInv, MadeInv, TakenInv
  <1>2. WorktreeInv /\ [WorktreeNext]_worktreeVars => WorktreeInv'
    <2> SUFFICES ASSUME WorktreeInv, [WorktreeNext]_worktreeVars PROVE WorktreeInv'
      OBVIOUS
    <2>1. CASE UNCHANGED worktreeVars
      BY <2>1 DEF worktreeVars, treeVars, WorktreeInv, WorktreeTypeOK, PhaseInv, MadeInv, TakenInv
    <2>. QED
      BY <2>1, CreateStepKeeps, RemoveStepKeeps, OtherStepKeeps DEF WorktreeNext
  <1>. QED
    BY <1>1, <1>2, PTL DEF WorktreeSpec

\* Steps after which an operation has ended, with what each can answer.
LEMMA Endings ==
    ASSUME WorktreeInv, WorktreeNext, doing # "none", doing' = "none"
    PROVE  \/ AddFails \/ VerifyFails \/ Populate \/ (Compensate /\ Failed)
           \/ (Inspect /\ Failed) \/ DetachFails \/ EraseFails \/ DeleteBranch \/ DeleteBranchFails
           \/ ResetSteps \/ RestartManager
  <1>1. ASSUME NEW n \in Names
        PROVE  ~Candidate(n) /\ ~Reset(n) /\ ~Others(n)
               /\ \A forced \in BOOLEAN : ~RemoveWorktree(n, forced)
    BY DEF Candidate, Reset, Others, RemoveWorktree, Begin
  <1>2. ~Add /\ ~Verify /\ ~PopulateFails /\ ~Detach /\ ~Erase /\ ~List
    BY DEF Add, Verify, PopulateFails, Detach, Erase, List, Then
  <1>3. Compensate => Failed
    BY DEF Compensate, Then
  <1>4. Inspect => Failed
    BY DEF Inspect, Then
  <1>. QED
    BY <1>1, <1>2, <1>3, <1>4 DEF WorktreeNext, Create, RemoveSteps

\* What an answer promises is so, whichever of the commands failed: a Create
\* that succeeds is whole, one that was undone and a Remove that succeeds have
\* left nothing of their own, and one that could not be undone is still on record.
THEOREM AnswersAreWhole == WorktreeSpec => AnswerIsWhole
  <1> DEFINE Whole ==
        doing # "none" /\ doing' = "none" =>
            LET parts == {directory'[name], branch'[name], attached'[name]} IN
            /\ doing = "create" /\ answer' = "ok" =>
                parts = {"manager"} /\ name \in owned'
            /\ answer' = "undone" \/ (doing = "remove" /\ answer' = "ok") =>
                "manager" \notin parts /\ branch'[name] = "none" /\ name \notin owned'
            /\ doing = "create" /\ answer' = "failed" => name \in owned'
  <1>1. WorktreeInv /\ [WorktreeNext]_worktreeVars => [Whole]_worktreeVars
    <2> SUFFICES ASSUME WorktreeInv, WorktreeNext, doing # "none", doing' = "none" PROVE Whole
      OBVIOUS
    <2> USE TreesTyped DEF WorktreeInv
    <2>1. CASE AddFails \/ VerifyFails
      BY <2>1 DEF AddFails, VerifyFails, AnswerManager, PhaseInv
    <2>2. CASE Populate
      BY <2>2 DEF Populate, AnswerManager, PhaseInv, MadeInv
    <2>3. CASE \/ (Compensate /\ Failed) \/ (Inspect /\ Failed) \/ DetachFails \/ EraseFails
               \/ DeleteBranchFails
      <3>1. /\ answer' = "failed" /\ UNCHANGED owned
            /\ step \in {"compensate", "inspect", "detach", "erase", "branch"}
        BY <2>3 DEF Compensate, Inspect, DetachFails, EraseFails, DeleteBranchFails, Failed,
                    AnswerManager
      <3>. QED BY <3>1 DEF PhaseInv, MadeInv
    <2>4. CASE DeleteBranch
      <3>1. /\ directory'[name] # "manager" /\ branch'[name] = "none"
            /\ attached'[name] # "manager"
            /\ name \notin owned' /\ answer' \in {"undone", "ok"}
            /\ doing = "create" => answer' = "undone"
        BY <2>4 DEF DeleteBranch, Undone, RemoveDone, AnswerManager, TakenInv
      <3>. QED BY <3>1
    <2>5. CASE ResetSteps \/ RestartManager
      BY <2>5 DEF ResetSteps, RestartManager, Failed, AnswerManager, PhaseInv
    <2>. QED
      BY <2>1, <2>2, <2>3, <2>4, <2>5, Endings
  <1>. QED
    BY <1>1, WorktreeInvariant, PTL DEF WorktreeSpec, AnswerIsWhole

\* A Create that loses the race for its name takes nothing away, and none takes a
\* branch of others; a directory of others is erased only in the place of the
\* worktree that the Create has made and detached (Create, compensate).
THEOREM CreatesSpareOthers == WorktreeSpec => CreateSparesOthers
  <1> DEFINE Spares(n) ==
        /\ branch[n] = "other" => branch'[n] = "other"
        /\ directory[n] = "other" /\ directory'[n] # "other" =>
            n = name /\ step = "erase" /\ name \in owned /\ branch[name] = "manager"
  <1>1. WorktreeInv /\ [WorktreeNext]_worktreeVars
            => [doing = "create" => \A n \in Names : Spares(n)]_worktreeVars
    <2> SUFFICES ASSUME WorktreeInv, WorktreeNext, doing = "create", NEW n \in Names
                 PROVE  Spares(n)
      OBVIOUS
    <2> USE TreesTyped DEF WorktreeInv
    <2>1. CASE UNCHANGED <<directory, branch>>
      BY <2>1
    <2>2. CASE Add \/ AddFails
      BY <2>2 DEF Add, AddFails, Free, Added, treeVars
    <2>3. CASE Detach \/ DetachFails \/ Erase
      BY <2>3 DEF Detach, DetachFails, Erase, MadeInv, treeVars
    <2>4. CASE DeleteBranch \/ DeleteBranchFails
      BY <2>4 DEF DeleteBranch, DeleteBranchFails, MadeInv
    <2>5. CASE \E m \in Names : Others(m)
      BY <2>5 DEF Others
    <2>6. CASE \/ \E m \in Names : Candidate(m) \/ Reset(m)
               \/ Verify \/ VerifyFails \/ Populate \/ PopulateFails \/ Compensate
               \/ Inspect \/ EraseFails \/ List \/ ResetSteps \/ RestartManager
      BY <2>1, <2>6
      DEF Candidate, Reset, Verify, VerifyFails, Populate, PopulateFails, Compensate, Inspect,
          EraseFails, List, ResetSteps, RestartManager, treeVars
    <2>7. ASSUME NEW m \in Names, NEW forced \in BOOLEAN, RemoveWorktree(m, forced)
          PROVE  Spares(n)
      BY <2>7 DEF RemoveWorktree, treeVars
    <2>. QED
      BY <2>2, <2>3, <2>4, <2>5, <2>6, <2>7 DEF WorktreeNext, Create, RemoveSteps
  <1>. QED
    BY <1>1, WorktreeInvariant, PTL DEF WorktreeSpec, CreateSparesOthers
==============================================================================
