----------------------------- MODULE Credentials -----------------------------
(****************************************************************************)
(* auth.MemoryStore and provider.SecretStoreCredential: attempts of turns   *)
(* lease the key of a provider while others replace and delete it.  Bytes   *)
(* are cleared as soon as they are not needed, so it matters who shares     *)
(* them: memory is modelled buffer by buffer.                               *)
(****************************************************************************)
EXTENDS Naturals

CONSTANTS
    Attempts,       \* HTTP attempts that run at the same time
    MaxPuts         \* bound on the calls of Put

ASSUME CredentialAssumption == MaxPuts \in Nat

VARIABLES
    memory,         \* what each buffer holds: a version of the key, or Zero
    entry,          \* MemoryStore.entries: the version that is stored, or Zero
    puts,           \* the number of versions
    place,          \* where each attempt is
    leaseAt,        \* the buffer of its lease's secret
    secretAt,       \* and of the copy it was given
    header,         \* its Authorization header
    leased          \* history: the version that was stored when it was leased

credentialVars == <<memory, entry, puts, place, leaseAt, secretAt, header, leased>>

Zero == 0
\* A buffer for each version in the store, and two for each attempt.
Stored(version) == <<"store", version>>
Buffers == {Stored(v) : v \in 1 .. MaxPuts} \cup {"lease", "secret"} \X Attempts

CredentialInit ==
    /\ memory = [b \in Buffers |-> Zero]
    /\ entry = Zero /\ puts = 0
    /\ place = [a \in Attempts |-> "idle"]
    /\ leaseAt = [a \in Attempts |-> <<"lease", a>>]
    /\ secretAt = [a \in Attempts |-> <<"secret", a>>]
    /\ header = [a \in Attempts |-> Zero] /\ leased = [a \in Attempts |-> Zero]

Cleared(m, buffer) == [m EXCEPT ![buffer] = Zero]
ClearedEntry == IF entry = Zero THEN memory ELSE Cleared(memory, Stored(entry))
To(a, next) == place' = [place EXCEPT ![a] = next]

\* Put clones the material it is given and clears what it replaces.
Put ==
    /\ puts < MaxPuts
    /\ puts' = puts + 1 /\ entry' = puts + 1
    /\ memory' = [ClearedEntry EXCEPT ![Stored(puts + 1)] = puts + 1]
    /\ UNCHANGED <<place, leaseAt, secretAt, header, leased>>

Delete ==
    /\ entry # Zero
    /\ entry' = Zero
    /\ memory' = ClearedEntry
    /\ UNCHANGED <<puts, place, leaseAt, secretAt, header, leased>>

\* Mutant of Lease: the secrets are those of the store.
LeaseShared(a) ==
    /\ place[a] = "idle" /\ entry # Zero
    /\ leaseAt' = [leaseAt EXCEPT ![a] = Stored(entry)]
    /\ leased' = [leased EXCEPT ![a] = entry]
    /\ To(a, "leased")
    /\ UNCHANGED <<memory, entry, puts, secretAt, header>>

\* Lease clones under the read lock.  Without an entry there is no lease.
Lease(a) ==
    /\ place[a] = "idle" /\ entry # Zero
    /\ leaseAt' = [leaseAt EXCEPT ![a] = <<"lease", a>>]
    /\ memory' = [memory EXCEPT ![<<"lease", a>>] = memory[Stored(entry)]]
    /\ leased' = [leased EXCEPT ![a] = entry]
    /\ To(a, "leased")
    /\ UNCHANGED <<entry, puts, secretAt, header>>

\* The material is expired, or has no secret of that name: the lease is closed.
LeaseRefused(a) ==
    /\ place[a] = "leased"
    /\ memory' = Cleared(memory, leaseAt[a])
    /\ To(a, "idle")
    /\ UNCHANGED <<entry, puts, leaseAt, secretAt, header, leased>>

\* CredentialLease.Secret returns a copy.
Secret(a) ==
    /\ place[a] = "leased"
    /\ secretAt' = [secretAt EXCEPT ![a] = <<"secret", a>>]
    /\ memory' = [memory EXCEPT ![<<"secret", a>>] = memory[leaseAt[a]]]
    /\ To(a, "secret")
    /\ UNCHANGED <<entry, puts, leaseAt, header, leased>>

\* RunTurn writes the header, unless its secret is empty.
Authorize(a) ==
    /\ place[a] = "secret"
    /\ header' = [header EXCEPT ![a] = memory[secretAt[a]]]
    /\ To(a, "request")
    /\ UNCHANGED <<memory, entry, puts, leaseAt, secretAt, leased>>

\* DoHTTP has returned, or the request could not be made: the header is deleted
\* and the credential released, the secret first.
DeleteHeader(a) ==
    /\ place[a] = "request"
    /\ header' = [header EXCEPT ![a] = Zero]
    /\ memory' = Cleared(memory, secretAt[a])
    /\ To(a, "release")
    /\ UNCHANGED <<entry, puts, leaseAt, secretAt, leased>>

CloseLease(a) ==
    /\ place[a] = "release"
    /\ memory' = Cleared(memory, leaseAt[a])
    /\ To(a, "idle")
    /\ UNCHANGED <<entry, puts, leaseAt, secretAt, header, leased>>

CredentialNext ==
    \/ Put \/ Delete
    \/ \E a \in Attempts :
        \/ Lease(a) \/ LeaseRefused(a) \/ Secret(a) \/ Authorize(a)
        \/ DeleteHeader(a) \/ CloseLease(a)

CredentialSpec == CredentialInit /\ [][CredentialNext]_credentialVars

\* An attempt sends the key that was stored when it began, whoever replaces or
\* deletes it meanwhile, and the store keeps its own whoever releases a lease;
\* nothing of the key is left when the attempt is over (Lease, Put, Delete,
\* Close, storeCredential.Acquire).
LeaseIsIntact ==
    /\ \A a \in Attempts :
        /\ place[a] = "request" => header[a] = leased[a] /\ header[a] # Zero
        /\ place[a] = "idle" =>
            /\ header[a] = Zero
            /\ \A use \in {"lease", "secret"} : memory[<<use, a>>] = Zero
    /\ \A v \in 1 .. MaxPuts : memory[Stored(v)] = IF v = entry THEN v ELSE Zero
==============================================================================
