# Verification of opencode-go

TLA+ models, TLC runs and TLAPS proofs for the Go runtime under `src/internal`:
a single-process backend whose durable truth is an event log in SQLite, with a
runtime layer (scopes, sinks, processes), project workspaces, worktrees and
configuration, model providers with their protocol adapters, and the JSON
contracts of what it stores and exchanges.

## 1. The system

"Hard" names what makes a part difficult.

| part | state it keeps | operations | interacts with | hard | what makes it correct |
|---|---|---|---|---|---|
| **event service, write side** `event/service.go` | the durable tables (through the store), registered projectors and hooks | `Publish`, `Replay`, `ReplayAll`, `Claim`, `Remove` | runs as the callback of `Store.Write`; calls `notify` after the commit | faults between two statements, a COMMIT that reports an error, chunks that stop half-way, replay ownership, IDs shared by aggregates | histories without gaps, IDs unique, projections atomic with events, answers that are true |
| **event delivery** `event/service.go` | listeners, live subscriptions and their channels, wake channels, tail goroutines | `Listen`, `All`/`Subscribe`, `Durable`, `notify`, `Close` of each | reads history pages from the store; consumers read channels | notices out of order, full channels, panicking listeners, a commit between two reads of a tail, close against send | nobody loses an event silently, a tail sees all history |
| **sqlite store** `store/sqlite/store.go`, `integrity.go` | writer connection, `writeToken`, `closed`, `broken`, `closeCh`, the file | `Open`, `Write`, `History`, `Close`, integrity checks | carries the event service | Close against waiting writers, failed rollbacks, death of the process | one writer, a fenced store frozen, the file always passes `Open` |
| **migrations** `store/sqlite/migration.go` | rows of the migration table, the schema | `PlanMigrations`, `ApplyMigrations` | run by `Open`, of any process on the file | binaries of different age at once, a crash between two migrations, ambiguous commits | each script once, in order, and a prefix of one catalog |
| **backup, rebuild** `store/sqlite/backup.go`, `rebuild.go` | temporary files, the snapshot and its manifest; a shadow projection | `Backup`, `RebuildProjection` | share the write token with writers and the file with other processes | publication by two links, failures between them, history that grows meanwhile | a manifest describes the database beside it; a projection reflects all events |
| **scope** `runtime/scope` | tree of scopes, resource stacks, `done` channels | `Register`, `Child`, `Close` | everything with a lifetime is registered in one | registration racing Close, callers that wait for each other | closed in reverse order, nothing leaks, Close returns |
| **sink** `runtime/sink` | bounded channel, `done` | `Send`, `Receive`, `Close` | used by no other package yet | two selects per call, Close between them | no accepted value is lost by a drained consumer |
| **process** `runtime/process` | child and its group, pipes, termination flags | `Start`, `Wait`, `Close`, context cancellation | owned by scopes; used by worktree and project | grace timer, force and WaitDelay against exit; pipes held open by grandchildren | the result tells what happened; a stopped child is collected |
| shutdown `runtime/shutdown` | three states, two channels | `Observe` | the signal owner | concurrent signals | first signal graceful, later ones forced |
| **workspace** `workspace` | cached entry per directory, generations, `closed` | `Load`, `Reload`, `Dispose`, `DisposeDirectory`, `DisposeAll`, `Close` | boots run in goroutines; every instance has a project scope under the root scope | shared boots, chains of reloads, eviction of a stale entry, shutdown during a boot | cached means open, no orphaned instance, generations do not overlap |
| **worktree** `worktree` | names on record; git worktrees and branches (external) | `Create`, `List`, `Remove`, `Reset` | runs git through process | failure between commands, compensation that fails, names that others take | answers describe what is there; a lost race takes nothing away |
| **configuration** `config` | last resolved snapshot, generation | `Reload`, `Current`, nine-layer merge | read by workspace boots | concurrent reloads, objects replaced by scalars and filled again | precedence leaf by leaf, true origins, one snapshot per generation |
| **auth** `auth` | secrets per reference | `Put`, `Lease`, `Delete`, `Refs` | provider credentials | clearing bytes that others still use | a lease outlives replacement, nothing of the key remains after it |
| **provider core** `provider` | per-stream automaton, emitter, retry counters | `StreamValidator`, `RunWithRetry`, `EventEmitter`, transport | adapters feed it, a sink receives | attempts after a stream began, errors after a rejected event | one well-formed stream; success means a whole one |
| **provider adapters** `provider/{openai,anthropic,compatible}` | state of one response stream | frames to events, requests to bodies | provider core | interleaved blocks, truncated streams, any order of frames | every emitted stream is valid; requests keep their content in order |
| **codec** `codec`, on the types of `domain` | none | decoders and encoders of every stored or exchanged document | event payloads, provider events, fixtures | members listed twice, types of later versions kept raw | decoding and encoding are inverse |
| project, pathx, telemetry | none | path and remote normalisation, redaction | everywhere | case distinctions | - |
| baseline, cmd, p1fixture | none at run time | audits of another repository, samples of documents | - | - | - |

## 2. Modules

| module | what it is | plus |
|---|---|---|
| `EventTables` | the tables `event_sequence` and `event`, the projections, the statements as operators, constraints and integrity check as predicates | its lemmas begin `EventServiceProofs` |
| `SqliteStore` | the write token, the transaction with all its failures, `Close`, death and reopening | extends `EventTables` |
| `EventService` | the five calls as callbacks of the transaction, one action per statement | extends `SqliteStore`; proofs in `EventServiceProofs`, `EventLogProofs` |
| `EventLog` | the abstract promise: one gapless, append-only history per aggregate, IDs unique, owners fenced | implemented by `EventService` (proved in `EventLogProofs`), used by `EventDelivery` |
| `EventDelivery` | notices, listeners, live subscriptions and durable tails over `EventLog` | proofs in `EventDeliveryProofs` |
| `Migrations`, `Maintenance` | several binaries on one file; backup and rebuild beside writers | proofs in `PartsProofs` |
| `Scope`, `Sink`, `ChildProcess` | the scope tree; the bounded queue; one child, its group and everybody who may end it | combined in `MCRuntime`; proofs in `RuntimeProofs` |
| `Workspace` | the workspace store on scopes | proofs in `WorkspaceProofs` |
| `Worktrees` | the manager over an external git | proofs in `PartsProofs` |
| `Config` | resolver, merge and manager | proofs in `ConfigProofs` |
| `Credentials` | the memory store and the attempts that lease from it | proofs in `PartsProofs` |
| `LLMStream` | the order of the events of a turn, as a table of blocks and as a grammar | `StreamValidator` feeds it any events; proofs in `ProviderProofs` |
| `EventEmitter` | what stands between an adapter and the sink | extends `LLMStream` |
| `OpenAIResponses`, `AnthropicMessages`, `CompatibleChat` | the frames of each protocol | extend `EventEmitter` |
| `ProviderTurn` | `RunWithRetry` over `RunTurn` of any adapter or of the recorded fake | extends the three; proofs in `ProviderProofs` |
| `ProviderRequest` | what a canonical request becomes in each protocol | |
| `Contracts` | documents, rules and what a decoder reads | |
| `LLMContracts`, `SessionContracts` | the contracts of every type, and for each object in it the names its encoder writes | extend `Contracts` |
| `Codec` | decoders and encoders over those contracts | extends both |
| `MC*` | constants of the runs; `MCParts` and `MCRuntime` put parts that share no variable in one run, `component` saying which one a behaviour exercises; `MCDelivery` does so with the live and the durable readers of `EventDelivery` | |

The two halves of the event service meet in `EventLog`. On the write side
`EventService` is shown to implement it (`ImplementsLog`, with the histories of
the committed tables as the mapping, checked by a run and proved as
`ServiceImplementsLog`); on the read side a commit is one
`AppendEvent` of it, so that delivery is checked against every order of commits
the log allows and not against the steps of one transaction. In the same way
`LLMStream` states twice what a stream is: `Accept` is the automaton of the
code, `WellFormed` and `Complete` its grammar; that they agree is checked by
`StreamValidator` and proved as `ValidatorsAreExact`, and `ProviderTurn` uses the
grammar to judge what reaches the sink.

### State and code

* `SqliteStore`: `db` is the file, `work` what the writer connection sees;
  `token` is the channel `writeToken`; `closer` stands for `closed`, `closeCh`
  and how far `Close` is; `pc` follows a caller through `Write` (lines
  261-345), whose callback is the group of places `Callback`. A COMMIT may
  succeed, fail with the transaction kept or undone by SQLite, or take effect
  and still report an error (`AmbiguousCommit`). ROLLBACK may fail; the probe
  may leave its own transaction open. `StoreRestart` is the death of the
  process anywhere, followed by `Open`, which refuses a file that fails
  `IntegrityCheck`; a refused file would be a deadlock.
* `EventService`: a request is one call with the arguments that matter. Each
  entry of a replayed chunk is a `Write` of its own, as in `ReplayAll`
  (lines 741-746). The checks of a callback are one step because they run on
  one connection inside BEGIN IMMEDIATE; every writing statement is a step.
  Validation before the first statement is the shape `RequestsAssumption` gives
  the requests. An event's content is an ID and a payload; encoding, clocks and
  ID minting are abstracted.
* `EventDelivery`: `notice[p]` is a publisher between its commit and the end of
  `notify`; the listeners are copied first and called one by one, and the part
  of `notify` under the mutex is one step (`Broadcast`). A tail is its goroutine
  (`stage`), with the page it holds and its wake channel of capacity one.
  `outbox` and `inbox` are the Go channels; `seen`, `got`, `sent` and `removed`
  are history variables. Because the log is gapless, the test of `runDurable` that a page
  continues at the cursor cannot fail and is left out.
* `Migrations`: `applied` is the migration table, one transaction per migration
  under the lock of the file. Each opener plans from what it finds, and looks
  again inside the transaction, where another process may have been faster.
* `Maintenance`: `operation` is where each call is, `token` who holds the write
  token, `locked` whether a transaction of the store has the file. A file holds
  the events that were committed to it and those its projection reflects. A
  backup that fails removes what it has published, the manifest first; each of
  these `os.Remove` may fail, and its error is ignored. `kept`, `left` and `died`
  are history variables.
  SQLite's online copy is external: it refuses a connection with a transaction
  of its own and starts over when another process commits. Death leaves
  temporary files under names nobody looks at. A COMMIT either takes effect or
  reports an error here; the ambiguous one is in `SqliteStore` and `Migrations`.
* `Scope`: `pending` is the slice the closing caller took; `begun` says that it
  is inside the Close of its last element. Contexts may expire at any time, and
  `expired` is what they do to a wait. Creation of a scope by `Child` under a
  closing parent leaves it closed.
* `Sink`: one action per outcome of each select. A select with several ready
  cases may take any.
* `ChildProcess`: `alive` and `termed` describe the group; `holds` who keeps the pipes open
  and `obeys` who ends on SIGTERM. `watcher` is exec.Cmd's goroutine, `grace`
  the goroutine of `requestGraceful`, `closer` the calls of `Close` and
  `collector` the goroutine in `command.Wait` up to `close(done)`. The watcher's
  hand-over, its kill after WaitDelay and the wait for the pipes follow the
  standard library and are marked external.
* `Workspace`: `entries` is the map, `worker` the goroutine of each entry,
  `call` what a caller does. A scope's own `Close` is taken from `Scope`: the
  first caller cleans, any other waits.
* `Worktrees`: for each name `directory`, `branch` and `attached` say who made
  them, `owned` is the manager's record, `step` the next git command of the
  operation under its mutex. A git command may fail with or without effect, and
  the list that follows decides. Others take names that are free, between
  any two commands of the manager too, its own removals included.
* `Config`: an object is a function from the paths of its leaves to values. The
  merge follows the recursion of `mergeValues` by saying which leaves of the
  target each new leaf replaces; origins follow `clearOrigins` and `setOrigins`,
  with the stale ones they leave at paths that are no leaves any more.
  `instructions` are united, without what occurred before, within an array too
  (`mergeInstructions`). Files may change between any two reads.
* `Credentials`: memory is modelled buffer by buffer (of the store, the lease and
  the copy that `Secret` returns), because clearing one must not clear another.
* `EventEmitter`, adapters, `ProviderTurn`: `queue` is what an adapter's handler
  of one frame still emits, with `Fail` for its error. A server may send any
  frame in any order. `context`, `started` and `attempt` are those of the code;
  a status is one of four classes, as `retryableStatus` tells them apart. A
  chunk of the compatible protocol with several parts is several frames. The
  recorded fake plays the events of its cassette as they are: `NewFakeProvider`
  looks at each by itself and never at their order, so what it plays is the
  stream that its author wrote, and the order and the end of a stream are claims
  about the adapters.
* `ProviderRequest`: content is known by its position in the message, so that a
  body shows what became of each part. HTTP, provider options and generation
  settings are not in it.
* `Contracts`: a document maps the path of each member to a token, the kind of
  value that stands there or one of the strings and numbers some contract tells
  apart. A contract is a set of members with a rule each, which is what the
  `decode*` functions check; `ReadBy` is what is left of a document in the Go
  value, which forgets the spelling of numbers. An encoder lists names for each
  object that it writes, which may depend on the type of that object (`NamesAt`),
  and writes raw members as they are; `Written` is what becomes of a value. `Codec`
  decodes a document or takes a built value, encodes it, which in the code includes decoding the result, and
  delivers it to a reader (`Receive`, `Build`, `Send`, `Deliver`); the dispatch by
  contract is that of `p1fixture/generate.go`. Duplicate members and the depth of
  nesting are not modelled.

Mutations of a definition stand right before it and say so in their comment;
they show that the properties can fail.

## 3. Runs

| run | instance | what it asks |
|---|---|---|
| `service_safety` | 2 writers, 2 aggregates, 2 IDs, 2 payloads, 2 owners, sequences 0..1, every fault, restarts | the safety of the durable log, and its refinement of `EventLog` |
| `service_answers` | 2 writers, 1 aggregate, 3 IDs, chunks of two racing publications, COMMIT never ambiguous | are answers true; does every call, and Close, return |
| `delivery` | 2 publishers with, in one behaviour, either 1 listener and 2 live subscriptions of capacity 1, 2 events, quiet replays and removals; or 1 tail from sequence 0 or 1, page 2, channel 1, 3 events, all of them announced | nobody silently short, every notice reaches all; the tail sees the whole history in order, and its Close ends it |
| `workspace_safety` | 2 directories (2 generations and 1), 2 callers | cache, orphans, overlap, shutdown |
| `workspace_returns` | 1 directory, 3 generations, 2 callers | every load is answered |
| `runtime` | scopes: a chain of 3, 2 resources, 2 callers, contexts that expire; sink: 2 producers, 2 consumers, capacity 1, 2 values each; child: the child and a descendant, each obeying SIGTERM or not and holding the pipes or not, one call of Close beside the context | leaks, order, Close returning; values lost by the races of a sink's Close; is a child's result true, and is a stopped child collected |
| `parts` | the nine parts below, one per behaviour | what each of them promises |
| `quiet_replay` | the tail with replays that do not publish | violation, finding 1 |
| `removal` | the tail with removals | violation, finding 2 |
| `workspace_canceled` | 1 directory, 2 generations, DisposeAll may be canceled | violation, finding 3 |
| `process_group` | the child of `runtime` | violation, finding 4 |
| `worktree_removal` | the worktrees of `parts` | violation, finding 5 |

The parts of `parts`, with their instance and the properties they are there for:

| part | instance | properties |
|---|---|---|
| turn | each adapter with up to 4 frames of any kind over 2 items or blocks, and the fake with five tapes, of which one has no events and one is out of order; 2 attempts; a sink that may refuse | `SinkSeesOneStream`, `SuccessIsComplete` |
| validator | 5 accepted events out of a vocabulary of 2 text blocks, a reasoning block, a tool with two names, steps -1..1, ends and bad events | `ValidatorIsExact` |
| request | messages of up to 3 parts of any kinds in any role; up to 2 tools, every choice and format, routes with all or few capabilities | `ProjectionIsFaithful` |
| credential | 2 attempts, 3 versions of the key | `LeaseIsIntact` |
| migrations | a binary with 2 migrations, one with 3, one whose second differs | `EachOnceInOrder` |
| maintenance | a backup, a rebuild and a writer of one store, another process, 3 events, removals that fail | `ManifestIsTrue`, `RebuildIsComplete` |
| worktrees | 2 names, of which an operation picks the other when its own is taken, and which others use at any moment | `AnswerIsWhole`, `CreateSparesOthers` |
| config | 2 callers with 3, 2 or 1 sources; 8 documents whose leaves meet, one with an instruction twice, and every stage that may fail | `SnapshotsAreTrue` |
| codec | for every contract the whole document, the least, and each that differs in one member; and values the program may build: within a contract, slipping past it, holding what belongs to another type of content, or of an unknown type that is empty | `CodecsAreInverse` |

**Bounds.** `MaxSequence` = 1 gives aggregates that are missing, begun and full,
and chunks that start stale, next and with a gap. Two IDs against three
places force an ID to come again on the same and on the other aggregate. Two
writers suffice for the token, since a third would only wait like the second.
In the `delivery` run capacity 1 makes the second undelivered event an overflow,
and pages of two make three events need a full page and a partial one. Three
scopes are a root, a project and a session, of the four levels the code allows:
the middle one is parent and child at once, and two callers allow each to wait
for the other. Three generations of one directory make a chain in which the
middle entry both waits and is waited for. Four frames open, fill and end a
block and end the turn, or interleave two; two attempts are a failure and its
repetition; five events hold a whole tool call inside a step. One descendant is
enough to hold a pipe or to ignore a signal after the child has gone. Three
binaries are one that is older, one that is newer and one that must be refused.
Two parts of a message on either side of a third make the flush of collected
parts visible. In the codec a list has one element, because every decoder treats
all elements alike. `MaxEvents`, `MaxSends`, `MaxGeneration`, `MaxFrames`,
`MaxAccepted` and `MaxPuts` bound what clients and servers do; the code has no
such bounds.

**Symmetry.** Writers in `service_safety` and callers in `workspace_safety`
are interchangeable, and those runs have no liveness property.

**Deadlock** is checked in the service and workspace runs.
In the others the system may stop: all events are published, the sink is closed and drained, the
turn has returned, the document was delivered.

**Fairness.** Goroutines that can run, run (WF): statements and callbacks of a
transaction, `notify`, tail goroutines, boots, cleanup and the closing of
resources all return. The token needs SF: a channel serves blocked receivers in
their order, so a waiting writer is not passed over for ever. For a child
process the goroutines run, the timers of the grace period and of WaitDelay
expire, and a member of the group that obeys SIGTERM ends after it; no member
that ignores it need ever end, and nobody need close a pipe. Nothing obliges a
client to call, to receive, to cancel or to publish; `TailSeesEveryCommit` says
of itself that it needs a consumer that goes on receiving. Contexts need not
expire, and the liveness properties hold without it. The properties of `parts`
are safety and need no fairness.

## 4. Findings

1. **A quiet replay wakes no tail** (`event/service.go:668`). `Replay` without
   `Publish` commits and does not call `notify`, the only place that signals
   the wake channels. A running `Durable` subscription sleeps on although the
   comment on it (381-383) says it tails newly committed events.
2. **A removal strands a tail** (`event/service.go:891`). `Remove` starts the
   aggregate's sequence again at 0 while the cursor of a running tail stays, so
   that the tail skips new events up to its cursor.
3. **A canceled DisposeAll orphans a booting entry**
   (`workspace/store.go:171`). The map is emptied before the waits; a wait that
   ends with the context leaves an entry that nobody can reach and nobody will
   close but the root scope. `IMPLEMENTATION_STATUS.md:53` says a canceled
   dispose no longer orphans one; that is so for `DisposeDirectory`.
4. **A descendant survives a child that obeys** (`runtime/process/process.go:408`).
   SIGTERM goes to the whole group, SIGKILL only if the child itself is still
   uncollected when the grace period ends: both the grace goroutine (396) and
   `force` (408-411) return once it is. A descendant that ignores SIGTERM then
   lives on after `Close`. `IMPLEMENTATION_STATUS.md:44` and `:90` list the
   cleanup of the group's descendants among what is verified.
5. **Remove erases what others put at its path** (`worktree/manager.go:592`).
   Once git's list no longer shows the path (303-323), `os.RemoveAll` erases
   whatever stands there (325, 592), without another look at whose it is or
   whether it is attached by then. The comment of `Remove` (257-258) says that it
   never recursively removes an unowned or still-attached path. Somebody may take
   the path in between; and without any race, a Remove that failed between the two
   steps keeps its record, by which a later one erases what is there by then.

Smaller observations that are no contradiction of a document and have no run:

* `EncodeLLMEventJSON` of an `UnknownEvent` with an empty type writes JSON
  (`codec/llm_event.go:146-157`) that its decoder refuses (21-23), and
  `encodeToolContent` (`codec/session_message_assistant.go:589-604`) drops what a
  built text content holds of a file, or the reverse. No decoder yields either
  value, and `CodecsAreInverse` names them as its two exceptions.
* A Backup that fails ignores the errors of `os.Remove`
  (`store/sqlite/backup.go:137-142`), so that it may leave a manifest without its
  database, or a database without its manifest. `ManifestIsTrue` allows the first
  only where the removal of a manifest has failed, and the second also after a
  process has died.
* The compensation of a failed `Create` erases directories as in finding 5.
* Token counts given as JSON strings are accepted and written as numbers.
* The compatible projection keeps only the last of several reasoning parts.
* The OpenAI `[DONE]` record after `response.completed` is an error.
* `ApplyMigration`, once it holds the lock, looks for the row of its own migration
  only (`store/sqlite/migration.go:269`), so that two builds that number a
  migration differently and open one file at once can both apply theirs, after
  which `PlanMigrations` of either refuses the file. This came out of a proof:
  without `SharedNumbering` (section 5) `EachOnceInOrder` does not follow.

## 5. Proofs

The theorems hold for every value of the constants that satisfies the named
assumptions: any sets of writers, aggregates, callers, directories, scopes,
binaries and names, any capacity, batch size and bound. Each rests on an
inductive invariant, which TLC has checked on the instances of section 3
before it was proved.

| theorem | property | in words |
|---|---|---|
| **`EventServiceProofs`** | | |
| `TypeCorrect` | `TypeOK` | |
| `WritersExclude` | `OneWriter` | one transaction at a time, for the holder of the token |
| `AlwaysReopens` | `ReopenAccepts` | the file passes the check of `Open` whenever the process dies |
| `IDsStayUnique` | `IDsUnique` | no two stored events share an ID |
| `ProjectionsAreAtomic` | `ProjectedTogether` | every event on file has its projection, and no step stores a projection but with its event |
| `InsertsAreAccepted` | `ConstraintsNeverBite` | |
| `NoticesAreTrue` | `NoticeFollowsCommit` | |
| `AnswersAreTrue`, if `~AmbiguousCommit` | `AnswerIsTrue` | |
| `FencedStaysFrozen` | `FencedStoreIsFrozen` | |
| **`EventLogProofs`** | | |
| `ServiceImplementsLog` | `ImplementsLog` | the refinement: every step of the service is one of `EventLog` or none |
| `OwnersStayFenced` | `OwnersAreFenced` | |
| **`EventDeliveryProofs`** | | |
| `DeliveryTypeCorrect` | `TypeOK` | |
| `NothingIsLostSilently` | `NoSilentLoss` | a subscription that missed an event was closed with an overflow |
| `TailsDeliverHistory` | `TailDeliversHistory` | a tail delivers the history without gap, repetition or swap |
| `FailuresAreTrue` | `FailureIsTrue` | |
| **`WorkspaceProofs`** | | |
| `StoreTypeCorrect` | `TypeOK` | |
| `GenerationsFollow` | `PreviousEndsFirst` | |
| `TheCacheIsAlive` | `CachedIsOpen` | |
| `NothingIsOrphaned`, if `~CancelDisposeAll` | `NoOrphan` | |
| `TheRootEndsAll`, if `~CancelDisposeAll` | `RootLeavesNothing` | |
| **`RuntimeProofs`** | | |
| `ScopesLeakNothing` | `NothingLeaks` | |
| `ScopesCloseInReverse` | `ReverseOrder` | |
| `ClosedSinksAreDrained` | `ClosedMeansDrained` | |
| `SinkIsFirstInFirstOut` | | what was accepted is what was received, then what is buffered |
| `ResultsAreTrue` | `ResultIsTrue` | |
| **`PartsProofs`** | | |
| `LeasesAreIntact` | `LeaseIsIntact` | |
| `MigrationsRunOnce` | `EachOnce` | for any catalogs: once each, and an opener finds all of its own |
| `MigrationsRunInOrder`, if `SharedNumbering` | `EachOnceInOrder` | |
| `ManifestsAreTrue` | `ManifestIsTrue` | a manifest describes the database beside it; a Backup that has returned leaves both or neither, unless the process died or a removal failed |
| `RebuildsAreComplete` | `RebuildIsComplete` | |
| `AnswersAreWhole` | `AnswerIsWhole` | |
| `CreatesSpareOthers` | `CreateSparesOthers` | a Create deletes no branch of others, and erases a directory of theirs only in the place of the worktree that it has itself just detached |
| **`ProviderProofs`** | | |
| `ValidatorsAreExact` | `ValidatorIsExact` | the automaton refuses an event just when the grammar does, and is done just when a whole stream is there or something was refused, for streams of any length over any events |
| `SinksSeeOneStream` | `SinkSeesOneStream` | one attempt, one well-formed stream, whatever frames a server sends |
| `SuccessesAreComplete` | `SuccessIsComplete` | |
| **`ConfigProofs`** | | |
| `SnapshotsStayTrue` | `SnapshotsAreTrue` | any number of sources and reloads, documents of any shape and depth |

**Assumptions.** The constants satisfy the ASSUMEs of their modules, which TLC
evaluates on every run: `TablesAssumption`, `StoreAssumption`,
`RequestsAssumption` (what the calls validate before they touch the store),
`LogAssumption`, `DeliveryAssumption`, `WorkspaceAssumption` (finitely many
directories, because `DisposeAll` lists the map), `ScopeAssumption`,
`SinkAssumption`, `ChildAssumption`, `CredentialAssumption`,
`MigrationAssumption` (catalogs as `validateMigrationCatalog` accepts them),
`MaintenanceAssumption`, `TurnAssumption`, `VocabularyAssumption` (the events are
of the types that the switch of `Accept` knows, the rest being `"bad"`),
`CassetteAssumption`, `ReloaderAssumption` (no caller is "nobody") and
`ContentsAssumption`. The last says what has become of a file once it is parsed
and validated: an object, in which no leaf lies below another because it came
from one JSON value, and whose instructions, if there are any, are an array of
strings (`validateTopLevel` refuses anything else). `CassetteAssumption` is about
the test double only, and the code does not enforce it: a recorded turn that ends
in an error saying that its stream had not started has recorded no events. A
cassette that contradicts itself like this would be played twice into the same
sink by `RunWithRetry`, which believes the error. Three theorems carry a
hypothesis of their own.

* `~AmbiguousCommit`: a caller whose COMMIT reports an error though it took
  effect cannot know what happened. Everything else about the service, the
  refinement included, is proved with such commits.
* `~CancelDisposeAll`: a `DisposeAll` that is canceled does orphan an entry
  (finding 3). `RootLeavesNothing` needs it too, because the caller that closes
  the root may be the one that gives up.
* `SharedNumbering`: catalogs that begin alike give their next migrations the
  same ID, as builds of one line of development do; their contents may differ.
  Without it the table can be a prefix of no catalog (section 4), and
  `MigrationsRunOnce` says what is left.

**The event service.** The properties are not inductive. That the file is sound
after a COMMIT depends on the tables the transaction has built, and those on the
step it is at: between `PutSequence` and `InsertEvent` the tables are
deliberately unsound. `IInv` therefore adds, besides types and the token,

* `CallInv`: a writer in a call has a request and is at an entry of it;
* `WorkInv`: what the connection's tables are at each step. Sound at the checks
  and at COMMIT; sound with a free place and an unused ID while the event is
  `Placed`; and `Promised` between the sequence row and the event row, that is,
  sound but for the one row that is about to come. No transaction is under way
  once the store is broken;
* `Sound(db)`: histories without gaps, unique IDs, projections for all rows and
  owners only with sequence rows.

The lemmas on tables show what each statement makes of such tables
(`OwnerChangeSound`, `DeleteSound`, `ProjectSound`, `PutSequencePromises`,
`InsertKeepsPromise`) and that sound tables pass the check of `Open`
(`SoundPassesCheck`). There is one lemma per action; `OneWriter` gives that the
others are outside the transaction, so that only the acting writer's `WorkInv`
needs an argument.

`AnswerInv` adds `Counted` to `IInv`: `applied` is one less than the entry's
number until its COMMIT, and from there on agrees with `outcome`. The one
exception is a COMMIT that took effect and reported an error, which `Told` names
and `AmbiguousCommit` allows. `NoticesAreTrue` does not depend on it, because
observers are told only after a success. `FencedStaysFrozen` follows from `IInv`
and from `CommitsOnly`, that no step but a COMMIT changes the file: no writer is
at its COMMIT once the store is broken or the token has gone to `Close`.

That every event on file has its projection is part of `Sound(db)`. The other half
of `ProjectedTogether`, that no step puts a projection on the file without its
event, compares the tables before and after a COMMIT, which `IInv` does not relate
to each other. `StartInv` does: up to its writing statements the transaction of a
call has the tables of the file, to which these add a projection and then its event.

**The refinement.** `IInv` says that the tables of a transaction are sound, and
not how they came from the committed ones. `LogInv` adds `EffectAt`: at each
step of a callback, by how much `work` differs from `db`, up to `CommitAt`,
which names the one event, owner or removal that the COMMIT will bring. `AppendsToLog`,
`NotInLog`, `RemovesFromLog` and `SameLogOf` carry such a difference through the
mapping from tables to histories; `OnlyCommits` says that nothing but a COMMIT,
reported or not, changes the file. `OwnersAreFenced` is the part of `CommitAt`
that is about owners.

**Delivery.** For a live subscription `SubscriptionAt` says that what it got and
buffers is what `notify` had for it, and after an overflow all but the last. For
a tail `DeliveredAt` puts what it delivered at the places after its start, up
to its cursor, and `PageAt` puts the page it holds right behind. What the events
at those places are can be said only while no aggregate is removed, which is
finding 2 again; the order of their sequences is proved with removals too.
`LogGrows` makes what was read of the log stay true while others append to it, and
`PageOfHistory` is the arithmetic of a page at the ends of the history.

**The workspace store.** Its invariant comes in layers, each proved with those
below as hypotheses. `EntriesInv` relates the goroutine of an entry to its scope
and to the generation it replaces, and gives `PreviousEndsFirst`. `CallsInv` says
what a caller knows of the entries it took out: that they exist, are not cached
and will not come back. With both, `CacheInv` (until the root closes nobody closes
what boots or is cached), `LooseInv` (an entry that is open or may still become
so is cached, superseded or being disposed) and `RootInv` (the root has every scope
in its list, and who closes it has ended them or still has them before it) are
inductive. `LooseInv` must speak of entries before they have a scope: `NoOrphan`
alone says nothing of a boot that is about to finish.

**Runtime.** In `ScopeInv` the index at which a closing scope stands determines
the state of every resource it was given (`HeldInv`, `LeafAt`), a resource has
one owner (`GivenOnce`), and a scope that closes is closed by the caller that
called it or by its parent's cleanup (`CleanerInv`). The last needs that the
parents form a `Forest`: a cycle of scopes, each inside the other's cleanup,
would satisfy it otherwise. `SinkInv` is the order of the queue. `ChildInv` says
which observation each step of the collector has already made, and that these
stay true: nobody signals a child whose context is live, and the group is
killed only after it was marked.

**Parts.** `CredentialInv` knows which buffers hold the key at each step of an
attempt. `MigrationInv` says that a process has applied the first migrations of
its catalog and has the others left, and `OrderInv` that with a shared numbering
they stand at the same places of the table (`NextIsNext`). `MaintenanceInv` ties
the files to the place of the call that makes them, and to the token. `WorktreeInv` says what
the manager has made, or taken away, at each git command.

**Provider streams.** `Stands` says that a validator has accepted a sequence:
each entry of the table `Knows` what the events of its block have been (opened
under which kind and name, ended, called, settled), the step is the last one that
was started and not finished, and the sequence is well-formed; after a terminal
event it is complete. Both `Accept` and the grammar are then compared on the
sequence and one more event, so that nothing needs an induction over its length:
`WellFormed` of the longer one is `WellFormed` of the shorter one and what `Fits`
asks of the last event. `FeedInv` is that for the validator by itself. For a turn
there are two sequences, what the sink has received and what the validator has
heard: the emitter holds a step-start back until something follows it, so they
differ by at most that one (`Heard`). `EmitterInv` says that what was heard
stands until the emitter fails, and that after a failure nothing is queued;
`TurnInv` adds where the turn may be, that before an attempt the sink is empty,
and that an outcome which would be tried again leaves it empty. The adapters'
own states do not appear in it: whatever they put in the queue passes the
validator. The one thing their proofs need is where they report success, which
the emitter allows only when the validator is done.

**Configuration.** `Merged` is what a snapshot satisfies after each source: its
leaves are those that survive the sources so far, each has the origin and value
of such a source (`FromSource`), and a leaf that no later source overrides is
there or has been filled since. The last clause is not part of the property, and
without it the step fails: an empty object that a later source leaves alone is
no leaf any more once something was put below it, and becomes none again when
that is replaced. `MergeKeeps` adds one source: `Spares` is what the new document
does not override, `Landing` and `Kept` are the leaves it brings and leaves,
`OriginsStay` shows that clearing the origins below a replaced place spares those
of all kept leaves, and `MergedInstructions` that the united array has the items of
all, once each. Since sources are added one at a time, the fold over them is
the behaviour itself. `ConfigInv` puts `Merged` into the calls: the one with
the lock is building the next generation from what the previous rounds built.
All that is needed of paths is that prefixes are an order in which those of one
path form a chain (`PathsAreOrdered`).

**Induction over data.** The induction theorems of the library take a predicate
as a parameter, which the provers cannot instantiate. Its theorem of minimal
elements (`WFMin`) takes a set instead, so that a least counterexample can be
used (`LeastOf`): this is how `OnceEach` shows that the first occurrence of an
item in an array exists.

**What the proofs changed.** The classification of a child's end was a CASE with
overlapping conditions, of which TLC took the first and the prover could assume none;
it is the chain of tests of `classifyWait` now. `EachOnceInOrder` turned out to
depend on `SharedNumbering`. The types of several variables became sets of functions.
`ValidatorIsExact` did not follow as long as the grammar asked the same name of
every event of a block: the code compares names for tool input only, which the
vocabulary of the run could not show. `SinkSeesOneStream` and `SuccessIsComplete`
claimed the order and the end of a stream for the fake as well, which nothing in
it ensures; the tapes of the run happened to be whole and in order until then.
`Union` kept an instruction that one array has twice, which `mergeInstructions`
drops, and no document of the run had one; the property now says that united
arrays have no item twice.

**Only model-checked.** All liveness (`EveryCallReturns`, `CloseEnds`,
`CommitsReachSubscribers`, `TailSeesEveryCommit`, `CloseReturns`, `LoadReturns`,
`StopEnds`), which is out of reach of the prover, as is ENABLED. Of the
invariants, `ProjectionIsFaithful` and `CodecsAreInverse`: both say what functions
over bounded data return, without steps, and those are built from operators of
the library that take an operator (`SelectSeq`, `FoldLeftDomain`, `FlattenSeq`),
which the prover cannot expand; and the contracts of the codec are tables, of
which a proof would be an enumeration, which is what TLC does.

## 6. Not modelled

* `runtime/shutdown`: three states that only go forward, under one mutex. Any
  property of it would restate its one switch.
* `project`, `platform/pathx`: what they compute depends on the characters of
  paths and on the file system, and they keep no state.
* `telemetry`: redaction walks a value by the names in it, and the handler of
  slog writes under its own lock.
* `domain/id.go`: identifiers are minted under a mutex; their ascending layout
  holds within a window of their 48 bits and for a clock that is not set back,
  and no code here orders by them.
* `baseline`, `cmd`: batch programs that scan another repository and compare
  documents. They are no part of the running system, and their logic is regular
  expressions over text.
* Of the codec: the session cursor (base64 of a checked record), a location or a
  usage by itself, which `encoding/json` decodes into a struct with its own
  rules for names, the permission reply (one of three strings), the event
  envelope by itself, and the refusal of media that hold bytes. `CodecsAreInverse`
  says nothing of these.
* Of the adapters and transport: headers, URLs, provider options, generation
  settings, usage and metadata of events, the splitting of SSE text into records.
* Of the store: read-only mode, pragmas, the mapping of columns, and the check
  of a finished backup by a reader.
* Of the worktree manager: containment of paths, case modes and the parsing of
  git's output.

## 7. What could be added

Every safety property of the passing runs but the two named in section 5 is a
theorem. The next steps would be the remaining codecs (cursor, location, permission
reply); catalogs that number their migrations differently, of which
`MigrationsRunOnce` says what is left and no run asks more; and a version of
`ProviderRequest` without the library's sequence operators, about which it could be
proved that a body keeps the order of the content.
