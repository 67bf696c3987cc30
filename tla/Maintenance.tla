----------------------------- MODULE Maintenance -----------------------------
(****************************************************************************)
(* store/sqlite: Backup and RebuildProjection beside the writers of one     *)
(* Store, a process that writes to the same file through a Store of its     *)
(* own, and others that create files in the directory of the backup.        *)
(****************************************************************************)
EXTENDS Naturals, FiniteSets

CONSTANTS
    Operations,     \* callers of the Store
    Kind,           \* what each calls: "backup", "rebuild" or "write"
    MaxEvents,      \* bound on the events of the log
    NoFile, Foreign

\* A database file by what was committed to it: events, and those projected.
Content == (0 .. MaxEvents) \X SUBSET (1 .. MaxEvents)

ASSUME MaintenanceAssumption ==
    /\ Kind \in [Operations -> {"backup", "rebuild", "write"}]
    /\ MaxEvents \in Nat \ {0}
    /\ NoFile # Foreign /\ NoFile \notin Content /\ Foreign \notin Content

VARIABLES
    log,            \* the number of committed events
    live,           \* those that the projection table reflects
    locked,         \* does a transaction of the Store hold the write lock of the file?
    token,          \* who holds Store.writeToken: {}, or Close for ever
    closing, broken,\* Store.closed, Store.broken
    operation,      \* where each call is
    shadow, source, \* the shadow projection, the events its query returned
    copy, copied,   \* the temporary files of a backup: database, manifest
    snapshot, manifest, \* what the two paths of the backup hold
    published,      \* databasePublished and manifestPublished
    kept,           \* history: what the last backup that succeeded has published
    left,           \* history: what a failed backup could not remove
    died            \* history: has the process died?

fenceVars == <<token, closing, broken>>
tableVars == <<log, live, locked>>
shadowVars == <<shadow, source>>
fileVars == <<copy, copied, snapshot, manifest, published, kept, left>>
maintenanceVars == <<tableVars, fenceVars, operation, shadowVars, fileVars, died>>

MaintenanceTypeOK ==
    /\ log \in 0 .. MaxEvents /\ live \subseteq 1 .. log
    /\ token \subseteq Operations \cup {"close"} /\ Cardinality(token) <= 1
    /\ copy \in Content \cup {NoFile} /\ copied \in Content \cup {NoFile}
    /\ snapshot \in Content \cup {NoFile, Foreign} /\ manifest \in Content \cup {NoFile, Foreign}
    /\ published \subseteq {"database", "manifest"}
    /\ kept \in Content \cup {NoFile} /\ left \subseteq {"database", "manifest"}

\* The projection is one that was added to a log of events.
MaintenanceInit ==
    /\ log = 1 /\ live = {} /\ locked = FALSE
    /\ token = {} /\ closing = FALSE /\ broken = FALSE
    /\ operation = [o \in Operations |-> "idle"]
    /\ shadow = {} /\ source = 0
    /\ copy = NoFile /\ copied = NoFile
    /\ snapshot = NoFile /\ manifest = NoFile /\ published = {}
    /\ kept = NoFile /\ left = {}
    /\ died = FALSE

Go(o, place) == operation' = [operation EXCEPT ![o] = place]
Leave(o) == Go(o, "idle") /\ token' = token \ {o} /\ UNCHANGED <<closing, broken>>

------------------------------------------------------------------------------
(* The fence that all operations share.                                     *)

TargetsAbsent == snapshot = NoFile /\ manifest = NoFile

\* A call that finds the store closed or broken, or a target that exists,
\* returns at once; any other waits for the token.
Enter(o) ==
    /\ operation[o] = "idle" /\ ~closing /\ ~broken
    /\ Kind[o] = "backup" => TargetsAbsent
    /\ Go(o, "wait")
    /\ UNCHANGED <<tableVars, fenceVars, shadowVars, fileVars, died>>

\* The context is done, or the store is closed.
StopWaiting(o) ==
    /\ operation[o] = "wait"
    /\ Go(o, "idle")
    /\ UNCHANGED <<tableVars, fenceVars, shadowVars, fileVars, died>>

TakeToken(o) ==
    /\ operation[o] = "wait" /\ token = {}
    /\ token' = {o}
    /\ Go(o, "held")
    /\ UNCHANGED <<tableVars, closing, broken, shadowVars, fileVars, died>>

\* Backup, unlike the others, does not look at broken again.
Fenced(o) == closing \/ (broken /\ Kind[o] # "backup")

\* The store is fenced, or BEGIN fails: no transaction is open.
RefuseOperation(o) ==
    /\ operation[o] = "held" /\ (Fenced(o) \/ Kind[o] # "backup")
    /\ Leave(o)
    /\ UNCHANGED <<tableVars, shadowVars, fileVars, died>>

CloseStore ==
    /\ \/ ~closing /\ closing' = TRUE /\ UNCHANGED token
       \/ closing /\ token = {} /\ token' = {"close"} /\ UNCHANGED closing
    /\ UNCHANGED <<tableVars, broken, operation, shadowVars, fileVars, died>>

------------------------------------------------------------------------------
(* Transactions of the sole writer: events and rebuilds.                    *)

\* Mutant of BeginImmediate: BEGIN alone leaves the file to other writers.
BeginDeferred(o) ==
    /\ operation[o] = "held" /\ ~Fenced(o) /\ Kind[o] # "backup"
    /\ Go(o, "tx")
    /\ UNCHANGED <<tableVars, fenceVars, shadowVars, fileVars, died>>

BeginImmediate(o) ==
    /\ operation[o] = "held" /\ ~Fenced(o) /\ Kind[o] # "backup"
    /\ ~locked /\ locked' = TRUE
    /\ Go(o, "tx")
    /\ UNCHANGED <<log, live, fenceVars, shadowVars, fileVars, died>>

\* ROLLBACK, which may fail and leave the transaction open on the connection.
RollBack(o) ==
    /\ operation[o] \in {"tx", "project"}
    /\ Go(o, "idle") /\ token' = token \ {o}
    /\ \/ locked' = FALSE /\ UNCHANGED broken
       \/ broken' = TRUE /\ UNCHANGED locked
    /\ UNCHANGED <<log, live, closing, shadowVars, fileVars, died>>

AppendEvent == log < MaxEvents /\ log' = log + 1 /\ live' = live \cup {log + 1}

CommitEvent(o) ==
    /\ operation[o] = "tx" /\ Kind[o] = "write"
    /\ AppendEvent
    /\ locked' = FALSE
    /\ Leave(o)
    /\ UNCHANGED <<shadowVars, fileVars, died>>

\* Another process commits an event between two transactions.
OtherWrite ==
    /\ ~locked
    /\ AppendEvent
    /\ UNCHANGED <<locked, fenceVars, operation, shadowVars, fileVars, died>>

\* The integrity check passes, CreateShadow runs, and a reader's query fixes
\* the events to be projected.
CreateShadow(o) ==
    /\ operation[o] = "tx" /\ Kind[o] = "rebuild"
    /\ shadow' = {} /\ source' = log
    /\ Go(o, "project")
    /\ UNCHANGED <<tableVars, fenceVars, fileVars, died>>

ProjectEvent(o) ==
    /\ operation[o] = "project" /\ Cardinality(shadow) < source
    /\ shadow' = shadow \cup {Cardinality(shadow) + 1}
    /\ UNCHANGED <<tableVars, fenceVars, operation, source, fileVars, died>>

\* Verify, Swap and COMMIT.
SwapShadow(o) ==
    /\ operation[o] = "project" /\ Cardinality(shadow) = source
    /\ live' = shadow /\ locked' = FALSE
    /\ Leave(o)
    /\ UNCHANGED <<log, shadowVars, fileVars, died>>

------------------------------------------------------------------------------
(* Backup.                                                                  *)

\* SQLite refuses to copy from a connection with a transaction, and starts over
\* when another process commits.
CopyOnline(o) ==
    /\ operation[o] = "held" /\ ~Fenced(o) /\ Kind[o] = "backup"
    /\ ~locked
    /\ copy' = <<log, live>>
    /\ Go(o, "copied")
    /\ UNCHANGED <<tableVars, fenceVars, shadowVars, copied, snapshot, manifest, published, kept, left, died>>

\* verifyBackupFile, hashBackupFile, the temporary manifest, and a second look
\* at the targets.
DescribeCopy(o) ==
    /\ operation[o] = "copied" /\ TargetsAbsent
    /\ copied' = copy
    /\ Go(o, "ready")
    /\ UNCHANGED <<tableVars, fenceVars, shadowVars, copy, snapshot, manifest, published, kept, left, died>>

\* os.Link never replaces a file.
LinkDatabase(o) ==
    /\ operation[o] = "ready" /\ snapshot = NoFile
    /\ snapshot' = copy /\ published' = {"database"}
    /\ Go(o, "database")
    /\ UNCHANGED <<tableVars, fenceVars, shadowVars, copy, copied, manifest, kept, left, died>>

LinkManifest(o) ==
    /\ operation[o] = "database" /\ manifest = NoFile
    /\ manifest' = copied /\ published' = published \cup {"manifest"}
    /\ Go(o, "linked")
    /\ UNCHANGED <<tableVars, fenceVars, shadowVars, copy, copied, snapshot, kept, left, died>>

\* Success: the published files are left alone from now on.
SyncDirectory(o) ==
    /\ operation[o] = "linked"
    /\ published' = {} /\ kept' = copy
    /\ Go(o, "undo")
    /\ UNCHANGED <<tableVars, fenceVars, shadowVars, copy, copied, snapshot, manifest, left, died>>

\* Any step fails, and the deferred functions run.
FailBackup(o) ==
    /\ Kind[o] = "backup" /\ operation[o] \in {"held", "copied", "ready", "database", "linked"}
    /\ Go(o, "undo")
    /\ UNCHANGED <<tableVars, fenceVars, shadowVars, fileVars, died>>

\* os.Remove of a published file, whose error is ignored.
RemoveDatabase ==
    /\ published' = published \ {"database"}
    /\ \/ snapshot' = NoFile /\ UNCHANGED left
       \/ left' = left \cup {"database"} /\ UNCHANGED snapshot
    /\ UNCHANGED manifest

RemoveManifest ==
    /\ published' = published \ {"manifest"}
    /\ \/ manifest' = NoFile /\ UNCHANGED left
       \/ left' = left \cup {"manifest"} /\ UNCHANGED manifest
    /\ UNCHANGED snapshot

\* Mutant of Unpublish: the database goes first.
UnpublishForward(o) ==
    /\ operation[o] = "undo"
    /\ \/ "database" \in published /\ RemoveDatabase
       \/ published = {"manifest"} /\ RemoveManifest
    /\ UNCHANGED <<tableVars, fenceVars, operation, shadowVars, copy, copied, kept, died>>

\* What this call has published, the manifest first, each tried once.
Unpublish(o) ==
    /\ operation[o] = "undo"
    /\ \/ "manifest" \in published /\ RemoveManifest
       \/ published = {"database"} /\ RemoveDatabase
    /\ UNCHANGED <<tableVars, fenceVars, operation, shadowVars, copy, copied, kept, died>>

EndBackup(o) ==
    /\ operation[o] = "undo" /\ published = {}
    /\ copy' = NoFile /\ copied' = NoFile
    /\ Leave(o)
    /\ UNCHANGED <<tableVars, shadowVars, snapshot, manifest, published, kept, left, died>>

\* Somebody else creates a file of the same name.
CreateForeign ==
    /\ \/ snapshot = NoFile /\ snapshot' = Foreign /\ UNCHANGED manifest
       \/ manifest = NoFile /\ manifest' = Foreign /\ UNCHANGED snapshot
    /\ UNCHANGED <<tableVars, fenceVars, operation, shadowVars, copy, copied, published, kept, left, died>>

\* The process dies and is started again; its temporary files stay behind under
\* names that nobody looks at.
ProcessDies ==
    /\ died' = TRUE
    /\ operation' = [o \in Operations |-> "idle"]
    /\ token' = {} /\ closing' = FALSE /\ broken' = FALSE /\ locked' = FALSE
    /\ copy' = NoFile /\ copied' = NoFile /\ published' = {}
    /\ UNCHANGED <<log, live, shadowVars, snapshot, manifest, kept, left>>

------------------------------------------------------------------------------
Backup(o) ==
    \/ CopyOnline(o) \/ DescribeCopy(o) \/ LinkDatabase(o) \/ LinkManifest(o)
    \/ SyncDirectory(o) \/ FailBackup(o) \/ Unpublish(o) \/ EndBackup(o)

RebuildProjection(o) == CreateShadow(o) \/ ProjectEvent(o) \/ SwapShadow(o)

MaintenanceNext ==
    \/ \E o \in Operations :
        \/ Enter(o) \/ StopWaiting(o) \/ TakeToken(o) \/ RefuseOperation(o)
        \/ BeginImmediate(o) \/ RollBack(o) \/ CommitEvent(o)
        \/ RebuildProjection(o) \/ Backup(o)
    \/ CloseStore \/ OtherWrite \/ CreateForeign \/ ProcessDies

MaintenanceSpec == MaintenanceInit /\ [][MaintenanceNext]_maintenanceVars

------------------------------------------------------------------------------
(* Properties.                                                              *)

\* At any time, also between two steps of a backup that fails and after the
\* process has died: a manifest with a database beside it describes that one,
\* which projects no event that it lacks; a manifest is without its database only
\* where a failed backup could remove the database and not the manifest; what a
\* backup that succeeded has published stays as it was; and one that has returned
\* leaves both or none unless the process has died or a removal has failed
\* (Backup and its deferred functions).
ManifestIsTrue ==
    /\ manifest \in Content => snapshot = manifest \/ (snapshot \notin Content /\ "manifest" \in left)
    /\ snapshot \in Content => snapshot[2] \subseteq 1 .. snapshot[1]
    /\ kept # NoFile => snapshot = kept /\ manifest = kept
    /\ (\A o \in Operations : operation[o] = "idle") /\ ~died /\ left = {} =>
        (snapshot \in Content <=> manifest \in Content)

\* The projection that a rebuild puts in place reflects every event that is
\* committed at that time, whoever writes meanwhile (RebuildProjection).
RebuildIsComplete ==
    [][\A o \in Operations :
        operation[o] = "project" /\ operation'[o] = "idle" /\ live' # live =>
            live' = 1 .. log']_maintenanceVars
==============================================================================
