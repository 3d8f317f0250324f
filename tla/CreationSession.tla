--------------------------- MODULE CreationSession ---------------------------
(***************************************************************************)
(* One user's 任务创建会话: up to three 来源, pasted, fetched or uploaded,     *)
(* confirmed together into a 立言任务; the objects that uploads leave in the  *)
(* bucket; and the cleanup that removes what nobody needs any more.          *)
(*                                                                          *)
(* How a URL or file 来源 gets its text is SourceCapture; here a 来源 moves as *)
(* PreparedSource says.  Handlers that take the owner's row keep it to their   *)
(* commit, and those that are refused keep what they took until the event loop  *)
(* lets their session close.  An upload is split because it awaits the bytes of  *)
(* its file and writes to the bucket before its row; a removal is split because  *)
(* it empties the bucket before its row goes.                                  *)
(***************************************************************************)
EXTENDS Naturals, FiniteSets

CONSTANTS
    Pasted, Urls, Files,    \* the 来源 a user may add, by their kind
    Identities,             \* normalised URLs, or hashes of a text or a file
    Keys,                   \* idempotency keys of confirmations
    MaxSources,             \* MAX_SESSION_SOURCES
    MaxVersion,             \* bound: input versions of one 来源
    None,                   \* no 来源, no task, no identity
    Owner,                  \* the owner's row, beside the rows of the 来源
    Events                  \* which of PossibleEvents may happen

\* crash: a process dies between two steps; overlap: two uploads of one user reach
\* the event loop together; refusal: a request is refused with rows it has locked.
PossibleEvents == {"crash", "overlap", "refusal"}

Sources == Pasted \cup Urls \cup Files

ASSUME ConstantsAssumption ==
    /\ Pasted \cap (Urls \cup Files) = {} /\ Urls \cap Files = {}
    /\ MaxSources \in Nat \ {0} /\ MaxVersion \in Nat \ {0}
    /\ None \notin Sources \cup Identities \cup Keys
    /\ Owner \notin Sources \cup {None}
    /\ Events \subseteq PossibleEvents

VARIABLES
    row,        \* source_preparations by 来源
    objects,    \* <<来源, version, identity>> of each object in the bucket
    upload,     \* the upload that holds the owner's row, and how far it is
    loopWaits,  \* the row the event loop blocks on: the owner's, or one of a 来源
    refused,    \* the rows that each refused request keeps
    removal,    \* the 来源 a delete request has locked and whose object it has deleted
    task,       \* the 立言任务 made under each key
    cleaner,    \* what the cleanup has read and not yet written
    overtaken   \* ghost: the cleanup removed what had changed since it read

vars == <<row, objects, upload, loopWaits, refused, removal, task, cleaner, overtaken>>

NoRow == [status |-> "none", version |-> 0, identity |-> None, object |-> 0, task |-> None]
Removed == [NoRow EXCEPT !.status = "removed"]
NoUpload == [source |-> None, version |-> 0, identity |-> None, phase |-> "none"]
NoCleanup == [pc |-> "idle", target |-> None, seen |-> NoRow, doomed |-> {}]

Rows == [status : {"none", "processing", "prepared", "failure", "removed"},
         version : 0 .. MaxVersion, identity : Identities \cup {None},
         object : 0 .. MaxVersion, task : Keys \cup {None}]
Objects == Files \X (1 .. MaxVersion) \X Identities

TypeOK ==
    /\ row \in [Sources -> Rows]
    /\ objects \subseteq Objects
    /\ upload \in [source : Files \cup {None}, version : 0 .. MaxVersion,
                   identity : Identities \cup {None}, phase : {"none", "reading", "stored"}]
    /\ loopWaits \in Files \cup {Owner, None}
    /\ refused \subseteq SUBSET (Sources \cup {Owner})
    /\ removal \in Sources \cup {None}
    /\ task \in [Keys -> {"none", "live", "deleted", "purged"}]
    /\ cleaner \in [pc : {"idle", "expiring", "expired", "purging", "collecting"},
                    target : Sources \cup Keys \cup {None}, seen : Rows, doomed : SUBSET Objects]
    /\ overtaken \in BOOLEAN

Init ==
    /\ row = [s \in Sources |-> NoRow]
    /\ objects = {}
    /\ upload = NoUpload /\ loopWaits = None
    /\ refused = {}
    /\ removal = None
    /\ task = [k \in Keys |-> "none"]
    /\ cleaner = NoCleanup
    /\ overtaken = FALSE

-----------------------------------------------------------------------------
(* What the handlers share. *)

Exists(s) == row[s].status \in {"processing", "prepared", "failure"}

\* session_source_count: what the session still retains.
Unconfirmed == {s \in Sources : Exists(s) /\ row[s].task = None}

\* The rows that refused requests keep.
Kept == UNION refused

\* lock_owner: the owner's row, which an upload keeps while it waits for its 来源,
\* reads and stores.
OwnerFree == upload = NoUpload /\ loopWaits \notin Files /\ Owner \notin Kept

\* The row of the 来源, which an upload or a removal keeps.
SourceFree(s) == upload.source # s /\ removal # s /\ s \notin Kept

\* What the event loop waits for is what only the event loop would let go of: the
\* row of an upload that it should come back to, or of a request whose session it
\* should close.
Hung == loopWaits = Owner \/ loopWaits \in Kept

\* ensure_session_capacity
\* mutant of HasRoom: the rows are counted without the owner's row.
HasRoomUnlocked == Cardinality(Unconfirmed) < MaxSources
HasRoom == OwnerFree /\ Cardinality(Unconfirmed) < MaxSources

\* ensure_unique_identity among the session's 来源 of the same kind.
Unique(s, identity) ==
    \A other \in Unconfirmed \ {s} :
        (\E kind \in {Pasted, Urls, Files} : {s, other} \subseteq kind)
            => row[other].identity # identity

\* The object a row names.
Named(s) == IF row[s].object = 0 THEN {} ELSE {<<s, row[s].object, row[s].identity>>}
Referenced == UNION {Named(s) : s \in Sources}

New(s, status, identity, object) ==
    row' = [row EXCEPT ![s] = [status |-> status, version |-> 1, identity |-> identity,
                               object |-> object, task |-> None]]

\* A new version of the row's input.
Replaced(s, status, identity, object) ==
    row' = [row EXCEPT ![s].status = status, ![s].version = @ + 1,
                       ![s].identity = identity, ![s].object = object]

-----------------------------------------------------------------------------
(* Pasted and URL 来源, and what all kinds have in common. *)

CreatePasted(s, identity) ==
    /\ row[s].status = "none"
    /\ HasRoom
    /\ Unique(s, identity)
    /\ New(s, "prepared", identity, 0)
    /\ UNCHANGED <<objects, upload, loopWaits, refused, removal, task, cleaner, overtaken>>

EditPasted(s, identity) ==
    /\ s \in Unconfirmed
    /\ OwnerFree /\ SourceFree(s)
    /\ row[s].version < MaxVersion
    /\ Unique(s, identity)
    /\ Replaced(s, "prepared", identity, 0)
    /\ UNCHANGED <<objects, upload, loopWaits, refused, removal, task, cleaner, overtaken>>

CreateUrl(s, identity) ==
    /\ row[s].status = "none"
    /\ HasRoom
    /\ Unique(s, identity)
    /\ New(s, "processing", identity, 0)
    /\ UNCHANGED <<objects, upload, loopWaits, refused, removal, task, cleaner, overtaken>>

ReplaceUrl(s, identity) ==
    /\ s \in Unconfirmed
    /\ OwnerFree /\ SourceFree(s)
    /\ row[s].status # "processing"
    /\ row[s].version < MaxVersion
    /\ Unique(s, identity)
    /\ Replaced(s, "processing", identity, 0)
    /\ UNCHANGED <<objects, upload, loopWaits, refused, removal, task, cleaner, overtaken>>

\* mutant of Retry: the 来源 takes the status of its new run.
RetryAsQueued(s) ==
    /\ s \in Unconfirmed \ Pasted
    /\ row[s].status = "failure"
    /\ row' = [row EXCEPT ![s].status = "queued"]
    /\ UNCHANGED <<objects, upload, loopWaits, refused, removal, task, cleaner, overtaken>>
Retry(s) ==
    /\ s \in Unconfirmed \ Pasted
    /\ SourceFree(s)
    /\ row[s].status = "failure"
    /\ row' = [row EXCEPT ![s].status = "processing"]
    /\ UNCHANGED <<objects, upload, loopWaits, refused, removal, task, cleaner, overtaken>>

EditContent(s) ==
    /\ s \in Unconfirmed \ Pasted
    /\ SourceFree(s)
    /\ row[s].status = "prepared"
    /\ row[s].version < MaxVersion
    /\ row' = [row EXCEPT ![s].version = @ + 1]
    /\ UNCHANGED <<objects, upload, loopWaits, refused, removal, task, cleaner, overtaken>>

\* What SourceCapture makes of a 来源 that is processing.
CaptureEnds(s) ==
    /\ row[s].status = "processing"
    /\ SourceFree(s)
    /\ \E outcome \in {"prepared", "failure"} : row' = [row EXCEPT ![s].status = outcome]
    /\ UNCHANGED <<objects, upload, loopWaits, refused, removal, task, cleaner, overtaken>>

-----------------------------------------------------------------------------
(* Refusals.  A handler of a thread that raises, or answers without a commit,  *)
(* leaves its rows locked until its session dependency exits.                 *)

\* What may be locked when a request is refused: retrying, editing or deleting a
\* 来源 takes its row; adding one the owner's; replacing and editing both; and a
\* confirmation all there are.
Lockable ==
    {{Owner}, {Owner} \cup Unconfirmed} \cup {{s} : s \in Unconfirmed \ Pasted}
        \cup {{Owner, s} : s \in Unconfirmed}

Refuse(rows) ==
    /\ "refusal" \in Events
    /\ rows \in Lockable
    /\ Owner \in rows => OwnerFree
    /\ \A s \in rows \ {Owner} : SourceFree(s)
    /\ refused' = refused \cup {rows}
    /\ UNCHANGED <<row, objects, upload, loopWaits, removal, task, cleaner, overtaken>>

\* The event loop is free to close the session of a refused request.
RefusedExits(r) ==
    /\ loopWaits = None
    /\ upload.phase # "stored"
    /\ \E rows \in refused : r \in rows /\ refused' = refused \ {rows}
    /\ UNCHANGED <<row, objects, upload, loopWaits, removal, task, cleaner, overtaken>>

-----------------------------------------------------------------------------
(* Uploads: the object is stored under the owner's lock, then the row commits. *)

\* _store_upload; a key the cleanup is about to delete may be written again.
Put(object) ==
    /\ objects' = objects \cup {object}
    /\ overtaken' = (overtaken \/ object \in cleaner.doomed)

\* create_file_source has read its file before it takes the owner's row.  From
\* there to its commit it never yields the event loop, but it may die.
CreateFileStores(s, identity) ==
    /\ row[s].status = "none"
    /\ loopWaits = None
    /\ HasRoom
    /\ Unique(s, identity)
    /\ upload' = [source |-> s, version |-> 1, identity |-> identity, phase |-> "stored"]
    /\ Put(<<s, 1, identity>>)
    /\ UNCHANGED <<row, loopWaits, refused, removal, task, cleaner>>

CreateFileCommits ==
    /\ upload.phase = "stored"
    /\ row[upload.source].status = "none"
    /\ New(upload.source, "processing", upload.identity, 1)
    /\ upload' = NoUpload
    /\ UNCHANGED <<objects, loopWaits, refused, removal, task, cleaner, overtaken>>

\* The browser has given its identity to another 来源
\* (uq_source_preparations_owner_client_identity): everything is rolled
\* back and the object deleted, whose key nobody will use again.
CreateFileCollides ==
    /\ upload.phase = "stored"
    /\ row[upload.source].status = "none"
    /\ \E other \in Sources : Exists(other)
    /\ row' = [row EXCEPT ![upload.source] = Removed]
    /\ objects' = objects \ {<<upload.source, upload.version, upload.identity>>}
    /\ upload' = NoUpload
    /\ UNCHANGED <<loopWaits, refused, removal, task, cleaner, overtaken>>

\* owned_source finds it, and no run of it is active.
Replaceable(s) ==
    s \in Unconfirmed /\ row[s].status # "processing" /\ row[s].version < MaxVersion

\* The bytes are awaited.
Reads(s, identity) ==
    /\ Replaceable(s)
    /\ upload' = [source |-> s, version |-> row[s].version + 1, identity |-> identity,
                  phase |-> "reading"]

\* replace_file_source takes the owner's row and the 来源, both from the event loop.
ReplaceFileReads(s, identity) ==
    /\ loopWaits = None
    /\ OwnerFree /\ SourceFree(s)
    /\ Reads(s, identity)
    /\ UNCHANGED <<row, objects, loopWaits, refused, removal, task, cleaner, overtaken>>

\* The 来源 is not to be had: the event loop waits for it, with the owner's row.
ReplaceFileWaits(s) ==
    /\ loopWaits = None
    /\ OwnerFree /\ ~ SourceFree(s)
    /\ s \in Unconfirmed
    /\ loopWaits' = s
    /\ UNCHANGED <<row, objects, upload, refused, removal, task, cleaner, overtaken>>

\* The event loop gets the row, and goes on as without the wait or refuses.
ReplaceFileGoesOn ==
    /\ loopWaits \in Files
    /\ SourceFree(loopWaits)
    /\ IF Replaceable(loopWaits)
       THEN \E identity \in Identities : Reads(loopWaits, identity)
       ELSE UNCHANGED upload
    /\ loopWaits' = None
    /\ UNCHANGED <<row, objects, refused, removal, task, cleaner, overtaken>>

\* mutant of ReplaceFileStores: a refused upload does not let go of the row.
ReplaceFileStoresOrWaits ==
    /\ upload.phase = "reading"
    /\ loopWaits = None
    /\ row[upload.source].identity # upload.identity
    /\ Put(<<upload.source, upload.version, upload.identity>>)
    /\ upload' = [upload EXCEPT !.phase = "stored"]
    /\ UNCHANGED <<row, loopWaits, refused, removal, task, cleaner>>
\* Its event loop comes back to it: the identity is checked and the object stored.
ReplaceFileStores ==
    /\ upload.phase = "reading"
    /\ loopWaits = None
    /\ IF Unique(upload.source, upload.identity)
       THEN /\ Put(<<upload.source, upload.version, upload.identity>>)
            /\ upload' = [upload EXCEPT !.phase = "stored"]
       ELSE UNCHANGED <<objects, overtaken>> /\ upload' = NoUpload
    /\ UNCHANGED <<row, loopWaits, refused, removal, task, cleaner>>

ReplaceFileCommits ==
    /\ upload.phase = "stored"
    /\ Exists(upload.source)
    /\ Replaced(upload.source, "processing", upload.identity, upload.version)
    /\ upload' = NoUpload
    /\ UNCHANGED <<objects, loopWaits, refused, removal, task, cleaner, overtaken>>

\* Every upload is an async handler and asks for the owner's row from the event loop
\* itself: if the row is kept, the loop stands still with whoever would free it.
UploadArrives ==
    /\ \/ "overlap" \in Events /\ upload.phase = "reading"
       \/ Owner \in Kept
    /\ loopWaits = None
    /\ loopWaits' = Owner
    /\ UNCHANGED <<row, objects, upload, refused, removal, task, cleaner, overtaken>>

\* The API is gone: its transactions are rolled back, the bucket keeps what it has.
\* A 来源 that was never committed has taken its id with it.
ApiGone ==
    /\ row' = IF upload # NoUpload /\ ~ Exists(upload.source)
              THEN [row EXCEPT ![upload.source] = Removed] ELSE row
    /\ upload' = NoUpload
    /\ loopWaits' = None
    /\ refused' = {}
    /\ removal' = None
    /\ UNCHANGED <<objects, task, cleaner, overtaken>>

ApiDies ==
    /\ "crash" \in Events
    /\ upload # NoUpload \/ removal # None \/ loopWaits # None \/ refused # {}
    /\ ApiGone

\* Its health check is a request too, and a deployment that cannot serve is restarted.
HungApiRestarts == Hung /\ ApiGone

-----------------------------------------------------------------------------
(* Deletion of a 来源, confirmation, deletion of the task. *)

DeleteForgets(s) ==
    /\ s \in Unconfirmed
    /\ removal = None
    /\ SourceFree(s)
    /\ row[s].status # "processing"
    /\ removal' = s
    /\ objects' = objects \ Named(s)
    /\ UNCHANGED <<row, upload, loopWaits, refused, task, cleaner, overtaken>>

DeleteCommits ==
    /\ removal # None
    /\ row' = [row EXCEPT ![removal] = Removed]
    /\ removal' = None
    /\ UNCHANGED <<objects, upload, loopWaits, refused, task, cleaner, overtaken>>

\* confirm_task_creation's refusals: every retained 来源 exactly once, and all ready.
Confirmable(sources) ==
    /\ sources # {}
    /\ sources = Unconfirmed
    /\ \A s \in sources : row[s].status = "prepared" /\ SourceFree(s)

\* uq_tasks_owner_creation_idempotency_key; a purged task leaves its key free.
KeyUnused(k) == task[k] \in {"none", "purged"}

\* A replay of a key finds its task and creates nothing.
Confirm(k) ==
    /\ OwnerFree
    /\ KeyUnused(k)
    /\ \E sources \in SUBSET Sources :
        /\ Confirmable(sources)
        /\ row' = [s \in Sources |->
                    IF s \in sources THEN [row[s] EXCEPT !.task = k] ELSE row[s]]
    /\ task' = [task EXCEPT ![k] = "live"]
    /\ UNCHANGED <<objects, upload, loopWaits, refused, removal, cleaner, overtaken>>

DeleteTask(k) ==
    /\ task[k] = "live"
    /\ task' = [task EXCEPT ![k] = "deleted"]
    /\ UNCHANGED <<row, objects, upload, loopWaits, refused, removal, cleaner, overtaken>>

-----------------------------------------------------------------------------
(* run_cleanup, with a bucket that answers; without one it leaves whatever has *)
(* an object for a later run.  Any row it may remove may be old enough.        *)

\* The row is old, unconfirmed and has no active run.  Confirmation leaves its age
\* alone, and is not looked for again.
ExpireJudges(s) ==
    /\ cleaner.pc = "idle"
    /\ s \in Unconfirmed
    /\ row[s].status # "processing"
    /\ cleaner' = [NoCleanup EXCEPT !.pc = "expiring", !.target = s, !.seen = row[s]]
    /\ UNCHANGED <<row, objects, upload, loopWaits, refused, removal, task, overtaken>>

\* _forget_object: the object goes before the row that names it.
ExpireForgets ==
    LET s == cleaner.target IN
    /\ cleaner.pc = "expiring"
    /\ objects' = objects \ (IF cleaner.seen.object = 0 THEN {}
                             ELSE {<<s, cleaner.seen.object, cleaner.seen.identity>>})
    /\ overtaken' = (overtaken \/ row[s] # cleaner.seen)
    /\ cleaner' = [cleaner EXCEPT !.pc = "expired"]
    /\ UNCHANGED <<row, upload, loopWaits, refused, removal, task>>

\* fk_source_revisions_source_preparation_id: a Revision keeps the 来源 it came from.
\* mutant of Held: no foreign key holds it.
HeldByNothing(s) == FALSE
Held(s) == row[s].task # None

\* The runs of the 来源 and its row go, and the commit follows; the foreign key, or a
\* row that has gone meanwhile, ends the whole cleanup instead.
ExpireCommits ==
    LET s == cleaner.target IN
    /\ cleaner.pc = "expired"
    /\ SourceFree(s)
    /\ row' = IF Exists(s) /\ ~ Held(s) THEN [row EXCEPT ![s] = Removed] ELSE row
    /\ overtaken' = (overtaken \/ row[s] # cleaner.seen)
    /\ cleaner' = NoCleanup
    /\ UNCHANGED <<objects, upload, loopWaits, refused, removal, task>>

\* mutant of PurgeForgets: what an interrupted purge has emptied is not tried again.
PurgeForgetsOnce(k) ==
    LET its == UNION {Named(s) : s \in {s \in Sources : row[s].task = k}} IN
    /\ cleaner.pc = "idle"
    /\ task[k] = "deleted"
    /\ its \subseteq objects
    /\ objects' = objects \ its
    /\ cleaner' = [NoCleanup EXCEPT !.pc = "purging", !.target = k]
    /\ UNCHANGED <<row, upload, loopWaits, refused, removal, task, overtaken>>
\* The retention of a deleted task is over: its objects go, then its rows.
PurgeForgets(k) ==
    /\ cleaner.pc = "idle"
    /\ task[k] = "deleted"
    /\ objects' = objects \ UNION {Named(s) : s \in {s \in Sources : row[s].task = k}}
    /\ cleaner' = [NoCleanup EXCEPT !.pc = "purging", !.target = k]
    /\ UNCHANGED <<row, upload, loopWaits, refused, removal, task, overtaken>>

PurgeCommits ==
    /\ cleaner.pc = "purging"
    /\ row' = [s \in Sources |-> IF row[s].task = cleaner.target THEN Removed ELSE row[s]]
    /\ task' = [task EXCEPT ![cleaner.target] = "purged"]
    /\ cleaner' = NoCleanup
    /\ UNCHANGED <<objects, upload, loopWaits, refused, removal, overtaken>>

\* Objects too young to judge: an upload takes less than the age asked for.
\* mutant of Young: no age is asked for.
YoungNever == {}
Young ==
    IF upload = NoUpload THEN {} ELSE {<<upload.source, upload.version, upload.identity>>}

\* mutant of Orphans: the bucket is listed 来源 by 来源.
OrphansOfRows == {o \in objects \ (Referenced \cup Young) : Exists(o[1])}
Orphans == objects \ (Referenced \cup Young)

\* _collect_orphaned_objects reads the rows, then lists the bucket.
CollectReads ==
    /\ cleaner.pc = "idle"
    /\ Orphans # {}
    /\ cleaner' = [NoCleanup EXCEPT !.pc = "collecting", !.doomed = Orphans]
    /\ UNCHANGED <<row, objects, upload, loopWaits, refused, removal, task, overtaken>>

CollectDeletes ==
    /\ cleaner.pc = "collecting"
    /\ objects' = objects \ cleaner.doomed
    /\ cleaner' = NoCleanup
    /\ UNCHANGED <<row, upload, loopWaits, refused, removal, task, overtaken>>

CleanupDies ==
    /\ "crash" \in Events
    /\ cleaner.pc # "idle"
    /\ cleaner' = NoCleanup
    /\ UNCHANGED <<row, objects, upload, loopWaits, refused, removal, task, overtaken>>

-----------------------------------------------------------------------------
Adding ==
    \/ \E s \in Pasted, i \in Identities : CreatePasted(s, i) \/ EditPasted(s, i)
    \/ \E s \in Urls, i \in Identities : CreateUrl(s, i) \/ ReplaceUrl(s, i)
    \/ \E s \in Urls \cup Files : Retry(s) \/ EditContent(s) \/ CaptureEnds(s)

Refusing ==
    \/ \E rows \in Lockable : Refuse(rows)
    \/ \E r \in Sources \cup {Owner} : RefusedExits(r)

Uploading ==
    \/ \E s \in Files, i \in Identities : CreateFileStores(s, i) \/ ReplaceFileReads(s, i)
    \/ \E s \in Files : ReplaceFileWaits(s)
    \/ CreateFileCommits \/ CreateFileCollides
    \/ ReplaceFileGoesOn \/ ReplaceFileStores \/ ReplaceFileCommits
    \/ UploadArrives
    \/ ApiDies \/ HungApiRestarts

Confirming ==
    \/ \E s \in Sources : DeleteForgets(s)
    \/ DeleteCommits
    \/ \E k \in Keys : Confirm(k) \/ DeleteTask(k)

Cleaning ==
    \/ \E s \in Sources : ExpireJudges(s)
    \/ \E k \in Keys : PurgeForgets(k)
    \/ ExpireForgets \/ ExpireCommits \/ PurgeCommits
    \/ CollectReads \/ CollectDeletes
    \/ CleanupDies

Next == Adding \/ Refusing \/ Uploading \/ Confirming \/ Cleaning

Spec == Init /\ [][Next]_vars

\* Beat starts a cleanup every so often, and some cleanup reaches each of its
\* sweeps alive; a handler that does not wait goes on to its commit, and an event
\* loop that does not wait comes to everything it has to do; an API that no longer
\* answers its health check is restarted (environments.md:82).
FairSpec ==
    /\ Spec
    /\ \A k \in Keys : SF_vars(PurgeForgets(k))
    /\ SF_vars(PurgeCommits)
    /\ SF_vars(CollectReads) /\ SF_vars(CollectDeletes)
    /\ SF_vars(ExpireForgets) /\ SF_vars(ExpireCommits)
    /\ WF_vars(ReplaceFileGoesOn)
    /\ WF_vars(ReplaceFileStores) /\ WF_vars(ReplaceFileCommits)
    /\ WF_vars(CreateFileCommits) /\ WF_vars(DeleteCommits)
    /\ \A r \in Sources \cup {Owner} : WF_vars(RefusedExits(r))
    /\ WF_vars(HungApiRestarts)

-----------------------------------------------------------------------------
(* Properties. *)

\* However requests overlap, a session never retains more 来源 than it may: the
\* count and the insert are under the owner's row, an upload's await included
\* (sessions.py, ensure_session_capacity).
SessionBounded == Cardinality(Unconfirmed) <= MaxSources

\* A 来源 that went into a 立言任务 stays its own and stays there until the task is
\* purged: no second confirmation takes it, and no cleanup that had already judged
\* it abandoned removes it (cleanup.py:161, only unconfirmed ones).
ConfirmedKept ==
    [][\A s \in Sources : row[s].task # None =>
        \/ row'[s] = row[s]
        \/ task[row[s].task] = "deleted" /\ task'[row[s].task] = "purged"]_vars

\* A row comes to name a file that is in the bucket, and the file leaves it only
\* because the 来源 is going: the orphan sweep never takes what an upload is about
\* to commit (_collect_orphaned_objects).
FileKept ==
    [][overtaken' \/ \A s \in Files :
        \/ Named(s)' = Named(s) /\ (Named(s) \subseteq objects => Named(s) \subseteq objects')
        \/ Named(s)' # Named(s) /\ Named(s)' \subseteq objects'
        \/ removal' = s \/ cleaner'.target \in {s, row[s].task} \ {None}]_vars

\* The bucket is not left with objects nobody names, whatever died between the
\* write of an object and the commit of its row (_collect_orphaned_objects).
OrphansGo ==
    \A o \in Objects :
        o \in objects \ (Referenced \cup Young) ~> o \notin objects \ (Referenced \cup Young)

\* What a user deleted is removed for good, whatever the cleanup died of
\* (CleanupPolicy.deleted_task_retention).
DeletedPurged == \A k \in Keys : task[k] = "deleted" ~> task[k] = "purged"

\* An upload ends and the owner's row is free again, whatever else its user does
\* meanwhile: by its own commit or refusal, or else because the event loop hangs on a
\* row that it alone would let go of, and the API is restarted.  One upload is enough
\* for that, with a refused request of the same user (file_api.py:467-468); two
\* uploads do it by themselves.
OwnerComesFree == ~ OwnerFree ~> OwnerFree
=============================================================================
