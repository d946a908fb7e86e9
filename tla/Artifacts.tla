------------------------------ MODULE Artifacts ------------------------------
(***************************************************************************)
(* The derived artifacts of one catalog: files a module's task publishes,  *)
(* the rows the catalog records them in, the references history entries    *)
(* hold, and the collection that removes what nothing needs                *)
(* (artifacts/store.rs, editor/artifact_store.rs, the task path of         *)
(* capabilities/host/tasks.rs and artifact.collect in api/owner.rs).       *)
(*                                                                         *)
(* Three threads act: the catalog owner, one transaction per step; the     *)
(* module lane, which runs one task at a time and publishes its files; and *)
(* the source worker, which runs one collection at a time over a directory *)
(* the other two are using.  The lane and the worker exclude each other by *)
(* OBJECT_DECISIONS alone, which the owner never takes.                    *)
(*                                                                         *)
(* An artifact is named by the hash of its bytes, so a file is its name.   *)
(* A write that fails for a reason of the disk may fail at any step, and   *)
(* staged copies, which no other step reads, are left out.  A client may   *)
(* cancel a task or a collection at any time.                              *)
(***************************************************************************)
EXTENDS Naturals, Sequences, FiniteSets

CONSTANTS
    Ids,                \* artifact identities
    None,
    MaxTaskArtifacts,   \* MAX_TASK_ARTIFACTS
    QueueCapacity       \* SOURCE_QUEUE_CAPACITY

ASSUME ArtifactsAssumption ==
    /\ None \notin Ids
    /\ MaxTaskArtifacts \in Nat \ {0}
    /\ QueueCapacity \in Nat \ {0}

VARIABLES
    \* the disk, which survives a restart
    root,       \* what the artifact directory is
    objects,    \* the object files
    lost,       \* files something outside the program removed (history)
    rows,       \* the artifacts the catalog records
    refs,       \* the artifacts entries reference, for ever
    \* the service's memory
    live,       \* artifacts published while this service is open
    answered,   \* artifacts a client was told are recorded (history)
    \* the module lane
    pc,         \* where the lane's task is
    writing,    \* the artifact it is publishing
    published,  \* the artifacts it has published, for the owner to record
    \* the source worker
    queue,      \* the artifacts each planned collection keeps, oldest first
    sweeping,   \* a collection is removing files
    keep,       \* the artifacts it keeps
    left,       \* the file names it has not looked at
    removing    \* the file it has found to be garbage and is removing

fileVars == <<root, objects, lost>>
catalog == <<rows, refs>>
memory == <<live, answered>>
taskVars == <<pc, writing, published>>
worker == <<queue, sweeping, keep, left, removing>>
vars == <<fileVars, catalog, memory, taskVars, worker>>

Finished == {"idle", "ready", "failed", "cancelled"}
Publishing == {"claim", "manifest", "mark", "settle"}

\* Every variable keeps its type: rows are artifacts, what the lane is
\* doing is a step of ArtifactWriter::write or a status of its job, and a
\* task that is not publishing names no artifact.
TypeOK ==
    /\ root \in {"absent", "unmarked", "ready"}
    /\ objects \subseteq Ids
    /\ lost \subseteq Ids
    /\ rows \subseteq Ids
    /\ refs \subseteq Ids
    /\ live \subseteq Ids
    /\ answered \subseteq Ids
    /\ pc \in Finished \union Publishing \union {"running", "returned"}
    /\ writing \in Ids \union {None}
    /\ (pc \in Publishing) <=> (writing # None)
    /\ published \subseteq Ids
    /\ queue \in Seq(SUBSET Ids)
    /\ Len(queue) <= QueueCapacity
    /\ sweeping \in BOOLEAN
    /\ keep \subseteq Ids
    /\ left \subseteq Ids
    /\ removing \in Ids \union {None}

Init ==
    /\ root = "absent"
    /\ objects = {} /\ lost = {}
    /\ rows = {} /\ refs = {}
    /\ live = {} /\ answered = {}
    /\ pc = "idle" /\ writing = None /\ published = {}
    /\ queue = <<>> /\ sweeping = FALSE /\ keep = {} /\ left = {}
    /\ removing = None

-----------------------------------------------------------------------------
\* The module lane: a task and the artifacts it publishes.

StartTask ==
    /\ pc \in Finished
    /\ pc' = "running"
    /\ published' = {}
    /\ UNCHANGED <<fileVars, catalog, memory, writing, worker>>

\* ModuleContext::publish_artifact, as far as the state of the root.
BeginPublish(id) ==
    /\ pc = "running"
    /\ Cardinality(published) < MaxTaskArtifacts
    /\ writing' = id
    /\ pc' = IF root = "ready" THEN "mark" ELSE "claim"
    /\ UNCHANGED <<fileVars, catalog, memory, published, worker>>

\* A root is claimed in two steps: its directories, then its manifest.
CreateDirectory ==
    /\ pc = "claim"
    /\ root' = "unmarked"
    /\ pc' = "manifest"
    /\ UNCHANGED <<objects, lost, catalog, memory, writing, published, worker>>

WriteManifest ==
    /\ pc = "manifest"
    /\ root' = "ready"
    /\ pc' = "mark"
    /\ UNCHANGED <<objects, lost, catalog, memory, writing, published, worker>>

\* The lane holds the lock from here to Settle or to a failure, and the
\* worker from JudgeObject to RemoveObject.
Unlocked == pc # "settle" /\ removing = None

FaultyMarkLive ==
    /\ pc = "mark"
    /\ live' = live \union {writing}
    /\ pc' = "settle"
    /\ UNCHANGED <<fileVars, catalog, answered, writing, published, worker>>

MarkLive ==
    /\ pc = "mark"
    /\ Unlocked
    /\ live' = live \union {writing}
    /\ pc' = "settle"
    /\ UNCHANGED <<fileVars, catalog, answered, writing, published, worker>>

\* The file is already there, or the staged copy is renamed to it.
Settle ==
    /\ pc = "settle"
    /\ objects' = objects \union {writing}
    /\ lost' = lost \ {writing}
    /\ published' = published \union {writing}
    /\ writing' = None
    /\ pc' = "running"
    /\ UNCHANGED <<root, catalog, memory, worker>>

\* The disk refuses a write: the task gets an error and may go on.
WriteFails ==
    /\ pc \in Publishing
    /\ writing' = None
    /\ pc' = "running"
    /\ UNCHANGED <<fileVars, catalog, memory, published, worker>>

TaskReturns ==
    /\ pc = "running"
    /\ pc' = "returned"
    /\ UNCHANGED <<fileVars, catalog, memory, writing, published, worker>>

-----------------------------------------------------------------------------
\* The owner, when a task comes to its end.

EndTask(status) ==
    /\ pc' = status
    /\ published' = {}
    /\ UNCHANGED writing

\* A task that failed or was cancelled leaves its files to a collection.
TaskFails ==
    \/ /\ pc \in {"running", "returned"}
       /\ EndTask("cancelled")
       /\ UNCHANGED <<fileVars, catalog, memory, worker>>
    \/ /\ pc = "running"
       /\ EndTask("failed")
       /\ UNCHANGED <<fileVars, catalog, memory, worker>>

\* EditorService::register_artifact, for each of a set of artifacts whose
\* files are present.
Register(ids) ==
    /\ ids \subseteq objects
    /\ rows' = rows \union ids
    /\ live' = live \union ids

TaskSucceeds ==
    /\ pc = "returned"
    /\ Register(published)
    /\ answered' = answered \union published
    /\ EndTask("ready")
    /\ UNCHANGED <<fileVars, refs, worker>>

\* Recording stops at the first artifact whose file is gone or whose row
\* cannot be written; the ones before it are recorded.
RegistrationFails ==
    /\ pc = "returned"
    /\ \E done \in SUBSET published :
        /\ done # published
        /\ Register(done)
    /\ EndTask("failed")
    /\ UNCHANGED <<fileVars, refs, answered, worker>>

-----------------------------------------------------------------------------
\* The owner: entries and collections.

\* The transaction that writes an entry checks each artifact of its stack
\* again; one it cannot find refuses the entry, and changes nothing.
Recorded(ids) == ids \subseteq rows /\ ids \subseteq objects

Commit(ids) ==
    /\ Recorded(ids)
    /\ refs' = refs \union ids
    /\ UNCHANGED <<fileVars, rows, memory, taskVars, worker>>

Candidates == {id \in rows : id \notin refs /\ id \notin live}

FaultyPlanCollection ==
    /\ rows' = rows \ Candidates
    /\ queue' = IF Len(queue) <= QueueCapacity
                THEN Append(queue, rows \ Candidates) ELSE queue
    /\ UNCHANGED <<fileVars, refs, memory, taskVars, sweeping, keep, left, removing>>

\* artifact.collect: the rows go at once; when the worker's queue is full
\* their files wait for another collection.
PlanCollection ==
    /\ rows' = rows \ Candidates
    /\ queue' = IF Len(queue) < QueueCapacity
                THEN Append(queue, rows \ Candidates) ELSE queue
    /\ UNCHANGED <<fileVars, refs, memory, taskVars, sweeping, keep, left, removing>>

-----------------------------------------------------------------------------
\* The source worker: collect_files.

\* A collection that was cancelled, or whose root is missing or not marked
\* as this catalog's, removes nothing.
SkipCollection ==
    /\ ~sweeping
    /\ queue # <<>>
    /\ queue' = Tail(queue)
    /\ UNCHANGED <<fileVars, catalog, memory, taskVars, sweeping, keep, left, removing>>

FaultyStartSweep ==
    /\ ~sweeping
    /\ queue # <<>>
    /\ root = "ready"
    /\ queue' = Tail(queue)
    /\ sweeping' = TRUE
    /\ keep' = Head(queue)
    /\ left' = Head(queue)
    /\ UNCHANGED <<fileVars, catalog, memory, taskVars, removing>>

\* A name added while the directory is read need not be among those left.
StartSweep ==
    /\ ~sweeping
    /\ queue # <<>>
    /\ root = "ready"
    /\ queue' = Tail(queue)
    /\ sweeping' = TRUE
    /\ keep' = Head(queue)
    /\ left' = objects
    /\ UNCHANGED <<fileVars, catalog, memory, taskVars, removing>>

SpareKept(id) ==
    /\ sweeping
    /\ removing = None
    /\ id \in left \intersect keep
    /\ left' = left \ {id}
    /\ UNCHANGED <<fileVars, catalog, memory, taskVars, queue, sweeping, keep, removing>>

\* A live file is left alone and the lock released.
JudgeObject(id) ==
    /\ sweeping
    /\ Unlocked
    /\ id \in left \ keep
    /\ removing' = IF id \in live THEN None ELSE id
    /\ left' = left \ {id}
    /\ UNCHANGED <<fileVars, catalog, memory, taskVars, queue, sweeping, keep>>

RemoveObject ==
    /\ removing # None
    /\ objects' = objects \ {removing}
    /\ removing' = None
    /\ UNCHANGED <<root, lost, catalog, memory, taskVars, queue, sweeping, keep, left>>

StopSweep ==
    /\ sweeping' = FALSE
    /\ keep' = {}
    /\ left' = {}
    /\ removing' = None

\* Every name was looked at, or the client cancelled.
EndSweep ==
    /\ sweeping
    /\ removing = None
    /\ StopSweep
    /\ UNCHANGED <<fileVars, catalog, memory, taskVars, queue>>

-----------------------------------------------------------------------------
\* What happens to the program.

\* A stop, which ends every task and collection before the catalog is
\* closed, or a crash at any step; then the catalog is opened again.
ForgetMemory ==
    /\ live' = {} /\ answered' = {}
    /\ pc' = "idle" /\ writing' = None /\ published' = {}
    /\ queue' = <<>>
    /\ StopSweep

Reopen ==
    /\ ForgetMemory
    /\ UNCHANGED <<fileVars, catalog>>

\* The catalog file was moved and its directory was not.
ReopenElsewhere ==
    /\ ForgetMemory
    /\ root' = "absent"
    /\ objects' = {}
    /\ lost' = lost \union objects
    /\ UNCHANGED catalog

\* Something outside the program removes an object file.
LoseFile(id) ==
    /\ id \in objects
    /\ objects' = objects \ {id}
    /\ lost' = lost \union {id}
    /\ UNCHANGED <<root, catalog, memory, taskVars, worker>>

-----------------------------------------------------------------------------
Lane ==
    \/ StartTask \/ CreateDirectory \/ WriteManifest \/ MarkLive \/ Settle
    \/ WriteFails \/ TaskReturns
    \/ \E id \in Ids : BeginPublish(id)

Owner ==
    \/ TaskFails \/ TaskSucceeds \/ RegistrationFails \/ PlanCollection
    \/ \E ids \in SUBSET Ids : Commit(ids)

Worker ==
    \/ SkipCollection \/ StartSweep \/ RemoveObject \/ EndSweep
    \/ \E id \in Ids : SpareKept(id) \/ JudgeObject(id)

Outside ==
    \/ Reopen \/ ReopenElsewhere
    \/ \E id \in Ids : LoseFile(id)

Next == Lane \/ Owner \/ Worker \/ Outside

Spec == Init /\ [][Next]_vars

-----------------------------------------------------------------------------
\* A history entry never references an artifact the catalog does not
\* record, whatever collections were planned between the publish and the
\* commit (link_artifacts).
ReferencesRecorded == refs \subseteq rows

\* The file of a recorded artifact is there, unless something outside the
\* program took it: no collection, however old its plan, removes the file
\* of a row recorded since (OBJECT_DECISIONS, LiveArtifacts).
RecordsHaveFiles == rows \subseteq objects \union lost

\* What a task published and the owner has not recorded yet is still there
\* when it comes to be recorded (ArtifactWriter::write).
PublishedHeld == published \subseteq objects \union lost

\* What a client was told a task published stays recorded while the
\* service is open, so the entry it goes on to commit is not refused as
\* naming an unknown artifact (register_artifact, collection_candidates).
AnswersUsable == answered \subseteq rows

\* The four together: from the publish of a file to the entry that names
\* it, the store keeps what somebody relies on.
StoreSound == ReferencesRecorded /\ RecordsHaveFiles /\ PublishedHeld /\ AnswersUsable

\* A collection misses no garbage: a file it has passed was recorded when
\* it was planned, or was published while the service is open
\* (collect_files).
NoGarbageMissed ==
    sweeping => objects \subseteq left \union keep \union live \union {removing}

\* tasks.rs:425 says "A failed or cancelled task records nothing".
FailedRecordsNothing ==
    [][(pc = "returned" /\ pc' \in {"failed", "cancelled"}) => rows' = rows]_vars
=============================================================================
