------------------------------ MODULE DiskProofs ------------------------------
(***************************************************************************)
(* What is proved of the files on a user's disk and of what fetches them:  *)
(* the derived artifacts (Artifacts), the resources a module installs      *)
(* (Resources) and the exchange with a service (Transport).  They share no *)
(* state; each has its own specification, invariant and theorem.           *)
(*                                                                         *)
(* Artifacts, for every set of artifacts, every number a task may publish  *)
(* and every length of the worker's queue.                                 *)
(* What is recorded is kept because every row is either in the list of     *)
(* artifacts a collection keeps, or live (Guarded): a row recorded after   *)
(* the collection was planned was published since, by a lane that marked   *)
(* it live first (Marked), and the file a collection is removing is        *)
(* neither.                                                                *)
(*                                                                         *)
(* Resources, for any number of processes and resources, any quota and any *)
(* number of crashes and disk faults: the invariant says whose a staged    *)
(* directory is and when it is whole, and, of one process alone, what is   *)
(* staged and what is published at each step of its job, and how many      *)
(* markers are left without their file (LostInv).                          *)
(*                                                                         *)
(* Transport, for any origins, addresses, limits and clocks: the invariant *)
(* says how late it may be at each step, where the request may go next and *)
(* with what, what was sent where, and how much of a body was received.    *)
(***************************************************************************)
EXTENDS Artifacts, Resources, Transport, FiniteSetTheorems, SequenceTheorems, TLAPS

\* What awaits the owner, and what it has answered, is live, and a file
\* the lane is settling is live and is not the one being removed.
Marked ==
    /\ published \subseteq live
    /\ answered \subseteq live
    /\ pc = "settle" => writing \in live /\ removing = None

\* Every collection, planned or running, keeps each row or finds it live.
Guarded ==
    /\ \A i \in 1 .. Len(queue) : rows \subseteq queue[i] \union live
    /\ sweeping => rows \subseteq keep \union live
    /\ removing # None => sweeping /\ removing \notin keep \union live

-----------------------------------------------------------------------------
\* The derived artifacts.

\* The type of every variable is kept by every step.

\* An empty queue has a type and room.
LEMMA EmptyQueue == << >> \in Seq(SUBSET Ids) /\ Len(<< >>) = 0
    OBVIOUS

\* A service that has forgotten its memory has the types of one that has
\* just started.
Forgotten ==
    /\ live \subseteq Ids
    /\ answered \subseteq Ids
    /\ pc \in Finished
    /\ writing = None
    /\ published \subseteq Ids
    /\ queue \in Seq(SUBSET Ids)
    /\ Len(queue) <= QueueCapacity
    /\ sweeping \in BOOLEAN
    /\ keep \subseteq Ids
    /\ left \subseteq Ids
    /\ removing \in Ids \union {None}

LEMMA ForgottenTyped == ForgetMemory => Forgotten'
<1> SUFFICES ASSUME ForgetMemory PROVE Forgotten'
    OBVIOUS
<1>1. sweeping' \in BOOLEAN
    BY Zenon DEF ForgetMemory, StopSweep
<1>2. queue' \in Seq(SUBSET Ids) /\ Len(queue') <= QueueCapacity
    BY EmptyQueue, ArtifactsAssumption DEF ForgetMemory
<1>3. live' = {} /\ answered' = {} /\ pc' = "idle" /\ writing' = None /\ published' = {}
    BY Zenon DEF ForgetMemory
<1>4. keep' = {} /\ left' = {} /\ removing' = None
    BY Zenon DEF ForgetMemory, StopSweep
<1> QED
    BY <1>1, <1>2, <1>3, <1>4 DEF Forgotten, Finished

LEMMA LaneTyped == TypeOK /\ Lane => TypeOK'
<1> SUFFICES ASSUME TypeOK, Lane PROVE TypeOK'
    OBVIOUS
<1> USE ArtifactsAssumption DEF TypeOK, Finished, Publishing, vars, fileVars, catalog, memory, worker
<1>1. CASE StartTask
    BY <1>1 DEF StartTask
<1>2. CASE CreateDirectory
    BY <1>2 DEF CreateDirectory
<1>3. CASE WriteManifest
    BY <1>3 DEF WriteManifest
<1>4. CASE MarkLive
    BY <1>4 DEF MarkLive
<1>5. CASE Settle
    BY <1>5 DEF Settle
<1>6. CASE WriteFails
    BY <1>6 DEF WriteFails
<1>7. CASE TaskReturns
    BY <1>7 DEF TaskReturns
<1>8. ASSUME NEW id \in Ids, BeginPublish(id) PROVE TypeOK'
    BY <1>8 DEF BeginPublish
<1> QED
    BY <1>1, <1>2, <1>3, <1>4, <1>5, <1>6, <1>7, <1>8 DEF Lane

LEMMA OwnerTyped == TypeOK /\ Owner => TypeOK'
<1> SUFFICES ASSUME TypeOK, Owner PROVE TypeOK'
    OBVIOUS
<1> USE ArtifactsAssumption DEF TypeOK, Finished, Publishing, fileVars, catalog, memory, taskVars, worker
<1>1. CASE TaskFails
    BY <1>1 DEF TaskFails, EndTask
<1>2. CASE TaskSucceeds
    BY <1>2 DEF TaskSucceeds, Register, EndTask
<1>3. CASE RegistrationFails
    BY <1>3 DEF RegistrationFails, Register, EndTask
<1>4. CASE PlanCollection
    BY <1>4 DEF PlanCollection
<1>5. ASSUME NEW ids \in SUBSET Ids, Commit(ids) PROVE TypeOK'
    BY <1>5 DEF Commit
<1> QED
    BY <1>1, <1>2, <1>3, <1>4, <1>5 DEF Owner

LEMMA WorkerTyped == TypeOK /\ Worker => TypeOK'
<1> SUFFICES ASSUME TypeOK, Worker PROVE TypeOK'
    OBVIOUS
<1> USE ArtifactsAssumption DEF TypeOK, Finished, Publishing, fileVars, catalog, memory, taskVars
<1>1. CASE SkipCollection
    BY <1>1 DEF SkipCollection
<1>2. CASE StartSweep
    BY <1>2 DEF StartSweep
<1>3. CASE RemoveObject
    BY <1>3 DEF RemoveObject
<1>4. CASE EndSweep
    BY <1>4 DEF EndSweep, StopSweep
<1>5. ASSUME NEW id \in Ids, SpareKept(id) PROVE TypeOK'
    BY <1>5 DEF SpareKept
<1>6. ASSUME NEW id \in Ids, JudgeObject(id) PROVE TypeOK'
    BY <1>6 DEF JudgeObject
<1> QED
    BY <1>1, <1>2, <1>3, <1>4, <1>5, <1>6 DEF Worker

LEMMA OutsideTyped == TypeOK /\ Outside => TypeOK'
<1> SUFFICES ASSUME TypeOK, Outside PROVE TypeOK'
    OBVIOUS
<1> USE ArtifactsAssumption DEF TypeOK, Finished, Publishing, fileVars, catalog, memory, taskVars, worker
<1>1. CASE Reopen
    BY <1>1, ForgottenTyped DEF Reopen, Forgotten
<1>2. CASE ReopenElsewhere
    BY <1>2, ForgottenTyped DEF ReopenElsewhere, Forgotten
<1>3. ASSUME NEW id \in Ids, LoseFile(id) PROVE TypeOK'
    BY <1>3 DEF LoseFile
<1> QED
    BY <1>1, <1>2, <1>3 DEF Outside

\* Artifacts has the types TypeOK names in every reachable state; in
\* particular the worker's queue never holds more than it has room for.
THEOREM TypeCorrect == Spec => []TypeOK
<1>1. Init => TypeOK
  <2> SUFFICES ASSUME Init PROVE TypeOK
      OBVIOUS
  <2>1. sweeping \in BOOLEAN
      BY Zenon DEF Init
  <2>2. queue \in Seq(SUBSET Ids) /\ Len(queue) <= QueueCapacity
      BY EmptyQueue, ArtifactsAssumption DEF Init
  <2>3. pc = "idle" /\ writing = None /\ root = "absent"
      BY Zenon DEF Init
  <2>4. /\ objects = {} /\ lost = {} /\ rows = {} /\ refs = {} /\ live = {}
        /\ answered = {} /\ published = {} /\ keep = {} /\ left = {} /\ removing = None
      BY Zenon DEF Init
  <2> QED
      BY <2>1, <2>2, <2>3, <2>4 DEF TypeOK, Finished, Publishing
<1>2. TypeOK /\ [Next]_vars => TypeOK'
  <2> SUFFICES ASSUME TypeOK, [Next]_vars PROVE TypeOK'
      OBVIOUS
  <2>1. CASE Next
      BY <2>1, LaneTyped, OwnerTyped, WorkerTyped, OutsideTyped DEF Next
  <2>2. CASE UNCHANGED vars
      BY <2>2 DEF vars, fileVars, catalog, memory, taskVars, worker, TypeOK, Finished, Publishing
  <2> QED
      BY <2>1, <2>2
<1> QED
    BY <1>1, <1>2, PTL DEF Spec

-----------------------------------------------------------------------------
\* The inductive invariant beside TypeOK.

Safe ==
    /\ ReferencesRecorded
    /\ RecordsHaveFiles
    /\ PublishedHeld
    /\ AnswersUsable
    /\ NoGarbageMissed
    /\ Marked
    /\ Guarded

LEMMA LaneSafe == TypeOK /\ Safe /\ Lane => Safe'
<1> SUFFICES ASSUME TypeOK, Safe, Lane PROVE Safe'
    OBVIOUS
<1> USE ArtifactsAssumption DEF TypeOK, Finished, Publishing, fileVars, catalog, memory, worker,
        Safe, ReferencesRecorded, RecordsHaveFiles, PublishedHeld, AnswersUsable,
        NoGarbageMissed, Marked, Guarded
<1>1. CASE StartTask
    BY <1>1 DEF StartTask
<1>2. CASE CreateDirectory
    BY <1>2 DEF CreateDirectory
<1>3. CASE WriteManifest
    BY <1>3 DEF WriteManifest
<1>4. CASE MarkLive
    BY <1>4 DEF MarkLive, Unlocked
<1>5. CASE Settle
    BY <1>5 DEF Settle
<1>6. CASE WriteFails
    BY <1>6 DEF WriteFails
<1>7. CASE TaskReturns
    BY <1>7 DEF TaskReturns
<1>8. ASSUME NEW id \in Ids, BeginPublish(id) PROVE Safe'
    BY <1>8 DEF BeginPublish
<1> QED
    BY <1>1, <1>2, <1>3, <1>4, <1>5, <1>6, <1>7, <1>8 DEF Lane

LEMMA OwnerSafe == TypeOK /\ Safe /\ Owner => Safe'
<1> SUFFICES ASSUME TypeOK, Safe, Owner PROVE Safe'
    OBVIOUS
<1> USE ArtifactsAssumption DEF TypeOK, Finished, Publishing, fileVars, catalog, memory, taskVars, worker,
        Safe, ReferencesRecorded, RecordsHaveFiles, PublishedHeld, AnswersUsable,
        NoGarbageMissed, Marked, Guarded
<1>1. CASE TaskFails
    BY <1>1 DEF TaskFails, EndTask
<1>2. CASE TaskSucceeds
    BY <1>2 DEF TaskSucceeds, Register, EndTask
<1>3. CASE RegistrationFails
    BY <1>3 DEF RegistrationFails, Register, EndTask
<1>4. CASE PlanCollection
    BY <1>4 DEF PlanCollection, Candidates
<1>5. ASSUME NEW ids \in SUBSET Ids, Commit(ids) PROVE Safe'
    BY <1>5 DEF Commit, Recorded
<1> QED
    BY <1>1, <1>2, <1>3, <1>4, <1>5 DEF Owner

LEMMA WorkerSafe == TypeOK /\ Safe /\ Worker => Safe'
<1> SUFFICES ASSUME TypeOK, Safe, Worker PROVE Safe'
    OBVIOUS
<1> USE ArtifactsAssumption DEF TypeOK, Finished, Publishing, fileVars, catalog, memory, taskVars,
        Safe, ReferencesRecorded, RecordsHaveFiles, PublishedHeld, AnswersUsable,
        NoGarbageMissed, Marked, Guarded
<1>1. CASE SkipCollection
    BY <1>1 DEF SkipCollection
<1>2. CASE StartSweep
    BY <1>2 DEF StartSweep
<1>3. CASE RemoveObject
    BY <1>3 DEF RemoveObject
<1>4. CASE EndSweep
    BY <1>4 DEF EndSweep, StopSweep
<1>5. ASSUME NEW id \in Ids, SpareKept(id) PROVE Safe'
    BY <1>5 DEF SpareKept
<1>6. ASSUME NEW id \in Ids, JudgeObject(id) PROVE Safe'
    BY <1>6 DEF JudgeObject, Unlocked
<1> QED
    BY <1>1, <1>2, <1>3, <1>4, <1>5, <1>6 DEF Worker

LEMMA OutsideSafe == TypeOK /\ Safe /\ Outside => Safe'
<1> SUFFICES ASSUME TypeOK, Safe, Outside PROVE Safe'
    OBVIOUS
<1> USE ArtifactsAssumption DEF TypeOK, Finished, Publishing, fileVars, catalog, memory, taskVars, worker,
        Safe, ReferencesRecorded, RecordsHaveFiles, PublishedHeld, AnswersUsable,
        NoGarbageMissed, Marked, Guarded
<1>1. CASE Reopen
    BY <1>1 DEF Reopen, ForgetMemory, StopSweep
<1>2. CASE ReopenElsewhere
    BY <1>2 DEF ReopenElsewhere, ForgetMemory, StopSweep
<1>3. ASSUME NEW id \in Ids, LoseFile(id) PROVE Safe'
    BY <1>3 DEF LoseFile
<1> QED
    BY <1>1, <1>2, <1>3 DEF Outside

LEMMA Invariance == Spec => [](TypeOK /\ Safe)
<1>1. Init => Safe
    BY ArtifactsAssumption DEF Init, Safe, ReferencesRecorded, RecordsHaveFiles, PublishedHeld,
       AnswersUsable, NoGarbageMissed, Marked, Guarded
<1>2. TypeOK /\ Safe /\ [Next]_vars => Safe'
  <2> SUFFICES ASSUME TypeOK, Safe, [Next]_vars PROVE Safe'
      OBVIOUS
  <2>1. CASE Next
      BY <2>1, LaneSafe, OwnerSafe, WorkerSafe, OutsideSafe DEF Next
  <2>2. CASE UNCHANGED vars
      BY <2>2 DEF vars, fileVars, catalog, memory, taskVars, worker, Safe, ReferencesRecorded,
         RecordsHaveFiles, PublishedHeld, AnswersUsable, NoGarbageMissed, Marked, Guarded
  <2> QED
      BY <2>1, <2>2
<1> QED
    BY <1>1, <1>2, TypeCorrect, PTL DEF Spec

\* No history entry ever references an artifact the catalog does not
\* record.
THEOREM ReferencesCorrect == Spec => []ReferencesRecorded
    BY Invariance, PTL DEF Safe

\* No collection ever removes the file of a recorded artifact.
THEOREM FilesCorrect == Spec => []RecordsHaveFiles
    BY Invariance, PTL DEF Safe

\* A task and a collection that meet at one file never lose it.
THEOREM PublishedCorrect == Spec => []PublishedHeld
    BY Invariance, PTL DEF Safe

\* What a client was told a task published is recorded until the service
\* stops.
THEOREM AnswersCorrect == Spec => []AnswersUsable
    BY Invariance, PTL DEF Safe

\* A collection passes no file it should have removed.
THEOREM SweepCorrect == Spec => []NoGarbageMissed
    BY Invariance, PTL DEF Safe

\* The four together: from the publish of a file to the entry that names
\* it, the store keeps what a row, a task, an answer or an entry relies on
\* (artifacts.rs, history.rs).
THEOREM StoreCorrect == Spec => []StoreSound
    BY ReferencesCorrect, FilesCorrect, PublishedCorrect, AnswersCorrect, PTL DEF StoreSound

-----------------------------------------------------------------------------
\* The resources a module installs.

Transferring == Fetching \union {"list", "clear", "mark", "undo", "tidy", "unmark", "delete",
                                 "done"}

TransferJobs == [id : TransferIds, kind : {"install", "remove"}, res : Resources]

\* A transfer lane that works, or rests.
Transfers ==
    [id : TransferIds, kind : {"install", "remove"}, res : Resources, at : Transferring,
     stale : SUBSET TransferIds, got : Data, stop : BOOLEAN, ok : BOOLEAN,
     cause : {"none", "fault", "cancel", "bytes", "quota", "other"}]

Directories == [dir : BOOLEAN, file : {"none", "whole"}, marker : BOOLEAN]

ResourcesTyped ==
    /\ staged \in [TransferIds -> Data \union {Absent}]
    /\ target \in [Resources -> Directories]
    /\ \A r \in Resources : ~target[r].dir => target[r] = NoTarget
    /\ waiting \in [Editors -> Seq(TransferJobs)]
    /\ lane \in [Editors -> Transfers \union {NoTransfer}]
    /\ lastJob \in 0 .. MaxJobs /\ crashes \in 0 .. MaxCrashes
    /\ diskFaults \in 0 .. MaxDiskFaults

\* No two jobs share a staging directory.
OwnIds ==
    /\ \A h \in Editors : lane[h].at # "idle" => lane[h].id <= lastJob
    /\ \A h \in Editors : \A i \in DOMAIN waiting[h] : waiting[h][i].id <= lastJob
    /\ \A g, h \in Editors :
          g # h /\ lane[g].at # "idle" /\ lane[h].at # "idle" => lane[g].id # lane[h].id
    /\ \A g, h \in Editors : \A i \in DOMAIN waiting[h] :
          lane[g].at # "idle" => lane[g].id # waiting[h][i].id
    /\ \A g, h \in Editors : \A i \in DOMAIN waiting[g] : \A j \in DOMAIN waiting[h] :
          g # h \/ i # j => waiting[g][i].id # waiting[h][j].id

\* What a lane may find in its staging directory, whoever else clears it.
Fits(l, st) ==
    /\ l.at = "create" => st[l.id] \in {"none", Absent}
    /\ l.at = "fetch" => st[l.id] \in {"short", "none", Absent}
    /\ l.at = "verify" => st[l.id] \in {l.got, "none", Absent}
    /\ l.at \in {"validate", "quota", "replace", "rename"} =>
          st[l.id] \in {"whole", "none", Absent}

StagedIn(st) == {id \in TransferIds : st[id] # Absent}
MarkedIn(tg) == {r \in Resources : tg[r].marker}

Causes == {"fault", "cancel", "bytes", "quota"}

\* What the only lane of a root finds there.
StagesAlone(l, st, quiet) ==
    /\ l.at = "clear" => l.stale = StagedIn(st)
    /\ l.at = "create" => st[l.id] = "none"
    /\ l.at = "fetch" => st[l.id] = "short"
    /\ l.at = "verify" => st[l.id] = l.got /\ l.got # "none"
    /\ l.at \in {"validate", "quota", "replace", "rename"} => st[l.id] = "whole"
    /\ l.at \in Fetching => StagedIn(st) \subseteq {l.id}
    /\ quiet /\ l.at = "tidy" => StagedIn(st) \subseteq {l.id}
    /\ quiet /\ l.at \notin Fetching \union {"tidy"} => StagedIn(st) = {}

PublishesAlone(l, tg) ==
    /\ l.at = "replace" => tg[l.res].dir
    /\ l.at = "rename" => tg[l.res] = NoTarget
    /\ l.at = "mark" => tg[l.res] = [dir |-> TRUE, file |-> "whole", marker |-> FALSE]
    /\ l.at \in {"replace", "rename", "mark", "undo"} =>
          Cardinality(MarkedIn(tg) \ {l.res}) + 1 <= Quota

AnswersAlone(l, tg) ==
    /\ l.ok => l.at = "done"
    /\ l.at = "done" /\ l.ok /\ l.kind = "install" => tg[l.res].marker /\ tg[l.res].file = "whole"
    /\ l.at = "done" /\ l.ok /\ l.kind = "remove" => tg[l.res] = NoTarget
    /\ l.at \in {"undo", "tidy"} \/ (l.at = "done" /\ ~l.ok) => l.cause \in Causes
    /\ l.at \in Fetching \union {"list", "clear", "mark", "undo", "tidy"} => l.kind = "install"
    /\ l.at \in {"unmark", "delete"} => l.kind = "remove"

Alone == \A g, h \in Editors : g = h

Quiet == crashes = 0 /\ diskFaults = 0

ResourcesAlone ==
    /\ Cardinality(MarkedIn(target)) <= Quota
    /\ \A h \in Editors :
          /\ StagesAlone(lane[h], staged, Quiet)
          /\ PublishesAlone(lane[h], target)
          /\ AnswersAlone(lane[h], target)

ResourcesInv ==
    /\ ResourcesTyped /\ OwnIds
    /\ \A h \in Editors : Fits(lane[h], staged)
    /\ Alone => ResourcesAlone

LEMMA ResourcesBegin ==
    ASSUME ResourcesAssumption, ResourcesInit
    PROVE  ResourcesInv
<1>1. /\ staged = [id \in TransferIds |-> Absent] /\ target = [r \in Resources |-> NoTarget]
      /\ waiting = [h \in Editors |-> << >>] /\ lane = [h \in Editors |-> NoTransfer]
      /\ lastJob = 0 /\ crashes = 0 /\ diskFaults = 0
  BY DEF ResourcesInit
<1>2. MaxJobs \in Nat /\ MaxCrashes \in Nat /\ MaxDiskFaults \in Nat /\ Quota \in Nat
  BY DEF ResourcesAssumption
<1>3. NoTarget \in Directories
  BY DEF NoTarget, Directories
<1>4. ResourcesTyped
  BY <1>1, <1>2, <1>3, EmptySeq DEF ResourcesTyped
<1>5. \A h \in Editors : lane[h].at = "idle" /\ ~lane[h].ok /\ DOMAIN waiting[h] = {}
  BY <1>1 DEF NoTransfer
<1>6. OwnIds
  BY <1>5 DEF OwnIds
<1>7. \A h \in Editors : Fits(lane[h], staged)
  BY <1>5 DEF Fits
<1>8. ResourcesAlone
  <2>1. MarkedIn(target) = {} /\ StagedIn(staged) = {}
    BY <1>1 DEF MarkedIn, StagedIn, NoTarget
  <2>2. Cardinality(MarkedIn(target)) <= Quota
    BY <1>2, <2>1, FS_EmptySet
  <2>3. \A h \in Editors : StagesAlone(lane[h], staged, Quiet)
    BY <1>5, <2>1 DEF StagesAlone, Fetching
  <2>4. \A h \in Editors : PublishesAlone(lane[h], target) /\ AnswersAlone(lane[h], target)
    BY <1>5 DEF PublishesAlone, AnswersAlone, Fetching
  <2> QED BY <2>2, <2>3, <2>4 DEF ResourcesAlone
<1> QED BY <1>4, <1>6, <1>7, <1>8 DEF ResourcesInv

\* A lane that works on something.
LEMMA LaneTakes ==
    ASSUME ResourcesInv, NEW h \in Editors, lane[h].at # "idle"
    PROVE  lane[h] \in Transfers /\ lane[h].at \in Transferring
<1>1. lane[h] \in Transfers \union {NoTransfer}
  BY DEF ResourcesInv, ResourcesTyped
<1> QED BY <1>1 DEF NoTransfer, Transfers

\* Nobody else's staging directory is disturbed but by being cleared.
Spares(id, before, after) ==
    \A i \in TransferIds : i # id => after[i] = before[i] \/ after[i] \in {"none", Absent}

LEMMA FitsStill ==
    ASSUME NEW l, NEW before, NEW after, NEW id, Spares(id, before, after),
           l.id \in TransferIds, l.id # id, Fits(l, before)
    PROVE  Fits(l, after)
BY DEF Fits, Spares

LEMMA IdleFits ==
    ASSUME NEW l, NEW st, l.at \notin Fetching
    PROVE  Fits(l, st)
BY DEF Fits, Fetching

\* What a job does in one step leaves the disk and the lanes in order, if
\* its own lane is, and alone in its root, what that lane finds there.
LEMMA LaneStepKeeps ==
    ASSUME ResourcesAssumption, ResourcesInv, NEW h \in Editors, lane[h].at # "idle",
           NEW l \in Transfers, lane' = [lane EXCEPT ![h] = l], l.id = lane[h].id,
           UNCHANGED <<waiting, lastJob, crashes>>, diskFaults' \in 0 .. MaxDiskFaults,
           staged' \in [TransferIds -> Data \union {Absent}], Spares(l.id, staged, staged'),
           target' \in [Resources -> Directories],
           \A r \in Resources : ~target'[r].dir => target'[r] = NoTarget,
           Fits(l, staged'),
           Alone => /\ Cardinality(MarkedIn(target')) <= Quota
                    /\ StagesAlone(l, staged', Quiet')
                    /\ PublishesAlone(l, target') /\ AnswersAlone(l, target')
    PROVE  ResourcesInv'
<1>1. ResourcesTyped /\ OwnIds
  BY DEF ResourcesInv
<1>2. /\ lane \in [Editors -> Transfers \union {NoTransfer}]
      /\ lane' \in [Editors -> Transfers \union {NoTransfer}]
      /\ lane'[h] = l /\ \A g \in Editors : g # h => lane'[g] = lane[g]
  BY <1>1 DEF ResourcesTyped
<1>3. ResourcesTyped'
  BY <1>1, <1>2 DEF ResourcesTyped
<1>4. l.at # "idle"
  BY DEF Transfers, Transferring, Fetching
<1>5. \A g \in Editors : lane'[g].at # "idle" => lane[g].at # "idle" /\ lane'[g].id = lane[g].id
  BY <1>2
<1>6. OwnIds'
  BY <1>1, <1>5 DEF OwnIds
<1>7. \A g \in Editors : Fits(lane'[g], staged')
  <2> SUFFICES ASSUME NEW g \in Editors, g # h PROVE Fits(lane[g], staged')
    BY <1>2
  <2>1. CASE lane[g].at = "idle"
    BY <2>1, IdleFits DEF Fetching
  <2>2. CASE lane[g].at # "idle"
    <3>1. lane[g].id # l.id
      BY <1>1, <2>2 DEF OwnIds
    <3>2. lane[g].id \in TransferIds
      BY <2>2, LaneTakes DEF Transfers
    <3>3. Fits(lane[g], staged)
      BY DEF ResourcesInv
    <3> QED BY <3>1, <3>2, <3>3, FitsStill
  <2> QED BY <2>1, <2>2
<1>8. Alone => ResourcesAlone'
  <2> SUFFICES ASSUME Alone PROVE ResourcesAlone'
    OBVIOUS
  <2>1. \A g \in Editors : g = h
    BY DEF Alone
  <2> QED BY <1>2, <2>1 DEF ResourcesAlone
<1> QED BY <1>3, <1>6, <1>7, <1>8 DEF ResourcesInv

\* The same of a step that leaves the disk.
LEMMA LaneOnlyKeeps ==
    ASSUME ResourcesAssumption, ResourcesInv, NEW h \in Editors, lane[h].at # "idle",
           NEW l \in Transfers, lane' = [lane EXCEPT ![h] = l], l.id = lane[h].id,
           UNCHANGED <<waiting, lastJob, crashes>>, diskFaults' \in 0 .. MaxDiskFaults,
           UNCHANGED disk, Fits(l, staged),
           Alone => /\ StagesAlone(l, staged, Quiet')
                    /\ PublishesAlone(l, target) /\ AnswersAlone(l, target)
    PROVE  ResourcesInv'
<1>1. staged' = staged /\ target' = target
  BY DEF disk
<1>2. /\ staged' \in [TransferIds -> Data \union {Absent}] /\ Spares(l.id, staged, staged')
      /\ target' \in [Resources -> Directories]
      /\ \A r \in Resources : ~target'[r].dir => target'[r] = NoTarget
  BY <1>1 DEF ResourcesInv, ResourcesTyped, Spares
<1>3. Alone => Cardinality(MarkedIn(target')) <= Quota
  BY <1>1 DEF ResourcesInv, ResourcesAlone
<1> QED BY <1>1, <1>2, <1>3, LaneStepKeeps

\* Faults are counted, and no step makes a disk quiet again.
LEMMA FaultCounts ==
    ASSUME ResourcesAssumption, ResourcesInv, DiskFault
    PROVE  /\ UNCHANGED <<waiting, lastJob, crashes>> /\ diskFaults' \in 0 .. MaxDiskFaults
           /\ ~Quiet'
<1>1. /\ UNCHANGED <<waiting, lastJob, crashes>> /\ diskFaults < MaxDiskFaults
      /\ diskFaults' = diskFaults + 1
  BY DEF DiskFault
<1>2. diskFaults \in Nat /\ MaxDiskFaults \in Nat
  BY DEF ResourcesInv, ResourcesTyped, ResourcesAssumption
<1>3. diskFaults' \in 0 .. MaxDiskFaults /\ diskFaults' # 0
  BY ONLY <1>1, <1>2
<1> QED BY <1>1, <1>3 DEF Quiet

LEMMA NoFaultCounts ==
    ASSUME ResourcesInv, SameBounds
    PROVE  /\ UNCHANGED <<waiting, lastJob, crashes>> /\ diskFaults' \in 0 .. MaxDiskFaults
           /\ Quiet' <=> Quiet
BY DEF SameBounds, Quiet, ResourcesInv, ResourcesTyped

\* What a lane alone in its root finds.
LEMMA FindsAlone ==
    ASSUME ResourcesInv, Alone, NEW h \in Editors
    PROVE  /\ StagesAlone(lane[h], staged, Quiet)
           /\ PublishesAlone(lane[h], target) /\ AnswersAlone(lane[h], target)
           /\ Cardinality(MarkedIn(target)) <= Quota
BY DEF ResourcesInv, ResourcesAlone

\* An install fails, and goes on to remove what it staged.
LEMMA FailsTidyKeeps ==
    ASSUME ResourcesAssumption, ResourcesInv, NEW h \in Editors,
           lane[h].at \in Fetching \union {"mark"},
           NEW cause \in Causes \union {"other"}, Alone => cause \in Causes,
           Fails(h, "tidy", cause), UNCHANGED disk,
           UNCHANGED <<waiting, lastJob, crashes>>, diskFaults' \in 0 .. MaxDiskFaults,
           Quiet' => Quiet
    PROVE  ResourcesInv'
<1> DEFINE l == [lane[h] EXCEPT !.at = "tidy", !.cause = cause]
<1>1. lane[h].at # "idle"
  BY DEF Fetching
<1>2. lane[h] \in Transfers
  BY <1>1, LaneTakes
<1>3. lane' = [lane EXCEPT ![h] = l]
  BY DEF Fails
<1>4. l \in Transfers /\ l.id = lane[h].id /\ l.at = "tidy" /\ l.cause = cause /\ l.ok = lane[h].ok
      /\ l.kind = lane[h].kind
  BY <1>2 DEF Transfers, Transferring, Causes
<1> HIDE DEF l
<1>5. Fits(l, staged)
  BY <1>4, IdleFits DEF Fetching
<1>6. ASSUME Alone
      PROVE  /\ StagesAlone(l, staged, Quiet')
             /\ PublishesAlone(l, target) /\ AnswersAlone(l, target)
  <2>1. StagesAlone(lane[h], staged, Quiet) /\ AnswersAlone(lane[h], target)
    BY <1>6, FindsAlone
  <2>2. StagesAlone(l, staged, Quiet')
    BY <1>4, <2>1 DEF StagesAlone, Fetching
  <2>3. PublishesAlone(l, target)
    BY <1>4 DEF PublishesAlone
  <2>4. AnswersAlone(l, target)
    BY <1>4, <1>6, <2>1 DEF AnswersAlone, Fetching
  <2> QED BY <2>2, <2>3, <2>4
<1> QED BY <1>1, <1>3, <1>4, <1>5, <1>6, LaneOnlyKeeps

\* A job fails with nothing of its own to remove.
LEMMA FailsDoneKeeps ==
    ASSUME ResourcesAssumption, ResourcesInv, NEW h \in Editors,
           lane[h].at \in {"list", "clear", "unmark", "delete", "tidy"},
           NEW cause \in Causes \union {"other"}, Alone => cause \in Causes,
           Fails(h, "done", cause), UNCHANGED disk,
           UNCHANGED <<waiting, lastJob, crashes>>, diskFaults' \in 0 .. MaxDiskFaults,
           Quiet' => Quiet /\ lane[h].at # "tidy"
    PROVE  ResourcesInv'
<1> DEFINE l == [lane[h] EXCEPT !.at = "done", !.cause = cause]
<1>1. lane[h].at # "idle"
  OBVIOUS
<1>2. lane[h] \in Transfers
  BY <1>1, LaneTakes
<1>3. lane' = [lane EXCEPT ![h] = l]
  BY DEF Fails
<1>4. l \in Transfers /\ l.id = lane[h].id /\ l.at = "done" /\ l.cause = cause /\ l.ok = lane[h].ok
      /\ l.kind = lane[h].kind
  BY <1>2 DEF Transfers, Transferring, Causes
<1> HIDE DEF l
<1>5. Fits(l, staged)
  BY <1>4, IdleFits DEF Fetching
<1>6. ASSUME Alone
      PROVE  /\ StagesAlone(l, staged, Quiet')
             /\ PublishesAlone(l, target) /\ AnswersAlone(l, target)
  <2>1. StagesAlone(lane[h], staged, Quiet) /\ AnswersAlone(lane[h], target)
    BY <1>6, FindsAlone
  <2>2. StagesAlone(l, staged, Quiet')
    BY <1>4, <2>1 DEF StagesAlone, Fetching
  <2>3. PublishesAlone(l, target)
    BY <1>4 DEF PublishesAlone
  <2>4. AnswersAlone(l, target)
    BY <1>4, <1>6, <2>1 DEF AnswersAlone, Fetching
  <2> QED BY <2>2, <2>3, <2>4
<1> QED BY <1>1, <1>3, <1>4, <1>5, <1>6, LaneOnlyKeeps

\* A lane goes on with the job it has and leaves the disk.
LEMMA GoesKeeps ==
    ASSUME ResourcesAssumption, ResourcesInv, NEW h \in Editors, lane[h].at # "idle",
           NEW at \in Transferring, Goes(h, at), UNCHANGED disk, SameBounds,
           Fits([lane[h] EXCEPT !.at = at], staged),
           Alone => /\ StagesAlone([lane[h] EXCEPT !.at = at], staged, Quiet)
                    /\ PublishesAlone([lane[h] EXCEPT !.at = at], target)
                    /\ AnswersAlone([lane[h] EXCEPT !.at = at], target)
    PROVE  ResourcesInv'
<1> DEFINE l == [lane[h] EXCEPT !.at = at]
<1>1. lane[h] \in Transfers
  BY LaneTakes
<1>2. lane' = [lane EXCEPT ![h] = l] /\ l \in Transfers /\ l.id = lane[h].id
  BY <1>1 DEF Goes, Transfers
<1>3. Fits(l, staged) /\ (Alone => /\ StagesAlone(l, staged, Quiet)
                                   /\ PublishesAlone(l, target) /\ AnswersAlone(l, target))
  OBVIOUS
<1> HIDE DEF l
<1>4. /\ UNCHANGED <<waiting, lastJob, crashes>> /\ diskFaults' \in 0 .. MaxDiskFaults
      /\ Quiet' <=> Quiet
  BY NoFaultCounts
<1>5. Alone => /\ StagesAlone(l, staged, Quiet')
               /\ PublishesAlone(l, target) /\ AnswersAlone(l, target)
  BY <1>3, <1>4 DEF StagesAlone
<1> QED BY <1>2, <1>3, <1>4, <1>5, LaneOnlyKeeps

\* The staging directories there are.
LEMMA ListStagingKeeps ==
    ASSUME ResourcesAssumption, ResourcesInv, NEW h \in Editors, ListStaging(h)
    PROVE  ResourcesInv'
<1> DEFINE l == [lane[h] EXCEPT !.at = "clear", !.stale = StagedIds]
<1>1. lane[h].at = "list" /\ lane' = [lane EXCEPT ![h] = l] /\ UNCHANGED disk /\ SameBounds
  BY DEF ListStaging
<1>2. lane[h] \in Transfers
  BY <1>1, LaneTakes
<1>3. /\ l \in Transfers /\ l.id = lane[h].id /\ l.at = "clear" /\ l.ok = lane[h].ok
      /\ l.kind = lane[h].kind /\ l.stale = StagedIds
  BY <1>2 DEF Transfers, Transferring, StagedIds
<1> HIDE DEF l
<1>4. Fits(l, staged)
  BY <1>3, IdleFits DEF Fetching
<1>5. /\ UNCHANGED <<waiting, lastJob, crashes>> /\ diskFaults' \in 0 .. MaxDiskFaults
      /\ Quiet' <=> Quiet
  BY <1>1, NoFaultCounts
<1>6. ASSUME Alone
      PROVE  /\ StagesAlone(l, staged, Quiet')
             /\ PublishesAlone(l, target) /\ AnswersAlone(l, target)
  <2>1. StagesAlone(lane[h], staged, Quiet) /\ AnswersAlone(lane[h], target)
    BY <1>6, FindsAlone
  <2>2. StagesAlone(l, staged, Quiet')
    BY <1>1, <1>3, <1>5, <2>1 DEF StagesAlone, Fetching, StagedIds, StagedIn
  <2>3. PublishesAlone(l, target)
    BY <1>3 DEF PublishesAlone
  <2>4. AnswersAlone(l, target)
    BY <1>1, <1>3, <2>1 DEF AnswersAlone, Fetching
  <2> QED BY <2>2, <2>3, <2>4
<1> QED BY <1>1, <1>3, <1>4, <1>5, <1>6, LaneOnlyKeeps

\* A step that changes one staging directory and not the installed ones.
LEMMA StageKeeps ==
    ASSUME ResourcesAssumption, ResourcesInv, NEW h \in Editors, lane[h].at # "idle",
           NEW l \in Transfers, lane' = [lane EXCEPT ![h] = l], l.id = lane[h].id,
           NEW id \in TransferIds, NEW data \in Data \union {Absent}, StageSet(id, data),
           id = l.id \/ data \in {"none", Absent}, SameBounds, Fits(l, staged'),
           Alone => /\ StagesAlone(l, staged', Quiet)
                    /\ PublishesAlone(l, target) /\ AnswersAlone(l, target)
    PROVE  ResourcesInv'
<1>1. staged' = [staged EXCEPT ![id] = data] /\ target' = target
  BY DEF StageSet
<1>2. ResourcesTyped
  BY DEF ResourcesInv
<1>3. /\ staged' \in [TransferIds -> Data \union {Absent}] /\ Spares(l.id, staged, staged')
      /\ target' \in [Resources -> Directories]
      /\ \A r \in Resources : ~target'[r].dir => target'[r] = NoTarget
  BY <1>1, <1>2 DEF ResourcesTyped, Spares
<1>4. /\ UNCHANGED <<waiting, lastJob, crashes>> /\ diskFaults' \in 0 .. MaxDiskFaults
      /\ Quiet' <=> Quiet
  BY NoFaultCounts
<1>5. Alone => /\ Cardinality(MarkedIn(target')) <= Quota
               /\ StagesAlone(l, staged', Quiet')
               /\ PublishesAlone(l, target') /\ AnswersAlone(l, target')
  BY <1>1, <1>4 DEF ResourcesInv, ResourcesAlone, StagesAlone
<1> QED BY <1>3, <1>4, <1>5, LaneStepKeeps

\* What is staged after one change.
LEMMA StagedAfter ==
    ASSUME ResourcesInv, NEW id \in TransferIds, NEW data, StageSet(id, data)
    PROVE  /\ staged'[id] = data
           /\ data = Absent => StagedIn(staged') = StagedIn(staged) \ {id}
           /\ data # Absent => StagedIn(staged') = StagedIn(staged) \union {id}
<1>1. staged' = [staged EXCEPT ![id] = data] /\ staged \in [TransferIds -> Data \union {Absent}]
  BY DEF StageSet, ResourcesInv, ResourcesTyped
<1> QED BY <1>1 DEF StagedIn

\* A file or a directory of the staging that was listed is removed.
LEMMA ClearFileKeeps ==
    ASSUME ResourcesAssumption, ResourcesInv, NEW h \in Editors, ClearFile(h)
    PROVE  ResourcesInv'
<1>1. lane[h].at = "clear" /\ UNCHANGED lane /\ SameBounds
  BY DEF ClearFile
<1>2. lane[h] \in Transfers
  BY <1>1, LaneTakes
<1>3. PICK id \in lane[h].stale : staged[id] \notin {Absent, "none"} /\ StageSet(id, "none")
  BY DEF ClearFile
<1>4. id \in TransferIds /\ "none" \in Data
  BY <1>2 DEF Transfers, Data
<1>5. lane' = [lane EXCEPT ![h] = lane[h]]
  BY <1>1 DEF ResourcesInv, ResourcesTyped
<1>6. Fits(lane[h], staged')
  BY <1>1, IdleFits DEF Fetching
<1>7. Alone => /\ StagesAlone(lane[h], staged', Quiet)
               /\ PublishesAlone(lane[h], target) /\ AnswersAlone(lane[h], target)
  <2> SUFFICES ASSUME Alone
               PROVE  StagesAlone(lane[h], staged', Quiet)
    BY FindsAlone
  <2>1. StagesAlone(lane[h], staged, Quiet)
    BY FindsAlone
  <2>2. StagedIn(staged') = StagedIn(staged) \union {id}
    BY <1>3, <1>4, StagedAfter DEF Absent
  <2>3. id \in StagedIn(staged)
    BY <1>3, <1>4 DEF StagedIn
  <2>4. StagedIn(staged') = StagedIn(staged)
    BY <2>2, <2>3
  <2> QED BY <1>1, <2>1, <2>4 DEF StagesAlone, Fetching
<1> QED BY <1>1, <1>2, <1>3, <1>4, <1>5, <1>6, <1>7, StageKeeps

LEMMA ClearDirKeeps ==
    ASSUME ResourcesAssumption, ResourcesInv, NEW h \in Editors, ClearDir(h)
    PROVE  ResourcesInv'
<1>1. lane[h].at = "clear" /\ SameBounds
  BY DEF ClearDir
<1>2. lane[h] \in Transfers
  BY <1>1, LaneTakes
<1>3. PICK id \in lane[h].stale :
         /\ staged[id] = "none" /\ StageSet(id, Absent)
         /\ lane' = [lane EXCEPT ![h].stale = @ \ {id}]
  BY DEF ClearDir
<1> DEFINE l == [lane[h] EXCEPT !.stale = lane[h].stale \ {id}]
<1>4. id \in TransferIds
  BY <1>2 DEF Transfers
<1>5. lane' = [lane EXCEPT ![h] = l]
  BY <1>3
<1>6. /\ l \in Transfers /\ l.id = lane[h].id /\ l.at = "clear" /\ l.ok = lane[h].ok
      /\ l.kind = lane[h].kind /\ l.stale = lane[h].stale \ {id}
  BY <1>1, <1>2 DEF Transfers
<1> HIDE DEF l
<1>7. Fits(l, staged')
  BY <1>6, IdleFits DEF Fetching
<1>8. ASSUME Alone
      PROVE  /\ StagesAlone(l, staged', Quiet)
             /\ PublishesAlone(l, target) /\ AnswersAlone(l, target)
  <2>1. StagesAlone(lane[h], staged, Quiet) /\ AnswersAlone(lane[h], target)
    BY <1>8, FindsAlone
  <2>2. StagedIn(staged') = StagedIn(staged) \ {id}
    BY <1>3, <1>4, StagedAfter
  <2>3. StagesAlone(l, staged', Quiet)
    BY <1>1, <1>6, <2>1, <2>2 DEF StagesAlone, Fetching
  <2>4. PublishesAlone(l, target)
    BY <1>6 DEF PublishesAlone
  <2>5. AnswersAlone(l, target)
    BY <1>1, <1>6, <2>1 DEF AnswersAlone, Fetching
  <2> QED BY <2>3, <2>4, <2>5
<1> QED BY <1>1, <1>3, <1>4, <1>5, <1>6, <1>7, <1>8, StageKeeps

LEMMA ClearLostKeeps ==
    ASSUME ResourcesAssumption, ResourcesInv, NEW h \in Editors, ClearLost(h)
    PROVE  ResourcesInv'
<1>1. lane[h].at = "clear" /\ UNCHANGED disk /\ SameBounds /\ Fails(h, "done", "other")
  BY DEF ClearLost
<1>2. PICK id \in lane[h].stale : staged[id] = Absent
  BY DEF ClearLost
<1>3. ~Alone
  <2> SUFFICES ASSUME Alone PROVE FALSE
    OBVIOUS
  <2>1. lane[h].stale = StagedIn(staged)
    BY <1>1, FindsAlone DEF StagesAlone
  <2> QED BY <1>2, <2>1 DEF StagedIn
<1> QED BY <1>1, <1>3, NoFaultCounts, FailsDoneKeeps

LEMMA ClearFailsKeeps ==
    ASSUME ResourcesAssumption, ResourcesInv, NEW h \in Editors, ClearFails(h)
    PROVE  ResourcesInv'
<1>1. lane[h].at \in {"list", "clear"} /\ UNCHANGED disk /\ DiskFault /\ Fails(h, "done", "fault")
  BY DEF ClearFails
<1>2. "fault" \in Causes
  BY DEF Causes
<1> QED BY <1>1, <1>2, FaultCounts, FailsDoneKeeps

\* The job's own directory, and its file.
LEMMA CreateStagingKeeps ==
    ASSUME ResourcesAssumption, ResourcesInv, NEW h \in Editors, CreateStaging(h)
    PROVE  ResourcesInv'
<1> DEFINE l == [lane[h] EXCEPT !.at = "create"]
<1>1. /\ lane[h].at = "clear" /\ lane[h].stale = {} /\ StageSet(lane[h].id, "none") /\ SameBounds
      /\ lane' = [lane EXCEPT ![h] = l]
  BY DEF CreateStaging, Goes, Id
<1>2. lane[h] \in Transfers
  BY <1>1, LaneTakes
<1>3. /\ l \in Transfers /\ l.id = lane[h].id /\ l.at = "create" /\ l.ok = lane[h].ok
      /\ l.kind = lane[h].kind /\ l.id \in TransferIds /\ "none" \in Data
  BY <1>2 DEF Transfers, Transferring, Fetching, Data
<1> HIDE DEF l
<1>4. staged'[l.id] = "none" /\ StagedIn(staged') = StagedIn(staged) \union {l.id}
  BY <1>1, <1>3, StagedAfter DEF Absent
<1>5. Fits(l, staged')
  BY <1>3, <1>4 DEF Fits
<1>6. ASSUME Alone
      PROVE  /\ StagesAlone(l, staged', Quiet)
             /\ PublishesAlone(l, target) /\ AnswersAlone(l, target)
  <2>1. StagesAlone(lane[h], staged, Quiet) /\ AnswersAlone(lane[h], target)
    BY <1>6, FindsAlone
  <2>2. StagedIn(staged') = {l.id}
    BY <1>1, <1>4, <2>1 DEF StagesAlone
  <2>3. StagesAlone(l, staged', Quiet)
    BY <1>3, <1>4, <2>2 DEF StagesAlone, Fetching
  <2>4. PublishesAlone(l, target)
    BY <1>3 DEF PublishesAlone
  <2>5. AnswersAlone(l, target)
    BY <1>1, <1>3, <2>1 DEF AnswersAlone, Fetching
  <2> QED BY <2>3, <2>4, <2>5
<1> QED BY <1>1, <1>3, <1>5, <1>6, StageKeeps

LEMMA CreateFileKeeps ==
    ASSUME ResourcesAssumption, ResourcesInv, NEW h \in Editors, CreateFile(h)
    PROVE  ResourcesInv'
<1> DEFINE l == [lane[h] EXCEPT !.at = "fetch"]
<1>1. lane[h].at = "create" /\ SameBounds
  BY DEF CreateFile
<1>2. lane[h] \in Transfers
  BY <1>1, LaneTakes
<1>3. CASE staged[lane[h].id] = Absent
  <2>1. ~Alone
    BY <1>1, <1>3, FindsAlone DEF StagesAlone, Absent
  <2>2. Fails(h, "tidy", "other") /\ UNCHANGED disk
    BY <1>3 DEF CreateFile, Id
  <2> QED BY <1>1, <2>1, <2>2, NoFaultCounts, FailsTidyKeeps DEF Fetching
<1>4. CASE staged[lane[h].id] # Absent
  <2>1. StageSet(lane[h].id, "short") /\ lane' = [lane EXCEPT ![h] = l]
    BY <1>4 DEF CreateFile, Id, Goes
  <2>2. /\ l \in Transfers /\ l.id = lane[h].id /\ l.at = "fetch" /\ l.ok = lane[h].ok
        /\ l.kind = lane[h].kind /\ l.id \in TransferIds /\ "short" \in Data
    BY <1>2 DEF Transfers, Transferring, Fetching, Data
  <2> HIDE DEF l
  <2>3. staged'[l.id] = "short" /\ StagedIn(staged') = StagedIn(staged) \union {l.id}
    BY <2>1, <2>2, StagedAfter DEF Absent
  <2>4. Fits(l, staged')
    BY <2>2, <2>3 DEF Fits
  <2>5. ASSUME Alone
        PROVE  /\ StagesAlone(l, staged', Quiet)
               /\ PublishesAlone(l, target) /\ AnswersAlone(l, target)
    <3>1. StagesAlone(lane[h], staged, Quiet) /\ AnswersAlone(lane[h], target)
      BY <2>5, FindsAlone
    <3>2. StagedIn(staged) \subseteq {l.id}
      BY <1>1, <2>2, <3>1 DEF StagesAlone, Fetching
    <3>3. StagesAlone(l, staged', Quiet)
      BY <2>2, <2>3, <3>2 DEF StagesAlone, Fetching
    <3>4. PublishesAlone(l, target)
      BY <2>2 DEF PublishesAlone
    <3>5. AnswersAlone(l, target)
      BY <1>1, <2>2, <3>1 DEF AnswersAlone, Fetching
    <3> QED BY <3>3, <3>4, <3>5
  <2> QED BY <1>1, <2>1, <2>2, <2>4, <2>5, StageKeeps
<1> QED BY <1>3, <1>4

\* The bytes come.
LEMMA FetchKeeps ==
    ASSUME ResourcesAssumption, ResourcesInv, NEW h \in Editors, Fetch(h)
    PROVE  ResourcesInv'
<1>1. lane[h].at = "fetch" /\ SameBounds
  BY DEF Fetch
<1>2. lane[h] \in Transfers
  BY <1>1, LaneTakes
<1>3. PICK data \in Data \ {"none"} :
         /\ lane' = [lane EXCEPT ![h].at = "verify", ![h].got = data]
         /\ IF staged[lane[h].id] = "short" THEN StageSet(lane[h].id, data) ELSE UNCHANGED disk
  BY DEF Fetch, Id
<1> DEFINE l == [lane[h] EXCEPT !.at = "verify", !.got = data]
<1>4. lane' = [lane EXCEPT ![h] = l]
  BY <1>3
<1>5. /\ l \in Transfers /\ l.id = lane[h].id /\ l.at = "verify" /\ l.ok = lane[h].ok
      /\ l.kind = lane[h].kind /\ l.id \in TransferIds /\ l.got = data
  BY <1>2 DEF Transfers, Transferring, Fetching
<1> HIDE DEF l
<1>6. Fits(lane[h], staged)
  BY DEF ResourcesInv
<1>7. CASE staged[lane[h].id] = "short"
  <2>1. StageSet(l.id, data) /\ data # Absent
    BY <1>3, <1>5, <1>7 DEF Data, Absent
  <2>2. staged'[l.id] = data /\ StagedIn(staged') = StagedIn(staged) \union {l.id}
    BY <1>5, <2>1, StagedAfter
  <2>3. Fits(l, staged')
    BY <1>5, <2>2 DEF Fits
  <2>4. ASSUME Alone
        PROVE  /\ StagesAlone(l, staged', Quiet)
               /\ PublishesAlone(l, target) /\ AnswersAlone(l, target)
    <3>1. StagesAlone(lane[h], staged, Quiet) /\ AnswersAlone(lane[h], target)
      BY <2>4, FindsAlone
    <3>2. StagedIn(staged) \subseteq {l.id}
      BY <1>1, <1>5, <3>1 DEF StagesAlone, Fetching
    <3>3. StagesAlone(l, staged', Quiet)
      BY <1>5, <2>2, <3>2 DEF StagesAlone, Fetching
    <3>4. PublishesAlone(l, target)
      BY <1>5 DEF PublishesAlone
    <3>5. AnswersAlone(l, target)
      BY <1>1, <1>5, <3>1 DEF AnswersAlone, Fetching
    <3> QED BY <3>3, <3>4, <3>5
  <2> QED BY <1>1, <1>4, <1>5, <2>1, <2>3, <2>4, StageKeeps
<1>8. CASE staged[lane[h].id] # "short"
  <2>1. UNCHANGED disk
    BY <1>3, <1>8
  <2>2. ~Alone
    BY <1>1, <1>8, FindsAlone DEF StagesAlone
  <2>3. Fits(l, staged)
    BY <1>1, <1>5, <1>6, <1>8 DEF Fits
  <2> QED BY <1>1, <1>4, <1>5, <2>1, <2>2, <2>3, NoFaultCounts, LaneOnlyKeeps
<1> QED BY <1>7, <1>8

LEMMA FetchFailsKeeps ==
    ASSUME ResourcesAssumption, ResourcesInv, NEW h \in Editors, FetchFails(h)
    PROVE  ResourcesInv'
<1>1. lane[h].at \in Fetching /\ UNCHANGED disk /\ DiskFault /\ Fails(h, "tidy", "fault")
  BY DEF FetchFails, Fetching
<1>2. "fault" \in Causes
  BY DEF Causes
<1> QED BY <1>1, <1>2, FaultCounts, FailsTidyKeeps

\* The bytes are verified and validated, and the quota looked at.
LEMMA VerifyKeeps ==
    ASSUME ResourcesAssumption, ResourcesInv, NEW h \in Editors, Verify(h)
    PROVE  ResourcesInv'
<1>1. lane[h].at = "verify" /\ UNCHANGED disk /\ SameBounds
  BY DEF Verify
<1>2. \/ Fails(h, "tidy", "cancel") \/ Fails(h, "tidy", "bytes")
      \/ lane[h].got = "whole" /\ Goes(h, "validate")
  BY DEF Verify
<1>3. CASE Fails(h, "tidy", "cancel") \/ Fails(h, "tidy", "bytes")
  <2>1. {"cancel", "bytes"} \subseteq Causes /\ lane[h].at \in Fetching
    BY <1>1 DEF Causes, Fetching
  <2> QED BY <1>1, <1>3, <2>1, NoFaultCounts, FailsTidyKeeps
<1>4. CASE lane[h].got = "whole" /\ Goes(h, "validate")
  <2> DEFINE l == [lane[h] EXCEPT !.at = "validate"]
  <2>1. lane[h] \in Transfers
    BY <1>1, LaneTakes
  <2>2. /\ l.id = lane[h].id /\ l.at = "validate" /\ l.ok = lane[h].ok
        /\ l.kind = lane[h].kind /\ "validate" \in Transferring
    BY <2>1 DEF Transfers, Transferring, Fetching
  <2>3. Fits(lane[h], staged)
    BY DEF ResourcesInv
  <2> HIDE DEF l
  <2>4. Fits(l, staged)
    BY <1>1, <1>4, <2>2, <2>3 DEF Fits
  <2>5. ASSUME Alone
        PROVE  /\ StagesAlone(l, staged, Quiet)
               /\ PublishesAlone(l, target) /\ AnswersAlone(l, target)
    <3>1. StagesAlone(lane[h], staged, Quiet) /\ AnswersAlone(lane[h], target)
      BY <2>5, FindsAlone
    <3>2. StagesAlone(l, staged, Quiet)
      BY <1>1, <1>4, <2>2, <3>1 DEF StagesAlone, Fetching
    <3>3. PublishesAlone(l, target)
      BY <2>2 DEF PublishesAlone
    <3>4. AnswersAlone(l, target)
      BY <1>1, <2>2, <3>1 DEF AnswersAlone, Fetching
    <3> QED BY <3>2, <3>3, <3>4
  <2> QED BY <1>1, <1>4, <2>2, <2>4, <2>5, GoesKeeps DEF l
<1> QED BY <1>2, <1>3, <1>4

LEMMA ValidateKeeps ==
    ASSUME ResourcesAssumption, ResourcesInv, NEW h \in Editors, Validate(h)
    PROVE  ResourcesInv'
<1>1. lane[h].at = "validate" /\ UNCHANGED disk /\ SameBounds
  BY DEF Validate
<1>2. Fails(h, "tidy", "cancel") \/ Fails(h, "tidy", "bytes") \/ Goes(h, "quota")
  BY DEF Validate
<1>3. CASE Fails(h, "tidy", "cancel") \/ Fails(h, "tidy", "bytes")
  <2>1. {"cancel", "bytes"} \subseteq Causes /\ lane[h].at \in Fetching
    BY <1>1 DEF Causes, Fetching
  <2> QED BY <1>1, <1>3, <2>1, NoFaultCounts, FailsTidyKeeps
<1>4. CASE Goes(h, "quota")
  <2> DEFINE l == [lane[h] EXCEPT !.at = "quota"]
  <2>1. lane[h] \in Transfers
    BY <1>1, LaneTakes
  <2>2. /\ l.id = lane[h].id /\ l.at = "quota" /\ l.ok = lane[h].ok
        /\ l.kind = lane[h].kind /\ "quota" \in Transferring
    BY <2>1 DEF Transfers, Transferring, Fetching
  <2>3. Fits(lane[h], staged)
    BY DEF ResourcesInv
  <2> HIDE DEF l
  <2>4. Fits(l, staged)
    BY <1>1, <2>2, <2>3 DEF Fits
  <2>5. ASSUME Alone
        PROVE  /\ StagesAlone(l, staged, Quiet)
               /\ PublishesAlone(l, target) /\ AnswersAlone(l, target)
    <3>1. StagesAlone(lane[h], staged, Quiet) /\ AnswersAlone(lane[h], target)
      BY <2>5, FindsAlone
    <3>2. StagesAlone(l, staged, Quiet)
      BY <1>1, <2>2, <3>1 DEF StagesAlone, Fetching
    <3>3. PublishesAlone(l, target)
      BY <2>2 DEF PublishesAlone
    <3>4. AnswersAlone(l, target)
      BY <1>1, <2>2, <3>1 DEF AnswersAlone, Fetching
    <3> QED BY <3>2, <3>3, <3>4
  <2> QED BY <1>1, <1>4, <2>2, <2>4, <2>5, GoesKeeps DEF l
<1> QED BY <1>2, <1>3, <1>4

\* How many resources are marked.
LEMMA MarkedCounts ==
    ASSUME ResourcesAssumption, NEW tg, NEW r
    PROVE  /\ IsFiniteSet(MarkedIn(tg)) /\ IsFiniteSet(MarkedIn(tg) \ {r})
           /\ Cardinality(MarkedIn(tg)) \in Nat /\ Cardinality(MarkedIn(tg) \ {r}) \in Nat
           /\ Cardinality(MarkedIn(tg) \ {r}) <= Cardinality(MarkedIn(tg))
<1>1. IsFiniteSet(Resources) /\ MarkedIn(tg) \in SUBSET Resources
  BY DEF ResourcesAssumption, MarkedIn
<1>2. IsFiniteSet(MarkedIn(tg))
  BY <1>1, FS_Subset
<1>3. MarkedIn(tg) \ {r} \in SUBSET MarkedIn(tg)
  OBVIOUS
<1>4. /\ IsFiniteSet(MarkedIn(tg) \ {r})
      /\ Cardinality(MarkedIn(tg) \ {r}) <= Cardinality(MarkedIn(tg))
  BY <1>2, <1>3, FS_Subset
<1> QED BY <1>2, <1>4, FS_CardinalityType

LEMMA MarkedLess ==
    ASSUME ResourcesAssumption, NEW before, NEW after, NEW r,
           MarkedIn(after) \subseteq MarkedIn(before)
    PROVE  /\ Cardinality(MarkedIn(after)) <= Cardinality(MarkedIn(before))
           /\ Cardinality(MarkedIn(after) \ {r}) <= Cardinality(MarkedIn(before) \ {r})
<1>1. IsFiniteSet(MarkedIn(before)) /\ IsFiniteSet(MarkedIn(before) \ {r})
  BY MarkedCounts
<1>2. /\ MarkedIn(after) \in SUBSET MarkedIn(before)
      /\ MarkedIn(after) \ {r} \in SUBSET (MarkedIn(before) \ {r})
  OBVIOUS
<1> QED BY <1>1, <1>2, FS_Subset

LEMMA MarkedOne ==
    ASSUME ResourcesAssumption, NEW before, NEW after, NEW r,
           MarkedIn(after) \subseteq MarkedIn(before) \union {r}
    PROVE  Cardinality(MarkedIn(after)) <= Cardinality(MarkedIn(before) \ {r}) + 1
<1> DEFINE others == MarkedIn(before) \ {r}
<1>1. IsFiniteSet(others)
  BY MarkedCounts
<1>2. MarkedIn(after) \in SUBSET (others \union {r})
  OBVIOUS
<1>3. r \notin others
  OBVIOUS
<1> HIDE DEF others
<1>4. IsFiniteSet(others \union {r}) /\ Cardinality(others \union {r}) = Cardinality(others) + 1
  BY <1>1, <1>3, FS_AddElement
<1>5. Cardinality(MarkedIn(after)) <= Cardinality(others \union {r})
  BY <1>2, <1>4, FS_Subset
<1> QED BY <1>4, <1>5 DEF others

LEMMA CheckQuotaKeeps ==
    ASSUME ResourcesAssumption, ResourcesInv, NEW h \in Editors, CheckQuota(h)
    PROVE  ResourcesInv'
<1>1. lane[h].at = "quota" /\ UNCHANGED disk /\ SameBounds
  BY DEF CheckQuota
<1>2. CASE OverQuota
  <2>1. "quota" \in Causes /\ lane[h].at \in Fetching
    BY <1>1 DEF Causes, Fetching
  <2>2. Fails(h, "tidy", "quota")
    BY <1>2 DEF CheckQuota
  <2> QED BY <1>1, <2>1, <2>2, NoFaultCounts, FailsTidyKeeps
<1>3. CASE ~OverQuota
  <2> DEFINE at == IF target[lane[h].res].dir THEN "replace" ELSE "rename"
             l == [lane[h] EXCEPT !.at = at]
  <2>1. lane[h] \in Transfers
    BY <1>1, LaneTakes
  <2>2. /\ l.id = lane[h].id /\ l.at = at /\ l.ok = lane[h].ok
        /\ l.kind = lane[h].kind /\ at \in Transferring /\ l.res = lane[h].res
        /\ lane[h].res \in Resources
        /\ \/ at = "replace" /\ target[l.res].dir
           \/ at = "rename" /\ ~target[l.res].dir
    BY <2>1 DEF Transfers, Transferring, Fetching
  <2>3. Fits(lane[h], staged) /\ (~target[l.res].dir => target[l.res] = NoTarget)
    BY <2>2 DEF ResourcesInv, ResourcesTyped
  <2>4. Goes(h, at)
    BY <1>3 DEF CheckQuota, Res
  <2> HIDE DEF l, at
  <2>5. Fits(l, staged)
    BY <1>1, <2>2, <2>3 DEF Fits
  <2>6. ASSUME Alone
        PROVE  /\ StagesAlone(l, staged, Quiet)
               /\ PublishesAlone(l, target) /\ AnswersAlone(l, target)
    <3>1. StagesAlone(lane[h], staged, Quiet) /\ AnswersAlone(lane[h], target)
      BY <2>6, FindsAlone
    <3>2. StagesAlone(l, staged, Quiet)
      BY <1>1, <2>2, <3>1 DEF StagesAlone, Fetching
    <3>3. PublishesAlone(l, target)
      <4> DEFINE m == Cardinality(MarkedIn(target))  n == Cardinality(MarkedIn(target) \ {l.res})
      <4>1. m \in Nat /\ n \in Nat /\ n <= m /\ Quota \in Nat
        BY MarkedCounts DEF ResourcesAssumption
      <4>2. ~(m + 1 > Quota)
        BY <1>3 DEF OverQuota, UsedBytes, MarkedIn
      <4> HIDE DEF m, n
      <4>3. n + 1 <= Quota
        BY ONLY <4>1, <4>2
      <4> QED BY <2>2, <2>3, <4>3 DEF PublishesAlone, n
    <3>4. AnswersAlone(l, target)
      BY <1>1, <2>2, <3>1 DEF AnswersAlone, Fetching
    <3> QED BY <3>2, <3>3, <3>4
  <2> QED BY <1>1, <2>2, <2>4, <2>5, <2>6, GoesKeeps DEF l
<1> QED BY <1>2, <1>3

\* A step that only takes from what is installed.
Takes ==
    /\ UNCHANGED staged
    /\ target' \in [Resources -> Directories]
    /\ \A r \in Resources : ~target'[r].dir => target'[r] = NoTarget
    /\ MarkedIn(target') \subseteq MarkedIn(target)

LEMMA EntryTakes ==
    ASSUME ResourcesInv, NEW r \in Resources, RemovesEntry(r)
    PROVE  Takes /\ target'[r].dir
<1>1. /\ target \in [Resources -> Directories]
      /\ \A q \in Resources : ~target[q].dir => target[q] = NoTarget
  BY DEF ResourcesInv, ResourcesTyped
<1>2. target[r].dir /\ staged' = staged
  BY DEF RemovesEntry, TargetSet
<1>3. PICK t \in Directories :
         target' = [target EXCEPT ![r] = t] /\ t.dir /\ (t.marker => target[r].marker)
  <2>1. target[r] \in Directories
    BY <1>1
  <2>2. CASE TargetSet(r, [target[r] EXCEPT !.file = "none"])
    <3> DEFINE t == [target[r] EXCEPT !.file = "none"]
    <3>1. t \in Directories /\ t.dir /\ t.marker = target[r].marker
      BY <1>2, <2>1 DEF Directories
    <3> QED BY <2>2, <3>1 DEF TargetSet
  <2>3. CASE TargetSet(r, [target[r] EXCEPT !.marker = FALSE])
    <3> DEFINE t == [target[r] EXCEPT !.marker = FALSE]
    <3>1. t \in Directories /\ t.dir /\ ~t.marker
      BY <1>2, <2>1 DEF Directories
    <3> QED BY <2>3, <3>1 DEF TargetSet
  <2> QED BY <2>2, <2>3 DEF RemovesEntry
<1> QED BY <1>1, <1>2, <1>3 DEF Takes, MarkedIn

LEMMA DirTakes ==
    ASSUME ResourcesInv, NEW r \in Resources, RemovesDir(r)
    PROVE  Takes /\ target'[r] = NoTarget
<1>1. /\ target \in [Resources -> Directories]
      /\ \A q \in Resources : ~target[q].dir => target[q] = NoTarget
  BY DEF ResourcesInv, ResourcesTyped
<1>2. target' = [target EXCEPT ![r] = NoTarget] /\ staged' = staged
  BY DEF RemovesDir, TargetSet
<1>3. NoTarget \in Directories /\ ~NoTarget.marker
  BY DEF NoTarget, Directories
<1> QED BY <1>1, <1>2, <1>3 DEF Takes, MarkedIn

\* What a lane does while it only takes from what is installed.
LEMMA TakesKeeps ==
    ASSUME ResourcesAssumption, ResourcesInv, NEW h \in Editors, lane[h].at # "idle",
           NEW l \in Transfers, lane' = [lane EXCEPT ![h] = l], l.id = lane[h].id,
           SameBounds, Takes, Fits(l, staged),
           Alone => /\ StagesAlone(l, staged, Quiet)
                    /\ PublishesAlone(l, target') /\ AnswersAlone(l, target')
    PROVE  ResourcesInv'
<1>1. staged' = staged
  BY DEF Takes
<1>2. staged' \in [TransferIds -> Data \union {Absent}] /\ Spares(l.id, staged, staged')
  BY <1>1 DEF ResourcesInv, ResourcesTyped, Spares
<1>3. /\ UNCHANGED <<waiting, lastJob, crashes>> /\ diskFaults' \in 0 .. MaxDiskFaults
      /\ Quiet' <=> Quiet
  BY NoFaultCounts
<1>4. ASSUME Alone PROVE Cardinality(MarkedIn(target')) <= Quota
  <2> DEFINE m == Cardinality(MarkedIn(target))  n == Cardinality(MarkedIn(target'))
  <2>1. n <= m
    BY MarkedLess DEF Takes
  <2>2. m \in Nat /\ n \in Nat /\ Quota \in Nat
    BY MarkedCounts DEF ResourcesAssumption
  <2>3. m <= Quota
    BY <1>4 DEF ResourcesInv, ResourcesAlone
  <2> HIDE DEF m, n
  <2>4. n <= Quota
    BY ONLY <2>1, <2>2, <2>3
  <2> QED BY <2>4 DEF n
<1>5. Alone => StagesAlone(l, staged', Quiet')
  BY <1>1, <1>3 DEF StagesAlone
<1>6. Fits(l, staged')
  BY <1>1
<1>7. /\ target' \in [Resources -> Directories]
      /\ \A r \in Resources : ~target'[r].dir => target'[r] = NoTarget
  BY DEF Takes
<1> QED BY <1>2, <1>3, <1>4, <1>5, <1>6, <1>7, LaneStepKeeps

\* The room that was found is still there.
LEMMA RoomStays ==
    ASSUME ResourcesAssumption, NEW r, Takes, Cardinality(MarkedIn(target) \ {r}) + 1 <= Quota
    PROVE  Cardinality(MarkedIn(target') \ {r}) + 1 <= Quota
<1> DEFINE m == Cardinality(MarkedIn(target) \ {r})  n == Cardinality(MarkedIn(target') \ {r})
<1>1. n <= m
  BY MarkedLess DEF Takes
<1>2. m \in Nat /\ n \in Nat /\ Quota \in Nat /\ m + 1 <= Quota
  BY MarkedCounts DEF ResourcesAssumption
<1> HIDE DEF m, n
<1>3. n + 1 <= Quota
  BY ONLY <1>1, <1>2
<1> QED BY <1>3 DEF n

\* An entry of the directory that stands where the new one goes, of the
\* one being undone, or of the one being removed.
LEMMA EntryKeeps ==
    ASSUME ResourcesAssumption, ResourcesInv, NEW h \in Editors,
           lane[h].at \in {"replace", "undo", "delete"}, RemovesEntry(lane[h].res),
           UNCHANGED lane, SameBounds
    PROVE  ResourcesInv'
<1>1. lane[h] \in Transfers /\ lane[h].res \in Resources /\ lane[h].at # "idle"
  BY LaneTakes DEF Transfers
<1>2. Takes /\ target'[lane[h].res].dir
  BY <1>1, EntryTakes
<1>3. lane' = [lane EXCEPT ![h] = lane[h]] /\ Fits(lane[h], staged)
  BY DEF ResourcesInv, ResourcesTyped
<1>4. ASSUME Alone
      PROVE  /\ StagesAlone(lane[h], staged, Quiet)
             /\ PublishesAlone(lane[h], target') /\ AnswersAlone(lane[h], target')
  <2>1. /\ StagesAlone(lane[h], staged, Quiet) /\ AnswersAlone(lane[h], target)
        /\ PublishesAlone(lane[h], target)
    BY <1>4, FindsAlone
  <2>2. PublishesAlone(lane[h], target')
    <3>1. lane[h].at \in {"replace", "rename", "mark", "undo"} =>
             Cardinality(MarkedIn(target') \ {lane[h].res}) + 1 <= Quota
      BY <1>2, <2>1, RoomStays DEF PublishesAlone
    <3> QED BY <1>2, <3>1 DEF PublishesAlone
  <2>3. AnswersAlone(lane[h], target')
    BY <2>1 DEF AnswersAlone
  <2> QED BY <2>1, <2>2, <2>3
<1> QED BY <1>1, <1>2, <1>3, <1>4, TakesKeeps

\* The directory that stood there is gone.
LEMMA ReplaceDirKeeps ==
    ASSUME ResourcesAssumption, ResourcesInv, NEW h \in Editors, ReplaceDir(h)
    PROVE  ResourcesInv'
<1> DEFINE l == [lane[h] EXCEPT !.at = "rename"]
<1>1. /\ lane[h].at = "replace" /\ RemovesDir(lane[h].res) /\ SameBounds
      /\ lane' = [lane EXCEPT ![h] = l]
  BY DEF ReplaceDir, Goes, Res
<1>2. lane[h] \in Transfers
  BY <1>1, LaneTakes
<1>3. /\ l \in Transfers /\ l.id = lane[h].id /\ l.at = "rename" /\ l.ok = lane[h].ok
      /\ l.kind = lane[h].kind /\ l.res = lane[h].res /\ l.res \in Resources
  BY <1>2 DEF Transfers, Transferring, Fetching
<1> HIDE DEF l
<1>4. Takes /\ target'[l.res] = NoTarget
  BY <1>1, <1>3, DirTakes
<1>5. Fits(l, staged)
  BY <1>1, <1>3 DEF ResourcesInv, Fits
<1>6. ASSUME Alone
      PROVE  /\ StagesAlone(l, staged, Quiet)
             /\ PublishesAlone(l, target') /\ AnswersAlone(l, target')
  <2>1. /\ StagesAlone(lane[h], staged, Quiet) /\ AnswersAlone(lane[h], target)
        /\ PublishesAlone(lane[h], target)
    BY <1>6, FindsAlone
  <2>2. StagesAlone(l, staged, Quiet)
    BY <1>1, <1>3, <2>1 DEF StagesAlone, Fetching
  <2>3. PublishesAlone(l, target')
    <3>1. Cardinality(MarkedIn(target') \ {l.res}) + 1 <= Quota
      BY <1>1, <1>3, <1>4, <2>1, RoomStays DEF PublishesAlone
    <3> QED BY <1>3, <1>4, <3>1 DEF PublishesAlone
  <2>4. AnswersAlone(l, target')
    BY <1>1, <1>3, <2>1 DEF AnswersAlone, Fetching
  <2> QED BY <2>2, <2>3, <2>4
<1> QED BY <1>1, <1>3, <1>4, <1>5, <1>6, TakesKeeps

LEMMA ReplaceLostKeeps ==
    ASSUME ResourcesAssumption, ResourcesInv, NEW h \in Editors, ReplaceLost(h)
    PROVE  ResourcesInv'
<1>1. /\ lane[h].at = "replace" /\ ~target[lane[h].res].dir /\ UNCHANGED disk /\ SameBounds
      /\ Fails(h, "tidy", "other")
  BY DEF ReplaceLost, Res
<1>2. ~Alone
  BY <1>1, FindsAlone DEF PublishesAlone
<1> QED BY <1>1, <1>2, NoFaultCounts, FailsTidyKeeps DEF Fetching

LEMMA RenameRefusedKeeps ==
    ASSUME ResourcesAssumption, ResourcesInv, NEW h \in Editors, RenameRefused(h)
    PROVE  ResourcesInv'
<1>1. /\ lane[h].at = "rename" /\ UNCHANGED disk /\ SameBounds
      /\ Fails(h, "tidy", "other")
      /\ \/ staged[lane[h].id] = Absent
         \/ target[lane[h].res].file # "none" \/ target[lane[h].res].marker
  BY DEF RenameRefused, Res, Id
<1>2. ~Alone
  <2> SUFFICES ASSUME Alone PROVE FALSE
    OBVIOUS
  <2>1. staged[lane[h].id] = "whole" /\ target[lane[h].res] = NoTarget
    BY <1>1, FindsAlone DEF PublishesAlone, StagesAlone
  <2> QED BY <1>1, <2>1 DEF NoTarget, Absent
<1> QED BY <1>1, <1>2, NoFaultCounts, FailsTidyKeeps DEF Fetching

LEMMA PublishFailsKeeps ==
    ASSUME ResourcesAssumption, ResourcesInv, NEW h \in Editors, PublishFails(h)
    PROVE  ResourcesInv'
<1>1. lane[h].at \in Fetching /\ UNCHANGED disk /\ DiskFault /\ Fails(h, "tidy", "fault")
  BY DEF PublishFails, Fetching
<1>2. "fault" \in Causes
  BY DEF Causes
<1> QED BY <1>1, <1>2, FaultCounts, FailsTidyKeeps

\* The staged directory takes its place.
LEMMA RenameKeeps ==
    ASSUME ResourcesAssumption, ResourcesInv, NEW h \in Editors, Rename(h)
    PROVE  ResourcesInv'
<1> DEFINE l == [lane[h] EXCEPT !.at = "mark"]
           t == [dir |-> TRUE, file |-> staged[lane[h].id], marker |-> FALSE]
<1>1. /\ lane[h].at = "rename" /\ staged[lane[h].id] # Absent
      /\ target' = [target EXCEPT ![lane[h].res] = t]
      /\ staged' = [staged EXCEPT ![lane[h].id] = Absent]
      /\ lane' = [lane EXCEPT ![h] = l] /\ SameBounds
  BY DEF Rename, Goes, Id, Res
<1>2. lane[h] \in Transfers
  BY <1>1, LaneTakes
<1>3. /\ l \in Transfers /\ l.id = lane[h].id /\ l.at = "mark" /\ l.ok = lane[h].ok
      /\ l.kind = lane[h].kind /\ l.res = lane[h].res /\ l.res \in Resources
      /\ l.id \in TransferIds
  BY <1>2 DEF Transfers, Transferring
<1>4. staged[l.id] \in {"whole", "none"}
  BY <1>1, <1>3 DEF ResourcesInv, Fits
<1>5. t \in Directories /\ t.dir /\ ~t.marker /\ t.file = staged[l.id]
  BY <1>3, <1>4 DEF Directories
<1> HIDE DEF l
<1>6. /\ target \in [Resources -> Directories] /\ staged \in [TransferIds -> Data \union {Absent}]
      /\ \A r \in Resources : ~target[r].dir => target[r] = NoTarget
  BY DEF ResourcesInv, ResourcesTyped
<1>7. /\ target'[l.res] = t /\ target' \in [Resources -> Directories]
      /\ \A r \in Resources : r # l.res => target'[r] = target[r]
  BY <1>1, <1>3, <1>5, <1>6
<1>8. \A r \in Resources : ~target'[r].dir => target'[r] = NoTarget
  BY <1>5, <1>6, <1>7
<1>9. MarkedIn(target') \subseteq MarkedIn(target)
  BY <1>5, <1>7 DEF MarkedIn
<1>10. /\ staged' \in [TransferIds -> Data \union {Absent}] /\ Spares(l.id, staged, staged')
       /\ StagedIn(staged') = StagedIn(staged) \ {l.id}
  BY <1>1, <1>3, <1>6 DEF Spares, StagedIn
<1>11. /\ UNCHANGED <<waiting, lastJob, crashes>> /\ diskFaults' \in 0 .. MaxDiskFaults
       /\ Quiet' <=> Quiet
  BY <1>1, NoFaultCounts
<1>12. Fits(l, staged')
  BY <1>3, IdleFits DEF Fetching
<1> HIDE DEF t
<1>13. ASSUME Alone
       PROVE  /\ Cardinality(MarkedIn(target')) <= Quota
              /\ StagesAlone(l, staged', Quiet')
              /\ PublishesAlone(l, target') /\ AnswersAlone(l, target')
  <2>1. /\ StagesAlone(lane[h], staged, Quiet) /\ AnswersAlone(lane[h], target)
        /\ PublishesAlone(lane[h], target) /\ Cardinality(MarkedIn(target)) <= Quota
    BY <1>13, FindsAlone
  <2> DEFINE m == Cardinality(MarkedIn(target))  n == Cardinality(MarkedIn(target'))
             o == Cardinality(MarkedIn(target) \ {l.res})
             p == Cardinality(MarkedIn(target') \ {l.res})
  <2>2. /\ m \in Nat /\ n \in Nat /\ o \in Nat /\ p \in Nat /\ Quota \in Nat
        /\ m <= Quota /\ o + 1 <= Quota /\ n <= m /\ p <= o
    BY <1>1, <1>3, <1>9, <2>1, MarkedCounts, MarkedLess DEF ResourcesAssumption, PublishesAlone
  <2>3. StagesAlone(l, staged', Quiet')
    <3>1. Quiet' => StagedIn(staged') = {}
      BY <1>1, <1>3, <1>10, <1>11, <2>1 DEF StagesAlone, Fetching
    <3> QED BY <1>3, <3>1 DEF StagesAlone, Fetching
  <2>4. staged[l.id] = "whole"
    BY <1>1, <1>3, <2>1 DEF StagesAlone
  <2> HIDE DEF m, n, o, p
  <2>5. n <= Quota /\ p + 1 <= Quota
    BY ONLY <2>2
  <2>6. PublishesAlone(l, target')
    <3>1. target'[l.res] = [dir |-> TRUE, file |-> "whole", marker |-> FALSE]
      BY <1>3, <1>7, <2>4 DEF t
    <3> QED BY <1>3, <2>5, <3>1 DEF PublishesAlone, p
  <2>7. AnswersAlone(l, target')
    BY <1>1, <1>3, <2>1 DEF AnswersAlone, Fetching
  <2> QED BY <2>3, <2>5, <2>6, <2>7 DEF n
<1> QED BY <1>1, <1>3, <1>7, <1>8, <1>10, <1>11, <1>12, <1>13, LaneStepKeeps

\* The marker is written: what it does to the disk.
LEMMA MarkerSet ==
    ASSUME ResourcesInv, NEW r \in Resources, target[r].dir,
           TargetSet(r, [target[r] EXCEPT !.marker = TRUE])
    PROVE  /\ UNCHANGED staged /\ target' \in [Resources -> Directories]
           /\ \A q \in Resources : ~target'[q].dir => target'[q] = NoTarget
           /\ target'[r] = [target[r] EXCEPT !.marker = TRUE] /\ target'[r].marker
           /\ target'[r].file = target[r].file
           /\ MarkedIn(target') \subseteq MarkedIn(target) \union {r}
           /\ MarkedIn(target') \ {r} = MarkedIn(target) \ {r}
<1> DEFINE t == [target[r] EXCEPT !.marker = TRUE]
<1>1. /\ target \in [Resources -> Directories]
      /\ \A q \in Resources : ~target[q].dir => target[q] = NoTarget
  BY DEF ResourcesInv, ResourcesTyped
<1>2. t \in Directories /\ t.dir /\ t.marker /\ t.file = target[r].file
  BY <1>1 DEF Directories
<1> HIDE DEF t
<1>3. target' = [target EXCEPT ![r] = t] /\ staged' = staged
  BY DEF TargetSet, t
<1>4. target'[r] = t /\ \A q \in Resources : q # r => target'[q] = target[q]
  BY <1>1, <1>3
<1>5. target' \in [Resources -> Directories]
  BY <1>1, <1>2, <1>3
<1> QED BY <1>1, <1>2, <1>3, <1>4, <1>5 DEF MarkedIn, t

\* The room that was found when the bytes were there is enough.
LEMMA RoomForOne ==
    ASSUME ResourcesAssumption, NEW r, Cardinality(MarkedIn(target) \ {r}) + 1 <= Quota,
           MarkedIn(target') \subseteq MarkedIn(target) \union {r}
    PROVE  Cardinality(MarkedIn(target')) <= Quota
<1> DEFINE m == Cardinality(MarkedIn(target) \ {r})  n == Cardinality(MarkedIn(target'))
<1>1. n <= m + 1
  BY MarkedOne
<1>2. m \in Nat /\ n \in Nat /\ Quota \in Nat /\ m + 1 <= Quota
  BY MarkedCounts DEF ResourcesAssumption
<1> HIDE DEF m, n
<1>3. n <= Quota
  BY ONLY <1>1, <1>2
<1> QED BY <1>3 DEF n

LEMMA MarkKeeps ==
    ASSUME ResourcesAssumption, ResourcesInv, NEW h \in Editors, Mark(h)
    PROVE  ResourcesInv'
<1>1. lane[h].at = "mark" /\ SameBounds
  BY DEF Mark
<1>2. lane[h] \in Transfers
  BY <1>1, LaneTakes
<1>3. CASE ~target[lane[h].res].dir
  <2>1. ~Alone
    <3> SUFFICES ASSUME Alone PROVE FALSE
      OBVIOUS
    <3>1. target[lane[h].res] = [dir |-> TRUE, file |-> "whole", marker |-> FALSE]
      BY <1>1, FindsAlone DEF PublishesAlone
    <3> QED BY <1>3, <3>1
  <2>2. Fails(h, "tidy", "other") /\ UNCHANGED disk
    BY <1>3 DEF Mark, Res
  <2> QED BY <1>1, <2>1, <2>2, NoFaultCounts, FailsTidyKeeps
<1>4. CASE target[lane[h].res].dir
  <2> DEFINE l == [lane[h] EXCEPT !.at = "done", !.ok = TRUE]
  <2>1. /\ TargetSet(lane[h].res, [target[lane[h].res] EXCEPT !.marker = TRUE])
        /\ lane' = [lane EXCEPT ![h] = l]
    BY <1>4 DEF Mark, Res, TransferEnds
  <2>2. /\ l \in Transfers /\ l.id = lane[h].id /\ l.at = "done" /\ l.ok
        /\ l.kind = lane[h].kind /\ l.res = lane[h].res /\ l.res \in Resources
    BY <1>2 DEF Transfers, Transferring
  <2> HIDE DEF l
  <2>3. /\ UNCHANGED staged /\ target' \in [Resources -> Directories]
        /\ \A q \in Resources : ~target'[q].dir => target'[q] = NoTarget
        /\ target'[l.res].marker /\ target'[l.res].file = target[l.res].file
        /\ MarkedIn(target') \subseteq MarkedIn(target) \union {l.res}
    BY <1>4, <2>1, <2>2, MarkerSet
  <2>4. /\ UNCHANGED <<waiting, lastJob, crashes>> /\ diskFaults' \in 0 .. MaxDiskFaults
        /\ Quiet' <=> Quiet
    BY <1>1, NoFaultCounts
  <2>5. Fits(l, staged')
    BY <2>2, IdleFits DEF Fetching
  <2>6. staged' \in [TransferIds -> Data \union {Absent}] /\ Spares(l.id, staged, staged')
    BY <2>3 DEF ResourcesInv, ResourcesTyped, Spares
  <2>7. ASSUME Alone
        PROVE  /\ Cardinality(MarkedIn(target')) <= Quota
               /\ StagesAlone(l, staged', Quiet')
               /\ PublishesAlone(l, target') /\ AnswersAlone(l, target')
    <3>1. /\ StagesAlone(lane[h], staged, Quiet) /\ AnswersAlone(lane[h], target)
          /\ PublishesAlone(lane[h], target)
      BY <2>7, FindsAlone
    <3>2. Cardinality(MarkedIn(target')) <= Quota
      BY <1>1, <2>2, <2>3, <3>1, RoomForOne DEF PublishesAlone
    <3>3. StagesAlone(l, staged', Quiet')
      BY <1>1, <2>2, <2>3, <2>4, <3>1 DEF StagesAlone, Fetching
    <3>4. PublishesAlone(l, target')
      BY <2>2 DEF PublishesAlone
    <3>5. AnswersAlone(l, target')
      BY <1>1, <2>2, <2>3, <3>1 DEF AnswersAlone, PublishesAlone, Fetching
    <3> QED BY <3>2, <3>3, <3>4, <3>5
  <2> QED BY <1>1, <2>1, <2>2, <2>3, <2>4, <2>5, <2>6, <2>7, LaneStepKeeps
<1> QED BY <1>3, <1>4

LEMMA MarkFailsKeeps ==
    ASSUME ResourcesAssumption, ResourcesInv, NEW h \in Editors, MarkFails(h)
    PROVE  ResourcesInv'
<1> DEFINE l == [lane[h] EXCEPT !.at = "undo", !.cause = "fault"]
<1>1. /\ lane[h].at = "mark" /\ DiskFault /\ target[lane[h].res].dir
      /\ lane' = [lane EXCEPT ![h] = l]
      /\ \/ UNCHANGED disk
         \/ TargetSet(lane[h].res, [target[lane[h].res] EXCEPT !.marker = TRUE])
  BY DEF MarkFails, Fails, Res
<1>2. lane[h] \in Transfers
  BY <1>1, LaneTakes
<1>3. /\ l \in Transfers /\ l.id = lane[h].id /\ l.at = "undo" /\ l.ok = lane[h].ok
      /\ l.kind = lane[h].kind /\ l.res = lane[h].res /\ l.res \in Resources
      /\ l.cause = "fault"
  BY <1>2 DEF Transfers, Transferring
<1> HIDE DEF l
<1>4. /\ UNCHANGED staged /\ target' \in [Resources -> Directories]
      /\ \A q \in Resources : ~target'[q].dir => target'[q] = NoTarget
      /\ MarkedIn(target') \subseteq MarkedIn(target) \union {l.res}
      /\ MarkedIn(target') \ {l.res} = MarkedIn(target) \ {l.res}
  <2>1. CASE UNCHANGED disk
    BY <2>1 DEF disk, ResourcesInv, ResourcesTyped
  <2>2. CASE TargetSet(lane[h].res, [target[lane[h].res] EXCEPT !.marker = TRUE])
    BY <1>1, <1>3, <2>2, MarkerSet
  <2> QED BY <1>1, <2>1, <2>2
<1>5. /\ UNCHANGED <<waiting, lastJob, crashes>> /\ diskFaults' \in 0 .. MaxDiskFaults
      /\ ~Quiet'
  BY <1>1, FaultCounts
<1>6. Fits(l, staged')
  BY <1>3, IdleFits DEF Fetching
<1>7. staged' \in [TransferIds -> Data \union {Absent}] /\ Spares(l.id, staged, staged')
  BY <1>4 DEF ResourcesInv, ResourcesTyped, Spares
<1>8. ASSUME Alone
      PROVE  /\ Cardinality(MarkedIn(target')) <= Quota
             /\ StagesAlone(l, staged', Quiet')
             /\ PublishesAlone(l, target') /\ AnswersAlone(l, target')
  <2>1. /\ AnswersAlone(lane[h], target) /\ PublishesAlone(lane[h], target)
    BY <1>8, FindsAlone
  <2>2. Cardinality(MarkedIn(target) \ {l.res}) + 1 <= Quota
    BY <1>1, <1>3, <2>1 DEF PublishesAlone
  <2>3. Cardinality(MarkedIn(target')) <= Quota
    BY <1>4, <2>2, RoomForOne
  <2>4. StagesAlone(l, staged', Quiet')
    BY <1>3, <1>5 DEF StagesAlone, Fetching
  <2>5. PublishesAlone(l, target')
    BY <1>3, <1>4, <2>2 DEF PublishesAlone
  <2>6. AnswersAlone(l, target')
    BY <1>1, <1>3, <2>1 DEF AnswersAlone, Fetching, Causes
  <2> QED BY <2>3, <2>4, <2>5, <2>6
<1> QED BY <1>1, <1>3, <1>4, <1>5, <1>6, <1>7, <1>8, LaneStepKeeps

\* What failed to be published is taken back, and then what was staged.
LEMMA UndoDirKeeps ==
    ASSUME ResourcesAssumption, ResourcesInv, NEW h \in Editors, UndoDir(h)
    PROVE  ResourcesInv'
<1> DEFINE l == [lane[h] EXCEPT !.at = "tidy"]
<1>1. /\ lane[h].at = "undo" /\ SameBounds /\ Goes(h, "tidy") /\ lane' = [lane EXCEPT ![h] = l]
  BY DEF UndoDir, Goes
<1>2. lane[h] \in Transfers
  BY <1>1, LaneTakes
<1>3. /\ l \in Transfers /\ l.id = lane[h].id /\ l.at = "tidy" /\ l.ok = lane[h].ok
      /\ l.kind = lane[h].kind /\ l.res = lane[h].res /\ l.res \in Resources
      /\ l.cause = lane[h].cause
  BY <1>2 DEF Transfers, Transferring
<1> HIDE DEF l
<1>4. Takes
  <2>1. CASE RemovesDir(lane[h].res)
    BY <1>3, <2>1, DirTakes
  <2>2. CASE UNCHANGED disk
    BY <2>2 DEF disk, Takes, ResourcesInv, ResourcesTyped
  <2> QED BY <2>1, <2>2 DEF UndoDir, Res
<1>5. Fits(l, staged)
  BY <1>3, IdleFits DEF Fetching
<1>6. ASSUME Alone
      PROVE  /\ StagesAlone(l, staged, Quiet)
             /\ PublishesAlone(l, target') /\ AnswersAlone(l, target')
  <2>1. StagesAlone(lane[h], staged, Quiet) /\ AnswersAlone(lane[h], target)
    BY <1>6, FindsAlone
  <2>2. StagesAlone(l, staged, Quiet)
    BY <1>1, <1>3, <2>1 DEF StagesAlone, Fetching
  <2>3. PublishesAlone(l, target')
    BY <1>3 DEF PublishesAlone
  <2>4. AnswersAlone(l, target')
    BY <1>1, <1>3, <2>1 DEF AnswersAlone, Fetching
  <2> QED BY <2>2, <2>3, <2>4
<1> QED BY <1>1, <1>3, <1>4, <1>5, <1>6, TakesKeeps

LEMMA TidyKeeps ==
    ASSUME ResourcesAssumption, ResourcesInv, NEW h \in Editors, Tidy(h)
    PROVE  ResourcesInv'
<1> DEFINE l == [lane[h] EXCEPT !.at = "done", !.ok = FALSE]
<1>1. /\ lane[h].at = "tidy" /\ SameBounds /\ StageSet(lane[h].id, Absent)
      /\ lane' = [lane EXCEPT ![h] = l]
  BY DEF Tidy, TransferEnds, Id
<1>2. lane[h] \in Transfers
  BY <1>1, LaneTakes
<1>3. /\ l \in Transfers /\ l.id = lane[h].id /\ l.at = "done" /\ ~l.ok
      /\ l.id \in TransferIds /\ l.kind = lane[h].kind /\ l.cause = lane[h].cause
  BY <1>2 DEF Transfers, Transferring
<1> HIDE DEF l
<1>4. StagedIn(staged') = StagedIn(staged) \ {l.id}
  BY <1>1, <1>3, StagedAfter
<1>5. Fits(l, staged')
  BY <1>3, IdleFits DEF Fetching
<1>6. ASSUME Alone
      PROVE  /\ StagesAlone(l, staged', Quiet)
             /\ PublishesAlone(l, target) /\ AnswersAlone(l, target)
  <2>1. StagesAlone(lane[h], staged, Quiet) /\ AnswersAlone(lane[h], target)
    BY <1>6, FindsAlone
  <2>2. StagesAlone(l, staged', Quiet)
    BY <1>1, <1>3, <1>4, <2>1 DEF StagesAlone, Fetching
  <2>3. PublishesAlone(l, target)
    BY <1>3 DEF PublishesAlone
  <2>4. AnswersAlone(l, target)
    BY <1>1, <1>3, <2>1 DEF AnswersAlone, Fetching
  <2> QED BY <2>2, <2>3, <2>4
<1> QED BY <1>1, <1>3, <1>5, <1>6, StageKeeps

LEMMA CleaningFailsKeeps ==
    ASSUME ResourcesAssumption, ResourcesInv, NEW h \in Editors, CleaningFails(h)
    PROVE  ResourcesInv'
<1> DEFINE at == IF lane[h].at = "undo" THEN "tidy" ELSE "done"
           l == [lane[h] EXCEPT !.at = at, !.cause = "fault"]
<1>1. /\ lane[h].at \in {"undo", "tidy"} /\ DiskFault /\ UNCHANGED disk
      /\ lane' = [lane EXCEPT ![h] = l]
  BY DEF CleaningFails
<1>2. lane[h] \in Transfers
  BY <1>1, LaneTakes
<1>3. /\ l \in Transfers /\ l.id = lane[h].id /\ l.at \in {"tidy", "done"} /\ l.ok = lane[h].ok
      /\ l.kind = lane[h].kind /\ l.cause = "fault"
  BY <1>2 DEF Transfers, Transferring
<1> HIDE DEF l
<1>4. /\ UNCHANGED <<waiting, lastJob, crashes>> /\ diskFaults' \in 0 .. MaxDiskFaults
      /\ ~Quiet'
  BY <1>1, FaultCounts
<1>5. Fits(l, staged)
  BY <1>3, IdleFits DEF Fetching
<1>6. ASSUME Alone
      PROVE  /\ StagesAlone(l, staged, Quiet')
             /\ PublishesAlone(l, target) /\ AnswersAlone(l, target)
  <2>1. AnswersAlone(lane[h], target)
    BY <1>6, FindsAlone
  <2>2. StagesAlone(l, staged, Quiet')
    BY <1>3, <1>4 DEF StagesAlone, Fetching
  <2>3. PublishesAlone(l, target)
    BY <1>3 DEF PublishesAlone
  <2>4. AnswersAlone(l, target)
    BY <1>1, <1>3, <2>1 DEF AnswersAlone, Fetching, Causes
  <2> QED BY <2>2, <2>3, <2>4
<1> QED BY <1>1, <1>3, <1>4, <1>5, <1>6, LaneOnlyKeeps

\* A removal.
LEMMA RemoveMarkerKeeps ==
    ASSUME ResourcesAssumption, ResourcesInv, NEW h \in Editors, RemoveMarker(h)
    PROVE  ResourcesInv'
<1>1. lane[h].at = "unmark" /\ SameBounds
  BY DEF RemoveMarker
<1>2. lane[h] \in Transfers
  BY <1>1, LaneTakes
<1>3. CASE Fails(h, "done", "cancel") /\ UNCHANGED disk
  <2>1. "cancel" \in Causes
    BY DEF Causes
  <2> QED BY <1>1, <1>3, <2>1, NoFaultCounts, FailsDoneKeeps
<1>4. CASE /\ TargetSet(lane[h].res, [target[lane[h].res] EXCEPT !.marker = FALSE])
           /\ Goes(h, "delete")
  <2> DEFINE l == [lane[h] EXCEPT !.at = "delete"]
             t == [target[lane[h].res] EXCEPT !.marker = FALSE]
  <2>1. lane' = [lane EXCEPT ![h] = l]
    BY <1>4 DEF Goes
  <2>2. /\ l \in Transfers /\ l.id = lane[h].id /\ l.at = "delete" /\ l.ok = lane[h].ok
        /\ l.kind = lane[h].kind /\ l.res = lane[h].res /\ l.res \in Resources
    BY <1>2 DEF Transfers, Transferring
  <2> HIDE DEF l
  <2>3. Takes
    <3>1. /\ target \in [Resources -> Directories]
          /\ \A q \in Resources : ~target[q].dir => target[q] = NoTarget
      BY DEF ResourcesInv, ResourcesTyped
    <3>2. t \in Directories /\ ~t.marker /\ (~t.dir => t = NoTarget)
      <4>1. target[lane[h].res] \in Directories /\ lane[h].res \in Resources
        BY <2>2, <3>1
      <4>2. t \in Directories /\ ~t.marker /\ t.dir = target[lane[h].res].dir
            /\ t.file = target[lane[h].res].file
        BY <4>1 DEF Directories
      <4>3. ASSUME ~t.dir PROVE t = NoTarget
        <5>1. target[lane[h].res] = NoTarget
          BY <3>1, <4>1, <4>2, <4>3
        <5>2. t.file = "none"
          BY <4>2, <5>1 DEF NoTarget
        <5> HIDE DEF t
        <5> QED BY <4>2, <4>3, <5>2 DEF NoTarget, Directories
      <4> QED BY <4>2, <4>3
    <3> HIDE DEF t
    <3>3. target' = [target EXCEPT ![l.res] = t] /\ staged' = staged
      BY <1>4, <2>2 DEF TargetSet, t
    <3>4. target'[l.res] = t /\ \A q \in Resources : q # l.res => target'[q] = target[q]
      BY <2>2, <3>1, <3>3
    <3>5. target' \in [Resources -> Directories]
      BY <2>2, <3>1, <3>2, <3>3
    <3> QED BY <3>1, <3>2, <3>3, <3>4, <3>5 DEF Takes, MarkedIn
  <2>4. Fits(l, staged)
    BY <2>2, IdleFits DEF Fetching
  <2>5. ASSUME Alone
        PROVE  /\ StagesAlone(l, staged, Quiet)
               /\ PublishesAlone(l, target') /\ AnswersAlone(l, target')
    <3>1. StagesAlone(lane[h], staged, Quiet) /\ AnswersAlone(lane[h], target)
      BY <2>5, FindsAlone
    <3>2. StagesAlone(l, staged, Quiet)
      BY <1>1, <2>2, <3>1 DEF StagesAlone, Fetching
    <3>3. PublishesAlone(l, target')
      BY <2>2 DEF PublishesAlone
    <3>4. AnswersAlone(l, target')
      BY <1>1, <2>2, <3>1 DEF AnswersAlone, Fetching
    <3> QED BY <3>2, <3>3, <3>4
  <2> QED BY <1>1, <2>1, <2>2, <2>3, <2>4, <2>5, TakesKeeps
<1> QED BY <1>3, <1>4 DEF RemoveMarker, Res

LEMMA DeleteDirKeeps ==
    ASSUME ResourcesAssumption, ResourcesInv, NEW h \in Editors, DeleteDir(h)
    PROVE  ResourcesInv'
<1> DEFINE l == [lane[h] EXCEPT !.at = "done", !.ok = TRUE]
<1>1. /\ lane[h].at = "delete" /\ SameBounds /\ lane' = [lane EXCEPT ![h] = l]
  BY DEF DeleteDir, TransferEnds
<1>2. lane[h] \in Transfers
  BY <1>1, LaneTakes
<1>3. /\ l \in Transfers /\ l.id = lane[h].id /\ l.at = "done" /\ l.ok
      /\ l.kind = lane[h].kind /\ l.res = lane[h].res /\ l.res \in Resources
  BY <1>2 DEF Transfers, Transferring
<1> HIDE DEF l
<1>4. Takes /\ target'[l.res] = NoTarget
  <2>1. CASE RemovesDir(lane[h].res)
    BY <1>3, <2>1, DirTakes
  <2>2. CASE ~target[lane[h].res].dir /\ UNCHANGED disk
    BY <1>3, <2>2 DEF disk, Takes, ResourcesInv, ResourcesTyped
  <2> QED BY <2>1, <2>2 DEF DeleteDir, Res
<1>5. Fits(l, staged)
  BY <1>3, IdleFits DEF Fetching
<1>6. ASSUME Alone
      PROVE  /\ StagesAlone(l, staged, Quiet)
             /\ PublishesAlone(l, target') /\ AnswersAlone(l, target')
  <2>1. StagesAlone(lane[h], staged, Quiet) /\ AnswersAlone(lane[h], target)
    BY <1>6, FindsAlone
  <2>2. StagesAlone(l, staged, Quiet)
    BY <1>1, <1>3, <2>1 DEF StagesAlone, Fetching
  <2>3. PublishesAlone(l, target')
    BY <1>3 DEF PublishesAlone
  <2>4. AnswersAlone(l, target')
    BY <1>1, <1>3, <1>4, <2>1 DEF AnswersAlone, Fetching
  <2> QED BY <2>2, <2>3, <2>4
<1> QED BY <1>1, <1>3, <1>4, <1>5, <1>6, TakesKeeps

LEMMA RemoveFailsKeeps ==
    ASSUME ResourcesAssumption, ResourcesInv, NEW h \in Editors, RemoveFails(h)
    PROVE  ResourcesInv'
<1>1. /\ lane[h].at \in {"unmark", "delete"} /\ UNCHANGED disk /\ DiskFault
      /\ Fails(h, "done", "fault")
  BY DEF RemoveFails
<1>2. "fault" \in Causes
  BY DEF Causes
<1> QED BY <1>1, <1>2, FaultCounts, FailsDoneKeeps

\* The ids that are taken: by a job that waits or by one that runs.
LEMMA DropIs ==
    ASSUME NEW S, NEW s \in Seq(S), NEW k \in DOMAIN s
    PROVE  /\ RemoveAt(s, k) \in Seq(S) /\ Len(RemoveAt(s, k)) = Len(s) - 1
           /\ \A j \in 1 .. Len(s) - 1 : RemoveAt(s, k)[j] = IF j < k THEN s[j] ELSE s[j + 1]
<1> DEFINE n == Len(s)  a == SubSeq(s, 1, k - 1)  b == SubSeq(s, k + 1, n)
<1>1. n \in Nat /\ DOMAIN s = 1 .. n /\ \A i \in 1 .. n : s[i] \in S
  BY LenProperties, ElementOfSeq
<1>2. k \in Nat /\ k >= 1 /\ k <= n
  BY <1>1
<1> HIDE DEF n
<1>3. a \in Seq(S) /\ Len(a) = k - 1 /\ \A i \in 1 .. k - 1 : a[i] = s[i]
  <2>1. \A i \in 1 .. k - 1 : s[i] \in S
    BY <1>1, <1>2
  <2>2. 1 \in Int /\ k - 1 \in Int
    BY <1>2
  <2>3. /\ a \in Seq(S)
        /\ Len(a) = IF 1 <= k - 1 THEN k - 1 - 1 + 1 ELSE 0
        /\ \A i \in 1 .. k - 1 - 1 + 1 : a[i] = s[1 + i - 1]
    BY <2>1, <2>2, SubSeqProperties
  <2> HIDE DEF a
  <2> QED BY <1>2, <2>3
<1>4. b \in Seq(S) /\ Len(b) = n - k /\ \A i \in 1 .. n - k : b[i] = s[k + i]
  <2>1. \A i \in k + 1 .. n : s[i] \in S
    BY <1>1, <1>2
  <2>2. k + 1 \in Int /\ n \in Int
    BY <1>1, <1>2
  <2>3. /\ b \in Seq(S)
        /\ Len(b) = IF k + 1 <= n THEN n - (k + 1) + 1 ELSE 0
        /\ \A i \in 1 .. n - (k + 1) + 1 : b[i] = s[(k + 1) + i - 1]
    BY <2>1, <2>2, SubSeqProperties
  <2> HIDE DEF b
  <2>4. \A i \in 1 .. n - k : (k + 1) + i - 1 = k + i /\ i \in 1 .. n - (k + 1) + 1
    BY <1>1, <1>2
  <2> QED BY <1>1, <1>2, <2>3, <2>4
<1>5. RemoveAt(s, k) = a \o b
  BY DEF RemoveAt, n
<1> HIDE DEF a, b
<1>6. /\ a \o b \in Seq(S) /\ Len(a \o b) = (k - 1) + (n - k)
      /\ \A i \in 1 .. (k - 1) + (n - k) :
            (a \o b)[i] = IF i <= k - 1 THEN a[i] ELSE b[i - (k - 1)]
  <2>1. /\ a \o b \in Seq(S) /\ Len(a \o b) = Len(a) + Len(b)
        /\ \A i \in 1 .. Len(a) + Len(b) :
              (a \o b)[i] = IF i <= Len(a) THEN a[i] ELSE b[i - Len(a)]
    BY <1>3, <1>4, ConcatProperties
  <2>2. Len(a) = k - 1 /\ Len(b) = n - k
    BY <1>3, <1>4
  <2> QED BY <2>1, <2>2
<1>7. (k - 1) + (n - k) = n - 1
  BY <1>1, <1>2
<1>8. ASSUME NEW j \in 1 .. n - 1
      PROVE  (a \o b)[j] = IF j < k THEN s[j] ELSE s[j + 1]
  <2>1. (a \o b)[j] = IF j <= k - 1 THEN a[j] ELSE b[j - (k - 1)]
    BY <1>6, <1>7
  <2>2. CASE j < k
    <3>1. j <= k - 1 /\ j \in 1 .. k - 1
      BY <1>2, <2>2
    <3> QED BY <1>3, <2>1, <2>2, <3>1
  <2>3. CASE ~(j < k)
    <3>1. ~(j <= k - 1) /\ j - (k - 1) \in 1 .. n - k /\ k + (j - (k - 1)) = j + 1
      BY <1>1, <1>2, <2>3
    <3> QED BY <1>4, <2>1, <2>3, <3>1
  <2> QED BY <2>2, <2>3
<1> QED BY <1>5, <1>6, <1>7, <1>8 DEF n

\* A queue that lost the job at one place.
Drops(q, s, k) ==
    /\ q \in Seq(TransferJobs) /\ Len(q) = Len(s) - 1 /\ k \in DOMAIN s
    /\ \A j \in DOMAIN q : q[j] = IF j < k THEN s[j] ELSE s[j + 1]

LEMMA DropsFrom ==
    ASSUME NEW s \in Seq(TransferJobs), NEW q, NEW k, Drops(q, s, k)
    PROVE  /\ \A j \in DOMAIN q : \E i \in DOMAIN s : i # k /\ q[j] = s[i]
           /\ \A j1, j2 \in DOMAIN q : j1 # j2 =>
                 \E i1, i2 \in DOMAIN s :
                    i1 # i2 /\ i1 # k /\ i2 # k /\ q[j1] = s[i1] /\ q[j2] = s[i2]
<1> DEFINE n == Len(s)  from(j) == IF j < k THEN j ELSE j + 1
<1>1. n \in Nat /\ DOMAIN s = 1 .. n /\ DOMAIN q = 1 .. Len(q) /\ Len(q) = n - 1 /\ k \in 1 .. n
  BY LenProperties DEF Drops
<1> HIDE DEF n
<1>2. \A j \in DOMAIN q : q[j] = s[from(j)]
  BY DEF Drops
<1>3. \A j \in 1 .. n - 1 : from(j) \in 1 .. n /\ from(j) # k
  BY <1>1
<1>4. \A j1, j2 \in 1 .. n - 1 : j1 # j2 => from(j1) # from(j2)
  BY <1>1
<1> HIDE DEF from
<1> QED BY <1>1, <1>2, <1>3, <1>4

\* A job leaves a queue, to be forgotten or to run.
LEMMA DropOwns ==
    ASSUME ResourcesInv, NEW h \in Editors, NEW q, NEW k, Drops(q, waiting[h], k),
           waiting' = [waiting EXCEPT ![h] = q], lastJob' = lastJob,
           \A g \in Editors : lane'[g].at # "idle" =>
              \/ lane[g].at # "idle" /\ lane'[g].id = lane[g].id
              \/ g = h /\ lane'[g].id = waiting[h][k].id
    PROVE  OwnIds' /\ waiting' \in [Editors -> Seq(TransferJobs)]
<1>1. /\ waiting \in [Editors -> Seq(TransferJobs)] /\ OwnIds /\ q \in Seq(TransferJobs)
      /\ k \in DOMAIN waiting[h]
  BY DEF ResourcesInv, ResourcesTyped, Drops
<1>2. waiting'[h] = q /\ \A g \in Editors : g # h => waiting'[g] = waiting[g]
  BY <1>1
<1>3. /\ \A j \in DOMAIN q : \E i \in DOMAIN waiting[h] : i # k /\ q[j] = waiting[h][i]
      /\ \A j1, j2 \in DOMAIN q : j1 # j2 =>
            \E i1, i2 \in DOMAIN waiting[h] :
               /\ i1 # i2 /\ i1 # k /\ i2 # k
               /\ q[j1] = waiting[h][i1] /\ q[j2] = waiting[h][i2]
  BY <1>1, DropsFrom
<1>4. \A g \in Editors : \A j \in DOMAIN waiting'[g] :
         \E i \in DOMAIN waiting[g] : (g = h => i # k) /\ waiting'[g][j] = waiting[g][i]
  BY <1>2, <1>3
<1>5. \A g \in Editors : \A j1, j2 \in DOMAIN waiting'[g] : j1 # j2 =>
         \E i1, i2 \in DOMAIN waiting[g] :
            i1 # i2 /\ waiting'[g][j1] = waiting[g][i1] /\ waiting'[g][j2] = waiting[g][i2]
  <2> SUFFICES ASSUME NEW g \in Editors, NEW j1 \in DOMAIN waiting'[g],
                      NEW j2 \in DOMAIN waiting'[g], j1 # j2
               PROVE  \E i1, i2 \in DOMAIN waiting[g] :
                         /\ i1 # i2 /\ waiting'[g][j1] = waiting[g][i1]
                         /\ waiting'[g][j2] = waiting[g][i2]
    OBVIOUS
  <2>1. CASE g = h
    BY <1>2, <1>3, <2>1
  <2>2. CASE g # h
    BY <1>2, <2>2
  <2> QED BY <2>1, <2>2
<1>6. \A g \in Editors : lane'[g].at # "idle" => lane'[g].id <= lastJob'
  BY <1>1 DEF OwnIds
<1>7. \A g \in Editors : \A i \in DOMAIN waiting'[g] : waiting'[g][i].id <= lastJob'
  BY <1>1, <1>4 DEF OwnIds
<1>8. \A f, g \in Editors :
         f # g /\ lane'[f].at # "idle" /\ lane'[g].at # "idle" => lane'[f].id # lane'[g].id
  BY <1>1 DEF OwnIds
<1>9. \A f, g \in Editors : \A i \in DOMAIN waiting'[g] :
         lane'[f].at # "idle" => lane'[f].id # waiting'[g][i].id
  <2> SUFFICES ASSUME NEW f \in Editors, NEW g \in Editors, NEW j \in DOMAIN waiting'[g],
                      lane'[f].at # "idle"
               PROVE  lane'[f].id # waiting'[g][j].id
    OBVIOUS
  <2>1. PICK i \in DOMAIN waiting[g] : (g = h => i # k) /\ waiting'[g][j] = waiting[g][i]
    BY <1>4
  <2>2. CASE lane[f].at # "idle" /\ lane'[f].id = lane[f].id
    BY <1>1, <2>1, <2>2 DEF OwnIds
  <2>3. CASE f = h /\ lane'[f].id = waiting[h][k].id
    BY <1>1, <2>1, <2>3 DEF OwnIds
  <2> QED BY <2>2, <2>3
<1>10. \A f, g \in Editors : \A i \in DOMAIN waiting'[f] : \A j \in DOMAIN waiting'[g] :
          f # g \/ i # j => waiting'[f][i].id # waiting'[g][j].id
  <2> SUFFICES ASSUME NEW f \in Editors, NEW g \in Editors, NEW i \in DOMAIN waiting'[f],
                      NEW j \in DOMAIN waiting'[g], f # g \/ i # j
               PROVE  waiting'[f][i].id # waiting'[g][j].id
    OBVIOUS
  <2>1. CASE f # g
    BY <1>1, <1>4, <2>1 DEF OwnIds
  <2>2. CASE f = g /\ i # j
    <3>1. PICK i1 \in DOMAIN waiting[f], i2 \in DOMAIN waiting[f] :
             i1 # i2 /\ waiting'[f][i] = waiting[f][i1] /\ waiting'[f][j] = waiting[f][i2]
      BY <1>5, <2>2
    <3>2. waiting[f][i1].id # waiting[f][i2].id
      BY <1>1, <3>1 DEF OwnIds
    <3> QED BY <2>2, <3>1, <3>2
  <2> QED BY <2>1, <2>2
<1>11. OwnIds'
  BY <1>6, <1>7, <1>8, <1>9, <1>10 DEF OwnIds
<1> QED BY <1>1, <1>11

LEMMA TailDrops ==
    ASSUME NEW s \in Seq(TransferJobs), s # << >>
    PROVE  Drops(Tail(s), s, 1) /\ Head(s) = s[1] /\ Head(s) \in TransferJobs
<1>1. /\ Tail(s) \in Seq(TransferJobs) /\ Len(Tail(s)) = Len(s) - 1
      /\ \A i \in 1 .. Len(Tail(s)) : Tail(s)[i] = s[i + 1]
      /\ Head(s) \in TransferJobs
  BY HeadTailProperties
<1>2. DOMAIN Tail(s) = 1 .. Len(Tail(s)) /\ Len(s) \in Nat \ {0} /\ DOMAIN s = 1 .. Len(s)
  BY <1>1, LenProperties, EmptySeq
<1>3. 1 \in DOMAIN s /\ \A j \in 1 .. Len(Tail(s)) : ~(j < 1)
  BY <1>2
<1> QED BY <1>1, <1>2, <1>3 DEF Drops

\* Requests change the queues only.
LEMMA QueueKeeps ==
    ASSUME ResourcesInv, UNCHANGED <<disk, lane, crashes, diskFaults>>, OwnIds',
           waiting' \in [Editors -> Seq(TransferJobs)], lastJob' \in 0 .. MaxJobs
    PROVE  ResourcesInv'
<1>1. /\ staged' = staged /\ target' = target /\ lane' = lane /\ crashes' = crashes
      /\ diskFaults' = diskFaults
  BY DEF disk
<1>2. ResourcesTyped'
  BY <1>1 DEF ResourcesInv, ResourcesTyped
<1>3. \A h \in Editors : Fits(lane'[h], staged')
  BY <1>1 DEF ResourcesInv
<1>4. Alone => ResourcesAlone'
  <2>1. Quiet' <=> Quiet
    BY <1>1 DEF Quiet
  <2>2. ASSUME Alone PROVE ResourcesAlone'
    BY <1>1, <2>1, <2>2 DEF ResourcesInv, ResourcesAlone, StagesAlone
  <2> QED BY <2>2
<1> QED BY <1>2, <1>3, <1>4 DEF ResourcesInv

LEMMA SubmitKeeps ==
    ASSUME ResourcesAssumption, ResourcesInv, NEW h \in Editors, NEW r \in Resources,
           NEW kind \in {"install", "remove"}, Submit(h, kind, r),
           UNCHANGED <<disk, lane, crashes, diskFaults>>
    PROVE  ResourcesInv'
<1> DEFINE job == Queued(lastJob + 1, kind, r)  n == Len(waiting[h])
<1>1. /\ lastJob < MaxJobs /\ lastJob' = lastJob + 1
      /\ waiting' = [waiting EXCEPT ![h] = Append(waiting[h], job)]
  BY DEF Submit
<1>2. /\ waiting \in [Editors -> Seq(TransferJobs)] /\ OwnIds /\ lastJob \in Nat
      /\ MaxJobs \in Nat /\ lane' = lane
      /\ lane \in [Editors -> Transfers \union {NoTransfer}]
  BY DEF ResourcesInv, ResourcesTyped, ResourcesAssumption
<1>3. lastJob + 1 \in TransferIds /\ lastJob' \in 0 .. MaxJobs /\ lastJob' \in Nat
  BY <1>1, <1>2 DEF TransferIds
<1>4. job \in TransferJobs /\ job.id = lastJob + 1
  BY <1>3 DEF Queued, TransferJobs
<1> HIDE DEF job
<1>5. /\ waiting[h] \in Seq(TransferJobs) /\ n \in Nat /\ DOMAIN waiting[h] = 1 .. n
  BY <1>2, LenProperties
<1>6. /\ Append(waiting[h], job) \in Seq(TransferJobs)
      /\ Len(Append(waiting[h], job)) = n + 1
      /\ \A i \in 1 .. n : Append(waiting[h], job)[i] = waiting[h][i]
      /\ Append(waiting[h], job)[n + 1] = job
  BY <1>4, <1>5, AppendProperties
<1>7. DOMAIN Append(waiting[h], job) = 1 .. n + 1
  BY <1>6, LenProperties
<1> HIDE DEF n
<1>8. /\ waiting'[h] = Append(waiting[h], job)
      /\ \A g \in Editors : g # h => waiting'[g] = waiting[g]
      /\ waiting' \in [Editors -> Seq(TransferJobs)]
  BY <1>1, <1>2, <1>6
<1>9. \A g \in Editors : \A j \in DOMAIN waiting'[g] :
         \/ j \in DOMAIN waiting[g] /\ waiting'[g][j] = waiting[g][j]
         \/ g = h /\ j = n + 1 /\ waiting'[g][j].id = lastJob + 1
  <2> SUFFICES ASSUME NEW g \in Editors, NEW j \in DOMAIN waiting'[g]
               PROVE  \/ j \in DOMAIN waiting[g] /\ waiting'[g][j] = waiting[g][j]
                      \/ g = h /\ j = n + 1 /\ waiting'[g][j].id = lastJob + 1
    OBVIOUS
  <2>1. CASE g # h
    BY <1>8, <2>1
  <2>2. CASE g = h
    <3>1. j \in 1 .. n + 1
      BY <1>7, <1>8, <2>2
    <3>2. j \in 1 .. n \/ j = n + 1
      BY <1>5, <3>1
    <3> QED BY <1>4, <1>5, <1>6, <1>8, <2>2, <3>2
  <2> QED BY <2>1, <2>2
<1>10. \A g \in Editors : lane[g].at # "idle" => lane[g].id \in Int /\ lane[g].id <= lastJob
  BY <1>2, LaneTakes DEF OwnIds, Transfers, TransferIds
<1>11. \A g \in Editors : \A i \in DOMAIN waiting[g] :
          waiting[g][i].id \in Int /\ waiting[g][i].id <= lastJob
  <2> SUFFICES ASSUME NEW g \in Editors, NEW i \in DOMAIN waiting[g]
               PROVE  waiting[g][i].id \in Int /\ waiting[g][i].id <= lastJob
    OBVIOUS
  <2>1. waiting[g] \in Seq(TransferJobs)
    BY <1>2
  <2>2. waiting[g][i] \in TransferJobs
    BY <2>1, ElementOfSeq, LenProperties
  <2> QED BY <1>2, <2>2 DEF OwnIds, TransferJobs, TransferIds
<1>12. \A id \in Int : id <= lastJob => id <= lastJob' /\ id # lastJob + 1
  BY <1>1, <1>2
<1>13. \A g \in Editors : lane'[g].at # "idle" => lane'[g].id <= lastJob'
  BY <1>2, <1>10, <1>12
<1>14. \A g \in Editors : \A i \in DOMAIN waiting'[g] : waiting'[g][i].id <= lastJob'
  <2>1. lastJob + 1 <= lastJob'
    BY <1>1, <1>2
  <2> QED BY <1>9, <1>11, <1>12, <2>1
<1>15. \A f, g \in Editors : \A i \in DOMAIN waiting'[g] :
          lane'[f].at # "idle" => lane'[f].id # waiting'[g][i].id
  <2> SUFFICES ASSUME NEW f \in Editors, NEW g \in Editors, NEW i \in DOMAIN waiting'[g],
                      lane[f].at # "idle"
               PROVE  lane[f].id # waiting'[g][i].id
    BY <1>2
  <2>1. CASE i \in DOMAIN waiting[g] /\ waiting'[g][i] = waiting[g][i]
    BY <1>2, <2>1 DEF OwnIds
  <2>2. CASE waiting'[g][i].id = lastJob + 1
    BY <1>10, <1>12, <2>2
  <2> QED BY <1>9, <2>1, <2>2
<1>16. \A f, g \in Editors : \A i \in DOMAIN waiting'[f] : \A j \in DOMAIN waiting'[g] :
          f # g \/ i # j => waiting'[f][i].id # waiting'[g][j].id
  <2> SUFFICES ASSUME NEW f \in Editors, NEW g \in Editors, NEW i \in DOMAIN waiting'[f],
                      NEW j \in DOMAIN waiting'[g], f # g \/ i # j
               PROVE  waiting'[f][i].id # waiting'[g][j].id
    OBVIOUS
  <2>1. CASE /\ i \in DOMAIN waiting[f] /\ waiting'[f][i] = waiting[f][i]
             /\ j \in DOMAIN waiting[g] /\ waiting'[g][j] = waiting[g][j]
    BY <1>2, <2>1 DEF OwnIds
  <2>2. CASE /\ i \in DOMAIN waiting[f] /\ waiting'[f][i] = waiting[f][i]
             /\ waiting'[g][j].id = lastJob + 1
    BY <1>11, <1>12, <2>2
  <2>3. CASE /\ j \in DOMAIN waiting[g] /\ waiting'[g][j] = waiting[g][j]
             /\ waiting'[f][i].id = lastJob + 1
    BY <1>11, <1>12, <2>3
  <2> QED BY <1>9, <2>1, <2>2, <2>3
<1>17. OwnIds'
  BY <1>2, <1>13, <1>14, <1>15, <1>16 DEF OwnIds
<1> QED BY <1>3, <1>8, <1>17, QueueKeeps

LEMMA CancelWaitingKeeps ==
    ASSUME ResourcesAssumption, ResourcesInv, NEW h \in Editors, CancelWaiting(h)
    PROVE  ResourcesInv'
<1>1. PICK k \in DOMAIN waiting[h] : waiting' = [waiting EXCEPT ![h] = RemoveAt(waiting[h], k)]
  BY DEF CancelWaiting
<1>2. UNCHANGED <<disk, lane, lastJob, crashes, diskFaults>>
  BY DEF CancelWaiting
<1>3. waiting[h] \in Seq(TransferJobs) /\ lastJob \in 0 .. MaxJobs
  BY DEF ResourcesInv, ResourcesTyped
<1> DEFINE q == RemoveAt(waiting[h], k)
<1>4. Drops(q, waiting[h], k)
  <2>1. /\ q \in Seq(TransferJobs) /\ Len(q) = Len(waiting[h]) - 1
        /\ \A j \in 1 .. Len(waiting[h]) - 1 :
              q[j] = IF j < k THEN waiting[h][j] ELSE waiting[h][j + 1]
    BY <1>3, DropIs
  <2>2. DOMAIN q = 1 .. Len(waiting[h]) - 1
    BY <2>1, LenProperties
  <2> HIDE DEF q
  <2> QED BY <2>1, <2>2 DEF Drops
<1>5. waiting' = [waiting EXCEPT ![h] = q]
  BY <1>1
<1> HIDE DEF q
<1>6. OwnIds' /\ waiting' \in [Editors -> Seq(TransferJobs)]
  BY <1>2, <1>4, <1>5, DropOwns
<1> QED BY <1>2, <1>3, <1>6, QueueKeeps

LEMMA CancelRunningKeeps ==
    ASSUME ResourcesAssumption, ResourcesInv, NEW h \in Editors, CancelRunning(h)
    PROVE  ResourcesInv'
<1> DEFINE l == [lane[h] EXCEPT !.stop = TRUE]
<1>1. /\ lane[h].at # "idle" /\ lane' = [lane EXCEPT ![h] = l]
      /\ UNCHANGED <<disk, waiting, lastJob, crashes, diskFaults>>
  BY DEF CancelRunning
<1>2. lane[h] \in Transfers
  BY <1>1, LaneTakes
<1>3. /\ l \in Transfers /\ l.id = lane[h].id /\ l.at = lane[h].at /\ l.ok = lane[h].ok
      /\ l.kind = lane[h].kind /\ l.cause = lane[h].cause /\ l.res = lane[h].res
      /\ l.got = lane[h].got /\ l.stale = lane[h].stale
  BY <1>2 DEF Transfers
<1> HIDE DEF l
<1>4. diskFaults' \in 0 .. MaxDiskFaults /\ (Quiet' <=> Quiet)
  BY <1>1 DEF ResourcesInv, ResourcesTyped, Quiet
<1>5. Fits(l, staged)
  BY <1>3 DEF ResourcesInv, Fits
<1>6. ASSUME Alone
      PROVE  /\ StagesAlone(l, staged, Quiet')
             /\ PublishesAlone(l, target) /\ AnswersAlone(l, target)
  <2>1. /\ StagesAlone(lane[h], staged, Quiet) /\ AnswersAlone(lane[h], target)
        /\ PublishesAlone(lane[h], target)
    BY <1>6, FindsAlone
  <2>2. StagesAlone(l, staged, Quiet')
    BY <1>3, <1>4, <2>1 DEF StagesAlone
  <2>3. PublishesAlone(l, target)
    BY <1>3, <2>1 DEF PublishesAlone
  <2>4. AnswersAlone(l, target)
    BY <1>3, <2>1 DEF AnswersAlone
  <2> QED BY <2>2, <2>3, <2>4
<1> QED BY <1>1, <1>3, <1>4, <1>5, <1>6, LaneOnlyKeeps

\* A lane that begins a job, or rests.
LEMMA LaneSetKeeps ==
    ASSUME ResourcesInv, NEW h \in Editors, NEW l \in Transfers \union {NoTransfer},
           lane' = [lane EXCEPT ![h] = l], UNCHANGED <<disk, lastJob, diskFaults>>,
           crashes' \in 0 .. MaxCrashes, Quiet' => Quiet,
           OwnIds', waiting' \in [Editors -> Seq(TransferJobs)], l.at \notin Fetching,
           Alone => /\ StagesAlone(l, staged, Quiet')
                    /\ PublishesAlone(l, target) /\ AnswersAlone(l, target)
    PROVE  ResourcesInv'
<1>1. staged' = staged /\ target' = target /\ lastJob' = lastJob /\ diskFaults' = diskFaults
  BY DEF disk
<1>2. /\ lane' \in [Editors -> Transfers \union {NoTransfer}] /\ lane'[h] = l
      /\ \A g \in Editors : g # h => lane'[g] = lane[g]
  BY DEF ResourcesInv, ResourcesTyped
<1>3. ResourcesTyped'
  BY <1>1, <1>2 DEF ResourcesInv, ResourcesTyped
<1>4. \A g \in Editors : Fits(lane'[g], staged')
  <2>1. Fits(l, staged)
    BY IdleFits
  <2> QED BY <1>1, <1>2, <2>1 DEF ResourcesInv
<1>5. ASSUME Alone PROVE ResourcesAlone'
  <2>1. \A g \in Editors : g = h
    BY <1>5 DEF Alone
  <2>2. Cardinality(MarkedIn(target)) <= Quota
    BY <1>5 DEF ResourcesInv, ResourcesAlone
  <2> QED BY <1>1, <1>2, <1>5, <2>1, <2>2 DEF ResourcesAlone
<1> QED BY <1>3, <1>4, <1>5 DEF ResourcesInv

LEMMA RestsAlone ==
    ASSUME NEW quiet, NEW st, NEW tg, quiet => StagedIn(st) = {}
    PROVE  /\ NoTransfer \in Transfers \union {NoTransfer} /\ NoTransfer.at = "idle"
           /\ StagesAlone(NoTransfer, st, quiet)
           /\ PublishesAlone(NoTransfer, tg) /\ AnswersAlone(NoTransfer, tg)
<1>1. NoTransfer.at = "idle" /\ ~NoTransfer.ok
  BY DEF NoTransfer
<1>2. StagesAlone(NoTransfer, st, quiet)
  BY <1>1 DEF StagesAlone, Fetching
<1>3. PublishesAlone(NoTransfer, tg) /\ AnswersAlone(NoTransfer, tg)
  BY <1>1 DEF PublishesAlone, AnswersAlone, Fetching
<1> QED BY <1>1, <1>2, <1>3

LEMMA ServeKeeps ==
    ASSUME ResourcesAssumption, ResourcesInv, NEW h \in Editors, Serve(h)
    PROVE  ResourcesInv'
<1>1. /\ lane[h].at = "done" /\ lane' = [lane EXCEPT ![h] = NoTransfer]
      /\ UNCHANGED <<disk, waiting, lastJob, crashes, diskFaults>>
  BY DEF Serve
<1>2. /\ crashes' \in 0 .. MaxCrashes /\ (Quiet' <=> Quiet) /\ OwnIds
      /\ waiting' \in [Editors -> Seq(TransferJobs)]
      /\ lane \in [Editors -> Transfers \union {NoTransfer}]
  BY <1>1 DEF ResourcesInv, ResourcesTyped, Quiet
<1>3. NoTransfer.at = "idle" /\ NoTransfer.at \notin Fetching
  BY DEF NoTransfer, Fetching
<1>4. \A g \in Editors : lane'[g].at # "idle" => lane'[g] = lane[g]
  BY <1>1, <1>2, <1>3
<1>5. OwnIds'
  BY <1>1, <1>2, <1>4 DEF OwnIds
<1>6. ASSUME Alone
      PROVE  /\ StagesAlone(NoTransfer, staged, Quiet')
             /\ PublishesAlone(NoTransfer, target) /\ AnswersAlone(NoTransfer, target)
  <2>1. StagesAlone(lane[h], staged, Quiet)
    BY <1>6, FindsAlone
  <2>2. Quiet' => StagedIn(staged) = {}
    BY <1>1, <1>2, <2>1 DEF StagesAlone, Fetching
  <2> QED BY <2>2, RestsAlone
<1> QED BY <1>1, <1>2, <1>3, <1>5, <1>6, LaneSetKeeps

LEMMA EditorDiesKeeps ==
    ASSUME ResourcesAssumption, ResourcesInv, NEW h \in Editors, EditorDies(h)
    PROVE  ResourcesInv'
<1>1. /\ crashes < MaxCrashes /\ crashes' = crashes + 1
      /\ lane' = [lane EXCEPT ![h] = NoTransfer] /\ waiting' = [waiting EXCEPT ![h] = << >>]
      /\ UNCHANGED <<disk, lastJob, diskFaults>>
  BY DEF EditorDies
<1>2. /\ crashes \in Nat /\ MaxCrashes \in Nat /\ OwnIds
      /\ waiting \in [Editors -> Seq(TransferJobs)]
      /\ lane \in [Editors -> Transfers \union {NoTransfer}]
  BY DEF ResourcesInv, ResourcesTyped, ResourcesAssumption
<1>3. crashes' \in 0 .. MaxCrashes /\ ~Quiet'
  <2>1. crashes' \in 0 .. MaxCrashes /\ crashes' # 0
    BY <1>1, <1>2
  <2> QED BY <2>1 DEF Quiet
<1>4. NoTransfer.at = "idle" /\ NoTransfer.at \notin Fetching
  BY DEF NoTransfer, Fetching
<1>5. waiting' \in [Editors -> Seq(TransferJobs)]
  BY <1>1, <1>2, EmptySeq
<1>6. \A g \in Editors : lane'[g].at # "idle" => lane'[g] = lane[g]
  BY <1>1, <1>2, <1>4
<1>7. \A g \in Editors : \A i \in DOMAIN waiting'[g] : waiting'[g] = waiting[g]
  BY <1>1, <1>2
<1>8. OwnIds'
  BY <1>1, <1>2, <1>6, <1>7 DEF OwnIds
<1>9. /\ StagesAlone(NoTransfer, staged, Quiet')
      /\ PublishesAlone(NoTransfer, target) /\ AnswersAlone(NoTransfer, target)
  BY <1>3, RestsAlone
<1> QED BY <1>1, <1>3, <1>4, <1>5, <1>8, <1>9, LaneSetKeeps

LEMMA StartTransferKeeps ==
    ASSUME ResourcesAssumption, ResourcesInv, NEW h \in Editors, StartTransfer(h)
    PROVE  ResourcesInv'
<1> DEFINE job == Head(waiting[h])
           l == [id |-> job.id, kind |-> job.kind, res |-> job.res,
                 at |-> IF job.kind = "install" THEN "list" ELSE "unmark",
                 stale |-> {}, got |-> "none", stop |-> FALSE, ok |-> FALSE,
                 cause |-> "none"]
<1>1. /\ lane[h].at = "idle" /\ waiting[h] # << >> /\ lane' = [lane EXCEPT ![h] = l]
      /\ waiting' = [waiting EXCEPT ![h] = Tail(waiting[h])]
      /\ UNCHANGED <<disk, lastJob, crashes, diskFaults>>
  BY DEF StartTransfer
<1>2. /\ waiting[h] \in Seq(TransferJobs) /\ crashes' \in 0 .. MaxCrashes /\ (Quiet' <=> Quiet)
      /\ lane \in [Editors -> Transfers \union {NoTransfer}]
  BY <1>1 DEF ResourcesInv, ResourcesTyped, Quiet
<1>3. /\ Drops(Tail(waiting[h]), waiting[h], 1) /\ job = waiting[h][1] /\ job \in TransferJobs
  BY <1>1, <1>2, TailDrops
<1> HIDE DEF job
<1>4. /\ l \in Transfers /\ l.id = waiting[h][1].id /\ ~l.ok
      /\ \/ l.at = "list" /\ l.kind = "install"
         \/ l.at = "unmark" /\ l.kind = "remove"
  BY <1>3 DEF TransferJobs, Transfers, Transferring, Data
<1> HIDE DEF l
<1>5. lane'[h] = l /\ \A g \in Editors : g # h => lane'[g] = lane[g]
  BY <1>1, <1>2
<1>6. OwnIds' /\ waiting' \in [Editors -> Seq(TransferJobs)]
  <2> DEFINE q == Tail(waiting[h])
  <2>1. Drops(q, waiting[h], 1) /\ waiting' = [waiting EXCEPT ![h] = q] /\ lastJob' = lastJob
    BY <1>1, <1>3
  <2>2. \A g \in Editors : lane'[g].at # "idle" =>
           \/ lane[g].at # "idle" /\ lane'[g].id = lane[g].id
           \/ g = h /\ lane'[g].id = waiting[h][1].id
    BY <1>4, <1>5
  <2> HIDE DEF q
  <2> QED BY ONLY ResourcesInv, h \in Editors, <2>1, <2>2, DropOwns
<1>7. l.at \notin Fetching
  BY <1>4 DEF Fetching
<1>8. ASSUME Alone
      PROVE  /\ StagesAlone(l, staged, Quiet')
             /\ PublishesAlone(l, target) /\ AnswersAlone(l, target)
  <2>1. StagesAlone(lane[h], staged, Quiet)
    BY <1>8, FindsAlone
  <2>2. StagesAlone(l, staged, Quiet')
    BY <1>1, <1>2, <1>4, <2>1 DEF StagesAlone, Fetching
  <2>3. PublishesAlone(l, target)
    BY <1>4 DEF PublishesAlone
  <2>4. AnswersAlone(l, target)
    BY <1>4 DEF AnswersAlone, Fetching
  <2> QED BY <2>2, <2>3, <2>4
<1> QED BY <1>1, <1>2, <1>4, <1>6, <1>7, <1>8, LaneSetKeeps

\* Every step of every process.
LEMMA ResourcesStep ==
    ASSUME ResourcesAssumption, ResourcesInv, [ResourcesNext]_resourceVars
    PROVE  ResourcesInv'
<1>1. ASSUME NEW h \in Editors, Request(h) PROVE ResourcesInv'
  <2>1. ASSUME NEW r \in Resources, InstallResource(h, r) PROVE ResourcesInv'
    BY <2>1, SubmitKeeps DEF InstallResource
  <2>2. ASSUME NEW r \in Resources, RemoveResource(h, r) PROVE ResourcesInv'
    BY <2>2, SubmitKeeps DEF RemoveResource
  <2> QED BY <1>1, <2>1, <2>2, CancelWaitingKeeps, CancelRunningKeeps DEF Request
<1>2. ASSUME NEW h \in Editors, Transfer(h) PROVE ResourcesInv'
  BY <1>2, StartTransferKeeps, ServeKeeps, ListStagingKeeps, ClearFileKeeps, ClearDirKeeps,
     ClearLostKeeps, CreateStagingKeeps, ClearFailsKeeps, CreateFileKeeps, FetchKeeps,
     FetchFailsKeeps, VerifyKeeps, ValidateKeeps, CheckQuotaKeeps
     DEF Transfer
<1>3. ASSUME NEW h \in Editors, Publish(h) PROVE ResourcesInv'
  <2>1. ReplaceEntry(h) \/ UndoEntry(h) => ResourcesInv'
    BY EntryKeeps DEF ReplaceEntry, UndoEntry, Res
  <2> QED BY <1>3, <2>1, ReplaceDirKeeps, ReplaceLostKeeps, RenameKeeps, RenameRefusedKeeps,
             PublishFailsKeeps, MarkKeeps, MarkFailsKeeps, UndoDirKeeps, TidyKeeps,
             CleaningFailsKeeps
          DEF Publish
<1>4. ASSUME NEW h \in Editors, Removal(h) PROVE ResourcesInv'
  <2>1. DeleteEntry(h) => ResourcesInv'
    BY EntryKeeps DEF DeleteEntry, Res
  <2> QED BY <1>4, <2>1, RemoveMarkerKeeps, DeleteDirKeeps, RemoveFailsKeeps DEF Removal
<1>5. CASE UNCHANGED resourceVars
  <2>1. UNCHANGED <<disk, lane, crashes, diskFaults>> /\ waiting' = waiting /\ lastJob' = lastJob
    BY <1>5 DEF resourceVars
  <2>2. OwnIds' /\ waiting' \in [Editors -> Seq(TransferJobs)] /\ lastJob' \in 0 .. MaxJobs
    BY <2>1 DEF ResourcesInv, ResourcesTyped, OwnIds
  <2> QED BY <2>1, <2>2, QueueKeeps
<1> QED BY <1>1, <1>2, <1>3, <1>4, <1>5, EditorDiesKeeps DEF ResourcesNext, ResourcesRest

\* A marker whose file is gone, which the quota counts, and the directory
\* the lane itself is taking apart.
Lost(tg) == {r \in Resources : tg[r].marker /\ tg[r].file = "none"}
Busy(l) == IF l.at \in {"replace", "undo"} THEN {l.res} ELSE {}

\* What the only lane of a root leaves behind.
LeavesAlone(l, tg) ==
    /\ l.at = "delete" => ~tg[l.res].marker
    /\ l.cause = "quota" => l.at \in {"tidy", "done"} /\ Quota <= Cardinality(MarkedIn(tg))

LostBounded(l, tg, n) == Cardinality(Lost(tg) \ Busy(l)) <= n

LostInv ==
    Alone => \A h \in Editors : /\ LeavesAlone(lane[h], target)
                                /\ LostBounded(lane[h], target, crashes + diskFaults)

LEMMA LostBegins ==
    ASSUME ResourcesInit
    PROVE  LostInv
<1>1. Lost(target) = {} /\ \A h \in Editors : lane[h] = NoTransfer
  BY DEF ResourcesInit, Lost, NoTarget
<1>2. Lost(target) \ Busy(NoTransfer) = {} /\ LeavesAlone(NoTransfer, target)
  BY <1>1 DEF LeavesAlone, NoTransfer
<1>3. crashes + diskFaults = 0
  BY DEF ResourcesInit
<1>4. LostBounded(NoTransfer, target, crashes + diskFaults)
  BY <1>2, <1>3, FS_EmptySet DEF LostBounded
<1> QED BY <1>1, <1>2, <1>4 DEF LostInv

\* A step after which no more is lost, and one that counts what it loses.
LEMMA LosesNone ==
    ASSUME ResourcesAssumption, NEW l, NEW k, NEW tg, NEW after, NEW n \in Int, NEW m \in Int,
           Lost(after) \ Busy(k) \subseteq Lost(tg) \ Busy(l), n <= m, LostBounded(l, tg, n)
    PROVE  LostBounded(k, after, m)
<1>1. IsFiniteSet(Lost(tg) \ Busy(l))
  <2>1. IsFiniteSet(Resources) /\ Lost(tg) \ Busy(l) \subseteq Resources
    BY DEF ResourcesAssumption, Lost
  <2> QED BY <2>1, FS_Subset
<1>2. Cardinality(Lost(after) \ Busy(k)) <= Cardinality(Lost(tg) \ Busy(l))
  BY <1>1, FS_Subset
<1>3. IsFiniteSet(Lost(after) \ Busy(k))
  BY <1>1, FS_Subset
<1>4. Cardinality(Lost(tg) \ Busy(l)) \in Nat /\ Cardinality(Lost(after) \ Busy(k)) \in Nat
  BY <1>1, <1>3, FS_CardinalityType
<1>5. Cardinality(Lost(tg) \ Busy(l)) <= n
  BY DEF LostBounded
<1>6. Cardinality(Lost(after) \ Busy(k)) <= m
  BY ONLY <1>2, <1>4, <1>5, n \in Int, m \in Int, n <= m
<1> QED BY <1>6 DEF LostBounded

LEMMA LosesOne ==
    ASSUME ResourcesAssumption, NEW l, NEW k, NEW tg, NEW n \in Int,
           k.at \notin {"replace", "undo"}, LostBounded(l, tg, n)
    PROVE  LostBounded(k, tg, n + 1)
<1>1. IsFiniteSet(Lost(tg)) /\ IsFiniteSet(Lost(tg) \ Busy(l))
  <2>1. IsFiniteSet(Resources) /\ Lost(tg) \subseteq Resources
        /\ Lost(tg) \ Busy(l) \subseteq Resources
    BY DEF ResourcesAssumption, Lost
  <2> QED BY <2>1, FS_Subset
<1>2. Lost(tg) \ Busy(k) = Lost(tg)
  BY DEF Busy
<1>3. Lost(tg) \subseteq (Lost(tg) \ Busy(l)) \union {l.res}
  BY DEF Busy
<1>4. IsFiniteSet((Lost(tg) \ Busy(l)) \union {l.res})
      /\ Cardinality((Lost(tg) \ Busy(l)) \union {l.res}) <= Cardinality(Lost(tg) \ Busy(l)) + 1
  <2>1. /\ IsFiniteSet((Lost(tg) \ Busy(l)) \union {l.res})
        /\ Cardinality((Lost(tg) \ Busy(l)) \union {l.res}) =
              IF l.res \in Lost(tg) \ Busy(l) THEN Cardinality(Lost(tg) \ Busy(l))
              ELSE Cardinality(Lost(tg) \ Busy(l)) + 1
    BY <1>1, FS_AddElement
  <2>2. Cardinality(Lost(tg) \ Busy(l)) \in Nat
    BY <1>1, FS_CardinalityType
  <2> QED BY <2>1, <2>2
<1>5. Cardinality(Lost(tg)) <= Cardinality((Lost(tg) \ Busy(l)) \union {l.res})
  BY <1>3, <1>4, FS_Subset
<1>6. /\ Cardinality(Lost(tg)) \in Nat /\ Cardinality(Lost(tg) \ Busy(l)) \in Nat
      /\ Cardinality((Lost(tg) \ Busy(l)) \union {l.res}) \in Nat
  BY <1>1, <1>4, FS_CardinalityType
<1>7. Cardinality(Lost(tg) \ Busy(l)) <= n
  BY DEF LostBounded
<1>8. Cardinality(Lost(tg)) <= n + 1
  BY ONLY <1>4, <1>5, <1>6, <1>7, n \in Int
<1> QED BY <1>2, <1>8 DEF LostBounded

\* What a lane finds in the root it has to itself.
LEMMA LostAlone ==
    ASSUME ResourcesInv, LostInv, Alone, NEW h \in Editors
    PROVE  /\ LeavesAlone(lane[h], target)
           /\ LostBounded(lane[h], target, crashes + diskFaults)
           /\ PublishesAlone(lane[h], target)
           /\ target \in [Resources -> Directories]
           /\ \A r \in Resources : ~target[r].dir => target[r] = NoTarget
           /\ lane \in [Editors -> Transfers \union {NoTransfer}]
           /\ lane[h].at # "idle" => lane[h].res \in Resources
           /\ crashes \in Nat /\ diskFaults \in Nat
<1>1. PublishesAlone(lane[h], target)
  BY DEF ResourcesInv, ResourcesAlone
<1>2. lane[h].at # "idle" => lane[h].res \in Resources
  BY LaneTakes DEF Transfers
<1> QED BY <1>1, <1>2 DEF LostInv, ResourcesInv, ResourcesTyped

\* The directories stay and no marker is left that was not.
LEMMA LostDirStays ==
    ASSUME ResourcesAssumption, ResourcesInv, LostInv, Alone, NEW h \in Editors,
           target' = target, crashes' = crashes, diskFaults' = diskFaults,
           Busy(lane[h]) \subseteq Busy(lane'[h]) \/ ~target[lane[h].res].marker,
           LeavesAlone(lane'[h], target)
    PROVE  /\ LeavesAlone(lane'[h], target')
           /\ LostBounded(lane'[h], target', crashes' + diskFaults')
<1>1. LostBounded(lane[h], target, crashes + diskFaults) /\ crashes + diskFaults \in Int
  <2>1. LostBounded(lane[h], target, crashes + diskFaults) /\ crashes \in Nat /\ diskFaults \in Nat
    BY LostAlone
  <2> QED BY <2>1
<1>2. Lost(target) \ Busy(lane'[h]) \subseteq Lost(target) \ Busy(lane[h])
  BY DEF Lost, Busy
<1>3. crashes + diskFaults <= crashes + diskFaults
  BY <1>1
<1>4. LostBounded(lane'[h], target, crashes + diskFaults)
  BY <1>1, <1>2, <1>3, LosesNone
<1> QED BY <1>4

\* One directory is changed and is not left with a marker only.
LEMMA LostDirMoves ==
    ASSUME ResourcesAssumption, ResourcesInv, LostInv, Alone, NEW h \in Editors,
           lane[h].at # "idle", NEW t, target' = [target EXCEPT ![lane[h].res] = t],
           crashes' = crashes, diskFaults' = diskFaults,
           Busy(lane[h]) \subseteq Busy(lane'[h]) \/ ~t.marker \/ t.file # "none",
           lane[h].res \in Busy(lane'[h]) \/ ~t.marker \/ t.file # "none",
           LeavesAlone(lane'[h], target')
    PROVE  /\ LeavesAlone(lane'[h], target')
           /\ LostBounded(lane'[h], target', crashes' + diskFaults')
<1>1. /\ LostBounded(lane[h], target, crashes + diskFaults) /\ crashes + diskFaults \in Int
      /\ crashes + diskFaults <= crashes + diskFaults
  <2>1. LostBounded(lane[h], target, crashes + diskFaults) /\ crashes \in Nat /\ diskFaults \in Nat
    BY LostAlone
  <2> QED BY <2>1
<1>2. target \in [Resources -> Directories] /\ lane[h].res \in Resources
  BY LostAlone
<1>3. \A r \in Resources : target'[r] = IF r = lane[h].res THEN t ELSE target[r]
  BY <1>2
<1>4. Lost(target') \ Busy(lane'[h]) \subseteq Lost(target) \ Busy(lane[h])
  <2> SUFFICES ASSUME NEW r \in Lost(target'), r \notin Busy(lane'[h])
               PROVE  r \in Lost(target) /\ r \notin Busy(lane[h])
    OBVIOUS
  <2>1. r \in Resources /\ target'[r].marker /\ target'[r].file = "none"
    BY DEF Lost
  <2>2. r # lane[h].res
    BY <1>2, <1>3, <2>1
  <2> QED BY <1>3, <2>1, <2>2 DEF Lost, Busy
<1>5. LostBounded(lane'[h], target', crashes + diskFaults)
  <2> DEFINE k == lane'[h]
             after == target'
  <2> HIDE DEF k, after
  <2>1. Lost(after) \ Busy(k) \subseteq Lost(target) \ Busy(lane[h])
    BY <1>4 DEF k, after
  <2>2. LostBounded(k, after, crashes + diskFaults)
    BY <1>1, <2>1, LosesNone
  <2> QED BY <2>2 DEF k, after
<1> QED BY <1>5

\* A failed operation, and a process that dies, give up one directory.
LEMMA LostGivesUp ==
    ASSUME ResourcesAssumption, ResourcesInv, LostInv, Alone, NEW h \in Editors,
           target' = target, crashes' + diskFaults' = crashes + diskFaults + 1,
           lane'[h].at \notin {"replace", "undo", "delete"}, lane'[h].cause # "quota"
    PROVE  /\ LeavesAlone(lane'[h], target')
           /\ LostBounded(lane'[h], target', crashes' + diskFaults')
<1>1. LostBounded(lane[h], target, crashes + diskFaults) /\ crashes + diskFaults \in Int
  <2>1. LostBounded(lane[h], target, crashes + diskFaults) /\ crashes \in Nat /\ diskFaults \in Nat
    BY LostAlone
  <2> QED BY <2>1
<1>2. LostBounded(lane'[h], target, crashes + diskFaults + 1)
  BY <1>1, LosesOne
<1> QED BY <1>2 DEF LeavesAlone

LEMMA FaultLoses ==
    ASSUME ResourcesAssumption, ResourcesInv, LostInv, Alone, NEW h \in Editors, DiskFault
    PROVE  /\ target' = target /\ lane'[h].at \notin {"replace", "undo", "delete"}
              /\ lane'[h].cause # "quota" =>
                    /\ LeavesAlone(lane'[h], target')
                    /\ LostBounded(lane'[h], target', crashes' + diskFaults')
<1>1. crashes \in Nat /\ diskFaults \in Nat /\ crashes' = crashes /\ diskFaults' = diskFaults + 1
  BY LostAlone DEF DiskFault
<1>2. crashes' + diskFaults' = crashes + diskFaults + 1
  BY ONLY <1>1
<1> QED BY <1>2, LostGivesUp

\* What a step of the only lane, or of its owner, leaves.
LEMMA LostRequest ==
    ASSUME ResourcesAssumption, ResourcesInv, LostInv, Alone, NEW h \in Editors,
           Request(h) \/ StartTransfer(h) \/ Serve(h)
    PROVE  /\ LeavesAlone(lane'[h], target')
           /\ LostBounded(lane'[h], target', crashes' + diskFaults')
<1>1. target' = target /\ crashes' = crashes /\ diskFaults' = diskFaults
  BY DEF Request, InstallResource, RemoveResource, CancelWaiting, CancelRunning, StartTransfer,
         Serve, Submit, disk
<1>2. lane \in [Editors -> Transfers \union {NoTransfer}] /\ LeavesAlone(lane[h], target)
  BY LostAlone
<1>3. CASE lane' = lane
  BY <1>1, <1>2, <1>3, LostDirStays
<1>4. CASE CancelRunning(h)
  <2>1. lane'[h] = [lane[h] EXCEPT !.stop = TRUE] /\ lane[h] \in Transfers
    BY <1>2, <1>4, LaneTakes DEF CancelRunning
  <2>2. /\ lane'[h].at = lane[h].at /\ lane'[h].res = lane[h].res
        /\ lane'[h].cause = lane[h].cause
    BY <2>1 DEF Transfers
  <2> QED BY <1>1, <1>2, <2>2, LostDirStays DEF LeavesAlone, Busy
<1>5. CASE StartTransfer(h) \/ Serve(h)
  <2>1. lane[h].at \in {"idle", "done"}
        /\ lane'[h].at \in {"idle", "list", "unmark"} /\ lane'[h].cause = "none"
    BY <1>2, <1>5 DEF StartTransfer, Serve, NoTransfer
  <2> QED BY <1>1, <2>1, LostDirStays DEF LeavesAlone, Busy
<1> QED BY <1>3, <1>4, <1>5
        DEF Request, InstallResource, RemoveResource, CancelWaiting

LEMMA LostTransfer ==
    ASSUME ResourcesAssumption, ResourcesInv, LostInv, Alone, NEW h \in Editors, Transfer(h)
    PROVE  /\ LeavesAlone(lane'[h], target')
           /\ LostBounded(lane'[h], target', crashes' + diskFaults')
<1>1. lane \in [Editors -> Transfers \union {NoTransfer}] /\ LeavesAlone(lane[h], target)
      /\ (lane[h].at # "idle" => lane[h] \in Transfers)
  BY LostAlone, LaneTakes
<1>2. CASE ClearFails(h) \/ FetchFails(h)
  <2>1. /\ DiskFault /\ target' = target /\ lane[h] \in Transfers
        /\ lane' = [lane EXCEPT ![h].at = lane'[h].at, ![h].cause = "fault"]
        /\ lane'[h].at \in {"done", "tidy"}
    BY <1>1, <1>2 DEF ClearFails, FetchFails, Fails, disk, Transfers
  <2>2. lane'[h].cause = "fault"
    BY <1>1, <2>1 DEF Transfers
  <2> QED BY <2>1, <2>2, FaultLoses
<1>3. CASE CheckQuota(h)
  <2>1. /\ target' = target /\ crashes' = crashes /\ diskFaults' = diskFaults
        /\ lane[h].at = "quota" /\ lane[h] \in Transfers
    BY <1>1, <1>3 DEF CheckQuota, SameBounds, disk
  <2>2. CASE OverQuota
    <3>1. lane'[h].at = "tidy"
      BY <1>1, <1>3, <2>1, <2>2 DEF CheckQuota, Fails, Transfers
    <3>2. Quota <= Cardinality(MarkedIn(target))
      <4>1. Cardinality(MarkedIn(target)) + 1 > Quota
        BY <2>2 DEF OverQuota, UsedBytes, MarkedIn
      <4>2. Cardinality(MarkedIn(target)) \in Nat /\ Quota \in Nat
        <5>1. MarkedIn(target) \subseteq Resources /\ IsFiniteSet(Resources) /\ Quota \in Nat
          BY DEF MarkedIn, ResourcesAssumption
        <5> QED BY <5>1, FS_Subset, FS_CardinalityType
      <4> QED BY ONLY <4>1, <4>2
    <3>3. LeavesAlone(lane'[h], target)
      BY <3>1, <3>2 DEF LeavesAlone
    <3> QED BY <2>1, <3>1, <3>3, LostDirStays DEF Busy
  <2>3. CASE ~OverQuota
    <3>1. lane'[h].at \in {"replace", "rename"} /\ lane'[h].cause = lane[h].cause
      BY <1>1, <1>3, <2>1, <2>3 DEF CheckQuota, Goes, Transfers
    <3>2. LeavesAlone(lane'[h], target)
      BY <1>1, <2>1, <3>1 DEF LeavesAlone
    <3> QED BY <2>1, <3>2, LostDirStays DEF Busy
  <2> QED BY <2>2, <2>3
<1>4. CASE \/ ListStaging(h) \/ ClearFile(h) \/ ClearDir(h) \/ ClearLost(h) \/ CreateStaging(h)
           \/ CreateFile(h) \/ Fetch(h) \/ Verify(h) \/ Validate(h)
  <2>1. target' = target /\ crashes' = crashes /\ diskFaults' = diskFaults
    BY <1>4 DEF ListStaging, ClearFile, ClearDir, ClearLost, CreateStaging, CreateFile, Fetch,
                Verify, Validate, SameBounds, StageSet, disk
  <2>2. /\ lane[h].at \notin {"idle", "replace", "undo"}
        /\ lane'[h].at \in {"clear", "done", "create", "tidy", "fetch", "verify", "validate",
                            "quota"}
        /\ lane'[h].cause # "quota"
    BY <1>1, <1>4 DEF ListStaging, ClearFile, ClearDir, ClearLost, CreateStaging, CreateFile,
                      Fetch, Verify, Validate, Goes, Fails, Transfers, LeavesAlone
  <2>3. LeavesAlone(lane'[h], target) /\ Busy(lane[h]) \subseteq Busy(lane'[h])
    BY <2>2 DEF LeavesAlone, Busy
  <2> QED BY <2>1, <2>3, LostDirStays
<1> QED BY <1>2, <1>3, <1>4, LostRequest DEF Transfer

LEMMA LostPublish ==
    ASSUME ResourcesAssumption, ResourcesInv, LostInv, Alone, NEW h \in Editors, Publish(h)
    PROVE  /\ LeavesAlone(lane'[h], target')
           /\ LostBounded(lane'[h], target', crashes' + diskFaults')
<1>1. /\ lane \in [Editors -> Transfers \union {NoTransfer}] /\ LeavesAlone(lane[h], target)
      /\ lane[h].at # "idle" => lane[h] \in Transfers /\ lane[h].res \in Resources
      /\ target \in [Resources -> Directories] /\ PublishesAlone(lane[h], target)
      /\ \A r \in Resources : ~target[r].dir => target[r] = NoTarget
  BY LostAlone, LaneTakes
<1>2. CASE PublishFails(h) \/ CleaningFails(h)
  <2>1. /\ DiskFault /\ target' = target /\ lane[h] \in Transfers
        /\ lane'[h].at \in {"done", "tidy"} /\ lane'[h].cause = "fault"
    BY <1>1, <1>2 DEF PublishFails, CleaningFails, Fails, disk, Transfers
  <2> QED BY <2>1, FaultLoses
<1>3. CASE MarkFails(h)
  <2>1. /\ DiskFault /\ lane[h].at = "mark" /\ lane[h] \in Transfers
        /\ lane[h].res \in Resources
        /\ lane'[h].at = "undo" /\ lane'[h].res = lane[h].res /\ lane'[h].cause = "fault"
    BY <1>1, <1>3 DEF MarkFails, Fails, Transfers
  <2>2. target' = target \/ target' = [target EXCEPT ![lane[h].res].marker = TRUE]
    BY <1>3 DEF MarkFails, TargetSet, Res, disk
  <2>3. target[lane[h].res].file = "whole"
    BY <1>1, <2>1 DEF PublishesAlone
  <2>4. Lost(target') \ Busy(lane'[h]) \subseteq Lost(target) \ Busy(lane[h])
    BY <1>1, <2>1, <2>2, <2>3 DEF Lost, Busy, Directories
  <2>5. /\ LostBounded(lane[h], target, crashes + diskFaults)
        /\ crashes + diskFaults \in Int /\ crashes' + diskFaults' \in Int
        /\ crashes + diskFaults <= crashes' + diskFaults'
    <3>1. LostBounded(lane[h], target, crashes + diskFaults)
          /\ crashes \in Nat /\ diskFaults \in Nat
          /\ crashes' = crashes /\ diskFaults' = diskFaults + 1
      BY <2>1, LostAlone DEF DiskFault
    <3> QED BY <3>1
  <2>6. LostBounded(lane'[h], target', crashes' + diskFaults')
    <3> DEFINE k == lane'[h]
               after == target'
               m == crashes' + diskFaults'
    <3> HIDE DEF k, after, m
    <3>1. /\ Lost(after) \ Busy(k) \subseteq Lost(target) \ Busy(lane[h])
          /\ m \in Int /\ crashes + diskFaults <= m
      BY <2>4, <2>5 DEF k, after, m
    <3>2. LostBounded(k, after, m)
      BY <2>5, <3>1, LosesNone
    <3> QED BY <3>2 DEF k, after, m
  <2> QED BY <2>1, <2>6 DEF LeavesAlone
<1>4. CASE ReplaceEntry(h) \/ UndoEntry(h)
  <2>1. /\ lane[h].at \in {"replace", "undo"} /\ lane' = lane
        /\ crashes' = crashes /\ diskFaults' = diskFaults
    BY <1>4 DEF ReplaceEntry, UndoEntry, SameBounds
  <2>2. PICK t : target' = [target EXCEPT ![lane[h].res] = t]
    BY <1>4 DEF ReplaceEntry, UndoEntry, RemovesEntry, TargetSet, Res
  <2>3. LeavesAlone(lane'[h], target')
    BY <1>1, <2>1 DEF LeavesAlone
  <2>4. Busy(lane[h]) \subseteq Busy(lane'[h]) /\ lane[h].res \in Busy(lane'[h])
    BY <2>1 DEF Busy
  <2> QED BY <2>1, <2>2, <2>3, <2>4, LostDirMoves
<1>5. CASE ReplaceDir(h) \/ UndoDir(h)
  <2>1. /\ lane[h].at \in {"replace", "undo"} /\ lane[h] \in Transfers
        /\ lane[h].res \in Resources
        /\ crashes' = crashes /\ diskFaults' = diskFaults
        /\ lane'[h].at \in {"rename", "tidy"} /\ lane'[h].cause = lane[h].cause
    BY <1>1, <1>5 DEF ReplaceDir, UndoDir, SameBounds, Goes, Transfers
  <2>2. target' = [target EXCEPT ![lane[h].res] = NoTarget]
    <3>1. CASE RemovesDir(lane[h].res)
      BY <3>1 DEF RemovesDir, TargetSet
    <3>2. CASE ~target[lane[h].res].dir /\ UNCHANGED disk
      BY <1>1, <2>1, <3>2 DEF disk
    <3> QED BY <1>5, <3>1, <3>2 DEF ReplaceDir, UndoDir, Res
  <2>3. lane[h].cause # "quota"
    BY <1>1, <2>1 DEF LeavesAlone
  <2>4. LeavesAlone(lane'[h], target')
    BY <2>1, <2>3 DEF LeavesAlone
  <2> QED BY <2>1, <2>2, <2>4, LostDirMoves DEF NoTarget
<1>6. CASE ReplaceLost(h) \/ RenameRefused(h)
  <2>1. /\ lane[h].at \in {"replace", "rename"} /\ lane[h] \in Transfers
        /\ lane[h].at = "replace" => ~target[lane[h].res].dir
        /\ target' = target /\ crashes' = crashes /\ diskFaults' = diskFaults
        /\ lane'[h].at = "tidy" /\ lane'[h].cause = "other"
    BY <1>1, <1>6 DEF ReplaceLost, RenameRefused, SameBounds, Fails, Transfers, disk, Res
  <2>2. lane[h].at = "rename"
    BY <1>1, <2>1 DEF PublishesAlone
  <2>3. LeavesAlone(lane'[h], target) /\ Busy(lane[h]) \subseteq Busy(lane'[h])
    BY <2>1, <2>2 DEF LeavesAlone, Busy
  <2> QED BY <2>1, <2>3, LostDirStays
<1>7. CASE Rename(h)
  <2>1. /\ lane[h].at = "rename" /\ lane[h] \in Transfers
        /\ lane'[h].at = "mark" /\ lane'[h].cause = lane[h].cause
        /\ crashes' = crashes /\ diskFaults' = diskFaults
    BY <1>1, <1>7 DEF Rename, SameBounds, Goes, Transfers
  <2> DEFINE t == [dir |-> TRUE, file |-> staged[lane[h].id], marker |-> FALSE]
  <2>2. target' = [target EXCEPT ![lane[h].res] = t] /\ ~t.marker
    BY <1>7 DEF Rename, Res, Id
  <2>3. LeavesAlone(lane'[h], target')
    BY <1>1, <2>1 DEF LeavesAlone
  <2> HIDE DEF t
  <2> QED BY <2>1, <2>2, <2>3, LostDirMoves
<1>8. CASE Mark(h)
  <2>1. /\ lane[h].at = "mark" /\ lane[h] \in Transfers
        /\ crashes' = crashes /\ diskFaults' = diskFaults
    BY <1>1, <1>8 DEF Mark, SameBounds
  <2>2. target[lane[h].res] = [dir |-> TRUE, file |-> "whole", marker |-> FALSE]
    BY <1>1, <2>1 DEF PublishesAlone
  <2>3. /\ lane'[h].at = "done" /\ lane'[h].cause = lane[h].cause
        /\ target' = [target EXCEPT ![lane[h].res] = [target[lane[h].res] EXCEPT !.marker = TRUE]]
    BY <1>1, <1>8, <2>1, <2>2 DEF Mark, TransferEnds, TargetSet, Transfers, Res
  <2>4. [target[lane[h].res] EXCEPT !.marker = TRUE].file # "none"
    BY <2>2
  <2>5. lane[h].cause # "quota"
    BY <1>1, <2>1 DEF LeavesAlone
  <2>6. LeavesAlone(lane'[h], target')
    BY <2>3, <2>5 DEF LeavesAlone
  <2> QED BY <2>1, <2>3, <2>4, <2>6, LostDirMoves
<1>9. CASE Tidy(h)
  <2>1. /\ lane[h].at = "tidy" /\ lane[h] \in Transfers
        /\ target' = target /\ crashes' = crashes /\ diskFaults' = diskFaults
        /\ lane'[h].at = "done" /\ lane'[h].cause = lane[h].cause
    BY <1>1, <1>9 DEF Tidy, StageSet, SameBounds, TransferEnds, Transfers
  <2>2. LeavesAlone(lane'[h], target) /\ Busy(lane[h]) \subseteq Busy(lane'[h])
    BY <1>1, <2>1 DEF LeavesAlone, Busy
  <2> QED BY <2>1, <2>2, LostDirStays
<1> QED BY <1>2, <1>3, <1>4, <1>5, <1>6, <1>7, <1>8, <1>9 DEF Publish

LEMMA LostRemoval ==
    ASSUME ResourcesAssumption, ResourcesInv, LostInv, Alone, NEW h \in Editors, Removal(h)
    PROVE  /\ LeavesAlone(lane'[h], target')
           /\ LostBounded(lane'[h], target', crashes' + diskFaults')
<1>1. /\ lane \in [Editors -> Transfers \union {NoTransfer}] /\ LeavesAlone(lane[h], target)
      /\ lane[h].at # "idle" => lane[h] \in Transfers /\ lane[h].res \in Resources
      /\ target \in [Resources -> Directories]
      /\ \A r \in Resources : ~target[r].dir => target[r] = NoTarget
  BY LostAlone, LaneTakes
<1>2. CASE RemoveFails(h)
  <2>1. /\ DiskFault /\ target' = target /\ lane'[h].at = "done" /\ lane'[h].cause = "fault"
    BY <1>1, <1>2 DEF RemoveFails, Fails, disk, Transfers
  <2> QED BY <2>1, FaultLoses
<1>3. CASE RemoveMarker(h)
  <2>1. /\ lane[h].at = "unmark" /\ lane[h] \in Transfers /\ lane[h].res \in Resources
        /\ crashes' = crashes /\ diskFaults' = diskFaults
    BY <1>1, <1>3 DEF RemoveMarker, SameBounds
  <2>2. CASE lane[h].stop
    <3>1. target' = target /\ lane'[h].at = "done" /\ lane'[h].cause = "cancel"
      BY <1>1, <1>3, <2>1, <2>2 DEF RemoveMarker, Fails, Transfers, disk
    <3>2. LeavesAlone(lane'[h], target) /\ Busy(lane[h]) \subseteq Busy(lane'[h])
      BY <2>1, <3>1 DEF LeavesAlone, Busy
    <3> QED BY <2>1, <3>1, <3>2, LostDirStays
  <2>3. CASE ~lane[h].stop
    <3>1. /\ lane'[h].at = "delete" /\ lane'[h].res = lane[h].res
          /\ lane'[h].cause = lane[h].cause
          /\ target' = [target EXCEPT ![lane[h].res] =
                           [target[lane[h].res] EXCEPT !.marker = FALSE]]
      BY <1>1, <1>3, <2>1, <2>3 DEF RemoveMarker, Goes, TargetSet, Transfers, Res
    <3>2. ~target'[lane[h].res].marker /\ ~[target[lane[h].res] EXCEPT !.marker = FALSE].marker
      BY <1>1, <2>1, <3>1 DEF Directories
    <3>3. LeavesAlone(lane'[h], target')
      BY <1>1, <2>1, <3>1, <3>2 DEF LeavesAlone
    <3> QED BY <2>1, <3>1, <3>2, <3>3, LostDirMoves
  <2> QED BY <2>2, <2>3
<1>4. CASE DeleteEntry(h)
  <2>1. /\ lane[h].at = "delete" /\ lane' = lane /\ lane[h].res \in Resources
        /\ crashes' = crashes /\ diskFaults' = diskFaults
    BY <1>1, <1>4 DEF DeleteEntry, SameBounds
  <2>2. ~target[lane[h].res].marker
    BY <1>1, <2>1 DEF LeavesAlone
  <2>3. target' = [target EXCEPT ![lane[h].res] = [target[lane[h].res] EXCEPT !.file = "none"]]
    BY <1>4, <2>2 DEF DeleteEntry, RemovesEntry, TargetSet, Res
  <2>4. ~[target[lane[h].res] EXCEPT !.file = "none"].marker /\ ~target'[lane[h].res].marker
    BY <1>1, <2>1, <2>2, <2>3 DEF Directories
  <2>5. LeavesAlone(lane'[h], target')
    BY <1>1, <2>1, <2>4 DEF LeavesAlone
  <2> QED BY <2>1, <2>3, <2>4, <2>5, LostDirMoves
<1>5. CASE DeleteDir(h)
  <2>1. /\ lane[h].at = "delete" /\ lane[h] \in Transfers /\ lane[h].res \in Resources
        /\ crashes' = crashes /\ diskFaults' = diskFaults
        /\ lane'[h].at = "done" /\ lane'[h].cause = lane[h].cause
    BY <1>1, <1>5 DEF DeleteDir, SameBounds, TransferEnds, Transfers
  <2>2. target' = [target EXCEPT ![lane[h].res] = NoTarget]
    <3>1. CASE RemovesDir(lane[h].res)
      BY <3>1 DEF RemovesDir, TargetSet
    <3>2. CASE ~target[lane[h].res].dir /\ UNCHANGED disk
      BY <1>1, <2>1, <3>2 DEF disk
    <3> QED BY <1>5, <3>1, <3>2 DEF DeleteDir, Res
  <2>3. lane[h].cause # "quota"
    BY <1>1, <2>1 DEF LeavesAlone
  <2>4. LeavesAlone(lane'[h], target')
    BY <2>1, <2>3 DEF LeavesAlone
  <2> QED BY <2>1, <2>2, <2>4, LostDirMoves DEF NoTarget
<1> QED BY <1>2, <1>3, <1>4, <1>5 DEF Removal

LEMMA LostStep ==
    ASSUME ResourcesAssumption, ResourcesInv, LostInv, [ResourcesNext]_resourceVars
    PROVE  LostInv'
<1> SUFFICES ASSUME Alone, NEW h \in Editors
             PROVE  /\ LeavesAlone(lane'[h], target')
                    /\ LostBounded(lane'[h], target', crashes' + diskFaults')
  BY DEF LostInv, Alone
<1>1. CASE UNCHANGED resourceVars
  <2>1. /\ target' = target /\ lane' = lane /\ crashes' = crashes /\ diskFaults' = diskFaults
    BY <1>1 DEF resourceVars, disk
  <2> QED BY <2>1, LostAlone
<1>2. CASE EditorDies(h)
  <2>1. /\ target' = target /\ crashes' = crashes + 1 /\ diskFaults' = diskFaults
        /\ lane'[h] = NoTransfer /\ crashes \in Nat /\ diskFaults \in Nat
    BY <1>2, LostAlone DEF EditorDies, disk
  <2>2. crashes' + diskFaults' = crashes + diskFaults + 1
    BY ONLY <2>1
  <2>3. lane'[h].at \notin {"replace", "undo", "delete"} /\ lane'[h].cause # "quota"
    BY <2>1 DEF NoTransfer
  <2> QED BY <2>1, <2>2, <2>3, LostGivesUp
<1>3. \A g \in Editors : g = h
  BY DEF Alone
<1> QED BY <1>1, <1>2, <1>3, LostRequest, LostTransfer, LostPublish, LostRemoval
        DEF ResourcesNext, ResourcesRest

\* The invariant says what the property says.
LEMMA ResourcesSay ==
    ASSUME ResourcesAssumption, ResourcesInv, LostInv
    PROVE  ResourcesWhole
<1>1. ResourcesTyped /\ OwnIds /\ MaxJobs \in Nat
  BY DEF ResourcesInv, ResourcesAssumption
<1>2. ResourcesTypeOK
  <2>1. target \in [Resources -> [dir : BOOLEAN, file : Data, marker : BOOLEAN]]
    <3>1. \A t \in Directories : t \in [dir : BOOLEAN, file : Data, marker : BOOLEAN]
      BY DEF Directories, Data
    <3> QED BY <1>1, <3>1 DEF ResourcesTyped
  <2>2. \A h \in Editors : \A i \in DOMAIN waiting[h] :
           waiting[h][i] \in [id : 1 .. lastJob, kind : {"install", "remove"}, res : Resources]
    <3> SUFFICES ASSUME NEW h \in Editors, NEW i \in DOMAIN waiting[h]
                 PROVE  waiting[h][i] \in [id : 1 .. lastJob, kind : {"install", "remove"},
                                           res : Resources]
      OBVIOUS
    <3>1. waiting[h] \in Seq(TransferJobs)
      BY <1>1 DEF ResourcesTyped
    <3>2. waiting[h][i] \in TransferJobs
      BY <3>1, ElementOfSeq, LenProperties
    <3>3. waiting[h][i].id <= lastJob
      BY <1>1 DEF OwnIds
    <3>4. waiting[h][i].id \in 1 .. lastJob
      BY <1>1, <3>2, <3>3 DEF TransferJobs, TransferIds, ResourcesTyped
    <3> QED BY <3>2, <3>4 DEF TransferJobs
  <2>3. \A h \in Editors :
           /\ lane[h].id \in 0 .. lastJob
           /\ lane[h].at \in Fetching \union {"idle", "list", "clear", "mark", "undo",
                                              "tidy", "unmark", "delete", "done"}
           /\ lane[h].at # "idle" => lane[h].res \in Resources
    <3> SUFFICES ASSUME NEW h \in Editors
                 PROVE  /\ lane[h].id \in 0 .. lastJob
                        /\ lane[h].at \in Fetching \union {"idle", "list", "clear", "mark",
                                                           "undo", "tidy", "unmark", "delete",
                                                           "done"}
                        /\ lane[h].at # "idle" => lane[h].res \in Resources
      OBVIOUS
    <3>1. CASE lane[h] = NoTransfer
      BY <1>1, <3>1 DEF NoTransfer, ResourcesTyped
    <3>2. CASE lane[h] \in Transfers
      <4>1. lane[h].at # "idle" /\ lane[h].id \in TransferIds /\ lane[h].res \in Resources
            /\ lane[h].at \in Transferring
        BY <3>2 DEF Transfers, Transferring, Fetching
      <4>2. lane[h].id <= lastJob /\ lastJob \in Nat
        BY <1>1, <4>1 DEF OwnIds, ResourcesTyped
      <4>3. lane[h].id \in 0 .. lastJob
        BY <4>1, <4>2 DEF TransferIds
      <4> QED BY <4>1, <4>3 DEF Transferring
    <3> QED BY <1>1, <3>1, <3>2 DEF ResourcesTyped
  <2> QED BY <1>1, <2>1, <2>2, <2>3 DEF ResourcesTyped, ResourcesTypeOK
<1>3. InstalledIsWhole
  <2>1. \A r \in Resources : target[r].file \in {"none", "whole"}
    BY <1>1 DEF ResourcesTyped, Directories
  <2> QED BY <2>1 DEF InstalledIsWhole, Installed, Present
<1>4. ASSUME \A g, h \in Editors : g = h
      PROVE  WithinQuota /\ AnswerIsTrue /\ LeftoversBounded /\ NothingLeftStaged
  <2>1. Alone /\ ResourcesAlone
    BY <1>4 DEF Alone, ResourcesInv
  <2>2. WithinQuota
    BY <2>1 DEF ResourcesAlone, WithinQuota, UsedBytes, MarkedIn
  <2>3. AnswerIsTrue
    <3> SUFFICES ASSUME NEW h \in Editors, lane[h].at = "done", lane[h].ok
                 PROVE  IF lane[h].kind = "install" THEN Installed(lane[h].res)
                        ELSE target[lane[h].res] = NoTarget
      BY DEF AnswerIsTrue, Res
    <3>1. AnswersAlone(lane[h], target)
      BY <2>1, FindsAlone
    <3>2. lane[h].kind \in {"install", "remove"}
      BY LaneTakes DEF Transfers
    <3> QED BY <3>1, <3>2 DEF AnswersAlone, Installed, Present
  <2>4. LeftoversBounded
    <3> DEFINE kept == {r \in Resources : Installed(r)}
    <3> SUFFICES ASSUME NEW h \in Editors, lane[h].at = "done", ~lane[h].ok
                 PROVE  /\ lane[h].cause \in {"fault", "cancel", "bytes", "quota"}
                        /\ lane[h].cause = "quota" =>
                              Quota <= Cardinality(kept) + crashes + diskFaults
      BY DEF LeftoversBounded
    <3>1. lane[h].cause \in Causes
      BY <2>1, FindsAlone DEF AnswersAlone
    <3>2. ASSUME lane[h].cause = "quota"
          PROVE  Quota <= Cardinality(kept) + crashes + diskFaults
      <4>1. /\ Quota <= Cardinality(MarkedIn(target)) /\ Cardinality(Lost(target)) <= crashes + diskFaults
            /\ crashes \in Nat /\ diskFaults \in Nat
        <5>1. Lost(target) \ Busy(lane[h]) = Lost(target)
          BY DEF Busy
        <5> QED BY <2>1, <3>2, <5>1, LostAlone DEF LeavesAlone, LostBounded
      <4>2. MarkedIn(target) \subseteq kept \union Lost(target)
        <5>1. \A r \in Resources : target[r].file \in {"none", "whole"}
          BY <1>1 DEF ResourcesTyped, Directories
        <5> QED BY <5>1 DEF MarkedIn, Lost, Installed, Present
      <4>3. /\ IsFiniteSet(kept) /\ IsFiniteSet(Lost(target)) /\ IsFiniteSet(MarkedIn(target))
            /\ IsFiniteSet(kept \union Lost(target))
        <5>1. IsFiniteSet(Resources) /\ kept \subseteq Resources /\ Lost(target) \subseteq Resources
              /\ MarkedIn(target) \subseteq Resources /\ kept \union Lost(target) \subseteq Resources
          BY DEF ResourcesAssumption, Lost, MarkedIn
        <5> QED BY <5>1, FS_Subset
      <4> HIDE DEF kept
      <4>4. Cardinality(MarkedIn(target)) <= Cardinality(kept \union Lost(target))
        BY <4>2, <4>3, FS_Subset
      <4>5. Cardinality(kept \union Lost(target)) =
               Cardinality(kept) + Cardinality(Lost(target)) - Cardinality(kept \cap Lost(target))
        BY <4>3, FS_Union
      <4>6. /\ Cardinality(kept) \in Nat /\ Cardinality(Lost(target)) \in Nat
            /\ Cardinality(MarkedIn(target)) \in Nat /\ Cardinality(kept \cap Lost(target)) \in Nat
        <5>1. IsFiniteSet(kept \cap Lost(target))
          BY <4>3, FS_Intersection
        <5> QED BY <4>3, <5>1, FS_CardinalityType
      <4>7. Quota \in Nat
        BY DEF ResourcesAssumption
      <4> QED BY ONLY <4>1, <4>4, <4>5, <4>6, <4>7
    <3> HIDE DEF kept
    <3> QED BY <3>1, <3>2 DEF Causes
  <2>5. NothingLeftStaged
    <3> SUFFICES ASSUME NEW h \in Editors
                 PROVE  /\ lane[h].at \in Fetching => StagedIds \subseteq {lane[h].id}
                        /\ lane[h].at \in {"idle", "done"} /\ crashes + diskFaults = 0 =>
                              StagedIds = {}
      BY DEF NothingLeftStaged, Id
    <3>1. StagesAlone(lane[h], staged, Quiet)
      BY <2>1, FindsAlone
    <3>2. crashes + diskFaults = 0 => Quiet
      <4>1. crashes \in Nat /\ diskFaults \in Nat
        BY <1>1 DEF ResourcesTyped
      <4>2. crashes + diskFaults = 0 => crashes = 0 /\ diskFaults = 0
        BY ONLY <4>1
      <4> QED BY <4>2 DEF Quiet
    <3>3. StagedIds = StagedIn(staged)
      BY DEF StagedIds, StagedIn
    <3> QED BY <3>1, <3>2, <3>3 DEF StagesAlone, Fetching
  <2> QED BY <2>2, <2>3, <2>4, <2>5
<1> QED BY <1>2, <1>3, <1>4 DEF ResourcesWhole

\* What the transfer lanes promise, for any number of processes in one
\* root, any resources, quota, queue, and any number of crashes and of
\* operations that fail: what reads installed holds the pinned bytes; and
\* in a root of one process the quota is kept, what a job answers is so,
\* what was staged is removed, and a job fails only of the file system, a
\* cancel, its bytes or the quota, which counts, besides what is installed,
\* at most one marker without its file for each crash or failed operation.
THEOREM ResourcesCorrect ==
    ASSUME ResourcesAssumption
    PROVE  ResourcesSpec => []ResourcesWhole
<1>1. ResourcesInit => ResourcesInv /\ LostInv
  BY ResourcesBegin, LostBegins
<1>2. ResourcesInv /\ LostInv /\ [ResourcesNext]_resourceVars => ResourcesInv' /\ LostInv'
  BY ResourcesStep, LostStep
<1>3. ResourcesInv /\ LostInv => ResourcesWhole
  BY ResourcesSay
<1> QED BY <1>1, <1>2, <1>3, PTL DEF ResourcesSpec

-----------------------------------------------------------------------------
\* The exchange with a service.

Early == {"prepare", "resolve", "connect"}

\* The connections that were used: where, with what, and to which address.
Used ==
    [origin : Origins, credentials : BOOLEAN, post : BOOLEAN, address : DOMAIN AddressClass]

TransportTyped ==
    /\ TransportTypeOK
    /\ received \in Nat
    /\ addresses \in Seq(DOMAIN AddressClass) /\ log \in Seq(Used)

\* How late it may be at each step, and how late after a cancel: by what a
\* call has taken already, or by all it may take.
Times ==
    /\ step \in Exchanging \union {"prepare", "resolve"} => now < Total + OneCall
    /\ step = "connect" => now < Total + LongestLookup + OneCall
    /\ blocked => /\ now < Total + Slices(inner) /\ now - progressed < IdleTime + Slices(inner)
                  /\ cancelled => now - since <= Slices(inner)
    /\ step \in Exchanging => now - progressed < IdleTime + OneCall
    /\ step = "resolve" /\ cancelled => since = now
    /\ step = "connect" => Len(addresses) <= MaxAddresses
    /\ step = "connect" /\ cancelled =>
          now - since <= LongestLookup + (MaxAddresses - Len(addresses)) * ConnectTimeout
    /\ step \in Exchanging /\ cancelled =>
          now - since <= LongestLookup + MaxAddresses * ConnectTimeout + OneCall

\* Where the request may go next, and with what.
Directed ==
    /\ to = First \/ to \in Allowed
    /\ ClassOf[to] = ClassOf[First] /\ (First \in Secure => to \in Secure)
    /\ credentials => to = First
    /\ post => followed = 0
    /\ to \notin Secure => inner = 0
    /\ step = "connect" =>
          \A i \in DOMAIN addresses : AddressClass[addresses[i]] = ClassOf[to]

\* Where it went.
Logged ==
    /\ SentWhereMeant /\ DroppedForGood
    /\ step \in Early => Len(log) <= followed
    /\ credentials => \A i \in DOMAIN log : log[i].credentials
    /\ \A i \in DOMAIN log : log[i].origin \in Secure => to \in Secure

\* What was received.
Counted ==
    /\ WithinLimit /\ NeverTruncated
    /\ step \in Early \union {"write", "head"} => received = 0

TransportInv == TransportTyped /\ Times /\ Directed /\ Logged /\ Counted

LEMMA TransportBegins ==
    ASSUME TransportAssumption, TransportInit
    PROVE  TransportInv
<1>1. TransportTyped
  <2>1. /\ now = 0 /\ cancelled = FALSE /\ since = 0 /\ to = First /\ post \in BOOLEAN
        /\ credentials = TRUE /\ followed = 0 /\ step = "prepare" /\ addresses = << >>
        /\ toWrite = 0 /\ blocked = FALSE /\ inner = 0 /\ progressed = 0 /\ head = 0 /\ framing = 0
        /\ body = NoBody /\ received = 0 /\ outcome = "none" /\ log = << >>
    BY DEF TransportInit
  <2>2. First \in Origins /\ MaxRedirects \in Nat /\ HeadLimit \in Nat /\ MaxInner \in Nat
    BY DEF TransportAssumption
  <2>3. now \in Nat /\ since \in 0 .. now /\ progressed \in 0 .. now
    BY <2>1
  <2>4. {cancelled, post, credentials, blocked} \subseteq BOOLEAN
    BY <2>1
  <2>5. /\ followed \in 0 .. MaxRedirects
        /\ toWrite \in 0 .. 2 /\ head \in 0 .. HeadLimit /\ framing \in 0 .. HeadLimit
        /\ inner \in 0 .. MaxInner
    BY <2>1, <2>2
  <2>6. /\ step \in {"prepare", "resolve", "connect", "over"} \union Exchanging
        /\ body \in Bodies \union {NoBody}
        /\ blocked => step \in Exchanging
        /\ step = "over" <=> outcome # "none"
    BY <2>1
  <2>7. TransportTypeOK
    BY <2>1, <2>2, <2>3, <2>4, <2>5, <2>6 DEF TransportTypeOK
  <2> QED BY <2>1, <2>7, EmptySeq DEF TransportTyped
<1>2. Times
  <2>1. Total \in Nat \ {0} /\ Slice \in Nat
    BY DEF TransportAssumption
  <2>2. /\ now = 0 /\ step = "prepare" /\ inner = 0 /\ ~blocked /\ ~cancelled
    BY DEF TransportInit
  <2>3. OneCall = Slice * 1
    BY <2>2 DEF OneCall, Slices
  <2>4. now < Total + OneCall
    BY ONLY <2>1, <2>2, <2>3
  <2> QED BY <2>2, <2>4 DEF Times, Exchanging
<1>3. Directed
  BY DEF TransportInit, Directed
<1>4. log = << >> /\ Len(log) = 0 /\ DOMAIN log = {} /\ step = "prepare" /\ followed = 0
  BY DEF TransportInit
<1>5. Logged
  BY <1>4 DEF Logged, SentWhereMeant, DroppedForGood
<1>6. Counted
  BY DEF TransportAssumption, TransportInit, Counted, WithinLimit, NeverTruncated
<1> QED BY <1>1, <1>2, <1>3, <1>5, <1>6 DEF TransportInv

\* A step that stays where it is, or leaves the hop: what is sent is as
\* before.
LEMMA DirectedStays ==
    ASSUME Directed, Logged, UNCHANGED <<hop, addresses, log>>,
           inner' = inner \/ inner' = 0 \/ to \in Secure,
           step' \in Early => step \in Early, step' = "connect" => step = "connect"
    PROVE  Directed' /\ Logged'
BY DEF Directed, Logged, SentWhereMeant, DroppedForGood, hop

LEMMA CountedStays ==
    ASSUME Counted, UNCHANGED <<received, body>>,
           step' \in Early \union {"write", "head"} => step \in Early \union {"write", "head"},
           outcome' = outcome \/ outcome' # "ok"
    PROVE  Counted'
BY DEF Counted, WithinLimit, NeverTruncated, Complete

\* What the numbers are.
LEMMA TransportNumbers ==
    ASSUME TransportAssumption, TransportInv
    PROVE  /\ now \in Nat /\ since \in Nat /\ progressed \in Nat
           /\ since <= now /\ progressed <= now
           /\ Total \in Nat /\ IdleTime \in Nat /\ Slice \in Nat /\ ConnectTimeout \in Nat
           /\ Total > 0 /\ IdleTime > 0 /\ Slice > 0 /\ ConnectTimeout > 0
           /\ LongestLookup \in Nat /\ MaxAddresses \in Nat /\ HeadLimit \in Nat
           /\ MaxInner \in Nat /\ inner \in Nat /\ inner <= MaxInner
           /\ MaxRedirects \in Nat /\ Limit \in Nat
           /\ received \in Nat /\ head \in Nat /\ framing \in Nat /\ toWrite \in 0 .. 2
           /\ followed \in Nat /\ followed <= MaxRedirects
           /\ head <= HeadLimit /\ framing <= HeadLimit
           /\ cancelled \in BOOLEAN /\ post \in BOOLEAN
           /\ credentials \in BOOLEAN /\ blocked \in BOOLEAN
           /\ to \in Origins /\ Len(addresses) \in Nat
<1>1. /\ now \in Nat /\ since \in 0 .. now /\ progressed \in 0 .. now
      /\ {cancelled, post, credentials, blocked} \subseteq BOOLEAN
      /\ followed \in 0 .. MaxRedirects /\ to \in Origins /\ inner \in 0 .. MaxInner
      /\ toWrite \in 0 .. 2 /\ head \in 0 .. HeadLimit /\ framing \in 0 .. HeadLimit
      /\ received \in Nat /\ addresses \in Seq(DOMAIN AddressClass)
  BY DEF TransportInv, TransportTyped, TransportTypeOK
<1>2. /\ {MaxRedirects, MaxAddresses, LongestLookup, HeadLimit, Limit, MaxInner} \subseteq Nat
      /\ {Total, IdleTime, ConnectTimeout, Slice} \subseteq Nat \ {0}
  BY DEF TransportAssumption
<1>3. Len(addresses) \in Nat
  BY <1>1, LenProperties
<1> QED BY <1>1, <1>2, <1>3

\* What a call may take, and has taken.
LEMMA CallTakes ==
    ASSUME TransportAssumption, TransportInv
    PROVE  /\ Slices(inner) \in Nat /\ OneCall \in Nat /\ OneCall > 0 /\ Slice <= OneCall
           /\ OneCall = Slices(inner) + Slice
           /\ Slices(0) = 0
<1>1. Slice \in Nat /\ Slice > 0 /\ inner \in Nat
  BY TransportNumbers
<1> DEFINE held == Slice * inner
<1>2. held \in Nat /\ Slice * (inner + 1) = held + Slice /\ Slice * 0 = 0
  BY ONLY <1>1
<1> HIDE DEF held
<1>3. held + Slice > 0 /\ Slice <= held + Slice
  BY ONLY <1>1, <1>2
<1> QED BY <1>1, <1>2, <1>3 DEF held, OneCall, Slices

\* The types after a step that leaves the request's own numbers in range.
LEMMA TypedAfter ==
    ASSUME TransportTyped,
           now' \in Nat, since' \in Nat, since' <= now', progressed' \in Nat, progressed' <= now',
           cancelled' \in BOOLEAN, post' \in BOOLEAN, credentials' \in BOOLEAN,
           blocked' \in BOOLEAN, blocked' => step' \in Exchanging, inner' \in 0 .. MaxInner,
           to' \in Origins, followed' \in 0 .. MaxRedirects,
           step' \in {"prepare", "resolve", "connect", "over"} \union Exchanging,
           toWrite' \in 0 .. 2, head' \in 0 .. HeadLimit, framing' \in 0 .. HeadLimit,
           body' \in Bodies \union {NoBody}, step' = "over" <=> outcome' # "none",
           received' \in Nat, addresses' \in Seq(DOMAIN AddressClass), log' \in Seq(Used)
    PROVE  TransportTyped'
<1>1. now' \in Nat /\ since' \in 0 .. now' /\ progressed' \in 0 .. now'
  OBVIOUS
<1>2. {cancelled', post', credentials', blocked'} \subseteq BOOLEAN
  OBVIOUS
<1>3. TransportTypeOK'
  BY <1>1, <1>2 DEF TransportTypeOK
<1> QED BY <1>3 DEF TransportTyped

\* A call that returns: little time has passed.
LEMMA ReturnsSoon ==
    ASSUME TransportAssumption, TransportInv, Returns
    PROVE  /\ now' \in Nat /\ now <= now' /\ now' < Total + OneCall
           /\ now' - progressed < IdleTime + OneCall
           /\ cancelled => now' - since <= OneCall
           /\ blocked' = FALSE /\ step \in Exchanging
           /\ inner' = inner /\ inner' \in 0 .. MaxInner /\ OneCall' = OneCall
<1>1. PICK d \in 0 .. Slice - 1 : now' = now + d
  BY DEF Returns
<1>2. /\ now < Total + Slices(inner) /\ now - progressed < IdleTime + Slices(inner)
      /\ cancelled => now - since <= Slices(inner)
      /\ blocked' = FALSE /\ step \in Exchanging
  BY DEF Returns, TransportInv, Times, TransportTyped, TransportTypeOK
<1>3. /\ now \in Nat /\ progressed \in Nat /\ Slice \in Nat /\ Total \in Nat /\ IdleTime \in Nat
      /\ since \in Nat
  BY TransportNumbers
<1>4. d \in Nat /\ d < Slice
  BY ONLY <1>1, <1>3
<1>5. Slices(inner) \in Nat /\ OneCall \in Nat /\ OneCall = Slices(inner) + Slice
  BY CallTakes
<1>6. cancelled => now' - since <= OneCall
  BY ONLY <1>1, <1>2, <1>3, <1>4, <1>5
<1>7. /\ now' \in Nat /\ now <= now' /\ now' < Total + OneCall
      /\ now' - progressed < IdleTime + OneCall
  BY ONLY <1>1, <1>2, <1>3, <1>4, <1>5
<1>8. inner' = inner /\ inner' \in 0 .. MaxInner
  BY DEF Returns, TransportInv, TransportTyped, TransportTypeOK
<1>9. OneCall' = OneCall
  BY <1>8 DEF OneCall
<1> QED BY <1>2, <1>6, <1>7, <1>8, <1>9

\* Nothing is late once the request is over.
LEMMA TimesOver ==
    ASSUME step' = "over", ~blocked'
    PROVE  Times'
BY DEF Times, Exchanging

\* What a lookup and its attempts to connect may take is not negative.
LEMMA WithinLeave ==
    ASSUME NEW late \in Int, NEW slice \in Nat, NEW look \in Nat, NEW most \in Nat,
           NEW each \in Nat, late <= slice
    PROVE  late <= look + most * each + slice
<1> DEFINE all == most * each
<1>1. all \in Nat
  OBVIOUS
<1> HIDE DEF all
<1>2. late <= look + all + slice
  BY <1>1
<1> QED BY <1>2 DEF all

\* The exchange goes on after a call that returned.
LEMMA TimesGoOn ==
    ASSUME TransportAssumption, TransportInv, Returns,
           step' \in Exchanging \union {"prepare", "over"},
           progressed' = progressed \/ progressed' = now', UNCHANGED <<cancelled, since>>
    PROVE  Times'
<1>1. /\ now' \in Nat /\ now <= now' /\ now' < Total + OneCall
      /\ now' - progressed < IdleTime + OneCall
      /\ cancelled => now' - since <= OneCall
      /\ blocked' = FALSE /\ OneCall' = OneCall
  BY ReturnsSoon
<1>0. /\ now \in Nat /\ OneCall \in Nat /\ IdleTime \in Nat /\ IdleTime > 0 /\ OneCall > 0
      /\ LongestLookup \in Nat /\ since \in Nat /\ progressed \in Nat
      /\ MaxAddresses \in Nat /\ ConnectTimeout \in Nat
  BY TransportNumbers, CallTakes
<1>2. now' - progressed' < IdleTime + OneCall
  <2>1. CASE progressed' = progressed
    BY <1>1, <2>1
  <2>2. CASE progressed' = now'
    <3>1. now' \in Nat
      BY <1>1
    <3>2. \A t \in Nat : t - t < IdleTime + OneCall
      BY ONLY <1>0
    <3> QED BY <2>2, <3>1, <3>2
  <2> QED BY <2>1, <2>2
<1>3. cancelled => now' - since <= LongestLookup + MaxAddresses * ConnectTimeout + OneCall
  <2> SUFFICES ASSUME cancelled
               PROVE  now' - since <= LongestLookup + MaxAddresses * ConnectTimeout + OneCall
    OBVIOUS
  <2>1. now' - since <= OneCall /\ now' \in Nat
    BY <1>1
  <2>2. now' - since \in Int
    BY ONLY <1>0, <2>1
  <2> QED BY ONLY <1>0, <2>1, <2>2, WithinLeave
<1> QED BY <1>1, <1>2, <1>3 DEF Times, Exchanging

\* A step of the exchange that leaves the hop and what was received.
LEMMA ExchangeStays ==
    ASSUME TransportAssumption, TransportInv, Returns,
           step' \in Exchanging \union {"over"}, step' = "over" <=> outcome' # "none",
           step' \in {"write", "head"} => step \in {"write", "head"},
           progressed' = progressed \/ progressed' = now',
           UNCHANGED <<cancelled, since, hop, addresses, body, received, log>>,
           toWrite' \in 0 .. 2, head' \in 0 .. HeadLimit, framing' \in 0 .. HeadLimit,
           outcome' # "ok" \/ (step = "body" /\ (body.kind = "close" \/ Complete))
    PROVE  TransportInv'
<1>1. /\ now' \in Nat /\ now <= now' /\ blocked' = FALSE /\ step \in Exchanging
      /\ inner' = inner /\ inner' \in 0 .. MaxInner
  BY ReturnsSoon
<1>2. TransportTyped
  BY DEF TransportInv
<1>3. since' <= now' /\ progressed' \in Nat /\ progressed' <= now'
  <2>1. /\ now \in Nat /\ since \in Nat /\ progressed \in Nat /\ since <= now /\ progressed <= now
    BY TransportNumbers
  <2>2. since' = since /\ (progressed' = progressed \/ progressed' = now')
    OBVIOUS
  <2> QED BY ONLY <1>1, <2>1, <2>2
<1>4. /\ body \in Bodies \union {NoBody} /\ addresses \in Seq(DOMAIN AddressClass)
      /\ log \in Seq(Used) /\ followed \in 0 .. MaxRedirects
  BY <1>2 DEF TransportTyped, TransportTypeOK
<1>5. TransportTyped'
  BY <1>1, <1>2, <1>3, <1>4, TransportNumbers, TypedAfter DEF hop
<1>6. Times'
  BY TimesGoOn
<1>7. Directed' /\ Logged'
  BY <1>1, DirectedStays DEF TransportInv, Early, Exchanging
<1>8. Counted'
  <2>1. Counted
    BY DEF TransportInv
  <2>2. step' \in Early \union {"write", "head"} => step \in Early \union {"write", "head"}
    BY DEF Exchanging, Early
  <2> QED BY <2>1, <2>2 DEF Counted, WithinLimit, NeverTruncated, Complete
<1> QED BY <1>5, <1>6, <1>7, <1>8 DEF TransportInv

\* What the exchange counts.
LEMMA ExchangeRanges ==
    ASSUME TransportInv
    PROVE  /\ toWrite \in 0 .. 2 /\ head \in 0 .. HeadLimit /\ framing \in 0 .. HeadLimit
           /\ toWrite > 0 => toWrite - 1 \in 0 .. 2
BY DEF TransportInv, TransportTyped, TransportTypeOK

\* The call failed.
LEMMA BrokenKeeps ==
    ASSUME TransportAssumption, TransportInv, Broken
    PROVE  TransportInv'
BY ExchangeStays, ExchangeRanges DEF Broken, End, reading

\* A piece of the request is written.
LEMMA WritesKeeps ==
    ASSUME TransportAssumption, TransportInv, Writes
    PROVE  TransportInv'
<1>1. /\ step = "write" /\ Returns /\ progressed' = now' /\ toWrite' = toWrite - 1
      /\ toWrite > 0 /\ step' = step /\ outcome' = outcome
      /\ UNCHANGED <<cancelled, since, hop, addresses, body, received, log, head, framing>>
  BY DEF Writes, Progresses, reading
<1>2. outcome = "none"
  BY <1>1 DEF TransportInv, TransportTyped, TransportTypeOK
<1> QED BY <1>1, <1>2, ExchangeStays, ExchangeRanges DEF Exchanging

\* All of it is sent.
LEMMA FlushesKeeps ==
    ASSUME TransportAssumption, TransportInv, Flushes
    PROVE  TransportInv'
<1>1. /\ step = "write" /\ Returns /\ progressed' = progressed /\ toWrite' = toWrite
      /\ step' = "head" /\ outcome' = outcome
      /\ UNCHANGED <<cancelled, since, hop, addresses, body, received, log, head, framing>>
  BY DEF Flushes, reading
<1>2. outcome = "none"
  BY <1>1 DEF TransportInv, TransportTyped, TransportTypeOK
<1> QED BY <1>1, <1>2, ExchangeStays, ExchangeRanges DEF Exchanging

\* Part of a head is read.
LEMMA ReadsHeadKeeps ==
    ASSUME TransportAssumption, TransportInv, ReadsHead
    PROVE  TransportInv'
<1>1. /\ step = "head" /\ Returns /\ progressed' = now' /\ toWrite' = toWrite
      /\ UNCHANGED <<cancelled, since, hop, addresses, body, received, log, framing>>
      /\ \/ head < HeadLimit /\ head' = head + 1 /\ step' = step /\ outcome' = outcome
         \/ head' = head /\ step' = "over" /\ outcome' = "failed"
  BY DEF ReadsHead, Progresses, RoomForHead, End
<1>2. outcome = "none"
  BY <1>1 DEF TransportInv, TransportTyped, TransportTypeOK
<1>3. head' \in 0 .. HeadLimit
  <2>1. head \in Nat /\ HeadLimit \in Nat /\ head <= HeadLimit
    BY TransportNumbers
  <2> QED BY <1>1, <2>1
<1>4. toWrite' \in 0 .. 2 /\ framing' \in 0 .. HeadLimit
  BY <1>1, ExchangeRanges
<1> QED BY <1>1, <1>2, <1>3, <1>4, ExchangeStays DEF Exchanging

\* Chunk lines and trailers.
LEMMA FramingKeeps ==
    ASSUME TransportAssumption, TransportInv, Framing
    PROVE  TransportInv'
<1>1. /\ step = "body" /\ Returns /\ progressed' = now' /\ toWrite' = toWrite
      /\ UNCHANGED <<cancelled, since, hop, addresses, body, received, log, head>>
      /\ \/ framing < HeadLimit /\ framing' = framing + 1 /\ step' = step /\ outcome' = outcome
         \/ framing' = framing /\ step' = "over" /\ outcome' = "failed"
  BY DEF Framing, Progresses, End
<1>2. outcome = "none"
  BY <1>1 DEF TransportInv, TransportTyped, TransportTypeOK
<1>3. framing' \in 0 .. HeadLimit
  <2>1. framing \in Nat /\ HeadLimit \in Nat /\ framing <= HeadLimit
    BY TransportNumbers
  <2> QED BY <1>1, <2>1
<1>4. toWrite' \in 0 .. 2 /\ head' \in 0 .. HeadLimit
  BY <1>1, ExchangeRanges
<1> QED BY <1>1, <1>2, <1>3, <1>4, ExchangeStays DEF Exchanging

\* The last chunk, and the end of the stream.
LEMMA LastChunkKeeps ==
    ASSUME TransportAssumption, TransportInv, LastChunk
    PROVE  TransportInv'
<1>1. /\ step = "body" /\ Complete /\ Returns /\ progressed' = now' /\ toWrite' = toWrite
      /\ UNCHANGED <<cancelled, since, hop, addresses, body, received, log, head, framing>>
      /\ step' = "over" /\ outcome' = "ok"
  BY DEF LastChunk, Progresses, End, reading
<1> QED BY <1>1, ExchangeStays, ExchangeRanges DEF Exchanging

LEMMA ServerClosesKeeps ==
    ASSUME TransportAssumption, TransportInv, ServerCloses
    PROVE  TransportInv'
<1>1. /\ step \in {"head", "body"} /\ Returns /\ progressed' = progressed /\ toWrite' = toWrite
      /\ UNCHANGED <<cancelled, since, hop, addresses, body, received, log, head, framing>>
      /\ step' = "over"
      /\ \/ step = "body" /\ body.kind = "close" /\ outcome' = "ok"
         \/ outcome' = "failed"
  BY DEF ServerCloses, End, reading, MayEnd
<1> QED BY <1>1, ExchangeStays, ExchangeRanges DEF Exchanging

\* Numbers of the time that may still be taken.
LEMMA AttemptsLeft ==
    ASSUME NEW most \in Nat, NEW spare \in Nat, NEW each \in Nat, spare <= most
    PROVE  /\ (most - spare) * each \in Nat
           /\ spare > 0 => /\ (most - (spare - 1)) * each = (most - spare) * each + each
                          /\ (most - spare) * each + each <= most * each
<1> DEFINE k == most - spare
<1>1. k \in Nat /\ most = k + spare
  OBVIOUS
<1>2. most - (spare - 1) = k + 1
  BY <1>1
<1> HIDE DEF k
<1>3. k * each \in Nat /\ (k + 1) * each = k * each + each
  BY <1>1
<1>4. ASSUME spare > 0 PROVE k * each + each <= most * each
  <2> DEFINE l == spare - 1
  <2>1. l \in Nat /\ most = (k + 1) + l
    BY <1>1, <1>4
  <2> HIDE DEF l
  <2>2. ((k + 1) + l) * each = (k + 1) * each + l * each /\ l * each \in Nat
    BY <1>1, <2>1
  <2>3. \A a, b, c \in Nat : c = a + b => a <= c
    OBVIOUS
  <2>4. k * each + each \in Nat /\ most * each \in Nat
    BY <1>1, <1>3
  <2>5. most * each = (k * each + each) + l * each
    BY <1>3, <2>1, <2>2
  <2> QED BY ONLY <2>2, <2>3, <2>4, <2>5
<1> QED BY <1>2, <1>3, <1>4 DEF k

\* The token is raised.
LEMMA CancelKeeps ==
    ASSUME TransportAssumption, TransportInv, Cancel
    PROVE  TransportInv'
<1>1. /\ cancelled' = TRUE /\ since' = now /\ now' = now
      /\ UNCHANGED <<hop, step, addresses, toWrite, blocked, inner, progressed, reading, outcome, log>>
  BY DEF Cancel
<1>2. TransportTyped'
  <2>1. now \in Nat /\ progressed \in Nat /\ progressed <= now
    BY TransportNumbers
  <2>2. now' \in Nat /\ since' \in 0 .. now' /\ progressed' \in 0 .. now'
    BY <1>1, <2>1
  <2> QED BY <1>1, <2>2 DEF TransportInv, TransportTyped, TransportTypeOK, hop, reading
<1>3. Times'
  <2>1. /\ now \in Nat /\ LongestLookup \in Nat /\ MaxAddresses \in Nat
        /\ ConnectTimeout \in Nat /\ OneCall \in Nat /\ Len(addresses) \in Nat
        /\ Slices(inner) \in Nat
    BY TransportNumbers, CallTakes
  <2>2. now' - since' = 0
    BY ONLY <1>1, <2>1
  <2>3. now' - since' <= LongestLookup + MaxAddresses * ConnectTimeout + OneCall
    BY ONLY <2>1, <2>2, WithinLeave
  <2>4. ASSUME step = "connect"
        PROVE  now' - since' <= LongestLookup + (MaxAddresses - Len(addresses)) * ConnectTimeout
    <3>1. Len(addresses) <= MaxAddresses
      BY <2>4 DEF TransportInv, Times
    <3>2. (MaxAddresses - Len(addresses)) * ConnectTimeout \in Nat
      BY <2>1, <3>1, AttemptsLeft
    <3> QED BY ONLY <2>1, <2>2, <3>2
  <2>5. Times
    BY DEF TransportInv
  <2>6. OneCall' = OneCall /\ Slices(inner)' = Slices(inner)
    BY <1>1 DEF OneCall, Slices
  <2>7. now' - since' <= Slices(inner)
    BY ONLY <2>1, <2>2
  <2> QED BY <1>1, <2>3, <2>4, <2>5, <2>6, <2>7 DEF Times
<1>4. Directed' /\ Logged'
  BY <1>1, DirectedStays DEF TransportInv
<1>5. Counted'
  BY <1>1, CountedStays DEF TransportInv, reading
<1> QED BY <1>2, <1>3, <1>4, <1>5 DEF TransportInv

\* The token is looked at before a hop.
LEMMA PrepareKeeps ==
    ASSUME TransportAssumption, TransportInv, Prepare
    PROVE  TransportInv'
<1>1. /\ step = "prepare"
      /\ UNCHANGED <<time, hop, addresses, toWrite, blocked, inner, progressed, reading, log>>
      /\ \/ cancelled /\ step' = "over" /\ outcome' = "cancelled"
         \/ ~cancelled /\ step' = "resolve" /\ outcome' = outcome
  BY DEF Prepare, End
<1>2. TransportTyped'
  BY <1>1 DEF TransportInv, TransportTyped, TransportTypeOK, hop, reading, time, Exchanging
<1>3. ~blocked
  BY <1>1 DEF TransportInv, TransportTyped, TransportTypeOK, Exchanging
<1>4. Times'
  <2>1. OneCall' = OneCall
    BY <1>1 DEF OneCall
  <2>2. step = "prepare" /\ Times /\ cancelled' = cancelled /\ since' = since /\ now' = now
    BY <1>1 DEF TransportInv, time
  <2> QED BY <1>1, <1>3, <2>1, <2>2 DEF Times, Exchanging
<1>5. Directed' /\ Logged'
  BY <1>1, DirectedStays DEF TransportInv, Early
<1>6. Counted'
  BY <1>1, CountedStays DEF TransportInv, reading, Early
<1> QED BY <1>2, <1>4, <1>5, <1>6 DEF TransportInv

\* No address is left, or no time.
LEMMA NoAddressKeeps ==
    ASSUME TransportAssumption, TransportInv, NoAddress
    PROVE  TransportInv'
<1>1. /\ step = "connect" /\ step' = "over" /\ outcome' = "failed"
      /\ UNCHANGED <<time, hop, addresses, toWrite, blocked, inner, progressed, reading, log>>
  BY DEF NoAddress, End
<1>2. TransportTyped'
  BY <1>1 DEF TransportInv, TransportTyped, TransportTypeOK, hop, reading, time, Exchanging
<1>3. ~blocked
  BY <1>1 DEF TransportInv, TransportTyped, TransportTypeOK, Exchanging
<1>4. Times'
  BY <1>1, <1>3, TimesOver
<1>5. Directed' /\ Logged'
  BY <1>1, DirectedStays DEF TransportInv, Early
<1>6. Counted'
  BY <1>1, CountedStays DEF TransportInv, reading, Early
<1> QED BY <1>2, <1>4, <1>5, <1>6 DEF TransportInv

\* The exchange is stopped between two calls.
LEMMA StopsHereKeeps ==
    ASSUME TransportAssumption, TransportInv, StopsHere
    PROVE  TransportInv'
<1>1. /\ step \in Exchanging /\ ~blocked /\ step' = "over"
      /\ outcome' \in {"cancelled", "timed out"}
      /\ UNCHANGED <<time, hop, addresses, toWrite, blocked, inner, progressed, reading, log>>
  BY DEF StopsHere, End
<1>2. TransportTyped'
  BY <1>1 DEF TransportInv, TransportTyped, TransportTypeOK, hop, reading, time, Exchanging
<1>4. Times'
  BY <1>1, TimesOver DEF TransportInv, TransportTyped, TransportTypeOK
<1>5. Directed' /\ Logged'
  BY <1>1, DirectedStays DEF TransportInv, Early
<1>6. Counted'
  BY <1>1, CountedStays DEF TransportInv, reading, Early
<1> QED BY <1>2, <1>4, <1>5, <1>6 DEF TransportInv

\* A call is made only while there is time for it and nobody has cancelled.
LEMMA BlockKeeps ==
    ASSUME TransportAssumption, TransportInv, Block
    PROVE  TransportInv'
<1>1. /\ step \in Exchanging /\ ~MustStop /\ blocked' = TRUE /\ inner' = 0
      /\ UNCHANGED <<time, hop, step, addresses, toWrite, progressed, reading, outcome, log>>
  BY DEF Block
<1>2. TransportTyped'
  BY <1>1, TransportNumbers DEF TransportInv, TransportTyped, TransportTypeOK, hop, reading, time
<1>3. ~cancelled /\ now < Total /\ now - progressed < IdleTime
  <2>1. ~cancelled /\ ~(now >= Total) /\ ~(now - progressed >= IdleTime)
    BY <1>1 DEF MustStop, TimedOut
  <2>2. now \in Nat /\ Total \in Nat /\ progressed \in Nat /\ IdleTime \in Nat
    BY TransportNumbers
  <2> QED BY ONLY <2>1, <2>2
<1>4. Times'
  <2>1. /\ now \in Nat /\ Total \in Nat /\ progressed \in Nat /\ IdleTime \in Nat
        /\ Slice \in Nat /\ Slice > 0
    BY TransportNumbers
  <2>2. Slices(inner)' = 0 /\ OneCall' = Slice
    <3>1. Slice * 0 = 0 /\ Slice * (0 + 1) = Slice
      BY ONLY <2>1
    <3> QED BY <1>1, <3>1 DEF OneCall, Slices
  <2>3. /\ now < Total + Slice /\ now < Total + 0
        /\ now - progressed < IdleTime + 0 /\ now - progressed < IdleTime + Slice
    BY ONLY <1>3, <2>1
  <2>4. /\ now' = now /\ cancelled' = cancelled /\ step' = step /\ progressed' = progressed
        /\ step \in Exchanging
    BY <1>1 DEF time
  <2> QED BY <1>3, <2>2, <2>3, <2>4 DEF Times, Exchanging
<1>5. Directed' /\ Logged'
  BY <1>1, DirectedStays DEF TransportInv
<1>6. Counted'
  BY <1>1, CountedStays DEF TransportInv, reading
<1> QED BY <1>2, <1>4, <1>5, <1>6 DEF TransportInv

\* A call that the server leaves waiting ends with its slice.
LEMMA SliceEndsKeeps ==
    ASSUME TransportAssumption, TransportInv, SliceEnds
    PROVE  TransportInv'
<1>1. /\ blocked /\ blocked' = FALSE /\ now' = now + Slice /\ inner' = inner
      /\ UNCHANGED <<cancelled, since, hop, step, addresses, toWrite, progressed, reading,
                     outcome, log>>
  BY DEF SliceEnds
<1>2. /\ now \in Nat /\ Slice \in Nat /\ since \in Nat /\ progressed \in Nat /\ Total \in Nat
      /\ since <= now /\ progressed <= now /\ IdleTime \in Nat
  BY TransportNumbers
<1>3. TransportTyped'
  <2>1. now' \in Nat /\ since' \in 0 .. now' /\ progressed' \in 0 .. now'
    <3>1. now' = now + Slice /\ since' = since /\ progressed' = progressed
      BY <1>1
    <3> QED BY ONLY <1>2, <3>1
  <2> QED BY <1>1, <2>1 DEF TransportInv, TransportTyped, TransportTypeOK, hop, reading
<1>4. Times'
  <2>1. /\ now < Total + Slices(inner) /\ now - progressed < IdleTime + Slices(inner)
        /\ cancelled => now - since <= Slices(inner)
        /\ step \in Exchanging
    BY <1>1 DEF TransportInv, Times, TransportTyped, TransportTypeOK
  <2>2. Slices(inner) \in Nat /\ OneCall \in Nat /\ OneCall = Slices(inner) + Slice
    BY CallTakes
  <2>3. /\ now + Slice < Total + OneCall /\ (now + Slice) - progressed < IdleTime + OneCall
    BY ONLY <1>2, <2>1, <2>2
  <2>4. cancelled => (now + Slice) - since
                         <= LongestLookup + MaxAddresses * ConnectTimeout + OneCall
    <3> SUFFICES ASSUME cancelled
                 PROVE  (now + Slice) - since
                            <= LongestLookup + MaxAddresses * ConnectTimeout + OneCall
      OBVIOUS
    <3>0. now - since <= Slices(inner)
      BY <2>1
    <3>1. (now + Slice) - since \in Int /\ (now + Slice) - since <= OneCall
      BY ONLY <1>2, <2>2, <3>0
    <3>2. LongestLookup \in Nat /\ MaxAddresses \in Nat /\ ConnectTimeout \in Nat
      BY TransportNumbers
    <3> QED BY ONLY <2>2, <3>1, <3>2, WithinLeave
  <2>5. OneCall' = OneCall
    BY <1>1 DEF OneCall
  <2> QED BY <1>1, <2>1, <2>3, <2>4, <2>5 DEF Times, Exchanging
<1>5. Directed' /\ Logged'
  BY <1>1, DirectedStays DEF TransportInv
<1>6. Counted'
  BY <1>1, CountedStays DEF TransportInv, reading
<1> QED BY <1>3, <1>4, <1>5, <1>6 DEF TransportInv

\* A TLS session that goes on inside its call.
LEMMA HeldByTlsKeeps ==
    ASSUME TransportAssumption, TransportInv, HeldByTls
    PROVE  TransportInv'
<1>1. /\ blocked /\ to \in Secure /\ inner < MaxInner /\ inner' = inner + 1
      /\ UNCHANGED <<cancelled, since, hop, step, addresses, toWrite, blocked, progressed, reading,
                     outcome, log>>
  BY DEF HeldByTls
<1>2. PICK d \in 0 .. Slice - 1 : now' = now + d
  BY DEF HeldByTls
<1>3. /\ now \in Nat /\ Slice \in Nat /\ since \in Nat /\ progressed \in Nat /\ Total \in Nat
      /\ since <= now /\ progressed <= now /\ IdleTime \in Nat
      /\ inner \in Nat /\ MaxInner \in Nat /\ Slice > 0
  BY TransportNumbers
<1>4. d \in Nat /\ d < Slice
  BY ONLY <1>2, <1>3
<1>5. TransportTyped'
  <2>1. /\ now' \in Nat /\ since' \in 0 .. now' /\ progressed' \in 0 .. now'
        /\ inner' \in 0 .. MaxInner
    <3>1. since' = since /\ progressed' = progressed
      BY <1>1
    <3>2. inner < MaxInner /\ inner' = inner + 1
      BY <1>1
    <3> QED BY ONLY <1>2, <1>3, <1>4, <3>1, <3>2
  <2> QED BY <1>1, <2>1 DEF TransportInv, TransportTyped, TransportTypeOK, hop, reading
<1>6. Times'
  <2>1. /\ now < Total + Slices(inner) /\ now - progressed < IdleTime + Slices(inner)
        /\ cancelled => now - since <= Slices(inner)
        /\ step \in Exchanging
    BY <1>1 DEF TransportInv, Times, TransportTyped, TransportTypeOK
  <2> DEFINE held == Slices(inner)  more == Slices(inner)'  call == OneCall'
  <2>2. held \in Nat /\ more = held + Slice /\ call = more + Slice
    <3>1. held \in Nat /\ OneCall = held + Slice
      BY CallTakes
    <3>2. more = Slice * (inner + 1) /\ call = Slice * ((inner + 1) + 1)
      BY <1>1 DEF Slices, OneCall
    <3>3. Slice * ((inner + 1) + 1) = Slice * (inner + 1) + Slice
      BY ONLY <1>3
    <3> QED BY <3>1, <3>2, <3>3 DEF OneCall, Slices
  <2>3. now < Total + held /\ now - progressed < IdleTime + held
    BY <2>1
  <2>4. cancelled => now - since <= held
    BY <2>1
  <2> HIDE DEF held, more, call
  <2>5. /\ now + d < Total + more /\ (now + d) - progressed < IdleTime + more
        /\ now + d < Total + call /\ (now + d) - progressed < IdleTime + call
    BY ONLY <1>3, <1>4, <2>2, <2>3
  <2>6. cancelled => (now + d) - since <= more
    BY ONLY <1>3, <1>4, <2>2, <2>4
  <2>7. cancelled => (now + d) - since
                         <= LongestLookup + MaxAddresses * ConnectTimeout + call
    <3> SUFFICES ASSUME cancelled
                 PROVE  (now + d) - since
                            <= LongestLookup + MaxAddresses * ConnectTimeout + call
      OBVIOUS
    <3>0. now - since <= held
      BY <2>4
    <3>1. (now + d) - since \in Int /\ (now + d) - since <= call /\ call \in Nat
      BY ONLY <1>3, <1>4, <2>2, <3>0
    <3>2. LongestLookup \in Nat /\ MaxAddresses \in Nat /\ ConnectTimeout \in Nat
      BY TransportNumbers
    <3> QED BY ONLY <3>1, <3>2, WithinLeave
  <2> QED BY <1>1, <1>2, <2>1, <2>5, <2>6, <2>7 DEF Times, Exchanging, more, call
<1>7. Directed' /\ Logged'
  BY <1>1, DirectedStays DEF TransportInv
<1>8. Counted'
  BY <1>1, CountedStays DEF TransportInv, reading
<1> QED BY <1>5, <1>6, <1>7, <1>8 DEF TransportInv

\* The resolver answers: its answer is taken only when all of it is of the
\* origin's class.
LEMMA ResolveKeeps ==
    ASSUME TransportAssumption, TransportInv, Resolve
    PROVE  TransportInv'
<1>1. PICK answer \in LookupAnswers, d \in 0 .. LongestLookup :
         /\ now' = now + d
         /\ \/ /\ CheckedAddresses(answer) /\ step' = "connect" /\ addresses' = answer
               /\ outcome' = outcome
            \/ step' = "over" /\ outcome' = "failed" /\ addresses' = addresses
  BY DEF Resolve, End
<1>2. /\ step = "resolve"
      /\ UNCHANGED <<cancelled, since, hop, toWrite, blocked, inner, progressed, reading, log>>
  BY DEF Resolve
<1>3. /\ now \in Nat /\ LongestLookup \in Nat /\ since \in Nat /\ progressed \in Nat
      /\ Total \in Nat /\ OneCall \in Nat /\ since <= now /\ progressed <= now
      /\ MaxAddresses \in Nat /\ ConnectTimeout \in Nat
  BY TransportNumbers, CallTakes
<1>4. d \in Nat /\ d <= LongestLookup
  BY ONLY <1>1, <1>3
<1>5. answer \in Seq(DOMAIN AddressClass) /\ Len(answer) <= MaxAddresses /\ Len(answer) \in Nat
  BY LenProperties DEF TransportAssumption
<1>6. ~blocked
  BY <1>2 DEF TransportInv, TransportTyped, TransportTypeOK, Exchanging
<1>7. TransportTyped'
  <2>1. now' \in Nat /\ since' \in 0 .. now' /\ progressed' \in 0 .. now'
    <3>1. now' = now + d /\ since' = since /\ progressed' = progressed
      BY <1>1, <1>2
    <3> QED BY ONLY <1>3, <1>4, <3>1
  <2>2. addresses' \in Seq(DOMAIN AddressClass)
    BY <1>1, <1>5 DEF TransportInv, TransportTyped
  <2> QED BY <1>1, <1>2, <1>6, <2>1, <2>2
          DEF TransportInv, TransportTyped, TransportTypeOK, hop, reading, Exchanging
<1>8. Times'
  <2>1. CASE step' = "over"
    BY <1>2, <1>6, <2>1, TimesOver
  <2>2. CASE step' = "connect"
    <3>1. addresses' = answer
      BY <1>1, <2>2
    <3>2. now + d < Total + LongestLookup + OneCall
      <4>1. now < Total + OneCall
        BY <1>2 DEF TransportInv, Times
      <4> QED BY ONLY <1>3, <1>4, <4>1
    <3>3. cancelled =>
             (now + d) - since
                 <= LongestLookup + (MaxAddresses - Len(answer)) * ConnectTimeout
      <4> SUFFICES ASSUME cancelled
                   PROVE  (now + d) - since
                              <= LongestLookup + (MaxAddresses - Len(answer)) * ConnectTimeout
        OBVIOUS
      <4>1. since = now
        BY <1>2 DEF TransportInv, Times
      <4>2. (MaxAddresses - Len(answer)) * ConnectTimeout \in Nat
        BY <1>3, <1>5, AttemptsLeft
      <4> QED BY ONLY <1>3, <1>4, <4>1, <4>2
    <3>4. OneCall' = OneCall
      BY <1>2 DEF OneCall
    <3> QED BY <1>1, <1>2, <1>5, <1>6, <2>2, <3>1, <3>2, <3>3, <3>4 DEF Times, Exchanging
  <2> QED BY <1>1, <2>1, <2>2
<1>9. Directed'
  <2>1. step' = "connect" => \A i \in DOMAIN addresses' : AddressClass[addresses'[i]] = ClassOf[to]
    BY <1>1 DEF CheckedAddresses
  <2> QED BY <1>2, <2>1 DEF TransportInv, Directed, hop
<1>10. Logged'
  BY <1>2 DEF TransportInv, Logged, SentWhereMeant, DroppedForGood, hop, Early
<1>11. Counted'
  BY <1>1, <1>2, CountedStays DEF TransportInv, reading, Early
<1> QED BY <1>7, <1>8, <1>9, <1>10, <1>11 DEF TransportInv

\* What one attempt to connect may take.
LEMMA AttemptTakes ==
    ASSUME TransportAssumption, TransportInv, now < Total, NEW d \in 0 .. Attempt
    PROVE  d \in Nat /\ d <= ConnectTimeout /\ now + d <= Total
<1>1. now \in Nat /\ Total \in Nat /\ ConnectTimeout \in Nat
  BY TransportNumbers
<1> QED BY ONLY <1>1, now < Total, d \in 0 .. Attempt DEF Attempt, Lesser

\* An attempt that failed leaves the addresses after it.
LEMMA ConnectFailsKeeps ==
    ASSUME TransportAssumption, TransportInv, ConnectFails
    PROVE  TransportInv'
<1>1. /\ step = "connect" /\ addresses # << >> /\ now < Total /\ addresses' = Tail(addresses)
      /\ UNCHANGED <<cancelled, since, hop, step, toWrite, blocked, inner, progressed, reading,
                     outcome, log>>
  BY DEF ConnectFails
<1>2. PICK d \in {0, Attempt} : now' = now + d
  BY DEF ConnectFails
<1>3. /\ now \in Nat /\ LongestLookup \in Nat /\ since \in Nat /\ progressed \in Nat
      /\ Total \in Nat /\ OneCall \in Nat /\ since <= now /\ progressed <= now
      /\ MaxAddresses \in Nat /\ ConnectTimeout \in Nat /\ OneCall > 0
  BY TransportNumbers, CallTakes
<1>4. d \in Nat /\ d <= ConnectTimeout /\ now + d <= Total
  <2>1. Attempt \in Nat
    BY ONLY <1>1, <1>3 DEF Attempt, Lesser
  <2>2. d \in 0 .. Attempt
    BY <1>2, <2>1
  <2> QED BY <1>1, <2>2, AttemptTakes
<1>5. addresses \in Seq(DOMAIN AddressClass)
  BY DEF TransportInv, TransportTyped
<1>6. /\ addresses' \in Seq(DOMAIN AddressClass) /\ Len(addresses) \in Nat \ {0}
      /\ Len(addresses') = Len(addresses) - 1
      /\ \A i \in 1 .. Len(addresses) - 1 : addresses'[i] = addresses[i + 1]
  BY <1>1, <1>5, LenProperties, EmptySeq, HeadTailProperties
<1>7. ~blocked
  BY <1>1 DEF TransportInv, TransportTyped, TransportTypeOK, Exchanging
<1>8. TransportTyped'
  <2>1. now' \in Nat /\ since' \in 0 .. now' /\ progressed' \in 0 .. now'
    <3>1. now' = now + d /\ since' = since /\ progressed' = progressed
      BY <1>1, <1>2
    <3> QED BY ONLY <1>3, <1>4, <3>1
  <2> QED BY <1>1, <1>6, <1>7, <2>1
          DEF TransportInv, TransportTyped, TransportTypeOK, hop, reading, Exchanging
<1>9. Times'
  <2> DEFINE n == Len(addresses)
  <2>1. n \in Nat /\ n > 0 /\ n <= MaxAddresses /\ Len(addresses') = n - 1
    BY <1>1, <1>6 DEF TransportInv, Times
  <2> HIDE DEF n
  <2>2. now + d < Total + LongestLookup + OneCall
    BY ONLY <1>3, <1>4
  <2>3. cancelled => (now + d) - since
                         <= LongestLookup + (MaxAddresses - (n - 1)) * ConnectTimeout
    <3> SUFFICES ASSUME cancelled
                 PROVE  (now + d) - since
                            <= LongestLookup + (MaxAddresses - (n - 1)) * ConnectTimeout
      OBVIOUS
    <3>1. now - since <= LongestLookup + (MaxAddresses - n) * ConnectTimeout
      BY <1>1 DEF TransportInv, Times, n
    <3>2. /\ (MaxAddresses - n) * ConnectTimeout \in Nat
          /\ (MaxAddresses - (n - 1)) * ConnectTimeout
                 = (MaxAddresses - n) * ConnectTimeout + ConnectTimeout
      BY ONLY <1>3, <2>1, AttemptsLeft
    <3> DEFINE p == (MaxAddresses - n) * ConnectTimeout
    <3>3. p \in Nat /\ now - since <= LongestLookup + p
      BY <3>1, <3>2
    <3> HIDE DEF p
    <3>4. (now + d) - since <= LongestLookup + (p + ConnectTimeout)
      BY ONLY <1>3, <1>4, <3>3
    <3> QED BY <3>2, <3>4 DEF p
  <2>4. n - 1 <= MaxAddresses
    BY ONLY <1>3, <2>1
  <2>5. OneCall' = OneCall
    BY <1>1 DEF OneCall
  <2> QED BY <1>1, <1>2, <1>7, <2>1, <2>2, <2>3, <2>4, <2>5 DEF Times, Exchanging
<1>10. Directed'
  <2>1. \A i \in DOMAIN addresses' : AddressClass[addresses'[i]] = ClassOf[to]
    <3>1. DOMAIN addresses' = 1 .. Len(addresses') /\ DOMAIN addresses = 1 .. Len(addresses)
      BY <1>5, <1>6, LenProperties
    <3>2. \A i \in 1 .. Len(addresses) - 1 : i + 1 \in 1 .. Len(addresses)
      BY ONLY <1>6
    <3>3. \A i \in DOMAIN addresses : AddressClass[addresses[i]] = ClassOf[to]
      BY <1>1 DEF TransportInv, Directed
    <3> QED BY <1>6, <3>1, <3>2, <3>3
  <2> QED BY <1>1, <2>1 DEF TransportInv, Directed, hop
<1>11. Logged'
  BY <1>1 DEF TransportInv, Logged, SentWhereMeant, DroppedForGood, hop
<1>12. Counted'
  BY <1>1, CountedStays DEF TransportInv, reading
<1> QED BY <1>8, <1>9, <1>10, <1>11, <1>12 DEF TransportInv

\* What is sent when an address was reached.
LEMMA SentHere ==
    ASSUME TransportInv, step = "connect", addresses # << >>
    PROVE  /\ Sent \in Used
           /\ Sent.origin = to /\ Sent.credentials = credentials /\ Sent.post = post
           /\ AddressClass[Sent.address] = ClassOf[to]
<1>1. /\ addresses \in Seq(DOMAIN AddressClass) /\ to \in Origins
      /\ credentials \in BOOLEAN /\ post \in BOOLEAN
  BY DEF TransportInv, TransportTyped, TransportTypeOK
<1>2. /\ Head(addresses) = addresses[1] /\ Head(addresses) \in DOMAIN AddressClass
      /\ 1 \in DOMAIN addresses
  <2>1. Len(addresses) \in Nat \ {0} /\ DOMAIN addresses = 1 .. Len(addresses)
    BY <1>1, LenProperties, EmptySeq
  <2> QED BY <1>1, <2>1, HeadTailProperties
<1>3. \A i \in DOMAIN addresses : AddressClass[addresses[i]] = ClassOf[to]
  BY DEF TransportInv, Directed
<1> QED BY <1>1, <1>2, <1>3 DEF Sent, Used

\* What was sent, and where, after one more connection.
LEMMA LoggedMore ==
    ASSUME TransportInv, step = "connect", addresses # << >>, log' = Append(log, Sent),
           UNCHANGED hop, step' = "write"
    PROVE  Logged'
<1>1. log \in Seq(Used) /\ Sent \in Used /\ followed \in Nat
  BY SentHere DEF TransportInv, TransportTyped, TransportTypeOK
<1> DEFINE n == Len(log)
<1>2. n \in Nat /\ DOMAIN log = 1 .. n
  BY <1>1, LenProperties
<1>3. /\ Len(log') = n + 1 /\ DOMAIN log' = 1 .. n + 1
      /\ log'[n + 1] = Sent /\ \A i \in 1 .. n : log'[i] = log[i]
  <2>1. log' = Append(log, Sent)
    OBVIOUS
  <2> QED BY <1>1, <2>1, AppendProperties, LenProperties
<1>4. n <= followed
  BY DEF TransportInv, Logged, Early
<1> HIDE DEF n
<1>5. \A i \in 1 .. n + 1 : i \in 1 .. n \/ i = n + 1
  BY ONLY <1>2
<1>6. /\ to = First \/ to \in Allowed
      /\ ClassOf[to] = ClassOf[First] /\ (First \in Secure => to \in Secure)
      /\ credentials => to = First
      /\ post => followed = 0
  BY DEF TransportInv, Directed
<1>7. post => n + 1 = 1
  BY <1>2, <1>4, <1>6
<1>8. SentWhereMeant'
  <2>1. ASSUME NEW i \in DOMAIN log'
        PROVE  /\ log'[i].credentials => log'[i].origin = First
               /\ log'[i].post => i = 1
               /\ log'[i].origin = First \/ log'[i].origin \in Allowed
               /\ ClassOf[log'[i].origin] = ClassOf[First]
               /\ AddressClass[log'[i].address] = ClassOf[First]
               /\ First \in Secure => log'[i].origin \in Secure
    <3>1. CASE i \in 1 .. n
      <4>1. log'[i] = log[i] /\ i \in DOMAIN log
        BY <1>2, <1>3, <3>1
      <4> QED BY <4>1 DEF TransportInv, Logged, SentWhereMeant
    <3>2. CASE i = n + 1
      <4>1. log'[i] = Sent
        BY <1>3, <3>2
      <4> QED BY <1>6, <1>7, <3>2, <4>1, SentHere
    <3> QED BY <1>3, <1>5, <2>1, <3>1, <3>2
  <2>2. Len(log') <= followed' + 1
    <3>1. followed' = followed
      BY DEF hop
    <3> QED BY ONLY <1>1, <1>2, <1>3, <1>4, <3>1
  <2> QED BY <2>1, <2>2 DEF SentWhereMeant
<1>9. DroppedForGood'
  <2>1. ASSUME NEW i \in DOMAIN log', NEW j \in DOMAIN log', i < j
        PROVE  /\ log'[j].credentials => log'[i].credentials
               /\ log'[i].origin \in Secure => log'[j].origin \in Secure
    <3>1. i \in 1 .. n /\ log'[i] = log[i] /\ i \in DOMAIN log
      <4>1. i \in 1 .. n
        BY ONLY <1>2, <1>3, <2>1, i \in DOMAIN log', j \in DOMAIN log'
      <4> QED BY <1>2, <1>3, <4>1
    <3>2. CASE j \in 1 .. n
      BY <1>2, <1>3, <2>1, <3>1, <3>2 DEF TransportInv, Logged, DroppedForGood
    <3>3. CASE j = n + 1
      <4>1. /\ log'[j].credentials = credentials /\ log'[j].origin = to
        BY <1>3, <3>3, SentHere
      <4> QED BY <3>1, <4>1 DEF TransportInv, Logged
    <3> QED BY <1>3, <1>5, <3>2, <3>3
  <2> QED BY <2>1 DEF DroppedForGood
<1>10. credentials' => \A i \in DOMAIN log' : log'[i].credentials
  <2>1. credentials' = credentials
    BY DEF hop
  <2>2. ASSUME credentials, NEW i \in DOMAIN log' PROVE log'[i].credentials
    <3>1. CASE i \in 1 .. n
      BY <1>2, <1>3, <2>2, <3>1 DEF TransportInv, Logged
    <3>2. CASE i = n + 1
      BY <1>3, <2>2, <3>2, SentHere
    <3> QED BY <1>3, <1>5, <3>1, <3>2
  <2> QED BY <2>1, <2>2
<1>11. \A i \in DOMAIN log' : log'[i].origin \in Secure => to' \in Secure
  <2>1. to' = to
    BY DEF hop
  <2>2. ASSUME NEW i \in DOMAIN log' PROVE log'[i].origin \in Secure => to \in Secure
    <3>1. CASE i \in 1 .. n
      BY <1>2, <1>3, <3>1 DEF TransportInv, Logged
    <3>2. CASE i = n + 1
      BY <1>3, <3>2, SentHere
    <3> QED BY <1>3, <1>5, <3>1, <3>2
  <2> QED BY <2>1, <2>2
<1> QED BY <1>8, <1>9, <1>10, <1>11 DEF Logged, Early

\* The exchange begins.
LEMMA ConnectedKeeps ==
    ASSUME TransportAssumption, TransportInv, Connected
    PROVE  TransportInv'
<1>1. /\ step = "connect" /\ addresses # << >> /\ now < Total /\ step' = "write"
      /\ toWrite' \in 0 .. 2 /\ head' = 0 /\ log' = Append(log, Sent)
      /\ UNCHANGED <<cancelled, since, hop, addresses, blocked, inner, framing, body, received, outcome>>
  BY DEF Connected
<1>2. PICK d \in 0 .. Attempt : now' = now + d /\ progressed' = now + d
  BY DEF Connected
<1>3. /\ now \in Nat /\ LongestLookup \in Nat /\ since \in Nat /\ progressed \in Nat
      /\ Total \in Nat /\ OneCall \in Nat /\ since <= now /\ progressed <= now
      /\ MaxAddresses \in Nat /\ ConnectTimeout \in Nat /\ OneCall > 0
      /\ IdleTime \in Nat /\ IdleTime > 0 /\ HeadLimit \in Nat
  BY TransportNumbers, CallTakes
<1>4. d \in Nat /\ d <= ConnectTimeout /\ now + d <= Total
  BY <1>1, AttemptTakes
<1>5. ~blocked
  BY <1>1 DEF TransportInv, TransportTyped, TransportTypeOK, Exchanging
<1>6. TransportTyped'
  <2>1. now' \in Nat /\ since' \in 0 .. now' /\ progressed' \in 0 .. now'
    <3>1. now' = now + d /\ since' = since /\ progressed' = now + d
      BY <1>1, <1>2
    <3> QED BY ONLY <1>3, <1>4, <3>1
  <2>2. log' \in Seq(Used) /\ head' \in 0 .. HeadLimit
    BY <1>1, <1>3, SentHere, AppendProperties DEF TransportInv, TransportTyped
  <2> QED BY <1>1, <1>5, <2>1, <2>2
          DEF TransportInv, TransportTyped, TransportTypeOK, hop, Exchanging
<1>7. Times'
  <2> DEFINE n == Len(addresses)
  <2>1. n \in Nat /\ n > 0 /\ n <= MaxAddresses
    BY <1>1, EmptySeq, LenProperties DEF TransportInv, TransportTyped, Times
  <2>2. cancelled => now - since <= LongestLookup + (MaxAddresses - n) * ConnectTimeout
    BY <1>1 DEF TransportInv, Times
  <2> HIDE DEF n
  <2>3. now + d < Total + OneCall
    BY ONLY <1>3, <1>4
  <2>4. \A t \in Nat : t - t < IdleTime + OneCall
    BY ONLY <1>3
  <2>5. now + d \in Nat
    BY ONLY <1>3, <1>4
  <2>6. cancelled => (now + d) - since
                         <= LongestLookup + MaxAddresses * ConnectTimeout + OneCall
    <3> SUFFICES ASSUME cancelled
                 PROVE  (now + d) - since
                            <= LongestLookup + MaxAddresses * ConnectTimeout + OneCall
      OBVIOUS
    <3> DEFINE p == (MaxAddresses - n) * ConnectTimeout  all == MaxAddresses * ConnectTimeout
    <3>1. p \in Nat /\ all \in Nat /\ p + ConnectTimeout <= all
      BY ONLY <1>3, <2>1, AttemptsLeft
    <3>2. now - since <= LongestLookup + p
      BY <2>2
    <3> HIDE DEF p, all
    <3>3. (now + d) - since <= LongestLookup + all + OneCall
      BY ONLY <1>3, <1>4, <3>1, <3>2
    <3> QED BY <3>3 DEF all
  <2>7. now' = now + d /\ progressed' = now + d /\ (now + d) - (now + d) < IdleTime + OneCall
    BY <1>2, <2>4, <2>5
  <2>8. OneCall' = OneCall
    BY <1>1 DEF OneCall
  <2> QED BY <1>1, <1>5, <2>3, <2>6, <2>7, <2>8 DEF Times, Exchanging
<1>8. Directed'
  BY <1>1 DEF TransportInv, Directed, hop
<1>9. Logged'
  BY <1>1, LoggedMore
<1>10. Counted'
  <2>1. Counted /\ received = 0
    BY <1>1 DEF TransportInv, Counted, Early
  <2> QED BY <1>1, <2>1 DEF Counted, WithinLimit, NeverTruncated, Complete
<1> QED BY <1>6, <1>7, <1>8, <1>9, <1>10 DEF TransportInv

\* A step of the exchange that stays in its hop, whatever it receives.
LEMMA ExchangeMoves ==
    ASSUME TransportAssumption, TransportInv, Returns,
           step' \in Exchanging \union {"over"}, step' = "over" <=> outcome' # "none",
           progressed' = now', UNCHANGED <<cancelled, since, hop, addresses, toWrite, head, log>>,
           framing' = 0, body' \in Bodies \union {NoBody}, received' \in Nat
    PROVE  TransportTyped' /\ Times' /\ Directed' /\ Logged'
<1>1. /\ now' \in Nat /\ now <= now' /\ blocked' = FALSE /\ step \in Exchanging
      /\ inner' = inner /\ inner' \in 0 .. MaxInner
  BY ReturnsSoon
<1>2. since' <= now' /\ progressed' \in Nat /\ progressed' <= now'
  <2>1. now \in Nat /\ since \in Nat /\ since <= now
    BY TransportNumbers
  <2>2. since' = since /\ progressed' = now'
    OBVIOUS
  <2> QED BY <1>1, <2>1, <2>2
<1>3. /\ addresses \in Seq(DOMAIN AddressClass)
      /\ log \in Seq(Used) /\ followed \in 0 .. MaxRedirects /\ TransportTyped
      /\ HeadLimit \in Nat
  BY TransportNumbers DEF TransportInv, TransportTyped, TransportTypeOK
<1>4. framing' \in 0 .. HeadLimit /\ toWrite' \in 0 .. 2 /\ head' \in 0 .. HeadLimit
  BY <1>3 DEF TransportTyped, TransportTypeOK
<1>5. TransportTyped'
  BY <1>1, <1>2, <1>3, <1>4, TransportNumbers, TypedAfter DEF hop
<1>6. Times'
  BY TimesGoOn
<1>7. Directed' /\ Logged'
  BY <1>1, DirectedStays DEF TransportInv, Early, Exchanging
<1> QED BY <1>5, <1>6, <1>7

\* The final response.
LEMMA AnsweredKeeps ==
    ASSUME TransportAssumption, TransportInv, Answered
    PROVE  TransportInv'
<1>1. /\ step = "head" /\ Returns /\ progressed' = now' /\ framing' = 0
      /\ UNCHANGED <<cancelled, since, hop, addresses, toWrite, head, received, log>>
  BY DEF Answered, Progresses
<1>2. PICK b \in Bodies :
         \/ step' = "over" /\ outcome' = "too large" /\ body' = body
         \/ /\ body' = b
            /\ \/ b.length = 0 /\ step' = "over" /\ outcome' = "ok"
               \/ step' = "body" /\ outcome' = outcome
  BY DEF Answered, Proceeds, End
<1>3. /\ outcome = "none" /\ body \in Bodies \union {NoBody} /\ received \in Nat
      /\ received = 0 /\ WithinLimit
  BY <1>1
     DEF TransportInv, TransportTyped, TransportTypeOK, Exchanging, Counted, Early
<1>4. TransportTyped' /\ Times' /\ Directed' /\ Logged'
  BY <1>1, <1>2, <1>3, ExchangeMoves DEF Exchanging
<1>5. Counted'
  BY <1>1, <1>2, <1>3 DEF Counted, WithinLimit, NeverTruncated, Complete, Early
<1> QED BY <1>4, <1>5 DEF TransportInv

\* A piece of the body.
LEMMA PieceKeeps ==
    ASSUME TransportAssumption, TransportInv, Piece
    PROVE  TransportInv'
<1>1. /\ step = "body" /\ Returns /\ progressed' = now' /\ framing' = 0 /\ body' = body
      /\ UNCHANGED <<cancelled, since, hop, addresses, toWrite, head, log>>
  BY DEF Piece, Progresses
<1>2. PICK piece \in 1 .. Lesser(2, body.length - received) :
         \/ step' = "over" /\ outcome' = "too large" /\ received' = received
         \/ /\ ~Crosses(piece) /\ received' = received + piece
            /\ \/ body.length = received + piece /\ step' = "over" /\ outcome' = "ok"
               \/ step' = "body" /\ outcome' = outcome
  BY DEF Piece, Proceeds, End
<1>3. /\ outcome = "none" /\ body \in Bodies \union {NoBody} /\ received \in Nat
      /\ received <= Limit
  BY <1>1
     DEF TransportInv, TransportTyped, TransportTypeOK, Exchanging, Counted, WithinLimit
<1>4. Limit \in Nat
  BY TransportNumbers
<1>5. piece \in Int /\ piece >= 1
  BY ONLY piece \in 1 .. Lesser(2, body.length - received)
<1>6. received' \in Nat /\ received' <= Limit
  <2>1. CASE received' = received
    BY <1>3, <2>1
  <2>2. CASE ~Crosses(piece) /\ received' = received + piece
    <3>1. ~(piece > Limit - received) /\ received' = received + piece
      BY <2>2 DEF Crosses
    <3> QED BY ONLY <1>3, <1>4, <1>5, <3>1
  <2> QED BY <1>2, <2>1, <2>2
<1>7. TransportTyped' /\ Times' /\ Directed' /\ Logged'
  BY <1>1, <1>2, <1>3, <1>6, ExchangeMoves DEF Exchanging
<1>8. Counted'
  BY <1>1, <1>2, <1>3, <1>6 DEF Counted, WithinLimit, NeverTruncated, Complete, Early
<1> QED BY <1>7, <1>8 DEF TransportInv

\* The next hop, or the redirect that is refused.
LEMMA RedirectedKeeps ==
    ASSUME TransportAssumption, TransportInv, Redirected
    PROVE  TransportInv'
<1>1. /\ step = "head" /\ Returns /\ progressed' = now'
      /\ UNCHANGED <<cancelled, since, addresses, toWrite, reading, log>>
  BY DEF Redirected, Progresses
<1>2. PICK o \in Origins :
         \/ /\ MayFollow(o) /\ step' = "prepare" /\ to' = o /\ followed' = followed + 1
            /\ credentials' = KeepsHeader(o) /\ post' = FALSE /\ outcome' = outcome
         \/ step' = "over" /\ outcome' = "failed" /\ UNCHANGED hop
  BY DEF Redirected, End
<1>3. outcome = "none"
  BY <1>1 DEF TransportInv, TransportTyped, TransportTypeOK, Exchanging
<1>4. CASE step' = "over" /\ outcome' = "failed" /\ UNCHANGED hop
  <2>1. toWrite \in 0 .. 2 /\ head \in 0 .. HeadLimit /\ framing \in 0 .. HeadLimit
    BY DEF TransportInv, TransportTyped, TransportTypeOK
  <2> QED BY <1>1, <1>4, <2>1, ExchangeStays DEF reading
<1>5. CASE /\ MayFollow(o) /\ step' = "prepare" /\ to' = o /\ followed' = followed + 1
           /\ credentials' = KeepsHeader(o) /\ post' = FALSE /\ outcome' = outcome
  <2>1. /\ now' \in Nat /\ now <= now' /\ blocked' = FALSE /\ step \in Exchanging
        /\ inner' = inner /\ inner' \in 0 .. MaxInner
    BY <1>1, ReturnsSoon
  <2>2. since' <= now' /\ progressed' \in Nat /\ progressed' <= now'
    <3>1. now \in Nat /\ since \in Nat /\ since <= now
      BY TransportNumbers
    <3>2. since' = since /\ progressed' = now'
      BY <1>1
    <3> QED BY <2>1, <3>1, <3>2
  <2>3. /\ addresses \in Seq(DOMAIN AddressClass) /\ log \in Seq(Used)
        /\ body \in Bodies \union {NoBody} /\ TransportTyped
        /\ toWrite \in 0 .. 2 /\ head \in 0 .. HeadLimit /\ framing \in 0 .. HeadLimit
        /\ received \in Nat
    BY DEF TransportInv, TransportTyped, TransportTypeOK
  <2>4. /\ followed < MaxRedirects /\ ClassOf[o] = ClassOf[to]
        /\ (to \in Secure => o \in Secure) /\ o \in Allowed
    BY <1>5 DEF MayFollow
  <2>5. followed' \in 0 .. MaxRedirects /\ followed' = followed + 1 /\ followed \in Nat
    <3>1. followed \in Nat /\ MaxRedirects \in Nat
      BY TransportNumbers
    <3>2. followed' = followed + 1
      BY <1>5
    <3> QED BY ONLY <2>4, <3>1, <3>2
  <2>6. credentials' <=> (credentials /\ o = to)
    BY <1>5 DEF KeepsHeader
  <2>7. credentials' \in BOOLEAN
    BY <1>5 DEF KeepsHeader
  <2>8. cancelled \in BOOLEAN
    BY TransportNumbers
  <2>9. TransportTyped'
    BY <1>1, <1>3, <1>5, <2>1, <2>2, <2>3, <2>5, <2>7, <2>8, TransportNumbers, TypedAfter
       DEF reading
  <2>10. Times'
    BY <1>1, <1>5, TimesGoOn
  <2>11. Directed'
    BY <1>5, <2>1, <2>4, <2>6 DEF TransportInv, Directed
  <2>12. Logged'
    <3>1. Logged /\ log' = log /\ Len(log) <= followed + 1
      BY <1>1 DEF TransportInv, Logged, SentWhereMeant
    <3>2. Len(log) \in Nat
      BY <2>3, LenProperties
    <3>3. Len(log) <= followed' /\ Len(log) <= followed' + 1
      BY ONLY <2>5, <3>1, <3>2
    <3>4. SentWhereMeant' /\ DroppedForGood'
      BY <3>1, <3>3 DEF Logged, SentWhereMeant, DroppedForGood
    <3> QED BY <1>5, <2>4, <2>6, <3>1, <3>3, <3>4 DEF Logged
  <2>13. Counted'
    <3>1. Counted /\ received = 0
      BY <1>1 DEF TransportInv, Counted, Early
    <3> QED BY <1>1, <1>3, <1>5, <3>1 DEF Counted, WithinLimit, NeverTruncated, reading
  <2> QED BY <2>9, <2>10, <2>11, <2>12, <2>13 DEF TransportInv
<1> QED BY <1>2, <1>4, <1>5

\* Every step of the thread that sends.
LEMMA TransportStep ==
    ASSUME TransportAssumption, TransportInv, [TransportNext]_transportVars
    PROVE  TransportInv'
<1>1. CASE Cancel
  BY <1>1, CancelKeeps
<1>2. CASE Prepare \/ Resolve \/ ConnectFails \/ NoAddress \/ Connected
  BY <1>2, PrepareKeeps, ResolveKeeps, ConnectFailsKeeps, NoAddressKeeps, ConnectedKeeps
<1>3. CASE Exchange
  BY <1>3, StopsHereKeeps, BlockKeeps, HeldByTlsKeeps, SliceEndsKeeps, BrokenKeeps,
     WritesKeeps, FlushesKeeps, ReadsHeadKeeps, RedirectedKeeps, AnsweredKeeps, PieceKeeps,
     FramingKeeps, LastChunkKeeps, ServerClosesKeeps
     DEF Exchange
<1>4. CASE UNCHANGED transportVars
  <2>1. TransportTyped'
    BY <1>4 DEF TransportInv, TransportTyped, TransportTypeOK, transportVars
  <2>2. Times'
    BY <1>4 DEF TransportInv, Times, OneCall, transportVars
  <2>3. Directed' /\ Logged'
    BY <1>4, DirectedStays DEF TransportInv, transportVars, hop
  <2>4. Counted'
    BY <1>4, CountedStays DEF TransportInv, transportVars
  <2> QED BY <2>1, <2>2, <2>3, <2>4 DEF TransportInv
<1> QED BY <1>1, <1>2, <1>3, <1>4 DEF TransportNext, SenderWorks, TransportOver

\* The invariant says what the property says.
LEMMA TransportSays ==
    ASSUME TransportAssumption, TransportInv
    PROVE  ExchangesBound
<1>1. TransportTypeOK /\ SentWhereMeant /\ DroppedForGood /\ WithinLimit /\ NeverTruncated
  BY DEF TransportInv, TransportTyped, Logged, Counted
<1>2. EndsInTime
  <2>1. step \in Exchanging => now < Total + OneCall
    BY DEF TransportInv, Times
  <2>2. step = "connect" => now < Total + (LongestLookup + OneCall)
    <3>1. now \in Nat /\ Total \in Nat /\ LongestLookup \in Nat /\ OneCall \in Nat
      BY TransportNumbers, CallTakes
    <3>2. step = "connect" => now < Total + LongestLookup + OneCall
      BY DEF TransportInv, Times
    <3> QED BY ONLY <3>1, <3>2
  <2>3. step = "connect" => step \notin Exchanging
    BY DEF Exchanging
  <2>4. to \notin Secure => inner = 0
    BY DEF TransportInv, Directed
  <2> QED BY <2>1, <2>2, <2>3, <2>4 DEF EndsInTime
<1>3. StallEnds
  BY DEF TransportInv, Times, StallEnds
<1> QED BY <1>1, <1>2, <1>3 DEF ExchangesBound

\* The transport's promise, for any origins, redirects, addresses, limits
\* and times: whatever the server sends or withholds and whenever the
\* token is raised, credentials go only to the first origin, the body at
\* most once, nothing to an address of another class or to an origin that
\* is not allowed, and no body that was cut or is too long is answered.  A
\* request over plain http outlasts its deadline, its idle time or a
\* cancel by a slice (and by its lookup and its attempts to connect); one
\* over TLS by a slice for each time the call it is in used the socket,
\* which nothing bounds.
THEOREM ExchangeCorrect ==
    ASSUME TransportAssumption
    PROVE  TransportSpec => []ExchangesBound
<1>1. TransportInit => TransportInv
  BY TransportBegins
<1>2. TransportInv /\ [TransportNext]_transportVars => TransportInv'
  BY TransportStep
<1>3. TransportInv => ExchangesBound
  BY TransportSays
<1> QED BY <1>1, <1>2, <1>3, PTL DEF TransportSpec
=============================================================================
