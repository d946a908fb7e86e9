----------------------------- MODULE Resources -----------------------------
(***************************************************************************)
(* Installed resources of luxforge-core: pinned files a module declares,   *)
(* which the transfer lane downloads or copies, verifies, moves into place *)
(* and removes (capabilities/resources.rs, host/resources.rs).             *)
(*                                                                         *)
(* The disk is shared: every editor process of a user works in the same    *)
(* resource root, each with a transfer lane of its own.  A lane is one     *)
(* thread and runs one job; a step of a job is what it does to the disk    *)
(* between two points at which the process may die or another may run.     *)
(* A directory is removed entry by entry, in any order.                    *)
(*                                                                         *)
(* A file is known by how it relates to the pinned bytes: absent, of       *)
(* another length, of the length but other bytes, or whole.  A crash is    *)
(* that of a process: what it wrote stays, what it held is gone.  Consent  *)
(* for a download is not modelled: a request without it changes nothing.   *)
(***************************************************************************)
EXTENDS Integers, Sequences, FiniteSets, SequencesExt

CONSTANTS
    Editors,       \* editor processes that share the resource root
    Resources,     \* declared resources, each of one unit of storage
    Quota,         \* config.resource_quota_bytes, in units
    TransferQueue, \* LANE_QUEUE: jobs that may wait
    MaxJobs,       \* bound: jobs submitted
    MaxCrashes,    \* bound: processes that die
    MaxDiskFaults  \* bound: operations of the file system that fail

ResourcesAssumption ==
    /\ IsFiniteSet(Resources)
    /\ Quota \in Nat
    /\ TransferQueue \in Nat
    /\ MaxJobs \in Nat
    /\ MaxCrashes \in Nat
    /\ MaxDiskFaults \in Nat

TransferIds == 1 .. MaxJobs

Data == {"none", "short", "wrong", "whole"}
Absent == "absent"

VARIABLES
    \* the disk
    staged,    \* .staging/<job>: absent, or what its file holds
    target,    \* <module>/<resource>/<version>: the directory, file and marker
    \* the processes
    waiting,   \* each transfer lane's queue
    lane,      \* the job each lane runs and how far it is
    \* bounds
    lastJob,
    crashes,
    diskFaults

disk == <<staged, target>>
resourceVars == <<disk, waiting, lane, lastJob, crashes, diskFaults>>

NoTarget == [dir |-> FALSE, file |-> "none", marker |-> FALSE]

NoResource == "none"

NoTransfer ==
    [id |-> 0, kind |-> "none", res |-> NoResource, at |-> "idle",
     stale |-> {}, got |-> "none", stop |-> FALSE, ok |-> FALSE, cause |-> "none"]

Queued(id, kind, r) == [id |-> id, kind |-> kind, res |-> r]

ResourcesInit ==
    /\ staged = [id \in TransferIds |-> Absent]
    /\ target = [r \in Resources |-> NoTarget]
    /\ waiting = [h \in Editors |-> <<>>]
    /\ lane = [h \in Editors |-> NoTransfer]
    /\ lastJob = 0 /\ crashes = 0 /\ diskFaults = 0

-----------------------------------------------------------------------------
\* What the store reads from the disk.

Present(data) == data \in {"wrong", "whole"}   \* a file of the pinned length

Installed(r) == target[r].marker /\ Present(target[r].file)

UsedBytes == Cardinality({r \in Resources : target[r].marker})

\* An install of r, which is not installed, would go past the quota.
OverQuota == UsedBytes + 1 > Quota

-----------------------------------------------------------------------------
\* The owner of each process.

RunsJob(h, kind, r) == lane[h].at # "idle" /\ lane[h].kind = kind /\ lane[h].res = r

LiveJob(h, kind, r) ==
    \/ RunsJob(h, kind, r)
    \/ \E i \in DOMAIN waiting[h] : waiting[h][i].kind = kind /\ waiting[h][i].res = r

Submit(h, kind, r) ==
    /\ lastJob < MaxJobs
    /\ Len(waiting[h]) < TransferQueue
    /\ lastJob' = lastJob + 1
    /\ waiting' = [waiting EXCEPT ![h] = Append(@, Queued(lastJob + 1, kind, r))]

\* module.resource.install: a live install is joined.
InstallResource(h, r) ==
    /\ ~Installed(r)
    /\ ~LiveJob(h, "install", r)
    /\ ~OverQuota
    /\ Submit(h, "install", r)
    /\ UNCHANGED <<disk, lane, crashes, diskFaults>>

\* module.resource.remove: what is there or is being installed.
RemoveResource(h, r) ==
    /\ ~LiveJob(h, "remove", r)
    /\ target[r].dir \/ LiveJob(h, "install", r)
    /\ Submit(h, "remove", r)
    /\ UNCHANGED <<disk, lane, crashes, diskFaults>>

\* module.job.cancel of a job that waits, or of the one that runs.
CancelWaiting(h) ==
    /\ \E i \in DOMAIN waiting[h] : waiting' = [waiting EXCEPT ![h] = RemoveAt(@, i)]
    /\ UNCHANGED <<disk, lane, lastJob, crashes, diskFaults>>

CancelRunning(h) ==
    /\ lane[h].at # "idle" /\ ~lane[h].stop
    /\ lane' = [lane EXCEPT ![h].stop = TRUE]
    /\ UNCHANGED <<disk, waiting, lastJob, crashes, diskFaults>>

\* The lane's result is served: the table hands it the next job.
Serve(h) ==
    /\ lane[h].at = "done"
    /\ lane' = [lane EXCEPT ![h] = NoTransfer]
    /\ UNCHANGED <<disk, waiting, lastJob, crashes, diskFaults>>

-----------------------------------------------------------------------------
\* The transfer lane.  Each step is of the job that lane h runs; a failure
\* has a cause: the request, the bytes, the quota or the file system.

Id(h) == lane[h].id
Res(h) == lane[h].res

Goes(h, at) == lane' = [lane EXCEPT ![h].at = at]
TransferEnds(h, ok) == lane' = [lane EXCEPT ![h].at = "done", ![h].ok = ok]
Fails(h, at, cause) == lane' = [lane EXCEPT ![h].at = at, ![h].cause = cause]

SameBounds == UNCHANGED <<waiting, lastJob, crashes, diskFaults>>
StageSet(id, data) == staged' = [staged EXCEPT ![id] = data] /\ UNCHANGED target
TargetSet(r, t) == target' = [target EXCEPT ![r] = t] /\ UNCHANGED staged

DiskFault ==
    /\ diskFaults < MaxDiskFaults /\ diskFaults' = diskFaults + 1
    /\ UNCHANGED <<waiting, lastJob, crashes>>

StagedIds == {id \in TransferIds : staged[id] # Absent}

StartTransfer(h) ==
    /\ lane[h].at = "idle" /\ waiting[h] # <<>>
    /\ LET job == Head(waiting[h]) IN
       lane' = [lane EXCEPT ![h] =
                  [id |-> job.id, kind |-> job.kind, res |-> job.res,
                   at |-> IF job.kind = "install" THEN "list" ELSE "unmark",
                   stale |-> {}, got |-> "none", stop |-> FALSE, ok |-> FALSE,
                   cause |-> "none"]]
    /\ waiting' = [waiting EXCEPT ![h] = Tail(@)]
    /\ UNCHANGED <<disk, lastJob, crashes, diskFaults>>

\* clear_staging: the entries there are, then each of them.
ListStaging(h) ==
    /\ lane[h].at = "list"
    /\ lane' = [lane EXCEPT ![h].at = "clear", ![h].stale = StagedIds]
    /\ UNCHANGED disk /\ SameBounds

ClearFile(h) ==
    /\ lane[h].at = "clear"
    /\ \E id \in lane[h].stale :
          /\ staged[id] \notin {Absent, "none"}
          /\ StageSet(id, "none")
    /\ UNCHANGED lane /\ SameBounds

ClearDir(h) ==
    /\ lane[h].at = "clear"
    /\ \E id \in lane[h].stale :
          /\ staged[id] = "none"
          /\ StageSet(id, Absent)
          /\ lane' = [lane EXCEPT ![h].stale = @ \ {id}]
    /\ SameBounds

\* An entry that another process has removed or renamed meanwhile.
ClearLost(h) ==
    /\ lane[h].at = "clear"
    /\ \E id \in lane[h].stale : staged[id] = Absent
    /\ Fails(h, "done", "other")
    /\ UNCHANGED disk /\ SameBounds

CreateStaging(h) ==
    /\ lane[h].at = "clear" /\ lane[h].stale = {}
    /\ StageSet(Id(h), "none")
    /\ Goes(h, "create")
    /\ SameBounds

\* A failure before the job's own directory is there is returned at once.
ClearFails(h) ==
    /\ lane[h].at \in {"list", "clear"}
    /\ DiskFault
    /\ Fails(h, "done", "fault")
    /\ UNCHANGED disk

\* Staged::create, in the directory the job made.
CreateFile(h) ==
    /\ lane[h].at = "create"
    /\ IF staged[Id(h)] = Absent
          THEN Fails(h, "tidy", "other") /\ UNCHANGED disk
          ELSE StageSet(Id(h), "short") /\ Goes(h, "fetch")
    /\ SameBounds

\* download or copy_local: what it counts and hashes is the stream; the
\* file holds it unless another process has unlinked it.
Fetch(h) ==
    /\ lane[h].at = "fetch"
    /\ \E data \in Data \ {"none"} :
          /\ lane' = [lane EXCEPT ![h].at = "verify", ![h].got = data]
          /\ IF staged[Id(h)] = "short" THEN StageSet(Id(h), data) ELSE UNCHANGED disk
    /\ SameBounds

FetchFails(h) ==
    /\ lane[h].at \in {"create", "fetch"}
    /\ DiskFault
    /\ Fails(h, "tidy", "fault")
    /\ UNCHANGED disk

\* A bug for the mutants: the length is compared and the hash is not.
VerifiesLength(h) ==
    /\ lane[h].at = "verify"
    /\ IF lane[h].stop THEN Fails(h, "tidy", "cancel")
       ELSE IF ~Present(lane[h].got) THEN Fails(h, "tidy", "bytes")
       ELSE Goes(h, "validate")
    /\ UNCHANGED disk /\ SameBounds

\* A checkpoint, then the pinned length and hash of what came.
Verify(h) ==
    /\ lane[h].at = "verify"
    /\ IF lane[h].stop THEN Fails(h, "tidy", "cancel")
       ELSE IF lane[h].got # "whole" THEN Fails(h, "tidy", "bytes")
       ELSE Goes(h, "validate")
    /\ UNCHANGED disk /\ SameBounds

\* Bugs for the mutants: the quota is checked only when the install is
\* asked for; a directory that is already there is not looked for.
TrustsAdmission(h) ==
    /\ lane[h].at = "quota"
    /\ Goes(h, IF target[Res(h)].dir THEN "replace" ELSE "rename")
    /\ UNCHANGED disk /\ SameBounds

ReplacesNothing(h) ==
    /\ lane[h].at = "quota"
    /\ IF OverQuota THEN Fails(h, "tidy", "quota") ELSE Goes(h, "rename")
    /\ UNCHANGED disk /\ SameBounds

\* The module's own check of the format (external), and a checkpoint.
Validate(h) ==
    /\ lane[h].at = "validate"
    /\ \/ Fails(h, "tidy", "bytes")
       \/ lane[h].stop /\ Fails(h, "tidy", "cancel")
       \/ ~lane[h].stop /\ Goes(h, "quota")
    /\ UNCHANGED disk /\ SameBounds

CheckQuota(h) ==
    /\ lane[h].at = "quota"
    /\ IF OverQuota THEN Fails(h, "tidy", "quota")
       ELSE Goes(h, IF target[Res(h)].dir THEN "replace" ELSE "rename")
    /\ UNCHANGED disk /\ SameBounds

\* One step of remove_dir_all on r's directory: an entry of it, or the
\* directory itself once it is empty.
RemovesEntry(r) ==
    /\ target[r].dir
    /\ \/ target[r].file # "none" /\ TargetSet(r, [target[r] EXCEPT !.file = "none"])
       \/ target[r].marker /\ TargetSet(r, [target[r] EXCEPT !.marker = FALSE])

RemovesDir(r) ==
    /\ target[r] = [NoTarget EXCEPT !.dir = TRUE]
    /\ TargetSet(r, NoTarget)

\* publish: a directory that is there, installed or not, is removed.
ReplaceEntry(h) ==
    /\ lane[h].at = "replace"
    /\ RemovesEntry(Res(h))
    /\ UNCHANGED lane /\ SameBounds

ReplaceDir(h) ==
    /\ lane[h].at = "replace"
    /\ RemovesDir(Res(h))
    /\ Goes(h, "rename")
    /\ SameBounds

ReplaceLost(h) ==
    /\ lane[h].at = "replace" /\ ~target[Res(h)].dir
    /\ Fails(h, "tidy", "other")
    /\ UNCHANGED disk /\ SameBounds

\* The staged directory takes the target's place, which must be free.
Rename(h) ==
    /\ lane[h].at = "rename"
    /\ staged[Id(h)] # Absent
    /\ target[Res(h)] \in {NoTarget, [NoTarget EXCEPT !.dir = TRUE]}
    /\ target' = [target EXCEPT ![Res(h)] =
                     [dir |-> TRUE, file |-> staged[Id(h)], marker |-> FALSE]]
    /\ staged' = [staged EXCEPT ![Id(h)] = Absent]
    /\ Goes(h, "mark")
    /\ SameBounds

RenameRefused(h) ==
    /\ lane[h].at = "rename"
    /\ \/ staged[Id(h)] = Absent
       \/ target[Res(h)].file # "none" \/ target[Res(h)].marker
    /\ Fails(h, "tidy", "other")
    /\ UNCHANGED disk /\ SameBounds

PublishFails(h) ==
    /\ lane[h].at \in {"replace", "rename"}
    /\ DiskFault
    /\ Fails(h, "tidy", "fault")
    /\ UNCHANGED disk

\* installed.json, by a rename of its own, is the last thing written.
Mark(h) ==
    /\ lane[h].at = "mark"
    /\ IF target[Res(h)].dir
          THEN /\ TargetSet(Res(h), [target[Res(h)] EXCEPT !.marker = TRUE])
               /\ TransferEnds(h, TRUE)
          ELSE Fails(h, "tidy", "other") /\ UNCHANGED disk
    /\ SameBounds

\* It fails before its rename or, while the directory is synced, after it.
MarkFails(h) ==
    /\ lane[h].at = "mark" /\ target[Res(h)].dir
    /\ DiskFault
    /\ \/ UNCHANGED disk
       \/ TargetSet(Res(h), [target[Res(h)] EXCEPT !.marker = TRUE])
    /\ Fails(h, "undo", "fault")

UndoEntry(h) ==
    /\ lane[h].at = "undo"
    /\ RemovesEntry(Res(h))
    /\ UNCHANGED lane /\ SameBounds

UndoDir(h) ==
    /\ lane[h].at = "undo"
    /\ \/ RemovesDir(Res(h))
       \/ ~target[Res(h)].dir /\ UNCHANGED disk
    /\ Goes(h, "tidy")
    /\ SameBounds

\* Whatever happened, the job's own staging directory is removed.
Tidy(h) ==
    /\ lane[h].at = "tidy"
    /\ StageSet(Id(h), Absent)
    /\ TransferEnds(h, FALSE)
    /\ SameBounds

\* Removing what is left fails, which nothing looks at.
CleaningFails(h) ==
    /\ lane[h].at \in {"undo", "tidy"}
    /\ DiskFault
    /\ lane' = [lane EXCEPT ![h].at = IF @ = "undo" THEN "tidy" ELSE "done",
                            ![h].cause = "fault"]
    /\ UNCHANGED disk

\* remove: a checkpoint, the marker, then the directory.
RemoveMarker(h) ==
    /\ lane[h].at = "unmark"
    /\ IF lane[h].stop
          THEN Fails(h, "done", "cancel") /\ UNCHANGED disk
          ELSE /\ TargetSet(Res(h), [target[Res(h)] EXCEPT !.marker = FALSE])
               /\ Goes(h, "delete")
    /\ SameBounds

DeleteEntry(h) ==
    /\ lane[h].at = "delete"
    /\ RemovesEntry(Res(h))
    /\ UNCHANGED lane /\ SameBounds

DeleteDir(h) ==
    /\ lane[h].at = "delete"
    /\ \/ RemovesDir(Res(h))
       \/ ~target[Res(h)].dir /\ UNCHANGED disk
    /\ TransferEnds(h, TRUE)
    /\ SameBounds

RemoveFails(h) ==
    /\ lane[h].at \in {"unmark", "delete"}
    /\ DiskFault
    /\ Fails(h, "done", "fault")
    /\ UNCHANGED disk

\* The process dies and is started again: only the disk is left.
EditorDies(h) ==
    /\ crashes < MaxCrashes /\ crashes' = crashes + 1
    /\ lane' = [lane EXCEPT ![h] = NoTransfer]
    /\ waiting' = [waiting EXCEPT ![h] = <<>>]
    /\ UNCHANGED <<disk, lastJob, diskFaults>>

-----------------------------------------------------------------------------
Request(h) ==
    \/ \E r \in Resources : InstallResource(h, r) \/ RemoveResource(h, r)
    \/ CancelWaiting(h)
    \/ CancelRunning(h)

Transfer(h) ==
    \/ StartTransfer(h) \/ Serve(h)
    \/ ListStaging(h) \/ ClearFile(h) \/ ClearDir(h) \/ ClearLost(h)
    \/ CreateStaging(h) \/ ClearFails(h)
    \/ CreateFile(h) \/ Fetch(h) \/ FetchFails(h)
    \/ Verify(h) \/ Validate(h) \/ CheckQuota(h)

Publish(h) ==
    \/ ReplaceEntry(h) \/ ReplaceDir(h) \/ ReplaceLost(h)
    \/ Rename(h) \/ RenameRefused(h) \/ PublishFails(h)
    \/ Mark(h) \/ MarkFails(h) \/ UndoEntry(h) \/ UndoDir(h)
    \/ Tidy(h) \/ CleaningFails(h)

Removal(h) == RemoveMarker(h) \/ DeleteEntry(h) \/ DeleteDir(h) \/ RemoveFails(h)

\* Every job the bound allows has been asked for and has ended.
ResourcesRest ==
    /\ lastJob = MaxJobs /\ crashes = MaxCrashes
    /\ \A h \in Editors : lane[h].at = "idle" /\ waiting[h] = <<>>
    /\ UNCHANGED resourceVars

ResourcesNext ==
    \/ \E h \in Editors : Request(h) \/ Transfer(h) \/ Publish(h) \/ Removal(h) \/ EditorDies(h)
    \/ ResourcesRest

ResourcesSpec == ResourcesInit /\ [][ResourcesNext]_resourceVars

-----------------------------------------------------------------------------
\* Properties

Fetching == {"create", "fetch", "verify", "validate", "quota", "replace", "rename"}

ResourcesTypeOK ==
    /\ staged \in [TransferIds -> Data \union {Absent}]
    /\ target \in [Resources -> [dir : BOOLEAN, file : Data, marker : BOOLEAN]]
    /\ \A r \in Resources : ~target[r].dir => target[r] = NoTarget
    /\ \A h \in Editors : \A i \in DOMAIN waiting[h] :
          waiting[h][i] \in [id : 1 .. lastJob, kind : {"install", "remove"}, res : Resources]
    /\ \A h \in Editors :
          /\ lane[h].id \in 0 .. lastJob
          /\ lane[h].at \in Fetching \union {"idle", "list", "clear", "mark", "undo",
                                             "tidy", "unmark", "delete", "done"}
          /\ lane[h].at # "idle" => lane[h].res \in Resources
    /\ lastJob \in 0 .. MaxJobs /\ crashes \in 0 .. MaxCrashes
    /\ diskFaults \in 0 .. MaxDiskFaults

\* What reads installed holds the pinned bytes, whatever was interrupted
\* and whoever else works in the root: an interrupted, short, corrupt or
\* disk-full transfer never looks installed.
InstalledIsWhole == \A r \in Resources : Installed(r) => target[r].file = "whole"

\* The installed resources together stay within the quota, although it is
\* checked when an install is asked for and several may wait.
WithinQuota == UsedBytes <= Quota

\* With one process, what a job answers is so when it answers: a ready
\* install is installed, a ready removal is gone with its directory.
AnswerIsTrue ==
    \A h \in Editors : lane[h].at = "done" /\ lane[h].ok =>
        IF lane[h].kind = "install" THEN Installed(Res(h)) ELSE target[Res(h)] = NoTarget

\* With one process, a job fails only of the file system, a cancel, its
\* bytes or the quota: never of a directory it finds.  A quota that is
\* refused may count markers whose file is gone, for used_bytes reads only
\* markers; a crash or a failed operation leaves at most one of them, and
\* everything else it counts is installed.
LeftoversBounded ==
    \A h \in Editors : lane[h].at = "done" /\ ~lane[h].ok =>
        /\ lane[h].cause \in {"fault", "cancel", "bytes", "quota"}
        /\ lane[h].cause = "quota" =>
              Quota <= Cardinality({r \in Resources : Installed(r)}) + crashes + diskFaults

\* With one process, an install that has cleared the staging has only its
\* own directory there, and without a crash or a fault an idle lane has
\* left nothing: "any failure removes what it staged".
NothingLeftStaged ==
    \A h \in Editors :
        /\ lane[h].at \in Fetching => StagedIds \subseteq {Id(h)}
        /\ lane[h].at \in {"idle", "done"} /\ crashes + diskFaults = 0 => StagedIds = {}

\* A resource that reads installed is whole, whatever process died or
\* operation failed; and in a root of one process the marked resources
\* keep the quota, an answered install or removal is true on disk, staging
\* does not pile up, and what a failure left stands in a later install's
\* way only by a marker without its file, which the quota goes on to count.
ResourcesWhole ==
    /\ ResourcesTypeOK
    /\ InstalledIsWhole
    /\ (\A g, h \in Editors : g = h) =>
          WithinQuota /\ AnswerIsTrue /\ LeftoversBounded /\ NothingLeftStaged

\* resources.rs: "A crash leaves at worst a staging directory, which the
\* next install removes."  So once no job runs, a version's directory is
\* an installed one (false: a process may die before the marker).
CrashLeavesOnlyStaging ==
    diskFaults = 0 /\ (\A h \in Editors : lane[h].at = "idle") =>
        \A r \in Resources : target[r].dir => Installed(r)

\* clear_staging: "none of them belongs to a running job" (false: it may
\* be that of another process).
ClearsOnlyStale ==
    [][\A h \in Editors : lane[h].at = "clear" /\ staged' # staged =>
          \A g \in Editors \ {h} :
              lane[g].at \in Fetching => staged'[Id(g)] = staged[Id(g)]]_resourceVars

=============================================================================
