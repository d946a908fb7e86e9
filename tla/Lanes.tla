------------------------------- MODULE Lanes -------------------------------
(***************************************************************************)
(* The module lane of luxforge-core and what runs on it: activations, the  *)
(* releases that undo them, and tasks (capabilities/jobs.rs, host.rs and   *)
(* host/activation.rs), with the grants tasks run under (grants.rs).       *)
(*                                                                         *)
(* The owner serves one request at a time and keeps the table of jobs.     *)
(* The lane is one thread: it takes one job from a one-slot channel, runs  *)
(* it and posts the result into the owner's channel.  Owner and lane share *)
(* nothing else but a job's cancel flag and what the module has loaded.    *)
(*                                                                         *)
(* Checks of a request that read no state modelled here (settings, an      *)
(* installed resource) are left out: a request that fails them changes     *)
(* nothing.  So does one that cannot start the lane's thread.              *)
(***************************************************************************)
EXTENDS Integers, Sequences, FiniteSets

CONSTANTS
    Modules,
    Grants,           \* grant ids; each is granted at most once
    LaneQueue,        \* LANE_QUEUE: bounded jobs that may wait
    FinishedRecords,  \* FINISHED_RECORDS: finished records kept
    MaxRequests       \* bound: activations and tasks asked for

NoGrant == "none"

LanesAssumption ==
    /\ NoGrant \notin Grants
    /\ LaneQueue \in Nat \ {0}
    /\ FinishedRecords \in Nat \ {0}
    /\ MaxRequests \in Nat

\* Every release follows an activation.
JobIds == 1 .. 2 * MaxRequests

Kinds == {"activate", "deactivate", "task"}
Live == {"queued", "running"}
Results == {"ready", "failed", "cancelled"}
Over == Results \union {"superseded"}

VARIABLES
    \* the owner
    table,        \* Jobs: the records, the lane's queue and its channel
    lastId,       \* the last job id given out
    requests,     \* activations and tasks asked for, for the bound
    activations,  \* each module's activation as status reports it
    granted,      \* grants.json: whether a grant is live or revoked
    closing,      \* shutdown has been asked for
    \* the lane thread and the modules
    worker,       \* the job it runs and how far it is
    inbox,        \* the result posted to the owner and not served yet
    loaded        \* what each module keeps loaded

ownerSide == <<table, lastId, requests, activations, granted, closing>>
laneSide == <<worker, inbox, loaded>>
lanesVars == <<ownerSide, laneSide>>

Jobs == [kind : Kinds, module : Modules, grant : Grants \union {NoGrant},
         status : Live \union Over, cancelled : BOOLEAN]

Resting == [id |-> 0, phase |-> "resting"]
NoResult == [id |-> 0, result |-> "ready"]

EmptyTable == [entries |-> <<>>, finished |-> <<>>, waiting |-> <<>>,
               running |-> 0, channel |-> 0]

Job(id) == table.entries[id]

LiveIds(t) == {id \in DOMAIN t.entries : t.entries[id].status \in Live}

LanesInit ==
    /\ table = EmptyTable
    /\ lastId = 0
    /\ requests = 0
    /\ activations = [m \in Modules |->
                         [state |-> "inactive", job |-> 0, pending |-> FALSE]]
    /\ granted = [g \in Grants |-> "never"]
    /\ closing = FALSE
    /\ worker = Resting
    /\ inbox = NoResult
    /\ loaded = [m \in Modules |-> FALSE]

-----------------------------------------------------------------------------
\* The table of jobs: one operator per method, on the table as a value.

WithStatus(t, id, status) == [t EXCEPT !.entries[id].status = status]

\* retire: the ring keeps the newest finished records.
Retired(t, id) ==
    LET ring == Append(t.finished, id)
    IN  IF Len(ring) <= FinishedRecords
          THEN [t EXCEPT !.finished = ring]
          ELSE [t EXCEPT !.finished = Tail(ring),
                         !.entries = [k \in DOMAIN t.entries \ {Head(ring)} |->
                                         t.entries[k]]]

\* dispatch: an idle lane takes the next job.
Dispatched(t) ==
    IF t.running # 0 \/ t.waiting = <<>> THEN t
    ELSE [WithStatus(t, Head(t.waiting), "running") EXCEPT
             !.waiting = Tail(t.waiting),
             !.running = Head(t.waiting),
             !.channel = Head(t.waiting)]

LaneFull(t, kind) ==
    /\ kind # "deactivate"
    /\ Cardinality({n \in DOMAIN t.waiting :
                       t.entries[t.waiting[n]].kind # "deactivate"}) >= LaneQueue

\* A bug for the mutants: a release goes before the waiting work.
ReleasesFirst(t, id, job) ==
    Dispatched([t EXCEPT !.entries = [k \in DOMAIN t.entries \union {id} |->
                                         IF k = id THEN job ELSE t.entries[k]],
                         !.waiting = IF job.kind = "deactivate"
                                       THEN <<id>> \o t.waiting
                                       ELSE Append(t.waiting, id)])

Submitted(t, id, job) ==
    Dispatched([t EXCEPT !.entries = [k \in DOMAIN t.entries \union {id} |->
                                         IF k = id THEN job ELSE t.entries[k]],
                         !.waiting = Append(t.waiting, id)])

\* retain: the queue without one of its jobs, which is in it once.
Without(queue, id) ==
    [n \in 1 .. Len(queue) - 1 |->
        IF \E k \in 1 .. n : queue[k] = id THEN queue[n + 1] ELSE queue[n]]

Dropped(t, id, status) ==
    Retired([WithStatus(t, id, status) EXCEPT !.waiting = Without(t.waiting, id)],
            id)

Asked(t, id) == [t EXCEPT !.entries[id].cancelled = TRUE]

\* cancel: a waiting job is removed, a running one is asked to stop.
Cancelled(t, id) ==
    CASE t.entries[id].status = "queued" -> Dropped(Asked(t, id), id, "cancelled")
      [] t.entries[id].status = "running" -> Asked(t, id)
      [] OTHER -> t

\* complete: the outcome is recorded and the next job starts.
Completed(t, id, result) ==
    Dispatched(Retired([WithStatus(t, id, result) EXCEPT !.running = 0], id))

NewJob(kind, m, g) == [kind |-> kind, module |-> m, grant |-> g,
                       status |-> "queued", cancelled |-> FALSE]

-----------------------------------------------------------------------------
\* Requests.

\* An activation is queued unless the module is active or activating and
\* not asked to stop: then the request joins it.  Behind an activation
\* that was asked to stop a new one is queued.
Activate(m) ==
    /\ ~closing
    /\ requests < MaxRequests
    /\ activations[m].state # "active"
    /\ ~(activations[m].state = "activating" /\ ~activations[m].pending)
    /\ ~LaneFull(table, "activate")
    /\ lastId' = lastId + 1
    /\ requests' = requests + 1
    /\ table' = Submitted(table, lastId + 1, NewJob("activate", m, NoGrant))
    /\ activations' = [activations EXCEPT ![m] =
                          [state |-> "activating", job |-> lastId + 1,
                           pending |-> FALSE]]
    /\ UNCHANGED <<granted, closing, laneSide>>

Inactive == [state |-> "inactive", job |-> 0, pending |-> FALSE]

\* release: the module reads inactive at once, and a job that is always
\* admitted calls its `deactivate` behind the work queued before it.
ReleaseLoaded(t, acts, m) ==
    /\ lastId' = lastId + 1
    /\ table' = Submitted(t, lastId + 1, NewJob("deactivate", m, NoGrant))
    /\ activations' = [acts EXCEPT ![m] = [Inactive EXCEPT !.job = lastId + 1]]

\* `deactivate` in each state: a request, a changed setting and a removed
\* resource all call it.
DeactivateFailed(m) ==
    /\ activations[m].state = "failed"
    /\ activations' = [activations EXCEPT ![m].state = "inactive"]
    /\ UNCHANGED <<table, lastId>>

DeactivateWaiting(m) ==
    /\ activations[m].state = "activating"
    /\ Job(activations[m].job).status = "queued"
    /\ table' = Dropped(table, activations[m].job, "superseded")
    /\ activations' = [activations EXCEPT ![m].state = "inactive", ![m].job = 0]
    /\ UNCHANGED lastId

DeactivateRunning(m) ==
    /\ activations[m].state = "activating"
    /\ Job(activations[m].job).status = "running"
    /\ table' = Cancelled(table, activations[m].job)
    /\ activations' = [activations EXCEPT ![m].pending = TRUE]
    /\ UNCHANGED lastId

DeactivateActive(m) ==
    /\ activations[m].state = "active"
    /\ ReleaseLoaded(table, activations, m)

Deactivate(m) ==
    /\ ~closing
    /\ \/ DeactivateFailed(m)
       \/ DeactivateWaiting(m)
       \/ DeactivateRunning(m)
       \/ DeactivateActive(m)
    /\ UNCHANGED <<requests, granted, closing, laneSide>>

GiveGrant(g) ==
    /\ ~closing
    /\ granted[g] = "never"
    /\ granted' = [granted EXCEPT ![g] = "live"]
    /\ UNCHANGED <<table, lastId, requests, activations, closing, laneSide>>

\* A task of an active module, under a live grant.
Task(m, g) ==
    /\ ~closing
    /\ requests < MaxRequests
    /\ activations[m].state = "active"
    /\ granted[g] = "live"
    /\ ~LaneFull(table, "task")
    /\ lastId' = lastId + 1
    /\ requests' = requests + 1
    /\ table' = Submitted(table, lastId + 1, NewJob("task", m, g))
    /\ UNCHANGED <<activations, granted, closing, laneSide>>

\* What cancelling a job means for its module: a waiting activation leaves
\* it inactive at once; a running one ends inactive when it stops.
CancelledActivation(acts, t, id) ==
    LET m == t.entries[id].module
    IN  IF t.entries[id].kind # "activate" \/ acts[m].job # id THEN acts
        ELSE CASE t.entries[id].status = "queued" -> [acts EXCEPT ![m] =
                      [@ EXCEPT !.state = "inactive", !.job = 0]]
               [] t.entries[id].status = "running" ->
                      [acts EXCEPT ![m].pending = TRUE]
               [] OTHER -> acts

\* module.job.cancel: any client, any job but a release.
CancelJob(id) ==
    /\ ~closing
    /\ id \in LiveIds(table)
    /\ Job(id).kind # "deactivate"
    /\ table' = Cancelled(table, id)
    /\ activations' = CancelledActivation(activations, table, id)
    /\ UNCHANGED <<lastId, requests, granted, closing, laneSide>>

\* depending_on
DependingOn(t, g) == {id \in LiveIds(t) : t.entries[id].grant = g}

\* Every job is cancelled, in the order of the ids.
AllCancelled(t, ids) ==
    LET after[n \in 0 .. lastId] ==
            IF n = 0 THEN t
            ELSE IF n \in ids THEN Cancelled(after[n - 1], n) ELSE after[n - 1]
    IN  after[lastId]

\* Revoking, by request or because a setting the grant names has changed.
RevokeGrant(g) ==
    /\ ~closing
    /\ granted[g] = "live"
    /\ granted' = [granted EXCEPT ![g] = "revoked"]
    /\ table' = AllCancelled(table, DependingOn(table, g))
    /\ UNCHANGED <<lastId, requests, activations, closing, laneSide>>

-----------------------------------------------------------------------------
\* A result is served.

\* A success of a task that was asked to stop as it finished counts as
\* cancelled.
TaskResult(job, result) ==
    IF job.kind = "task" /\ job.cancelled /\ result = "ready"
      THEN "cancelled" ELSE result

\* Whether the job is still the one the module's activation is about.
IsCurrent(acts, id, job) == acts[job.module].job = id

\* activation_finished
Activated(t, acts, m, result) ==
    IF result = "ready" /\ acts[m].pending
      THEN ReleaseLoaded(t, acts, m)
      ELSE /\ table' = t
           /\ UNCHANGED lastId
           /\ activations' = [acts EXCEPT ![m] =
                 CASE result = "ready" -> [Inactive EXCEPT !.state = "active"]
                   [] result = "failed" /\ ~acts[m].pending ->
                          [Inactive EXCEPT !.state = "failed"]
                   [] OTHER -> Inactive]

ServeResult ==
    /\ ~closing
    /\ inbox # NoResult
    /\ inbox' = NoResult
    /\ LET id == inbox.id
           job == Job(id)
           result == TaskResult(job, inbox.result)
           t == Completed(table, id, result)
           m == job.module
       IN  IF job.kind = "activate" /\ IsCurrent(activations, id, job)
             THEN Activated(t, activations, m, result)
             ELSE /\ table' = t
                  /\ UNCHANGED lastId
                  /\ activations' =
                       IF job.kind = "deactivate" /\ activations[m].job = id
                         THEN [activations EXCEPT ![m].job = 0]
                         ELSE activations
    /\ UNCHANGED <<requests, granted, closing, worker, loaded>>

\* The editor closes: waiting jobs are dropped, the running one is asked
\* to stop, and the owner waits for the thread.
Close ==
    /\ ~closing
    /\ closing' = TRUE
    /\ table' = [table EXCEPT !.waiting = <<>>,
                    !.entries = [id \in DOMAIN table.entries |->
                        IF id \in LiveIds(table)
                          THEN [table.entries[id] EXCEPT !.cancelled = TRUE]
                          ELSE table.entries[id]]]
    /\ UNCHANGED <<lastId, requests, activations, granted, laneSide>>

-----------------------------------------------------------------------------
\* The lane thread.

Post(id, result) ==
    /\ inbox' = [id |-> id, result |-> result]
    /\ worker' = Resting

\* The job is taken and, unless it was cancelled on the way, started.
TakeJob ==
    /\ worker = Resting
    /\ table.channel # 0
    /\ table' = [table EXCEPT !.channel = 0]
    /\ IF Job(table.channel).cancelled
         THEN Post(table.channel, "cancelled")
         ELSE /\ worker' = [id |-> table.channel, phase |-> "working"]
              /\ UNCHANGED inbox
    /\ UNCHANGED <<lastId, requests, activations, granted, closing, loaded>>

WorksOn(kind) == worker.phase = "working" /\ Job(worker.id).kind = kind

\* The module's `activate`: it loads, or it fails, panics or heeds the
\* cancel flag with part of it loaded.
LoadModule ==
    /\ WorksOn("activate")
    /\ \E ok \in BOOLEAN :
          /\ loaded' = [loaded EXCEPT ![Job(worker.id).module] = TRUE]
          /\ worker' = [worker EXCEPT !.phase = IF ok THEN "activated" ELSE "failed"]
    /\ UNCHANGED <<ownerSide, inbox>>

Unload(m) == loaded' = [loaded EXCEPT ![m] = FALSE]

\* An activation asked to stop as it finished counts as cancelled, and
\* whatever did not succeed is unloaded.
ActivationSucceeds ==
    /\ worker.phase = "activated"
    /\ ~Job(worker.id).cancelled
    /\ Post(worker.id, "ready")
    /\ UNCHANGED <<ownerSide, loaded>>

ActivationFails ==
    /\ \/ worker.phase = "activated" /\ Job(worker.id).cancelled
       \/ worker.phase = "failed"
    /\ Unload(Job(worker.id).module)
    /\ \E result \in {"failed", "cancelled"} :
          /\ result = "cancelled" => Job(worker.id).cancelled
          /\ worker.phase = "activated" => result = "cancelled"
          /\ Post(worker.id, result)
    /\ UNCHANGED ownerSide

ReleaseModule ==
    /\ WorksOn("deactivate")
    /\ Unload(Job(worker.id).module)
    /\ Post(worker.id, "ready")
    /\ UNCHANGED ownerSide

\* The task and its last checkpoint.
RunTask ==
    /\ WorksOn("task")
    /\ \E result \in Results :
          /\ result = "cancelled" => Job(worker.id).cancelled
          /\ result = "ready" => ~Job(worker.id).cancelled
          /\ Post(worker.id, result)
    /\ UNCHANGED <<ownerSide, loaded>>

\* The channel is closed and empty: the thread ends and is joined.
Ended ==
    /\ closing /\ worker = Resting /\ table.channel = 0
    /\ worker' = [Resting EXCEPT !.phase = "ended"]
    /\ UNCHANGED <<ownerSide, inbox, loaded>>

Closed == worker.phase = "ended" /\ UNCHANGED lanesVars

LaneStep ==
    \/ TakeJob
    \/ LoadModule
    \/ ActivationSucceeds
    \/ ActivationFails
    \/ ReleaseModule
    \/ RunTask
    \/ Ended

LanesNext ==
    \/ \E m \in Modules : Activate(m) \/ Deactivate(m)
    \/ \E g \in Grants : GiveGrant(g) \/ RevokeGrant(g)
    \/ \E m \in Modules, g \in Grants : Task(m, g)
    \/ \E id \in JobIds : CancelJob(id)
    \/ ServeResult
    \/ Close
    \/ LaneStep
    \/ Closed

LanesSpec == LanesInit /\ [][LanesNext]_lanesVars

\* The owner serves what is posted, the lane thread runs, and activations
\* and tasks return.  Nothing is assumed of the clients.
LanesFairSpec ==
    LanesSpec /\ WF_lanesVars(ServeResult) /\ WF_lanesVars(LaneStep)

-----------------------------------------------------------------------------
\* Properties

LanesTypeOK ==
    /\ DOMAIN table.entries \subseteq JobIds
    /\ \A id \in DOMAIN table.entries :
          /\ Job(id) \in Jobs
          /\ Job(id).status = "superseded" => Job(id).kind = "activate"
    /\ lastId \in 0 .. 2 * MaxRequests
    /\ requests \in 0 .. MaxRequests
    /\ activations \in [Modules -> [state : {"inactive", "activating", "active", "failed"},
                                    job : 0 .. lastId, pending : BOOLEAN]]
    /\ granted \in [Grants -> {"never", "live", "revoked"}]
    /\ closing \in BOOLEAN
    /\ worker \in [id : 0 .. lastId, phase : {"resting", "working", "activated",
                                               "failed", "ended"}]
    /\ inbox \in [id : 0 .. lastId, result : Results]
    /\ loaded \in [Modules -> BOOLEAN]

\* The queue, the lane and the records agree: a queued record waits once,
\* the running one is in exactly one of the channel, the thread and the
\* owner's channel, the ring holds every finished record and nothing else,
\* and no job waits behind an idle lane.  The `expect`s of dispatch and
\* deactivate rest on it.
LaneSound ==
    ~closing =>
        /\ {table.waiting[n] : n \in DOMAIN table.waiting} =
              {id \in DOMAIN table.entries : Job(id).status = "queued"}
        /\ \A n, k \in DOMAIN table.waiting :
              table.waiting[n] = table.waiting[k] => n = k
        /\ {table.running} \ {0} =
              {id \in DOMAIN table.entries : Job(id).status = "running"}
        /\ {table.channel, worker.id, inbox.id} \ {0} = {table.running} \ {0}
        /\ table.waiting # <<>> => table.running # 0
        /\ {table.finished[n] : n \in DOMAIN table.finished} =
              DOMAIN table.entries \ LiveIds(table)

\* An active module has loaded what its activation needs, and nothing on
\* the lane is about to take it away (module.status reads `active`).
ActiveIsLoaded ==
    \A m \in Modules : activations[m].state = "active" =>
        /\ loaded[m]
        /\ \A id \in LiveIds(table) : Job(id).module = m => Job(id).kind = "task"

\* A task that was admitted while its module was active finds it loaded
\* when it runs, whatever was asked in between: a release runs behind the
\* work queued before it.
TaskFindsLoaded == WorksOn("task") => loaded[Job(worker.id).module]

\* A release is admitted to a full lane because "it is at most one per
\* module" (Admission::Always), so the queue is bounded all the same.
OneRelease ==
    \A m \in Modules :
        Cardinality({id \in LiveIds(table) :
                        Job(id).kind = "deactivate" /\ Job(id).module = m}) <= 1

\* No task goes on under a revoked grant without having been asked to
\* stop, wherever it was when the grant was revoked.
RevokedStops ==
    \A id \in LiveIds(table) :
        Job(id).grant # NoGrant /\ granted[Job(id).grant] = "revoked" =>
            Job(id).cancelled

\* Work that may still load or unload a module: a live activation or
\* release.
Settling(m) ==
    \E id \in LiveIds(table) :
        Job(id).module = m /\ Job(id).kind \in {"activate", "deactivate"}

\* "Whatever the job does, the module ends inactive and anything it loaded
\* is released" (Activation::pending).  Violated by an activation that had
\* succeeded before it was asked to stop, when a second one was queued
\* behind it and withdrawn again before the first result was served.
InactiveHoldsNothing ==
    \A m \in Modules :
        activations[m].state \in {"inactive", "failed"} /\ ~Settling(m) /\ ~closing
            => ~loaded[m]

\* How a job ended does not change, and a job ends cancelled only if
\* somebody asked for it.
EndsOnce ==
    [][\A id \in DOMAIN table.entries \intersect DOMAIN table'.entries :
          /\ Job(id).status \in Over =>
                table'.entries[id].status = Job(id).status
          /\ table'.entries[id].status = "cancelled" =>
                table'.entries[id].cancelled]_lanesVars

\* What waits in the lane, what its thread works on and the records of
\* jobs agree; an active module is loaded, a task finds its module loaded,
\* a module has one release at a time, no task goes on under a revoked
\* grant untold, and a job ends once.
LanesHold ==
    /\ [](LanesTypeOK /\ LaneSound /\ ActiveIsLoaded)
    /\ [](TaskFindsLoaded /\ OneRelease /\ RevokedStops)
    /\ EndsOnce

\* Every job ends, and with it every activation, unless the editor closes.
JobsEnd == \A id \in JobIds : []<>(id \notin LiveIds(table) \/ closing)

ActivationsSettle ==
    \A m \in Modules :
        []<>(activations[m].state # "activating" \/ closing)

\* Closing the editor ends the lane's thread.
ClosingEnds == []<>(closing => worker.phase = "ended")

=============================================================================
