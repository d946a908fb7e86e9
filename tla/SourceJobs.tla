----------------------------- MODULE SourceJobs -----------------------------
(***************************************************************************)
(* Preparing originals: the catalog owner's table of source jobs, the one  *)
(* source worker, the memory gate between them, and the clients that wait  *)
(* (api/owner.rs, the gate of source.rs, the cache of editor/source.rs,    *)
(* and ready_preview_job of the desktop's app/tasks.rs).                   *)
(*                                                                         *)
(* A client asks for something that evaluates a stack.  When the owner's   *)
(* one cached original does not serve it, the owner queues a job, or joins *)
(* the client to the job already doing that work, and the client waits and *)
(* asks again.  A RAW original is developed at the stack's gains; its      *)
(* planes are so large that the worker allocates none while others are     *)
(* held, by the cache, by a preview, or by a result on its way.            *)
(*                                                                         *)
(* Each client has one request at a time.  Jobs that read artifacts only,  *)
(* collections, and the event an import announces are left out; a decode   *)
(* may fail for reasons of its own.                                        *)
(***************************************************************************)
EXTENDS Naturals, Sequences, FiniteSets, SequencesExt

CONSTANTS
    Clients,
    Photos,          \* assets of either kind
    Raws,            \* the RAW ones
    Gains,           \* the gains a RAW may be developed at
    JobIds,          \* identities of jobs; enough that one is always fresh
    None,
    QueueCapacity,   \* SOURCE_QUEUE_CAPACITY
    ResultCapacity,  \* SOURCE_RESULT_CAPACITY
    InboxCapacity,   \* the bound of the owner's channel
    MaxMosaics       \* MAX_QUEUED_MOSAICS

ASSUME SourceJobsAssumption ==
    /\ Raws \subseteq Photos
    /\ None \notin Photos \union Gains \union JobIds \union Clients
    /\ {QueueCapacity, ResultCapacity, InboxCapacity, MaxMosaics} \subseteq Nat \ {0}

VARIABLES
    \* the owner
    jobs,       \* the table of jobs
    active,     \* the job a request for each key may join
    completed,  \* ended jobs, oldest first
    cache,      \* the one original kept ready
    inbox,      \* what the worker has told the owner and it has not read
    \* the worker
    queue,      \* tasks waiting, oldest first
    worker,     \* what it is doing, and for which job
    pinned,     \* a preview holds planes
    \* the clients
    stage,      \* where each client's request is
    want,       \* the stack it needs
    at          \* the job it was told to wait for

owner == <<jobs, active, completed, cache, inbox>>
clients == <<stage, want, at>>
vars == <<owner, queue, worker, pinned, clients>>

Stacks == {s \in [photo : Photos, gains : Gains \union {None}] :
             s.photo \in Raws <=> s.gains # None}

IsRaw(s) == s.gains # None

Keys == {k \in [kind : {"file", "develop"}, stack : Stacks] :
           k.kind = "develop" => IsRaw(k.stack)}

Job == [key : Keys, clients : SUBSET Clients, cancelled : BOOLEAN,
        state : {"queued", "preparing"}, sensor : JobIds \union {None}]

\* Of a job that has ended only its status is read again, by the clients
\* that are still at it.
EndedJob == [state : {"ready", "failed"}]

NoJob == [state |-> "none"]

Cache == [photo : Photos, gains : Gains \union {None},
          sensor : JobIds \union {None}, planes : BOOLEAN]

NoCache == [photo |-> None, gains |-> None, sensor |-> None, planes |-> FALSE]

Message == [kind : {"started", "prepared", "failed"}, id : JobIds]

\* Every variable keeps its type, and the channels and the list of ended
\* jobs their bounds.
TypeOK ==
    /\ jobs \in [JobIds -> Job \union EndedJob \union {NoJob}]
    /\ active \in [Keys -> JobIds \union {None}]
    /\ completed \in Seq(JobIds) /\ Len(completed) <= ResultCapacity
    /\ cache \in Cache \union {NoCache}
    /\ inbox \in Seq(Message) /\ Len(inbox) <= InboxCapacity
    /\ queue \in Seq(JobIds) /\ Len(queue) <= QueueCapacity
    /\ worker \in [doing : {"idle", "gate", "work"}, id : JobIds \union {None}]
    /\ pinned \in BOOLEAN
    /\ stage \in [Clients -> {"idle", "ask", "told", "wait", "blocked", "refused"}]
    /\ want \in [Clients -> Stacks \union {None}]
    /\ at \in [Clients -> JobIds \union {None}]

Init ==
    /\ jobs = [i \in JobIds |-> NoJob]
    /\ active = [k \in Keys |-> None]
    /\ completed = <<>>
    /\ cache = NoCache
    /\ inbox = <<>>
    /\ queue = <<>>
    /\ worker = [doing |-> "idle", id |-> None]
    /\ pinned = FALSE
    /\ stage = [c \in Clients |-> "idle"]
    /\ want = [c \in Clients |-> None]
    /\ at = [c \in Clients |-> None]

-----------------------------------------------------------------------------
Live == {i \in JobIds : jobs[i].state \in {"queued", "preparing"}}

JobsOf(c) == {i \in Live : c \in jobs[i].clients}

SensorsOf(js) == {jobs[i].sensor : i \in js} \ {None}

\* The mosaics of unfinished developments that something still keeps: the
\* cache, or the development's own task or result.
Sensors ==
    SensorsOf({i \in Live :
        \/ jobs[i].sensor = cache.sensor
        \/ i \in ToSet(queue) \union {worker.id}
        \/ [kind |-> "prepared", id |-> i] \in ToSet(inbox)})

\* Unused, and named by nothing that outlives its job.
Fresh(i) ==
    /\ jobs[i] = NoJob
    /\ cache.sensor # i
    /\ i \notin SensorsOf(Live)
    /\ \A c \in Clients : at[c] # i

\* The cached original serves an evaluation of this stack.
Serves(s) ==
    /\ cache.photo = s.photo
    /\ IsRaw(s) => cache.planes /\ cache.gains = s.gains

\* evict_development
Evicted(kept) == IF kept.photo \in Raws THEN [kept EXCEPT !.planes = FALSE] ELSE kept

\* Planes that hold the gate shut.
Held ==
    \/ cache.photo \in Raws /\ cache.planes
    \/ pinned
    \/ \E m \in ToSet(inbox) : m.kind = "prepared" /\ IsRaw(jobs[m.id].key.stack)

-----------------------------------------------------------------------------
\* A client's request.

Want(c, s) ==
    /\ stage[c] = "idle"
    /\ stage' = [stage EXCEPT ![c] = "ask"]
    /\ want' = [want EXCEPT ![c] = s]
    /\ UNCHANGED <<owner, queue, worker, pinned, at>>

ClientAt(c, where, id) ==
    /\ stage' = [stage EXCEPT ![c] = where]
    /\ at' = [at EXCEPT ![c] = id]
    /\ want' = IF where = "idle" THEN [want EXCEPT ![c] = None] ELSE want

\* A preview or a sample of a RAW holds its planes until it is done.
Served(c) ==
    /\ stage[c] = "ask"
    /\ Serves(want[c])
    /\ ClientAt(c, "idle", None)
    /\ pinned' = (pinned \/ IsRaw(want[c]))
    /\ UNCHANGED <<owner, queue, worker>>

\* What a stack the cache does not serve needs: its original, or, when the
\* cache holds that, a development of it.
KeyFor(s) ==
    [kind |-> IF cache.photo = s.photo THEN "develop" ELSE "file", stack |-> s]

SensorFor(k) == IF k.kind = "develop" THEN cache.sensor ELSE None

FaultyMosaicRoom(k) ==
    k.kind = "develop" =>
        Cardinality(Sensors) + 1 < MaxMosaics \/ SensorFor(k) \in Sensors

\* Unfinished developments keep at most MaxMosaics mosaics between them.
MosaicRoom(k) ==
    k.kind = "develop" =>
        Cardinality(Sensors) < MaxMosaics \/ SensorFor(k) \in Sensors

\* Every way of queueing a preparation evicts the planes that are cached.
Join(c) ==
    LET k == KeyFor(want[c])
        i == active[k]
    IN  /\ stage[c] = "ask"
        /\ ~Serves(want[c])
        /\ i # None
        /\ jobs' = [jobs EXCEPT ![i].clients = @ \union {c}]
        /\ cache' = Evicted(cache)
        /\ ClientAt(c, "told", i)
        /\ UNCHANGED <<active, completed, inbox, queue, worker, pinned>>

Submit(c) ==
    LET k == KeyFor(want[c])
        i == CHOOSE j \in JobIds : Fresh(j)
    IN  /\ stage[c] = "ask"
        /\ ~Serves(want[c])
        /\ active[k] = None
        /\ MosaicRoom(k)
        /\ Len(queue) < QueueCapacity
        /\ \E j \in JobIds : Fresh(j)
        /\ jobs' = [jobs EXCEPT ![i] =
             [key |-> k, clients |-> {c}, cancelled |-> FALSE,
              state |-> "queued", sensor |-> SensorFor(k)]]
        /\ active' = [active EXCEPT ![k] = i]
        /\ queue' = Append(queue, i)
        /\ cache' = Evicted(cache)
        /\ ClientAt(c, "told", i)
        /\ UNCHANGED <<completed, inbox, worker, pinned>>

Refuse(c) ==
    LET k == KeyFor(want[c])
    IN  /\ stage[c] = "ask"
        /\ ~Serves(want[c])
        /\ active[k] = None
        /\ ~MosaicRoom(k) \/ Len(queue) = QueueCapacity
        /\ ClientAt(c, "refused", None)
        /\ UNCHANGED <<owner, queue, worker, pinned>>

\* The oldest ended jobs beyond the capacity leave the table.
Retire(id, table) ==
    LET ended == Append(completed, id)
        dropped == IF Len(ended) > ResultCapacity THEN {Head(ended)} ELSE {}
    IN  /\ completed' = IF dropped = {} THEN ended ELSE Tail(ended)
        /\ jobs' = [i \in JobIds |-> IF i \in dropped THEN NoJob ELSE table[i]]

\* source.prepare of a stack with nothing left to prepare is answered with
\* a job that is already ready, and the request is over.
PrepareReady(c) ==
    LET i == CHOOSE j \in JobIds : Fresh(j)
    IN  /\ stage[c] = "ask"
        /\ Serves(want[c])
        /\ \E j \in JobIds : Fresh(j)
        /\ Retire(i, [jobs EXCEPT ![i] = [state |-> "ready"]])
        /\ ClientAt(c, "idle", None)
        /\ UNCHANGED <<active, cache, inbox, queue, worker, pinned>>

-----------------------------------------------------------------------------
\* A client's wait.

\* job.status: ready, ask again; failed, or gone from the table, give up.
ReadStatus(c) ==
    LET i == at[c]
    IN  /\ stage[c] = "told"
        /\ \/ /\ i \in JobsOf(c)
              /\ ClientAt(c, "wait", i)
           \/ /\ jobs[i].state = "ready"
              /\ ClientAt(c, "ask", None)
           \/ /\ i \notin JobsOf(c) /\ jobs[i].state # "ready"
              /\ ClientAt(c, "idle", None)
        /\ UNCHANGED <<owner, queue, worker, pinned>>

\* wait_source: for its job, or, refused, for any job to end.
AwaitJob(c) ==
    /\ stage[c] = "wait"
    /\ IF at[c] \in JobsOf(c)
       THEN ClientAt(c, "blocked", at[c]) ELSE ClientAt(c, "told", at[c])
    /\ UNCHANGED <<owner, queue, worker, pinned>>

AwaitRoom(c) ==
    /\ stage[c] = "refused"
    /\ IF Live # {} THEN ClientAt(c, "blocked", None) ELSE ClientAt(c, "ask", None)
    /\ UNCHANGED <<owner, queue, worker, pinned>>

\* A client leaves jobs of its own; one that nobody else wants is stopped,
\* and the next request for the same work starts another.
Leave(c, left) ==
    LET stopped == {i \in left : jobs[i].clients = {c}}
    IN  /\ jobs' = [i \in JobIds |->
             IF i \in left
             THEN [jobs[i] EXCEPT !.clients = @ \ {c}, !.cancelled = i \in stopped]
             ELSE jobs[i]]
        /\ active' = [k \in Keys |-> IF active[k] \in stopped THEN None ELSE active[k]]

Cancel(c) ==
    /\ at[c] # None
    /\ Leave(c, {at[c]} \intersect JobsOf(c))
    /\ ClientAt(c, "idle", None)
    /\ UNCHANGED <<completed, cache, inbox, queue, worker, pinned>>

Disconnect(c) ==
    /\ stage[c] # "idle"
    /\ Leave(c, JobsOf(c))
    /\ ClientAt(c, "idle", None)
    /\ UNCHANGED <<completed, cache, inbox, queue, worker, pinned>>

-----------------------------------------------------------------------------
\* The worker.

Tell(kind, id) ==
    /\ Len(inbox) < InboxCapacity
    /\ inbox' = Append(inbox, [kind |-> kind, id |-> id])

WorkerDoes(what, id) == worker' = [doing |-> what, id |-> id]

FaultyDrop(id) ==
    /\ jobs[id].cancelled
    /\ UNCHANGED inbox
    /\ WorkerDoes("idle", None)

\* A stopped task is not begun; the owner is told that it failed.
Drop(id) ==
    /\ jobs[id].cancelled
    /\ Tell("failed", id)
    /\ WorkerDoes("idle", None)

TakeTask ==
    /\ worker.doing = "idle"
    /\ queue # <<>>
    /\ queue' = Tail(queue)
    /\ \/ Drop(Head(queue))
       \/ /\ ~jobs[Head(queue)].cancelled
          /\ WorkerDoes("gate", Head(queue))
          /\ UNCHANGED inbox
    /\ UNCHANGED <<jobs, active, completed, cache, pinned, clients>>

\* wait_released: a stop wakes it too.
PassGate ==
    /\ worker.doing = "gate"
    /\ \/ Drop(worker.id)
       \/ /\ ~jobs[worker.id].cancelled
          /\ ~Held
          /\ Tell("started", worker.id)
          /\ WorkerDoes("work", worker.id)
    /\ UNCHANGED <<jobs, active, completed, cache, queue, pinned, clients>>

\* A stop may come too late for the work to see it.
EndWork ==
    /\ worker.doing = "work"
    /\ \E kind \in {"prepared", "failed"} : Tell(kind, worker.id)
    /\ WorkerDoes("idle", None)
    /\ UNCHANGED <<jobs, active, completed, cache, queue, pinned, clients>>

EndPreview ==
    /\ pinned
    /\ pinned' = FALSE
    /\ UNCHANGED <<owner, queue, worker, clients>>

-----------------------------------------------------------------------------
\* The owner reads what the worker tells it.

SourceStarted ==
    /\ inbox # <<>>
    /\ Head(inbox).kind = "started"
    /\ inbox' = Tail(inbox)
    /\ jobs' = [jobs EXCEPT ![Head(inbox).id].state = "preparing"]
    /\ UNCHANGED <<active, completed, cache, queue, worker, pinned, clients>>

\* A development is installed only over the mosaic it was made from.
Installs(id) ==
    LET job == jobs[id]
    IN  /\ job.clients # {}
        /\ job.key.kind = "develop" =>
             cache.photo = job.key.stack.photo /\ cache.sensor = job.sensor

Installed(id) ==
    LET job == jobs[id]
    IN  [photo |-> job.key.stack.photo, gains |-> job.key.stack.gains,
         sensor |-> IF job.key.kind = "develop" THEN job.sensor
                    ELSE IF IsRaw(job.key.stack) THEN id ELSE None,
         planes |-> TRUE]

\* Planes installed while other work may be joined give way to it.
Settled(kept, id) ==
    IF \E k \in Keys : active[k] \notin {id, None} THEN Evicted(kept) ELSE kept

\* The waits for this job are over, and so are those for room.
Ends(c, id) == stage[c] = "blocked" /\ at[c] \in {id, None}

ReleaseWaiters(id) ==
    /\ stage' = [c \in Clients |->
         IF ~Ends(c, id) THEN stage[c] ELSE IF at[c] = None THEN "ask" ELSE "told"]
    /\ UNCHANGED <<want, at>>

SourceComplete ==
    LET message == Head(inbox)
        id == message.id
        installs == message.kind = "prepared" /\ Installs(id)
        kept == IF installs THEN Installed(id) ELSE cache
    IN  /\ inbox # <<>>
        /\ message.kind # "started"
        /\ inbox' = Tail(inbox)
        /\ active' = [k \in Keys |-> IF active[k] = id THEN None ELSE active[k]]
        /\ Retire(id, [jobs EXCEPT ![id] =
             [state |-> IF installs THEN "ready" ELSE "failed"]])
        /\ cache' = Settled(kept, id)
        /\ ReleaseWaiters(id)
        /\ UNCHANGED <<queue, worker, pinned>>

-----------------------------------------------------------------------------
Asks(c) == Served(c) \/ Join(c) \/ Submit(c) \/ Refuse(c)

Next ==
    \/ TakeTask \/ PassGate \/ EndWork \/ EndPreview
    \/ SourceStarted \/ SourceComplete
    \/ \E c \in Clients :
         \/ \E s \in Stacks : Want(c, s)
         \/ Asks(c) \/ PrepareReady(c)
         \/ ReadStatus(c) \/ AwaitJob(c) \/ AwaitRoom(c)
         \/ Cancel(c) \/ Disconnect(c)

\* The two threads run while they can, a preview ends, and a client that
\* has begun a request goes on with it as ready_preview_job does.
Fairness ==
    /\ WF_vars(TakeTask) /\ WF_vars(PassGate) /\ WF_vars(EndWork)
    /\ WF_vars(SourceStarted \/ SourceComplete)
    /\ WF_vars(EndPreview)
    /\ \A c \in Clients :
         /\ WF_vars(Asks(c)) /\ WF_vars(ReadStatus(c))
         /\ WF_vars(AwaitJob(c)) /\ WF_vars(AwaitRoom(c))

Spec == Init /\ [][Next]_vars /\ Fairness

-----------------------------------------------------------------------------
\* The places a task can be: the channel, the worker, a message that ends
\* it.
Queued == ToSet(queue)
EndMessages == {n \in 1 .. Len(inbox) : inbox[n].kind # "started"}
Ending == {inbox[n].id : n \in EndMessages}

\* Every job that is queued or preparing has exactly one task under way,
\* and no other job has one: none is lost, none ends twice.
JobsAdvance ==
    /\ Live = Queued \union ({worker.id} \ {None}) \union Ending
    /\ worker.id \notin Queued \union Ending /\ Queued \intersect Ending = {}
    /\ \A m, n \in 1 .. Len(queue) : queue[m] = queue[n] => m = n
    /\ \A m, n \in EndMessages : inbox[m].id = inbox[n].id => m = n

\* A request joins only a job that will serve it: one that does its work,
\* is not stopped and has not ended; and every job somebody waits for can
\* be joined (SourceJobs::submit, cancel, disconnect, complete).
Joinable ==
    /\ \A k \in Keys : active[k] # None =>
         /\ active[k] \in Live
         /\ jobs[active[k]].key = k
         /\ ~jobs[active[k]].cancelled
    /\ \A i \in Live : jobs[i].clients # {} => active[jobs[i].key] = i

\* A blocked client waits for something that will wake it
\* (await_source, release_waiters).
WaitersWake ==
    \A c \in Clients : stage[c] = "blocked" =>
        IF at[c] = None THEN Live # {} ELSE at[c] \in JobsOf(c)

\* Planes are held by the cache while the worker waits for them only if
\* the job is stopped: nothing else would release them (evict_development).
GateOpens ==
    worker.doing = "gate" /\ cache.photo \in Raws /\ cache.planes
        => jobs[worker.id].cancelled

\* All together: what the table, the channels, the worker and the clients
\* believe of a job is of its type and agrees, across both threads.
JobsSound == TypeOK /\ JobsAdvance /\ Joinable /\ WaitersWake /\ GateOpens

\* A client is refused for want of room only while some job is under way,
\* so the wait for room, which an idle owner answers at once, does not
\* spin (tasks.rs:548).
NeverSpins ==
    [][\A c \in Clients : stage[c] # "refused" /\ stage'[c] = "refused" => Live # {}]_vars

\* A job that is under way ends.
JobsEnd == \A i \in JobIds : []<>(i \notin Live)

\* A client that blocks is woken.
ClientsWake == \A c \in Clients : []<>(stage[c] # "blocked")

\* Both: nothing that is under way stands still for good.
NothingHangs == JobsEnd /\ ClientsWake

\* user-guide.md:381: "Wait for that job and retry": a client that does is
\* answered, with what it asked for or with an error.
RequestsEnd == \A c \in Clients : stage[c] = "ask" ~> stage[c] = "idle"
=============================================================================
