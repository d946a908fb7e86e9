------------------------------ MODULE Analyses ------------------------------
(***************************************************************************)
(* The analysis jobs of luxforge-core: the catalog owner's table of jobs   *)
(* (AnalysisStore), the queue that names their generations (AnalysisQueue, *)
(* both in analysis/jobs.rs) and the Latest worker they run on.            *)
(*                                                                         *)
(* Every client asks the owner for the analysis of an image, named by an   *)
(* identity.  Equal identities share a job.  The owner serves one message  *)
(* at a time and reaches the worker through the mutex of Latest; a call    *)
(* that takes that mutex twice is two actions here.                        *)
(*                                                                         *)
(* Job ids are numbers given out in order, so the order of insertion,      *)
(* which is the order of eviction, is the order of the numbers.            *)
(***************************************************************************)
EXTENDS Latest, FiniteSets, FiniteSetsExt, SequencesExt

CONSTANTS
    Clients,
    Identities,   \* the images one can ask about
    Unevaluable,  \* those whose stack has no output stage
    MaxReady,     \* MAX_READY_REPORTS
    MaxRecords,   \* MAX_JOB_RECORDS
    MaxJobs,      \* bound: job ids given out in a behaviour
    MayPanic      \* whether an analysis may panic on the worker

AnalysesAssumption ==
    /\ Unevaluable \subseteq Identities
    /\ MaxReady \in Nat \ {0}
    /\ MaxRecords \in Nat /\ MaxRecords > WaitingResults + 2
    /\ MaxJobs \in Nat
    /\ MayPanic \in BOOLEAN
    /\ MaxSends = 0  \* `analyse` hands over its outcome and nothing else

VARIABLES
    \* AnalysisStore
    jobs,         \* the records held, by job id
    index,        \* by_identity: the job an identity is answered with, or 0
    lastId,       \* the last job id given out
    \* AnalysisQueue
    generations,  \* the newest requests: job id and generation
    tasks,        \* the job id inside the task of each generation
    \* the owner
    connected,    \* the clients that have not left
    orphans,      \* jobs it still has to withdraw before the next message
    peeked        \* the withdrawal it is in the middle of

store == <<jobs, index, lastId>>
queue == <<generations, tasks>>
owner == <<connected, orphans, peeked>>
latest == vars
allVars == <<latest, store, queue, owner>>

JobIds == 1 .. MaxJobs

FinishedStates == {"ready", "failed", "superseded", "cancelled"}

Records == [identity : Identities, requesters : SUBSET Clients,
            interested : SUBSET Clients, state : FinishedStates \union {"pending"}]

Finished(record) == record.state # "pending"

Pending(id) == id \in DOMAIN jobs /\ ~Finished(jobs[id])

NoPeek == [id |-> 0, generation |-> 0, waited |-> FALSE]

\* The owner is between two messages.
Free == orphans = {} /\ peeked = NoPeek /\ ~draining

AnalysesInit ==
    /\ Init
    /\ jobs = <<>>
    /\ index = [i \in Identities |-> 0]
    /\ lastId = 0
    /\ generations = <<>>
    /\ tasks = <<>>
    /\ connected = Clients
    /\ orphans = {}
    /\ peeked = NoPeek

-----------------------------------------------------------------------------
\* The table.  Every change of it ends with a trim.

InState(js, states) == {id \in DOMAIN js : js[id].state \in states}

ExcessReports(js) ==
    LET ready == InState(js, {"ready"})
    IN  {id \in ready : Cardinality({k \in ready : k > id}) >= MaxReady}

ExcessRecords(js) ==
    LET finished == InState(js, FinishedStates)
    IN  {id \in finished :
            Cardinality({k \in finished : k < id})
                < Cardinality(DOMAIN js) - MaxRecords}

Without(js, ids) == [id \in DOMAIN js \ ids |-> js[id]]

\* The oldest reports go first, then the oldest finished records; a
\* pending one never.
Trimmed(js) ==
    LET bounded == Without(js, ExcessReports(js))
    IN  Without(bounded, ExcessRecords(bounded))

Settle(js, idx) ==
    /\ jobs' = Trimmed(js)
    /\ index' = [i \in Identities |->
                    IF idx[i] \in DOMAIN Trimmed(js) THEN idx[i] ELSE 0]

Ended(js, id, state) ==
    [js EXCEPT ![id].state = state, ![id].interested = {}]

\* supersede and cancel: the identity can be asked again.
Finish(js, idx, id, state) ==
    IF id \in DOMAIN js /\ ~Finished(js[id])
      THEN Settle(Ended(js, id, state),
                  [i \in Identities |-> IF idx[i] = id THEN 0 ELSE idx[i]])
      ELSE jobs' = js /\ index' = idx

Opened(js, id, record) ==
    [k \in DOMAIN js \union {id} |-> IF k = id THEN record ELSE js[k]]

Fresh(i, c) == [identity |-> i, requesters |-> {c}, interested |-> {c},
                state |-> "pending"]

-----------------------------------------------------------------------------
\* The generations the queue remembers.

HeldJobs == WaitingResults + 2

GenerationOf(id) ==
    LET named == {n \in DOMAIN generations : generations[n].id = id}
    IN  IF named = {} THEN 0 ELSE generations[Min(named)].generation

Forgotten(gs, g) == SelectSeq(gs, LAMBDA held : held.generation # g)

Remembered(gs, displaced, id, g) ==
    LET others == Forgotten(gs, displaced)
        kept == IF Len(others) = HeldJobs THEN Tail(others) ELSE others
    IN  Append(kept, [id |-> id, generation |-> g])

-----------------------------------------------------------------------------
\* What the owner does for a message.

\* analysis.request for an identity some job answers.
Join(c, i) ==
    /\ Free /\ c \in connected
    /\ index[i] # 0
    /\ jobs' = [jobs EXCEPT ![index[i]].requesters = @ \union {c},
                   ![index[i]].interested =
                       IF Finished(jobs[index[i]]) THEN @ ELSE @ \union {c}]
    /\ UNCHANGED <<latest, index, lastId, queue, owner>>

\* analysis.request for any other: a new job, handed to the worker; the
\* one it displaces from the waiting slot is superseded.
RequestWork(c, i) ==
    /\ Free /\ c \in connected
    /\ index[i] = 0 /\ i \notin Unevaluable
    /\ lastId < MaxJobs
    /\ lastId' = lastId + 1
    /\ Request
    /\ LET id == lastId + 1
           displaced == pending
           opened == Trimmed(Opened(jobs, id, Fresh(i, c)))
           idx == [k \in Identities |->
                      IF k = i THEN id
                      ELSE IF index[k] \in DOMAIN opened THEN index[k] ELSE 0]
       IN  /\ tasks' = Append(tasks, id)
           /\ generations' = Remembered(generations, displaced, id, generation')
           /\ IF displaced = 0
                THEN jobs' = opened /\ index' = idx
                ELSE Finish(opened, idx, tasks[displaced], "superseded")
    /\ UNCHANGED owner

\* A stack with no output stage: the job is failed from the start.
RequestFails(c, i) ==
    /\ Free /\ c \in connected
    /\ index[i] = 0 /\ i \in Unevaluable
    /\ lastId < MaxJobs
    /\ lastId' = lastId + 1
    /\ LET id == lastId + 1
           opened == Trimmed(Opened(jobs, id, Fresh(i, c)))
       IN  Settle(Ended(opened, id, "failed"), [index EXCEPT ![i] = id])
    /\ UNCHANGED <<latest, queue, owner>>

\* release: whether nobody wants the job any more.
NobodyElse(js, id, c) == js[id].interested \ {c} = {}

\* analysis.cancel
CancelJob(c, id) ==
    /\ Free /\ c \in connected
    /\ id \in DOMAIN jobs /\ c \in jobs[id].requesters
    /\ jobs' = [jobs EXCEPT ![id].interested = @ \ {c}]
    /\ orphans' = IF ~Finished(jobs[id]) /\ NobodyElse(jobs, id, c)
                    THEN {id} ELSE {}
    /\ UNCHANGED <<latest, index, lastId, queue, connected, peeked>>

Disconnect(c) ==
    /\ Free /\ c \in connected
    /\ connected' = connected \ {c}
    /\ jobs' = [id \in DOMAIN jobs |->
                   [jobs[id] EXCEPT !.requesters = @ \ {c},
                                    !.interested = @ \ {c}]]
    /\ orphans' = {id \in DOMAIN jobs :
                      /\ c \in jobs[id].requesters
                      /\ ~Finished(jobs[id])
                      /\ NobodyElse(jobs, id, c)}
    /\ UNCHANGED <<latest, index, lastId, queue, peeked>>

\* AnalysisQueue::withdraw looks at the waiting slot first.
PeekSlot(id) ==
    /\ peeked = NoPeek
    /\ id \in orphans
    /\ GenerationOf(id) # 0
    /\ peeked' = [id |-> id, generation |-> GenerationOf(id),
                  waited |-> pending = GenerationOf(id)]
    /\ UNCHANGED <<latest, store, queue, connected, orphans>>

\* A job whose generation is forgotten is only cancelled in the table.
CancelForgotten(id) ==
    /\ peeked = NoPeek
    /\ id \in orphans
    /\ GenerationOf(id) = 0
    /\ Finish(jobs, index, id, "cancelled")
    /\ orphans' = orphans \ {id}
    /\ UNCHANGED <<latest, lastId, queue, connected, peeked>>

\* The job is dropped from the slot or, if the worker took it since, or
\* before, abandoned; or the worker is already done with it.
WithdrawIfHeld(g) ==
    \/ Withdraw(g)
    \/ g \notin {pending, active.generation} /\ UNCHANGED latest

WithdrawOrphan ==
    /\ peeked # NoPeek
    /\ WithdrawIfHeld(peeked.generation)
    /\ generations' = IF peeked.waited
                        THEN Forgotten(generations, peeked.generation)
                        ELSE generations
    /\ Finish(jobs, index, peeked.id, "cancelled")
    /\ orphans' = orphans \ {peeked.id}
    /\ peeked' = NoPeek
    /\ UNCHANGED <<lastId, tasks, connected>>

\* AnalysisReady: the owner polls until nothing is left.
TakeReady ==
    /\ Free
    /\ TakeSignal
    /\ UNCHANGED <<store, queue, owner>>

\* A bug for the mutants: an outcome is stored whatever the record says.
CompleteAny(id, state) ==
    IF id \in DOMAIN jobs
      THEN Settle(Ended(jobs, id, state), index)
      ELSE UNCHANGED <<jobs, index>>

\* The outcome is stored only when the record still waits for it.
Complete(id, state) ==
    IF Pending(id)
      THEN Settle(Ended(jobs, id, state), index)
      ELSE UNCHANGED <<jobs, index>>

\* Outcomes come in generation order, so the ring forgets this one and
\* everything older.
PollOutcome ==
    /\ draining
    /\ PollResult
    /\ generations' = SelectSeq(generations,
                          LAMBDA held : held.generation > Head(results))
    /\ \E state \in {"ready", "failed"} : Complete(tasks[Head(results)], state)
    /\ UNCHANGED <<lastId, tasks, owner>>

PollEnds ==
    /\ draining
    /\ PollNothing
    /\ UNCHANGED <<store, queue, owner>>

\* AnalysisSubmitted: the desktop's preview produced the report.  A job
\* that waits for it is ready and its worker runs on.
SubmitJoins(i) ==
    /\ Free
    /\ index[i] # 0
    /\ ~Finished(jobs[index[i]])
    /\ Settle(Ended(jobs, index[i], "ready"), index)
    /\ UNCHANGED <<latest, lastId, queue, owner>>

SubmitOpens(i) ==
    /\ Free
    /\ index[i] = 0 /\ i \notin Unevaluable
    /\ lastId < MaxJobs
    /\ lastId' = lastId + 1
    /\ Settle(Opened(jobs, lastId + 1,
                     [identity |-> i, requesters |-> {}, interested |-> {},
                      state |-> "ready"]),
              [index EXCEPT ![i] = lastId + 1])
    /\ UNCHANGED <<latest, queue, owner>>

-----------------------------------------------------------------------------

OwnerStep ==
    \/ TakeReady
    \/ PollOutcome
    \/ PollEnds
    \/ \E id \in JobIds : PeekSlot(id) \/ CancelForgotten(id)
    \/ WithdrawOrphan

ClientStep ==
    \/ \E c \in Clients, i \in Identities :
          Join(c, i) \/ RequestWork(c, i) \/ RequestFails(c, i)
    \/ \E c \in Clients, id \in JobIds : CancelJob(c, id)
    \/ \E c \in Clients : Disconnect(c)
    \/ \E i \in Identities : SubmitJoins(i) \/ SubmitOpens(i)

\* The steps of the worker and of `analyse`: it hands over one outcome,
\* and the queue is neither cancelled nor dropped, so none is stale.
WorkerRuns ==
    \/ StartJob
    \/ SkipAbandoned
    \/ WaitForRoom
    \/ ReturnDelivers
    \/ CallWaker
    \/ BeginReturn

Panics == MayPanic /\ ReturnNothing

Waits == SleepForJob \/ SpuriousWake

AnalysisWorker ==
    /\ WorkerRuns \/ Panics \/ Waits
    /\ UNCHANGED <<store, queue, owner>>

AnalysesNext == ClientStep \/ OwnerStep \/ AnalysisWorker

AnalysesSpec == AnalysesInit /\ [][AnalysesNext]_allVars

\* The worker thread takes and runs what it has.
WorkerFair == (WorkerRuns \/ SleepForJob) /\ UNCHANGED <<store, queue, owner>>

\* The owner thread serves its messages, the worker thread runs, and a
\* render returns.  Nothing is assumed of the clients.
AnalysesFairSpec ==
    /\ AnalysesSpec
    /\ WF_allVars(OwnerStep)
    /\ WF_allVars(WorkerFair)

-----------------------------------------------------------------------------
\* Properties

StoreTypeOK ==
    /\ DOMAIN jobs \subseteq 1 .. lastId
    /\ \A id \in DOMAIN jobs : jobs[id] \in Records
    /\ index \in [Identities -> DOMAIN jobs \union {0}]
    /\ lastId \in 0 .. MaxJobs
    /\ \A n \in DOMAIN generations :
          generations[n] \in [id : JobIds, generation : Generations]
    /\ Len(generations) <= HeldJobs
    /\ Len(tasks) = generation /\ \A g \in DOMAIN tasks : tasks[g] \in JobIds
    /\ connected \subseteq Clients
    /\ orphans \subseteq JobIds
    /\ peeked \in [id : 0 .. MaxJobs, generation : 0 .. MaxGeneration,
                   waited : BOOLEAN]

\* The generations whose outcome can still come.
OnTheWay == {active.generation, pending} \union ToSet(results)

\* "A pending job is never evicted, because a worker still refers to it"
\* (jobs.rs, MAX_JOB_RECORDS), and a client is told `running` or `queued`
\* of it: the worker waits to run it, runs it without having been told to
\* stop, or its outcome waits for the owner, unless the owner is about to
\* cancel it.
PendingHeld ==
    \A id \in DOMAIN jobs :
        Pending(id) /\ id \notin orphans =>
            \E g \in OnTheWay \ {0} :
                /\ tasks[g] = id
                /\ g = active.generation => ~active.abandoned

\* A job that still counts can be withdrawn: while it waits or runs, the
\* ring of HELD_JOBS generations names it ("the running and pending jobs
\* are always among this many newest", jobs.rs), although jobs withdrawn
\* before they started take up places in the ring.
HeldAreNamed ==
    \A g \in {active.generation, pending} \ {0} :
        Pending(tasks[g]) /\ tasks[g] \notin orphans =>
            GenerationOf(tasks[g]) = g

\* The same work is never done twice: an identity has at most one job that
\* is pending, ready or failed, a request finds that job, and a superseded
\* or cancelled one never answers a later request.
OneAnswer ==
    \A i \in Identities :
        LET answering == {id \in DOMAIN jobs :
                /\ jobs[id].identity = i
                /\ jobs[id].state \in {"pending", "ready", "failed"}}
        IN  answering = {index[i]} \ {0}

\* Pending work is wanted by a client that is still there, or about to be
\* withdrawn: no disconnect or cancel leaves work nobody asked for, and a
\* finished job holds no interest.
WorkIsWanted ==
    \A id \in DOMAIN jobs :
        /\ jobs[id].interested \subseteq jobs[id].requesters \intersect connected
        /\ (jobs[id].interested = {}) = (Finished(jobs[id]) \/ id \in orphans)

\* Both bounds hold between messages although pending records cannot be
\* evicted: the worker holds few enough of them.
StoreBounded ==
    /\ Cardinality(InState(jobs, {"ready"})) <= MaxReady
    /\ Cardinality(DOMAIN jobs) <= MaxRecords

\* How a job ended does not change: an outcome that arrives after its job
\* was cancelled, superseded or answered by a submitted report is
\* discarded.
EndsOnce ==
    [][\A id \in DOMAIN jobs \intersect DOMAIN jobs' :
          Finished(jobs[id]) => jobs'[id].state = jobs[id].state]_allVars

\* `analysis_request` answers with the record it has just opened: no trim
\* of the same message evicts it (the `expect` in owner.rs).
OpenedIsThere ==
    [][lastId' # lastId => lastId' \in DOMAIN jobs']_allVars

\* Every job a client waits for ends.
PendingEnds == \A id \in JobIds : []<>~Pending(id)

=============================================================================
