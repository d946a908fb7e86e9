------------------------------ MODULE TaskPanel ------------------------------
(***************************************************************************)
(* One task of a capability module as the desktop shows it                 *)
(* (app/capabilities.rs, state/capabilities.rs): the run of the open       *)
(* photograph, the consent notice, the tracked jobs and their poll, and    *)
(* the round trips to the owner whose answers come back in any order.      *)
(*                                                                         *)
(* A round trip is one thread: the operation, a read of the job it         *)
(* started, the module's status; the owner goes on between them. The wait  *)
(* for a preparation before a task is asked again only takes time. The     *)
(* limit of tracked jobs is left out: finished ones go first, and nothing  *)
(* here reads them.                                                        *)
(*                                                                         *)
(* The Faulty... variants are used by no action.                           *)
(***************************************************************************)
EXTENDS Integers, FiniteSets

CONSTANTS Assets, JobIds,
    Vacant,        \* no run, no notice, an empty slot, no poll
    AnotherAsset,      \* the asset of a job another client asked for
    Slots,          \* how many round trips a person and a reload have in flight
    Granted,        \* the photographs that were allowed at first
    Presses,        \* which of "cancel", "revoke" a person presses
    Outside         \* which of "job", "reload" come from another client, and "forget"

TaskPanelAssumption ==
    /\ AnotherAsset \notin Assets /\ Vacant \notin Assets \union JobIds
    /\ Slots \in Nat \ {0} /\ Granted \subseteq Assets
    /\ Presses \subseteq {"cancel", "revoke"}
    /\ Outside \subseteq {"job", "reload", "forget"}

VARIABLES
    open,           \* the photograph on screen
    run,            \* the task's newest run, as the panel holds it
    notice,         \* the photograph whose consent the open notice asks
    tracked,        \* what the panel knows of each job
    flights,        \* its round trips; slot 0 is the refresh after a poll
    poll,           \* the read of the live jobs in flight
    granted,        \* the owner: photographs with a live grant
    job             \* the owner's jobs

owner == <<granted, job>>
vars == <<open, run, notice, tracked, flights, poll, granted, job>>

Live(status) == status \in {"queued", "running"}
Ended == {"succeeded", "failed"}
NoJob == [status |-> "free", asset |-> AnotherAsset]

\* What a read of the owner says of a job.
Seen(j) ==
    IF Live(job[j].status) THEN "live"
    ELSE IF job[j].status \in Ended THEN job[j].status ELSE "none"

TypeOK ==
    /\ open \in Assets /\ notice \in Assets \union {Vacant}
    /\ run = Vacant
       \/ run \in [asset: Assets, job: JobIds \union {Vacant},
            phase: {"requesting", "consent", "job", "succeeded", "failed", "not-ready"}]
    /\ tracked \in [JobIds -> {"none", "live"} \union Ended]
    /\ \A s \in 0..Slots : flights[s] = Vacant
       \/ flights[s] \in [op: {"task", "cancel", "revoke", "deny", "refresh"},
            asset: Assets \union {AnotherAsset},
            step: {"grant", "call", "read", "status", "answer"},
            outcome: {"none", "done", "consent", "not-ready", "failed"},
            job: JobIds \union {Vacant}, record: {"none", "live"} \union Ended,
            status: [JobIds -> {"none", "live"} \union Ended]]
    /\ poll = Vacant
       \/ poll \in [todo: SUBSET JobIds, got: SUBSET (JobIds \X ({"none", "live"} \union Ended))]
    /\ granted \subseteq Assets
    /\ job \in [JobIds ->
         [status: {"free", "queued", "running", "forgotten"} \union Ended,
          asset: Assets \union {AnotherAsset}]]

Unread == [j \in JobIds |-> "none"]

Init ==
    /\ open \in Assets /\ run = Vacant /\ notice = Vacant
    /\ tracked = Unread /\ flights = [s \in 0..Slots |-> Vacant] /\ poll = Vacant
    /\ granted = Granted /\ job = [j \in JobIds |-> NoJob]

---------------------------------------------------------------------------
\* The desktop's presses.

Trip(op, a, first, j) ==
    [op |-> op, asset |-> a, step |-> first, outcome |-> "none", job |-> j,
     record |-> "none", status |-> Unread]

\* The window enables the module's buttons only while none is in flight.
Quiet == \A s \in 0..Slots : flights[s] = Vacant

\* The slots are only names: a press takes the first that is free.
Departs(s, trip) ==
    /\ flights[s] = Vacant /\ \A t \in 1 .. s - 1 : flights[t] # Vacant
    /\ flights' = [flights EXCEPT ![s] = trip]

\* The task's button: nothing in flight, and the newest run is over.
Runnable ==
    /\ Quiet
    /\ run # Vacant =>
        ~(run.phase \in {"requesting", "job"} \/ (run.phase = "consent" /\ notice # Vacant))

RunTask(s) ==
    /\ Runnable
    /\ Departs(s, Trip("task", open, "call", Vacant))
    /\ run' = [asset |-> open, job |-> Vacant, phase |-> "requesting"]
    /\ UNCHANGED <<open, notice, tracked, poll, owner>>

\* Cancel stays enabled while requests are in flight; Revoke does not.
Cancel(s) ==
    /\ "cancel" \in Presses /\ run # Vacant /\ run.phase = "job"
    /\ Departs(s, Trip("cancel", open, "call", run.job))
    /\ UNCHANGED <<open, run, notice, tracked, poll, owner>>

Revoke(s) ==
    /\ "revoke" \in Presses /\ Quiet
    /\ \E a \in granted : Departs(s, Trip("revoke", a, "call", Vacant))
    /\ UNCHANGED <<open, run, notice, tracked, poll, owner>>

\* Allow grants and asks again, as the request that was refused; Don't
\* allow is an operation of its own. Both take the notice down.
Answer(s, allow) ==
    /\ notice # Vacant /\ notice' = Vacant
    /\ Departs(s, IF allow THEN Trip("task", notice, "grant", Vacant)
                  ELSE Trip("deny", notice, "call", Vacant))
    /\ UNCHANGED <<open, run, tracked, poll, owner>>

\* Another photograph on screen clears a run that is not for it.
Kept(a) == IF run # Vacant /\ run.asset # a THEN Vacant ELSE run

Switch(a) ==
    /\ a # open /\ open' = a /\ run' = Kept(a)
    /\ UNCHANGED <<notice, tracked, flights, poll, owner>>

\* Another client's capability event: the module is read again, whatever
\* is in flight.
Reload(s) ==
    /\ "reload" \in Outside /\ Departs(s, Trip("refresh", AnotherAsset, "status", Vacant))
    /\ UNCHANGED <<open, run, notice, tracked, poll, owner>>

---------------------------------------------------------------------------
\* A round trip's steps at the owner.

Goes(s, f) == flights' = [flights EXCEPT ![s] = f] /\ UNCHANGED <<open, run, notice, tracked, poll>>

At(s, step) == flights[s] # Vacant /\ flights[s].step = step
Ends(f, out) == [f EXCEPT !.step = "status", !.outcome = out]
Starts(f, j) == [f EXCEPT !.step = "read", !.outcome = "done", !.job = j]

Grant(s) ==
    LET f == flights[s] IN
    /\ At(s, "grant")
    /\ \/ granted' = granted \union {f.asset} /\ Goes(s, [f EXCEPT !.step = "call"]) /\ UNCHANGED job
       \/ Goes(s, Ends(f, "failed")) /\ UNCHANGED owner

\* A new job takes an identity that was never used: they, too, are only
\* names, so which one it is does not matter.
Fresh(j) == job[j].status = "free" /\ j = CHOOSE i \in JobIds : job[i].status = "free"

\* Asking for the task: consent first, then what the module lacks, or a
\* job in the queue.
CallTask(s) ==
    LET f == flights[s] IN
    /\ At(s, "call") /\ f.op = "task"
    /\ IF f.asset \notin granted
       THEN Goes(s, Ends(f, "consent")) /\ UNCHANGED owner
       ELSE \/ \E out \in {"not-ready", "failed"} : Goes(s, Ends(f, out)) /\ UNCHANGED owner
            \/ \E j \in JobIds :
                 /\ Fresh(j)
                 /\ job' = [job EXCEPT ![j] = [status |-> "queued", asset |-> f.asset]]
                 /\ Goes(s, Starts(f, j)) /\ UNCHANGED granted

\* A waiting job ends at once; a running one is asked to stop and ends as
\* it does; a finished one is left as it is.
Stopped(js) ==
    [j \in JobIds |-> IF j \in js /\ job[j].status = "queued"
                      THEN [job[j] EXCEPT !.status = "failed"] ELSE job[j]]

CallCancel(s) ==
    LET f == flights[s] IN
    /\ At(s, "call") /\ f.op = "cancel"
    /\ IF Seen(f.job) = "none"
       THEN Goes(s, Ends(f, "failed")) /\ UNCHANGED owner
       ELSE job' = Stopped({f.job}) /\ Goes(s, Starts(f, f.job)) /\ UNCHANGED granted

CallRevoke(s) ==
    LET f == flights[s] IN
    /\ At(s, "call") /\ f.op = "revoke"
    /\ granted' = granted \ {f.asset}
    /\ job' = Stopped({j \in JobIds : job[j].asset = f.asset})
    /\ Goes(s, Ends(f, "done"))

CallDeny(s) ==
    /\ At(s, "call") /\ flights[s].op = "deny"
    /\ \E out \in {"done", "failed"} : Goes(s, Ends(flights[s], out))
    /\ UNCHANGED owner

ReadJob(s) ==
    LET f == flights[s] IN
    /\ At(s, "read")
    /\ Goes(s, [f EXCEPT !.step = "status", !.record = Seen(f.job)])
    /\ UNCHANGED owner

ReadStatus(s) ==
    /\ At(s, "status")
    /\ Goes(s, [flights[s] EXCEPT !.step = "answer", !.status = [j \in JobIds |-> Seen(j)]])
    /\ UNCHANGED owner

---------------------------------------------------------------------------
\* Answers, back on the update loop.

Track(was, said, started) ==
    IF said = "none" \/ (was = "none" /\ said # "live" /\ ~started) THEN was ELSE said

FaultyTracks(f) ==
    [j \in JobIds |->
        LET own == IF f.job = j THEN Track(tracked[j], f.record, TRUE) ELSE tracked[j]
        IN  Track(own, f.status[j], FALSE)]

Tracks(f) ==
    [j \in JobIds |->
        LET listed == Track(tracked[j], f.status[j], FALSE)
        IN  IF f.job = j THEN Track(listed, f.record, TRUE) ELSE listed]

Waits(r, j) == r # Vacant /\ r.phase = "job" /\ r.job = j

DeafFinished(r, j, said) ==
    IF Waits(r, j) /\ said = "succeeded" THEN [r EXCEPT !.phase = said] ELSE r

Finished(r, j, said) ==
    IF Waits(r, j) /\ said \in Ended THEN [r EXCEPT !.phase = said] ELSE r

Ran(f) ==
    IF run = Vacant \/ f.op # "task" \/ (f.outcome = "done" /\ f.record = "none") THEN run
    ELSE IF f.outcome = "done" THEN [run EXCEPT !.phase = "job", !.job = f.job]
    ELSE [run EXCEPT !.phase = f.outcome]

Answered(s) ==
    LET f == flights[s] IN
    /\ At(s, "answer")
    /\ tracked' = Tracks(f)
    /\ run' = IF f.job = Vacant THEN Ran(f) ELSE Finished(Ran(f), f.job, f.record)
    /\ notice' = IF f.outcome = "consent" THEN f.asset ELSE notice
    /\ flights' = [flights EXCEPT ![s] = Vacant]
    /\ UNCHANGED <<open, poll, owner>>

\* The poll's timer exists only while a tracked job is live.
Poll ==
    LET live == {j \in JobIds : tracked[j] = "live"} IN
    /\ poll = Vacant /\ live # {}
    /\ poll' = [todo |-> live, got |-> {}]
    /\ UNCHANGED <<open, run, notice, tracked, flights, owner>>

PollRead ==
    /\ poll # Vacant
    /\ \E j \in poll.todo :
        poll' = [todo |-> poll.todo \ {j}, got |-> poll.got \union {<<j, Seen(j)>>}]
    /\ UNCHANGED <<open, run, notice, tracked, flights, owner>>

PolledJob(j, was) ==
    IF <<j, "none">> \in poll.got THEN "none"
    ELSE IF \E said \in {"live"} \union Ended : <<j, said>> \in poll.got
    THEN CHOOSE said \in {"live"} \union Ended : <<j, said>> \in poll.got ELSE was

Polled ==
    LET over == {p \in poll.got : p[2] # "live"} IN
    /\ poll # Vacant /\ poll.todo = {} /\ poll' = Vacant
    /\ tracked' = [j \in JobIds |-> PolledJob(j, tracked[j])]
    /\ run' = IF run # Vacant /\ \E p \in over : p[2] \in Ended /\ Waits(run, p[1])
              THEN Finished(run, run.job, CHOOSE said \in Ended : <<run.job, said>> \in over)
              ELSE run
    /\ IF over # {} THEN Departs(0, Trip("refresh", AnotherAsset, "status", Vacant))
       ELSE UNCHANGED flights
    /\ UNCHANGED <<open, notice, owner>>

---------------------------------------------------------------------------
\* The owner's jobs on their lanes, and another client's.

JobEnds(j) ==
    \/ /\ job[j].status = "queued"
       /\ job' = [job EXCEPT ![j].status = "running"]
       /\ UNCHANGED <<open, run, notice, tracked, flights, poll, granted>>
    \/ /\ job[j].status = "running"
       /\ \E to \in Ended : job' = [job EXCEPT ![j].status = to]
       /\ UNCHANGED <<open, run, notice, tracked, flights, poll, granted>>

OtherJob(j) ==
    /\ "job" \in Outside /\ Fresh(j)
    /\ job' = [job EXCEPT ![j].status = "queued"]
    /\ UNCHANGED <<open, run, notice, tracked, flights, poll, granted>>

\* The owner keeps the newest thirty-two finished records: one is
\* forgotten after a poll is late, never between an answer and the read of
\* its job.
Forget(j) ==
    /\ "forget" \in Outside /\ job[j].status \in Ended
    /\ \A s \in 0..Slots : ~(At(s, "read") /\ flights[s].job = j)
    /\ job' = [job EXCEPT ![j].status = "forgotten"]
    /\ UNCHANGED <<open, run, notice, tracked, flights, poll, granted>>

\* Nothing is in flight and nothing is asked: the window waits.
Idle == Quiet /\ poll = Vacant /\ UNCHANGED vars

Step(s) ==
    Grant(s) \/ CallTask(s) \/ CallCancel(s) \/ CallRevoke(s) \/ CallDeny(s)
    \/ ReadJob(s) \/ ReadStatus(s) \/ Answered(s)

Person(s) ==
    \/ RunTask(s) \/ Cancel(s) \/ Revoke(s)
    \/ \E allow \in BOOLEAN : Answer(s, allow)

Next ==
    \/ \E s \in 1..Slots : Person(s) \/ Reload(s)
    \/ \E s \in 0..Slots : Step(s)
    \/ \E a \in Assets : Switch(a)
    \/ Poll \/ PollRead \/ Polled \/ Idle
    \/ \E j \in JobIds : JobEnds(j) \/ OtherJob(j) \/ Forget(j)

Spec == Init /\ [][Next]_vars

\* A round trip's thread and the owner go on, the timer ticks, a job ends.
FairSpec ==
    /\ Spec
    /\ \A s \in 0..Slots : WF_vars(Step(s))
    /\ WF_vars(Poll) /\ WF_vars(PollRead) /\ WF_vars(Polled)
    /\ \A j \in JobIds : WF_vars(JobEnds(j))

---------------------------------------------------------------------------
\* Properties.

\* The poll asks about the job a run waits for as long as the owner has it
\* live: no answer, of any round trip and however late, and no poll that
\* began before the run stops it.
LiveFollowed ==
    \A j \in JobIds : Waits(run, j) /\ Live(job[j].status) => tracked[j] = "live"

\* An answer that brings the record of the job a run waits for settles the
\* run or leaves the job to the poll, also when the status read after that
\* record already lists the job as ended.
AnswersFollow ==
    \A s \in 0..Slots :
        LET f == flights[s] IN
        (/\ At(s, "answer") /\ flights'[s] = Vacant /\ f.outcome = "done"
         /\ f.job # Vacant /\ Waits(run', f.job)) => tracked'[f.job] = "live"

\* What the panel holds as ended has ended so at the owner, and a run is
\* told of success only by a job that succeeded, whichever answer of
\* whichever photograph gave it that job.
EndsTrue ==
    /\ \A j \in JobIds : tracked[j] \in Ended => Seen(j) \in {tracked[j], "none"}
    /\ (run # Vacant /\ run.phase = "succeeded") => Seen(run.job) \in {"succeeded", "none"}

\* The run that waits for a job does not wait for ever: the job ends, and
\* the run takes how it ended.
RunSettles == \A j \in JobIds : []<>~Waits(run, j)

Requesting == run # Vacant /\ run.phase = "requesting"

\* Every refusal, consent and job answers the run that asked: none stays
\* "Sending" for ever.
Asked == []<>~Requesting

\* When no job of the module is live any more, the panel stops polling:
\* also for jobs that the owner has forgotten since.
PollStops ==
    <>[](\A j \in JobIds : ~Live(job[j].status)) => <>[](\A j \in JobIds : tracked[j] # "live")

\* "A declined consent ends the run it was asked for."
DeclinedEnds ==
    [][\A s \in 1..Slots :
        (/\ At(s, "answer") /\ flights[s].op = "deny" /\ flights'[s] = Vacant
         /\ run # Vacant /\ run.asset = flights[s].asset) => run'.phase # "consent"]_vars
=============================================================================
