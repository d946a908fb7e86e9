------------------------------- MODULE Latest -------------------------------
(***************************************************************************)
(* The one-worker, latest-job primitive of luxforge-core (latest.rs).      *)
(*                                                                         *)
(* A consumer hands jobs to one worker thread.  One job runs, one waits,   *)
(* and a newer request replaces the waiting one.  Every job and every      *)
(* result carries a generation.  The consumer and the worker share one     *)
(* mutex and one condition variable; an action below is what one thread    *)
(* does between taking the mutex and giving it back.                       *)
(*                                                                         *)
(* What a job computes is left out: a job hands over at most MaxSends      *)
(* results before its last one, and may return no last one (which is also  *)
(* what a panic does).                                                     *)
(***************************************************************************)
EXTENDS Integers, Sequences

CONSTANTS
    WaitingResults,  \* WAITING_RESULTS: room for results not polled yet
    MaxGeneration,   \* bound: generations handed out in a behaviour
    MaxSends         \* bound: results one job hands over before its last

ASSUME LatestAssumption ==
    /\ WaitingResults \in Nat \ {0}
    /\ MaxGeneration \in Nat
    /\ MaxSends \in Nat

Generations == 1 .. MaxGeneration

\* Active::new: a job with fresh tokens, not taken yet.  Generation 0 is
\* never handed out, so Handed(0) stands for no job.
Handed(g) == [generation |-> g, superseded |-> FALSE,
              abandoned |-> FALSE, taken |-> FALSE]

NoJob == Handed(0)

VARIABLES
    \* State, behind the mutex
    generation,     \* the last generation handed out
    floor,          \* results at or below it are never delivered
    active,         \* the job handed to the worker, with its two tokens
    pending,        \* the generation of the waiting job, 0 for none
    results,        \* generations of the results waiting, oldest first
    stopped,        \* the Latest has been dropped
    \* the worker thread
    pc,             \* where it is in `work`
    asleep,         \* it waits on the condition variable there
    current,        \* the generation of the job it runs
    sends,          \* results this job handed over before its last
    \* the consumer
    signal,         \* the waker has posted a signal nobody took yet
    draining,       \* it is polling until nothing is left
    lastDelivered,  \* the generation of the last result polled
    \* history, read by no action
    told,           \* generations the consumer knows will never start
    started         \* generations whose run function was called

shared == <<generation, floor, active, pending, results, stopped>>
worker == <<pc, asleep, current, sends>>
consumer == <<signal, draining, lastDelivered>>
vars == <<shared, worker, consumer, told, started>>

Jobs == [generation : 0 .. MaxGeneration, superseded : BOOLEAN,
         abandoned : BOOLEAN, taken : BOOLEAN]

\* `checking`  at the top of the loop of `work`, about to look for a job
\* `running`   inside the run function, without the mutex
\* `sending`   in Running::send, `returning` with the last result: both
\*             are the loop of hand_over
\* `sent`, `returned`  the result is in, the waker is not called yet
Places == {"checking", "running", "sending", "sent",
           "returning", "returned", "ended"}

Working == pc \in {"running", "sending", "sent", "returning"}

-----------------------------------------------------------------------------

Superseded(job) == [job EXCEPT !.superseded = TRUE]

FaultyAbandonedAny(job) ==
    [job EXCEPT !.superseded = TRUE, !.abandoned = TRUE]

Abandoned(job) ==
    IF job = NoJob THEN NoJob
    ELSE [job EXCEPT !.superseded = TRUE, !.abandoned = TRUE]

FaultyNotify == UNCHANGED asleep

\* notify_all: the worker is the only thread that ever waits.
Notify == asleep' = FALSE

Init ==
    /\ generation = 0
    /\ floor = 0
    /\ active = NoJob
    /\ pending = 0
    /\ results = <<>>
    /\ stopped = FALSE
    /\ pc = "checking"
    /\ asleep = FALSE
    /\ current = 0
    /\ sends = 0
    /\ signal = FALSE
    /\ draining = FALSE
    /\ lastDelivered = 0
    /\ told = {}
    /\ started = {}

-----------------------------------------------------------------------------
\* The consumer.  It owns the Latest: after Drop it makes no more calls.

\* The waiting slot and the active job after a request of generation g.
PlaceFromIdle(g) ==
    /\ active' = Handed(g)
    /\ Notify
    /\ UNCHANGED <<pending, told>>

ReplaceWaiting(g) ==
    /\ active' = Superseded(active)
    /\ pending' = g
    /\ told' = told \union ({pending} \ {0})
    /\ UNCHANGED asleep

Request ==
    /\ ~stopped
    /\ generation < MaxGeneration
    /\ generation' = generation + 1
    /\ \/ active = NoJob /\ PlaceFromIdle(generation + 1)
       \/ active # NoJob /\ ReplaceWaiting(generation + 1)
    /\ UNCHANGED <<floor, results, stopped, pc, current, sends, consumer,
                   started>>

Cancel ==
    /\ ~stopped
    /\ generation < MaxGeneration
    /\ generation' = generation + 1
    /\ floor' = generation + 1
    /\ active' = Abandoned(active)
    /\ pending' = 0
    /\ results' = <<>>
    /\ Notify
    /\ told' = told \union ({pending} \ {0})
    /\ UNCHANGED <<stopped, pc, current, sends, consumer, started>>

\* A withdrawn job that has not started never starts; one that has is
\* abandoned and its results are still delivered.
WithdrawWaiting(g) ==
    /\ pending = g
    /\ pending' = 0
    /\ told' = told \union {g}
    /\ UNCHANGED active

WithdrawActive(g) ==
    /\ pending # g
    /\ active.generation = g
    /\ active' = Abandoned(active)
    /\ told' = IF active.taken THEN told ELSE told \union {g}
    /\ UNCHANGED pending

Withdraw(g) ==
    /\ ~stopped
    /\ WithdrawWaiting(g) \/ WithdrawActive(g)
    /\ UNCHANGED <<generation, floor, results, stopped, worker, consumer,
                   started>>

PollResult ==
    /\ ~stopped
    /\ results # <<>>
    /\ lastDelivered' = Head(results)
    /\ results' = Tail(results)
    /\ Notify
    /\ UNCHANGED <<generation, floor, active, pending, stopped, pc, current,
                   sends, signal, draining, told, started>>

PollNothing ==
    /\ ~stopped
    /\ results = <<>>
    /\ draining' = FALSE
    /\ UNCHANGED <<shared, worker, signal, lastDelivered, told, started>>

\* The consumer's loop takes the signal the waker posted, then polls until
\* nothing is left.
TakeSignal ==
    /\ ~stopped
    /\ signal
    /\ signal' = FALSE
    /\ draining' = TRUE
    /\ UNCHANGED <<shared, worker, lastDelivered, told, started>>

Drop ==
    /\ ~stopped
    /\ stopped' = TRUE
    /\ active' = Abandoned(active)
    /\ pending' = 0
    /\ results' = <<>>
    /\ Notify
    /\ UNCHANGED <<generation, floor, pc, current, sends, consumer, told,
                   started>>

-----------------------------------------------------------------------------
\* The worker thread.

FaultyPromotePeeks == active' = Handed(pending) /\ UNCHANGED pending

\* The waiting job becomes the active one, with tokens of its own.
Promote == active' = Handed(pending) /\ pending' = 0

Stop ==
    /\ pc = "checking" /\ ~asleep
    /\ stopped
    /\ pc' = "ended"
    /\ UNCHANGED <<shared, asleep, current, sends, consumer, told, started>>

WaitsToStart == active # NoJob /\ ~active.taken

FaultyMayStart == TRUE

MayStart == ~active.abandoned

StartJob ==
    /\ pc = "checking" /\ ~asleep
    /\ ~stopped
    /\ WaitsToStart
    /\ MayStart
    /\ active' = [active EXCEPT !.taken = TRUE]
    /\ pc' = "running"
    /\ current' = active.generation
    /\ sends' = 0
    /\ started' = started \union {active.generation}
    /\ UNCHANGED <<generation, floor, pending, results, stopped, asleep,
                   consumer, told>>

\* Abandoned before it started: it never starts, and the job behind it
\* does.
SkipAbandoned ==
    /\ pc = "checking" /\ ~asleep
    /\ ~stopped
    /\ WaitsToStart
    /\ ~MayStart
    /\ Promote
    /\ UNCHANGED <<generation, floor, results, stopped, worker, consumer,
                   told, started>>

SleepForJob ==
    /\ pc = "checking" /\ ~asleep
    /\ ~stopped
    /\ ~WaitsToStart
    /\ asleep' = TRUE
    /\ UNCHANGED <<shared, pc, current, sends, consumer, told, started>>

\* A condition variable may wake without a notification.
SpuriousWake ==
    /\ asleep
    /\ asleep' = FALSE
    /\ UNCHANGED <<shared, pc, current, sends, consumer, told, started>>

BeginSend ==
    /\ pc = "running"
    /\ sends < MaxSends
    /\ sends' = sends + 1
    /\ pc' = "sending"
    /\ UNCHANGED <<shared, asleep, current, consumer, told, started>>

\* hand_over, one turn of its loop
Stale(g) == stopped \/ g <= floor

Room == Len(results) < WaitingResults

WaitForRoom ==
    /\ pc \in {"sending", "returning"} /\ ~asleep
    /\ ~Stale(current)
    /\ ~Room
    /\ asleep' = TRUE
    /\ UNCHANGED <<shared, pc, current, sends, consumer, told, started>>

FaultyDeliver ==
    /\ ~Stale(current)
    /\ Room
    /\ results' = <<current>> \o results

Deliver ==
    /\ ~Stale(current)
    /\ Room
    /\ results' = Append(results, current)

SendDelivers ==
    /\ pc = "sending" /\ ~asleep
    /\ Deliver
    /\ pc' = "sent"
    /\ UNCHANGED <<generation, floor, active, pending, stopped, asleep,
                   current, sends, consumer, told, started>>

SendStale ==
    /\ pc = "sending" /\ ~asleep
    /\ Stale(current)
    /\ pc' = "running"
    /\ UNCHANGED <<shared, asleep, current, sends, consumer, told, started>>

BeginReturn ==
    /\ pc = "running"
    /\ pc' = "returning"
    /\ UNCHANGED <<shared, asleep, current, sends, consumer, told, started>>

\* None, or a panic: the job is released and delivers nothing more.
ReturnNothing ==
    /\ pc = "running"
    /\ Promote
    /\ pc' = "checking"
    /\ UNCHANGED <<generation, floor, results, stopped, asleep, current,
                   sends, consumer, told, started>>

\* The last result and the release are one step under the mutex.
ReturnDelivers ==
    /\ pc = "returning" /\ ~asleep
    /\ Deliver
    /\ Promote
    /\ pc' = "returned"
    /\ UNCHANGED <<generation, floor, stopped, asleep, current, sends,
                   consumer, told, started>>

ReturnStale ==
    /\ pc = "returning" /\ ~asleep
    /\ Stale(current)
    /\ Promote
    /\ pc' = "checking"
    /\ UNCHANGED <<generation, floor, results, stopped, asleep, current,
                   sends, consumer, told, started>>

\* The waker is called once per delivered result, after unlocking.
CallWaker ==
    /\ pc \in {"sent", "returned"}
    /\ signal' = TRUE
    /\ pc' = IF pc = "sent" THEN "running" ELSE "checking"
    /\ UNCHANGED <<shared, asleep, current, sends, draining, lastDelivered,
                   told, started>>

-----------------------------------------------------------------------------

ConsumerNext ==
    \/ Request
    \/ Cancel
    \/ \E g \in Generations : Withdraw(g)
    \/ PollResult
    \/ PollNothing
    \/ TakeSignal
    \/ Drop

\* Everything the worker does by itself inside the primitive.
WorkerStep ==
    \/ Stop
    \/ StartJob
    \/ SkipAbandoned
    \/ SleepForJob
    \/ WaitForRoom
    \/ SendDelivers
    \/ SendStale
    \/ ReturnDelivers
    \/ ReturnStale
    \/ CallWaker

\* What the run function decides.
JobStep ==
    \/ BeginSend
    \/ BeginReturn
    \/ ReturnNothing

\* The thread is gone after the Latest is dropped.
Terminated == pc = "ended" /\ UNCHANGED vars

Next == ConsumerNext \/ WorkerStep \/ JobStep \/ SpuriousWake \/ Terminated

Spec == Init /\ [][Next]_vars

\* The thread is scheduled and every run function returns; nothing is
\* assumed of the consumer.
WorkerFairness == WF_vars(WorkerStep) /\ WF_vars(JobStep)

\* The consumer takes signals and drains after one, and only then.
ConsumerFairness ==
    /\ WF_vars(TakeSignal)
    /\ WF_vars(draining /\ (PollResult \/ PollNothing))

WorkerSpec == Spec /\ WorkerFairness

FairSpec == WorkerSpec /\ ConsumerFairness

-----------------------------------------------------------------------------
\* Properties

TypeOK ==
    /\ generation \in 0 .. MaxGeneration
    /\ floor \in 0 .. MaxGeneration
    /\ active \in Jobs
    /\ active.generation = 0 => active = NoJob
    /\ pending \in 0 .. MaxGeneration
    /\ results \in Seq(Generations)
    /\ stopped \in BOOLEAN
    /\ pc \in Places
    /\ asleep \in BOOLEAN
    /\ current \in 0 .. MaxGeneration
    /\ sends \in 0 .. MaxSends
    /\ signal \in BOOLEAN
    /\ draining \in BOOLEAN
    /\ lastDelivered \in 0 .. MaxGeneration
    /\ told \subseteq Generations
    /\ started \subseteq Generations

\* Nothing waits behind an idle worker, and the waiting job is newer than
\* the one it waits behind: a job requested from idle runs at once, so the
\* slot of `pending` is set only while `active` is (State::pending).
WaitsBehindNewer ==
    pending # 0 => active # NoJob /\ pending > active.generation

\* The job the worker runs is the one the shared state calls active until
\* the step that releases it, whatever the consumer does meanwhile: the
\* consumer's calls reach the running job's tokens only through `active`
\* (Latest::cancel, withdraw, drop).
WorkerHoldsActive ==
    /\ active.taken <=> Working
    /\ Working => active.generation = current

\* Results waiting are in generation order, above the floor, at least as
\* new as the last one polled, and never more than WAITING_RESULTS: what
\* `poll` relies on when it takes the front one (latest.rs, Delivery and
\* Bounds).
ResultsInOrder ==
    /\ Len(results) <= WaitingResults
    /\ \A i \in 1 .. Len(results) :
          /\ floor < results[i] /\ lastDelivered <= results[i]
          /\ results[i] <= current
          /\ \A j \in 1 .. i : results[j] <= results[i]

\* What the two tokens mean to the job that reads them.  A job is told it
\* is superseded as soon as a newer one waits and never while it is the
\* newest, unless it is abandoned; it is abandoned as soon as a cancel
\* made its results stale or the Latest was dropped (latest.rs, Tokens).
TokensTell ==
    active # NoJob =>
        /\ pending # 0 => active.superseded
        /\ active.abandoned => active.superseded
        /\ active.superseded /\ ~active.abandoned =>
              active.generation < generation
        /\ active.generation <= floor \/ stopped => active.abandoned

\* No wake-up is lost: while the worker sleeps, what it sleeps for has not
\* happened.  Every change that gives it something to do notifies, and a
\* request that finds a job active and a withdrawal need not.
SleepsOnlyForCause ==
    asleep => \/ pc = "checking" /\ ~stopped /\ ~WaitsToStart
              \/ pc \in {"sending", "returning"} /\ ~Stale(current) /\ ~Room

\* No job vanishes: every generation handed out was started, was reported
\* to the consumer as one that never starts, was cancelled, or is held.
JobsAccounted ==
    \/ stopped
    \/ \A g \in 1 .. generation :
          \/ g \in told \union started \union {active.generation, pending}
          \/ g <= floor

\* The worker is never asleep over work it could do, never runs a job the
\* shared state does not call active, and keeps nothing waiting behind
\* nobody: the mutex, the condition variable and the two slots agree.
WorkerSound == WaitsBehindNewer /\ WorkerHoldsActive /\ SleepsOnlyForCause

\* What the consumer and a job may believe holds: results come in order
\* and never stale, a job's tokens say what became of it, and no
\* generation vanishes.
ConsumerSound == ResultsInOrder /\ TokensTell /\ JobsAccounted

\* Both sides together: what latest.rs promises of its one mutex.
LatestSound == WorkerSound /\ ConsumerSound

\* A job starts at most once, and never after the consumer was told it
\* will not, by Requested::replaced, by a withdrawal before its start or
\* by a cancel.
StartsOnce ==
    [][pc = "checking" /\ pc' = "running" =>
         current' \notin told \union started /\ current' > floor]_vars

\* A waiting job starts by itself: without any step of the consumer it
\* starts once the running one returns, unless results fill their room.
WaitingStartsAlone ==
    \A g \in Generations :
        pending = g ~> \/ g \in started \union told \/ g <= floor
                       \/ stopped \/ ~Room

\* Dropping the Latest ends the thread, with no consumer left to poll.
DropEndsThread == stopped ~> pc = "ended"

\* Every job the worker was handed is released in the end when the
\* consumer polls only because it was woken.
EveryJobEnds ==
    \A g \in Generations :
        g \in {active.generation, pending} ~>
            g \notin {active.generation, pending} \/ stopped

\* Every result is polled or cancelled in the end when the consumer polls
\* only because it was woken: the waker is called for each of them.
ResultsAreTaken == results # <<>> ~> (results = <<>> \/ stopped)

\* The four together.  The worker's own fairness is all that is assumed of
\* the first two; the others hold for a consumer that polls when woken.
Progress ==
    /\ WaitingStartsAlone /\ DropEndsThread
    /\ ConsumerFairness => EveryJobEnds /\ ResultsAreTaken

\* A Latest keeps the promise of LatestPromise.
Promise == INSTANCE LatestPromise WITH
    issued <- generation, seen <- lastDelivered, dead <- told

PromiseKept == Promise!Spec

=============================================================================
