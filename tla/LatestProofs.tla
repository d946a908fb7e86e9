---------------------------- MODULE LatestProofs ----------------------------
(***************************************************************************)
(* Theorems about Latest, for every room for results, every number of      *)
(* generations and every number of results a job hands over.               *)
(***************************************************************************)
EXTENDS Latest, SequenceTheorems, TLAPS

\* Nothing outruns the last generation handed out, and nothing polled is
\* newer than the job that ran last.
NothingAhead ==
    /\ active.generation <= generation
    /\ pending <= generation
    /\ floor <= generation
    /\ current <= generation
    /\ lastDelivered <= current

\* A job that has not started is newer than every job that has, and
\* neither a cancel nor a drop leaves a waiting job behind.
UnstartedIsNewer ==
    /\ WaitsToStart => current < active.generation
    /\ pending # 0 => current < pending /\ floor < pending /\ ~stopped

\* What the histories say of the state.
HistoryAgrees ==
    /\ \A g \in started : g <= current
    /\ told \intersect started = {}
    /\ \A g \in told : g <= generation
    /\ pending \notin told
    /\ WaitsToStart /\ active.generation \in told => active.abandoned
    /\ Working => current \in started
    /\ \A i \in 1 .. Len(results) : results[i] \in started
    /\ lastDelivered \in started \union {0}

\* A job abandoned before its start was withdrawn, cancelled or dropped.
AbandonedForCause ==
    WaitsToStart /\ active.abandoned =>
        active.generation \in told \/ active.generation <= floor \/ stopped

Accounted == JobsAccounted /\ AbandonedForCause

IInv ==
    /\ TypeOK
    /\ WaitsBehindNewer
    /\ WorkerHoldsActive
    /\ ResultsInOrder
    /\ TokensTell
    /\ SleepsOnlyForCause
    /\ NothingAhead
    /\ UnstartedIsNewer
    /\ HistoryAgrees
    /\ Accounted

-----------------------------------------------------------------------------

\* What the three operators on the active job do to its fields: no action
\* proof needs more of them, nor that a job is a record.
LEMMA HandedFacts ==
    ASSUME NEW g \in 0 .. MaxGeneration
    PROVE  /\ Handed(g) \in Jobs
           /\ Handed(g).generation = g
           /\ ~Handed(g).taken /\ ~Handed(g).abandoned /\ ~Handed(g).superseded
           /\ (Handed(g) = NoJob) <=> (g = 0)
  BY DEF Handed, Jobs, NoJob

LEMMA SupersededFacts ==
    ASSUME NEW job \in Jobs
    PROVE  /\ Superseded(job) \in Jobs
           /\ Superseded(job).generation = job.generation
           /\ Superseded(job).taken = job.taken
           /\ Superseded(job).abandoned = job.abandoned
           /\ Superseded(job).superseded
  BY DEF Superseded, Jobs

LEMMA NoJobFacts ==
    /\ NoJob \in Jobs /\ NoJob.generation = 0
    /\ ~NoJob.taken /\ ~NoJob.abandoned /\ ~NoJob.superseded
  BY LatestAssumption DEF NoJob, Handed, Jobs

LEMMA AbandonedFacts ==
    ASSUME NEW job \in Jobs, job.generation = 0 => job = NoJob
    PROVE  /\ Abandoned(job) \in Jobs
           /\ Abandoned(job).generation = job.generation
           /\ Abandoned(job).taken = job.taken
           /\ (Abandoned(job) = NoJob) <=> (job = NoJob)
           /\ job # NoJob => Abandoned(job).superseded /\ Abandoned(job).abandoned
  <1>1. CASE job = NoJob
    BY <1>1, NoJobFacts DEF Abandoned
  <1>2. CASE job # NoJob
    BY <1>2, NoJobFacts DEF Abandoned, Jobs
  <1> QED BY <1>1, <1>2

\* Taking a job sets its `taken` field alone.
LEMMA TakenFacts ==
    ASSUME NEW job \in Jobs, NEW took, took = [job EXCEPT !.taken = TRUE]
    PROVE  /\ took \in Jobs
           /\ took.generation = job.generation
           /\ took.superseded = job.superseded
           /\ took.abandoned = job.abandoned
           /\ took.taken
  BY DEF Jobs

\* TypeOK in two parts: the Boolean variables, which Zenon handles, and
\* the rest, which the SMT solver does.
FlagsOK ==
    /\ stopped \in BOOLEAN
    /\ asleep \in BOOLEAN
    /\ signal \in BOOLEAN
    /\ draining \in BOOLEAN

ValuesOK ==
    /\ generation \in 0 .. MaxGeneration
    /\ floor \in 0 .. MaxGeneration
    /\ active \in Jobs
    /\ active.generation = 0 => active = NoJob
    /\ pending \in 0 .. MaxGeneration
    /\ results \in Seq(Generations)
    /\ pc \in Places
    /\ current \in 0 .. MaxGeneration
    /\ sends \in 0 .. MaxSends
    /\ lastDelivered \in 0 .. MaxGeneration
    /\ told \subseteq Generations
    /\ started \subseteq Generations

LEMMA TypeParts == TypeOK <=> FlagsOK /\ ValuesOK
  BY DEF TypeOK, FlagsOK, ValuesOK

LEMMA FlagsStep == ASSUME FlagsOK, [Next]_vars PROVE FlagsOK'
<1> USE DEF FlagsOK
<1>1. CASE Request
  BY <1>1, Zenon DEF Request, PlaceFromIdle, ReplaceWaiting, Notify, consumer
<1>2. CASE Cancel
  BY <1>2, Zenon DEF Cancel, Notify, consumer
<1>3. ASSUME NEW g \in Generations, Withdraw(g) PROVE FlagsOK'
  BY <1>3, Zenon DEF Withdraw, WithdrawWaiting, WithdrawActive, worker, consumer
<1>4. CASE PollResult
  BY <1>4, Zenon DEF PollResult, Notify
<1>5. CASE PollNothing
  BY <1>5, Zenon DEF PollNothing, shared, worker
<1>6. CASE TakeSignal
  BY <1>6, Zenon DEF TakeSignal, shared, worker
<1>7. CASE Drop
  BY <1>7, Zenon DEF Drop, Notify, consumer
<1>8. CASE Stop
  BY <1>8, Zenon DEF Stop, shared, consumer
<1>9. CASE StartJob
  BY <1>9, Zenon DEF StartJob, consumer
<1>10. CASE SkipAbandoned
  BY <1>10, Zenon DEF SkipAbandoned, Promote, worker, consumer
<1>11. CASE SleepForJob
  BY <1>11, Zenon DEF SleepForJob, shared, consumer
<1>12. CASE SpuriousWake
  BY <1>12, Zenon DEF SpuriousWake, shared, consumer
<1>13. CASE BeginSend
  BY <1>13, Zenon DEF BeginSend, shared, consumer
<1>14. CASE WaitForRoom
  BY <1>14, Zenon DEF WaitForRoom, shared, consumer
<1>15. CASE SendDelivers
  BY <1>15, Zenon DEF SendDelivers, Deliver, consumer
<1>16. CASE SendStale
  BY <1>16, Zenon DEF SendStale, shared, consumer
<1>17. CASE BeginReturn
  BY <1>17, Zenon DEF BeginReturn, shared, consumer
<1>18. CASE ReturnNothing
  BY <1>18, Zenon DEF ReturnNothing, Promote, consumer
<1>19. CASE ReturnDelivers
  BY <1>19, Zenon DEF ReturnDelivers, Deliver, Promote, consumer
<1>20. CASE ReturnStale
  BY <1>20, Zenon DEF ReturnStale, Promote, consumer
<1>21. CASE CallWaker
  BY <1>21, Zenon DEF CallWaker, shared
<1>22. CASE UNCHANGED vars
  BY <1>22, Zenon DEF vars, shared, worker, consumer
<1> QED
  BY <1>1, <1>2, <1>3, <1>4, <1>5, <1>6, <1>7, <1>8, <1>9, <1>10, <1>11,
     <1>12, <1>13, <1>14, <1>15, <1>16, <1>17, <1>18, <1>19, <1>20, <1>21,
     <1>22
  DEF Next, ConsumerNext, WorkerStep, JobStep, Terminated

LEMMA ValuesStep == ASSUME ValuesOK, [Next]_vars PROVE ValuesOK'
<1> USE LatestAssumption DEF ValuesOK, Generations, Places
<1>1. CASE Request
  <2>1. generation + 1 \in 1 .. MaxGeneration
    BY <1>1 DEF Request
  <2>2. active' \in Jobs /\ (active'.generation = 0 => active' = NoJob)
    <3>1. CASE active = NoJob
      <4>1. active' = Handed(generation + 1)
        BY <1>1, <3>1 DEF Request, PlaceFromIdle
      <4> QED BY <2>1, <4>1, HandedFacts
    <3>2. CASE active # NoJob
      <4>1. active' = Superseded(active)
        BY <1>1, <3>2 DEF Request, ReplaceWaiting
      <4> QED BY <3>2, <4>1, SupersededFacts
    <3> QED BY <3>1, <3>2
  <2>3. pending' \in 0 .. MaxGeneration /\ told' \subseteq Generations
    <3>1. /\ pending' = pending \/ pending' = generation + 1
          /\ told' = told \/ told' = told \union ({pending} \ {0})
      BY <1>1, Zenon DEF Request, PlaceFromIdle, ReplaceWaiting
    <3>2. pending' \in 0 .. MaxGeneration
      BY <2>1, <3>1
    <3>3. {pending} \ {0} \subseteq Generations
      OBVIOUS
    <3>4. told' \subseteq Generations
      BY <3>1, <3>3
    <3> QED BY <3>2, <3>4
  <2> QED
    BY <1>1, <2>1, <2>2, <2>3 DEF Request, consumer
<1>2. CASE Cancel
  BY <1>2, AbandonedFacts
  DEF Cancel, Notify, consumer
<1>3. ASSUME NEW g \in Generations, Withdraw(g) PROVE ValuesOK'
  <2>1. active' \in Jobs /\ (active'.generation = 0 => active' = NoJob)
    <3>1. active' = active \/ active' = Abandoned(active)
      BY <1>3 DEF Withdraw, WithdrawWaiting, WithdrawActive
    <3> QED BY <3>1, AbandonedFacts
  <2>2. pending' \in 0 .. MaxGeneration /\ told' \subseteq Generations
    <3>1. /\ pending' = 0 \/ pending' = pending
          /\ told' = told \/ told' = told \union {g}
      BY <1>3, Zenon DEF Withdraw, WithdrawWaiting, WithdrawActive
    <3>2. pending' \in 0 .. MaxGeneration
      BY <3>1
    <3>3. told' \subseteq Generations
      BY <3>1
    <3> QED BY <3>2, <3>3
  <2> QED
    BY <1>3, <2>1, <2>2 DEF Withdraw, worker, consumer
<1>4. CASE PollResult
  BY <1>4
  DEF PollResult, Notify
<1>5. CASE PollNothing
  BY <1>5
  DEF PollNothing, shared, worker
<1>6. CASE TakeSignal
  BY <1>6
  DEF TakeSignal, shared, worker
<1>7. CASE Drop
  BY <1>7, AbandonedFacts
  DEF Drop, Notify, consumer
<1>8. CASE Stop
  BY <1>8
  DEF Stop, shared, consumer
<1>9. CASE StartJob
  <2>1. active.generation \in Generations
    BY <1>9 DEF StartJob, WaitsToStart, Jobs
  <2>2. active' \in Jobs /\ active'.generation = active.generation
    BY <1>9, TakenFacts DEF StartJob
  <2> QED
    BY <1>9, <2>1, <2>2 DEF StartJob, consumer
<1>10. CASE SkipAbandoned
  BY <1>10, HandedFacts
  DEF SkipAbandoned, Promote, worker, consumer
<1>11. CASE SleepForJob
  BY <1>11
  DEF SleepForJob, shared, consumer
<1>12. CASE SpuriousWake
  BY <1>12
  DEF SpuriousWake, shared, consumer
<1>13. CASE BeginSend
  BY <1>13
  DEF BeginSend, shared, consumer
<1>14. CASE WaitForRoom
  BY <1>14
  DEF WaitForRoom, shared, consumer
<1>15. CASE SendDelivers
  BY <1>15
  DEF SendDelivers, Deliver, Stale, consumer
<1>16. CASE SendStale
  BY <1>16
  DEF SendStale, shared, consumer
<1>17. CASE BeginReturn
  BY <1>17
  DEF BeginReturn, shared, consumer
<1>18. CASE ReturnNothing
  BY <1>18, HandedFacts
  DEF ReturnNothing, Promote, consumer
<1>19. CASE ReturnDelivers
  BY <1>19, HandedFacts
  DEF ReturnDelivers, Deliver, Stale, Promote, consumer
<1>20. CASE ReturnStale
  BY <1>20, HandedFacts
  DEF ReturnStale, Promote, consumer
<1>21. CASE CallWaker
  BY <1>21
  DEF CallWaker, shared
<1>22. CASE UNCHANGED vars
  BY <1>22
  DEF vars, shared, worker, consumer
<1> QED
  BY <1>1, <1>2, <1>3, <1>4, <1>5, <1>6, <1>7, <1>8, <1>9, <1>10, <1>11,
     <1>12, <1>13, <1>14, <1>15, <1>16, <1>17, <1>18, <1>19, <1>20, <1>21,
     <1>22
  DEF Next, ConsumerNext, WorkerStep, JobStep, Terminated

\* A request finds the worker idle, or supersedes the job it has.
LEMMA RequestFacts ==
    ASSUME TypeOK, Request
    PROVE  /\ generation + 1 \in 1 .. MaxGeneration
           /\ active' # NoJob
           /\ ~active'.abandoned \/ active'.abandoned = active.abandoned
           /\ \/ /\ active = NoJob
                 /\ active'.generation = generation + 1
                 /\ ~active'.taken /\ ~active'.abandoned /\ ~active'.superseded
                 /\ ~asleep' /\ pending' = pending /\ told' = told
              \/ /\ active # NoJob
                 /\ active'.generation = active.generation
                 /\ active'.taken = active.taken
                 /\ active'.abandoned = active.abandoned
                 /\ active'.superseded
                 /\ asleep' = asleep /\ pending' = generation + 1
                 /\ told' = told \union ({pending} \ {0})
<1> USE LatestAssumption DEF TypeOK
<1>1. generation + 1 \in 1 .. MaxGeneration
  BY DEF Request
<1>2. CASE active = NoJob /\ PlaceFromIdle(generation + 1)
  <2>1. active' = Handed(generation + 1)
    BY <1>2 DEF PlaceFromIdle
  <2>2. /\ active' # NoJob /\ active'.generation = generation + 1
        /\ ~active'.taken /\ ~active'.abandoned /\ ~active'.superseded
    BY <1>1, <2>1, HandedFacts
  <2> QED BY <1>1, <1>2, <2>2 DEF PlaceFromIdle, Notify
<1>3. CASE active # NoJob /\ ReplaceWaiting(generation + 1)
  <2>1. active' = Superseded(active)
    BY <1>3 DEF ReplaceWaiting
  <2>2. /\ active'.generation = active.generation
        /\ active'.taken = active.taken
        /\ active'.abandoned = active.abandoned
        /\ active'.superseded
    BY <2>1, SupersededFacts
  <2>3. active' # NoJob
    BY <1>3, <2>2, NoJobFacts
  <2> QED BY <1>1, <1>3, <2>2, <2>3 DEF ReplaceWaiting
<1> QED BY <1>2, <1>3 DEF Request

\* A step that touches neither the jobs nor the results, and neither
\* starts nor ends a run.
Quiet ==
    /\ UNCHANGED <<generation, floor, active, pending, results, stopped,
                   current, lastDelivered, told, started>>
    /\ Working' <=> Working

LEMMA QuietSteps ==
    ASSUME \/ PollNothing \/ TakeSignal \/ Stop \/ SleepForJob
           \/ SpuriousWake \/ BeginSend \/ WaitForRoom \/ SendStale
           \/ BeginReturn \/ CallWaker \/ UNCHANGED vars
    PROVE  Quiet
  BY DEF Quiet, Working, PollNothing, TakeSignal, Stop, SleepForJob,
     SpuriousWake, BeginSend, WaitForRoom, SendStale, BeginReturn, CallWaker,
     vars, shared, worker, consumer

LEMMA WaitsStep ==
    ASSUME TypeOK, WaitsBehindNewer, WorkerHoldsActive, NothingAhead,
           UnstartedIsNewer, ResultsInOrder, [Next]_vars
    PROVE  WaitsBehindNewer'
<1> USE DEF TypeOK, WaitsBehindNewer, NothingAhead, WaitsToStart, WorkerHoldsActive, Working, Jobs
<1>1. CASE Request
  BY <1>1, RequestFacts, NoJobFacts DEF Request, worker, consumer
<1>2. CASE Cancel
  BY <1>2, AbandonedFacts, NoJobFacts
  DEF Cancel, Notify, consumer
<1>3. ASSUME NEW g \in Generations, Withdraw(g) PROVE WaitsBehindNewer'
  BY <1>3, AbandonedFacts, NoJobFacts
  DEF Withdraw, WithdrawWaiting, WithdrawActive, worker, consumer
<1>4. CASE PollResult
  BY <1>4, NoJobFacts
  DEF PollResult, Notify
<1>5. CASE Drop
  BY <1>5, AbandonedFacts, NoJobFacts
  DEF Drop, Notify, consumer
<1>6. CASE StartJob
  BY <1>6, TakenFacts, NoJobFacts
  DEF StartJob, consumer, WaitsToStart
<1>7. CASE SkipAbandoned
  BY <1>7, HandedFacts, NoJobFacts
  DEF SkipAbandoned, Promote, worker, consumer
<1>8. CASE SendDelivers
  BY <1>8, NoJobFacts
  DEF SendDelivers, Deliver, Stale, Room, consumer
<1>9. CASE ReturnNothing
  BY <1>9, HandedFacts, NoJobFacts
  DEF ReturnNothing, Promote, consumer
<1>10. CASE ReturnDelivers
  BY <1>10, HandedFacts, NoJobFacts
  DEF ReturnDelivers, Deliver, Stale, Room, Promote, consumer
<1>11. CASE ReturnStale
  BY <1>11, HandedFacts, NoJobFacts
  DEF ReturnStale, Promote, consumer
<1>12. CASE Quiet
  BY <1>12 DEF Quiet
<1> QED
  BY <1>1, <1>2, <1>3, <1>4, <1>5, <1>6, <1>7, <1>8, <1>9, <1>10,
     <1>11, <1>12, QuietSteps
  DEF Next, ConsumerNext, WorkerStep, JobStep, Terminated

LEMMA HoldsStep ==
    ASSUME TypeOK, WaitsBehindNewer, WorkerHoldsActive, NothingAhead,
           UnstartedIsNewer, ResultsInOrder, [Next]_vars
    PROVE  WorkerHoldsActive'
<1> USE DEF TypeOK, WorkerHoldsActive, Working, WaitsToStart
<1>1. CASE Request
  BY <1>1, RequestFacts, NoJobFacts DEF Request, worker, consumer
<1>2. CASE Cancel
  BY <1>2, AbandonedFacts, NoJobFacts
  DEF Cancel, Notify, consumer
<1>3. ASSUME NEW g \in Generations, Withdraw(g) PROVE WorkerHoldsActive'
  BY <1>3, AbandonedFacts, NoJobFacts
  DEF Withdraw, WithdrawWaiting, WithdrawActive, worker, consumer
<1>4. CASE PollResult
  BY <1>4, NoJobFacts
  DEF PollResult, Notify
<1>5. CASE Drop
  BY <1>5, AbandonedFacts, NoJobFacts
  DEF Drop, Notify, consumer
<1>6. CASE StartJob
  BY <1>6, TakenFacts, NoJobFacts
  DEF StartJob, consumer, WaitsToStart
<1>7. CASE SkipAbandoned
  BY <1>7, HandedFacts, NoJobFacts
  DEF SkipAbandoned, Promote, worker, consumer
<1>8. CASE SendDelivers
  BY <1>8, NoJobFacts
  DEF SendDelivers, Deliver, Stale, Room, consumer
<1>9. CASE ReturnNothing
  BY <1>9, HandedFacts, NoJobFacts
  DEF ReturnNothing, Promote, consumer
<1>10. CASE ReturnDelivers
  BY <1>10, HandedFacts, NoJobFacts
  DEF ReturnDelivers, Deliver, Stale, Room, Promote, consumer
<1>11. CASE ReturnStale
  BY <1>11, HandedFacts, NoJobFacts
  DEF ReturnStale, Promote, consumer
<1>12. CASE Quiet
  BY <1>12 DEF Quiet
<1> QED
  BY <1>1, <1>2, <1>3, <1>4, <1>5, <1>6, <1>7, <1>8, <1>9, <1>10,
     <1>11, <1>12, QuietSteps
  DEF Next, ConsumerNext, WorkerStep, JobStep, Terminated

LEMMA AheadStep ==
    ASSUME TypeOK, WaitsBehindNewer, WorkerHoldsActive, NothingAhead,
           UnstartedIsNewer, ResultsInOrder, [Next]_vars
    PROVE  NothingAhead'
<1> USE DEF TypeOK, NothingAhead, ResultsInOrder, WaitsBehindNewer, WorkerHoldsActive, Working, Jobs, UnstartedIsNewer
<1>1. CASE Request
  BY <1>1, RequestFacts, NoJobFacts DEF Request, worker, consumer
<1>2. CASE Cancel
  BY <1>2, AbandonedFacts, NoJobFacts
  DEF Cancel, Notify, consumer
<1>3. ASSUME NEW g \in Generations, Withdraw(g) PROVE NothingAhead'
  BY <1>3, AbandonedFacts, NoJobFacts
  DEF Withdraw, WithdrawWaiting, WithdrawActive, worker, consumer
<1>4. CASE PollResult
  BY <1>4, NoJobFacts
  DEF PollResult, Notify
<1>5. CASE Drop
  BY <1>5, AbandonedFacts, NoJobFacts
  DEF Drop, Notify, consumer
<1>6. CASE StartJob
  BY <1>6, TakenFacts, NoJobFacts
  DEF StartJob, consumer, WaitsToStart
<1>7. CASE SkipAbandoned
  BY <1>7, HandedFacts, NoJobFacts
  DEF SkipAbandoned, Promote, worker, consumer
<1>8. CASE SendDelivers
  BY <1>8, NoJobFacts
  DEF SendDelivers, Deliver, Stale, Room, consumer
<1>9. CASE ReturnNothing
  BY <1>9, HandedFacts, NoJobFacts
  DEF ReturnNothing, Promote, consumer
<1>10. CASE ReturnDelivers
  BY <1>10, HandedFacts, NoJobFacts
  DEF ReturnDelivers, Deliver, Stale, Room, Promote, consumer
<1>11. CASE ReturnStale
  BY <1>11, HandedFacts, NoJobFacts
  DEF ReturnStale, Promote, consumer
<1>12. CASE Quiet
  BY <1>12 DEF Quiet
<1> QED
  BY <1>1, <1>2, <1>3, <1>4, <1>5, <1>6, <1>7, <1>8, <1>9, <1>10,
     <1>11, <1>12, QuietSteps
  DEF Next, ConsumerNext, WorkerStep, JobStep, Terminated

LEMMA NewerStep ==
    ASSUME TypeOK, WaitsBehindNewer, WorkerHoldsActive, NothingAhead,
           UnstartedIsNewer, ResultsInOrder, [Next]_vars
    PROVE  UnstartedIsNewer'
<1> USE DEF TypeOK, UnstartedIsNewer, NothingAhead, WaitsToStart, WaitsBehindNewer, WorkerHoldsActive, Working, Jobs
<1>1. CASE Request
  BY <1>1, RequestFacts, NoJobFacts DEF Request, worker, consumer
<1>2. CASE Cancel
  BY <1>2, AbandonedFacts, NoJobFacts
  DEF Cancel, Notify, consumer
<1>3. ASSUME NEW g \in Generations, Withdraw(g) PROVE UnstartedIsNewer'
  BY <1>3, AbandonedFacts, NoJobFacts
  DEF Withdraw, WithdrawWaiting, WithdrawActive, worker, consumer
<1>4. CASE PollResult
  BY <1>4, NoJobFacts
  DEF PollResult, Notify
<1>5. CASE Drop
  BY <1>5, AbandonedFacts, NoJobFacts
  DEF Drop, Notify, consumer
<1>6. CASE StartJob
  BY <1>6, TakenFacts, NoJobFacts
  DEF StartJob, consumer, WaitsToStart
<1>7. CASE SkipAbandoned
  BY <1>7, HandedFacts, NoJobFacts
  DEF SkipAbandoned, Promote, worker, consumer
<1>8. CASE SendDelivers
  BY <1>8, NoJobFacts
  DEF SendDelivers, Deliver, Stale, Room, consumer
<1>9. CASE ReturnNothing
  BY <1>9, HandedFacts, NoJobFacts
  DEF ReturnNothing, Promote, consumer
<1>10. CASE ReturnDelivers
  BY <1>10, HandedFacts, NoJobFacts
  DEF ReturnDelivers, Deliver, Stale, Room, Promote, consumer
<1>11. CASE ReturnStale
  BY <1>11, HandedFacts, NoJobFacts
  DEF ReturnStale, Promote, consumer
<1>12. CASE Quiet
  BY <1>12 DEF Quiet
<1> QED
  BY <1>1, <1>2, <1>3, <1>4, <1>5, <1>6, <1>7, <1>8, <1>9, <1>10,
     <1>11, <1>12, QuietSteps
  DEF Next, ConsumerNext, WorkerStep, JobStep, Terminated

LEMMA ResultsStep ==
    ASSUME TypeOK, WaitsBehindNewer, WorkerHoldsActive, NothingAhead,
           UnstartedIsNewer, ResultsInOrder, [Next]_vars
    PROVE  ResultsInOrder'
<1> USE LatestAssumption DEF TypeOK, ResultsInOrder, NothingAhead, UnstartedIsNewer, Generations
<1>1. CASE Request
  BY <1>1, RequestFacts DEF Request, consumer
<1>2. CASE Cancel
  BY <1>2 DEF Cancel, consumer
<1>3. ASSUME NEW g \in Generations, Withdraw(g) PROVE ResultsInOrder'
  BY <1>3, AbandonedFacts
  DEF Withdraw, WithdrawWaiting, WithdrawActive, worker, consumer
<1>4. CASE PollResult
  <2>1. /\ Len(results') = Len(results) - 1
        /\ \A j \in 1 .. Len(results') : results'[j] = results[j + 1]
        /\ lastDelivered' = results[1]
        /\ Len(results) \in Nat /\ Len(results) >= 1
    BY <1>4 DEF PollResult
  <2> QED BY <1>4, <2>1 DEF PollResult
<1>5. CASE Drop
  BY <1>5 DEF Drop, consumer
<1>6. CASE StartJob
  BY <1>6 DEF StartJob, WaitsToStart, Jobs, consumer
<1>7. CASE SkipAbandoned
  BY <1>7, HandedFacts
  DEF SkipAbandoned, Promote, worker, consumer
<1>8. CASE SendDelivers
  <2>1. /\ Len(results') = Len(results) + 1
        /\ \A j \in 1 .. Len(results) : results'[j] = results[j]
        /\ results'[Len(results) + 1] = current
        /\ Len(results) \in Nat
    BY <1>8 DEF SendDelivers, Deliver
  <2>2. Len(results) < WaitingResults /\ floor < current
    BY <1>8 DEF SendDelivers, Deliver, Room, Stale
  <2>3. /\ \A j \in 1 .. Len(results) : results[j] \in Int
        /\ \A j \in 1 .. Len(results) : lastDelivered <= results[j] /\ results[j] <= current
        /\ current \in Int /\ floor \in Int /\ lastDelivered \in Int
        /\ lastDelivered <= current
    OBVIOUS
  <2>4. UNCHANGED <<floor, lastDelivered, current>>
    BY <1>8 DEF SendDelivers, consumer
  <2> QED
    <3>1. Len(results') <= WaitingResults
      BY <2>1, <2>2
    <3>2. ASSUME NEW i \in 1 .. Len(results')
          PROVE  /\ floor < results'[i] /\ lastDelivered <= results'[i]
                 /\ results'[i] <= current
                 /\ \A j \in 1 .. i : results'[j] <= results'[i]
      <4>1. CASE i = Len(results) + 1
        BY <4>1, <2>1, <2>2, <2>3
      <4>2. CASE i \in 1 .. Len(results)
        <5>1. /\ floor < results[i] /\ lastDelivered <= results[i]
              /\ results[i] <= current
              /\ \A j \in 1 .. i : results[j] <= results[i]
          BY <4>2
        <5>2. results'[i] = results[i] /\ \A j \in 1 .. i : results'[j] = results[j]
          BY <4>2, <2>1
        <5> QED BY <5>1, <5>2
      <4> QED BY <4>1, <4>2, <2>1
    <3> QED BY <3>1, <3>2, <2>4
<1>9. CASE ReturnNothing
  BY <1>9, HandedFacts
  DEF ReturnNothing, Promote, consumer
<1>10. CASE ReturnDelivers
  <2>1. /\ Len(results') = Len(results) + 1
        /\ \A j \in 1 .. Len(results) : results'[j] = results[j]
        /\ results'[Len(results) + 1] = current
        /\ Len(results) \in Nat
    BY <1>10 DEF ReturnDelivers, Deliver
  <2>2. Len(results) < WaitingResults /\ floor < current
    BY <1>10 DEF ReturnDelivers, Deliver, Room, Stale
  <2>3. /\ \A j \in 1 .. Len(results) : results[j] \in Int
        /\ \A j \in 1 .. Len(results) : lastDelivered <= results[j] /\ results[j] <= current
        /\ current \in Int /\ floor \in Int /\ lastDelivered \in Int
        /\ lastDelivered <= current
    OBVIOUS
  <2>4. UNCHANGED <<floor, lastDelivered, current>>
    BY <1>10 DEF ReturnDelivers, consumer
  <2> QED
    <3>1. Len(results') <= WaitingResults
      BY <2>1, <2>2
    <3>2. ASSUME NEW i \in 1 .. Len(results')
          PROVE  /\ floor < results'[i] /\ lastDelivered <= results'[i]
                 /\ results'[i] <= current
                 /\ \A j \in 1 .. i : results'[j] <= results'[i]
      <4>1. CASE i = Len(results) + 1
        BY <4>1, <2>1, <2>2, <2>3
      <4>2. CASE i \in 1 .. Len(results)
        <5>1. /\ floor < results[i] /\ lastDelivered <= results[i]
              /\ results[i] <= current
              /\ \A j \in 1 .. i : results[j] <= results[i]
          BY <4>2
        <5>2. results'[i] = results[i] /\ \A j \in 1 .. i : results'[j] = results[j]
          BY <4>2, <2>1
        <5> QED BY <5>1, <5>2
      <4> QED BY <4>1, <4>2, <2>1
    <3> QED BY <3>1, <3>2, <2>4
<1>11. CASE ReturnStale
  BY <1>11, HandedFacts
  DEF ReturnStale, Promote, consumer
<1>12. CASE Quiet
  BY <1>12 DEF Quiet
<1> QED
  BY <1>1, <1>2, <1>3, <1>4, <1>5, <1>6, <1>7, <1>8, <1>9, <1>10,
     <1>11, <1>12, QuietSteps
  DEF Next, ConsumerNext, WorkerStep, JobStep, Terminated

LEMMA TokensStep ==
    ASSUME TypeOK, WaitsBehindNewer, WorkerHoldsActive, NothingAhead,
           UnstartedIsNewer, ResultsInOrder, TokensTell, [Next]_vars
    PROVE  TokensTell'
<1> USE DEF TypeOK, TokensTell, NothingAhead, WaitsBehindNewer, UnstartedIsNewer, WorkerHoldsActive, Working, WaitsToStart, Jobs
<1>1. CASE Request
  BY <1>1, RequestFacts, NoJobFacts DEF Request, worker, consumer
<1>2. CASE Cancel
  BY <1>2, AbandonedFacts, NoJobFacts
  DEF Cancel, Notify, consumer
<1>3. ASSUME NEW g \in Generations, Withdraw(g) PROVE TokensTell'
  BY <1>3, AbandonedFacts, NoJobFacts
  DEF Withdraw, WithdrawWaiting, WithdrawActive, worker, consumer
<1>4. CASE PollResult
  BY <1>4, NoJobFacts
  DEF PollResult, Notify
<1>5. CASE Drop
  BY <1>5, AbandonedFacts, NoJobFacts
  DEF Drop, Notify, consumer
<1>6. CASE StartJob
  BY <1>6, TakenFacts, NoJobFacts
  DEF StartJob, consumer, WaitsToStart
<1>7. CASE SkipAbandoned
  BY <1>7, HandedFacts, NoJobFacts
  DEF SkipAbandoned, Promote, worker, consumer
<1>8. CASE SendDelivers
  BY <1>8, NoJobFacts
  DEF SendDelivers, Deliver, Stale, Room, consumer
<1>9. CASE ReturnNothing
  BY <1>9, HandedFacts, NoJobFacts
  DEF ReturnNothing, Promote, consumer
<1>10. CASE ReturnDelivers
  BY <1>10, HandedFacts, NoJobFacts
  DEF ReturnDelivers, Deliver, Stale, Room, Promote, consumer
<1>11. CASE ReturnStale
  BY <1>11, HandedFacts, NoJobFacts
  DEF ReturnStale, Promote, consumer
<1>12. CASE Quiet
  BY <1>12 DEF Quiet
<1> QED
  BY <1>1, <1>2, <1>3, <1>4, <1>5, <1>6, <1>7, <1>8, <1>9, <1>10,
     <1>11, <1>12, QuietSteps
  DEF Next, ConsumerNext, WorkerStep, JobStep, Terminated

LEMMA SleepStep ==
    ASSUME TypeOK, WaitsBehindNewer, WorkerHoldsActive, NothingAhead,
           UnstartedIsNewer, ResultsInOrder, SleepsOnlyForCause, [Next]_vars
    PROVE  SleepsOnlyForCause'
<1> USE DEF TypeOK, SleepsOnlyForCause, NothingAhead, WaitsBehindNewer, WorkerHoldsActive, Working, WaitsToStart, Stale, Room
<1>1. CASE Request
  BY <1>1, RequestFacts, NoJobFacts DEF Request, worker, consumer
<1>2. CASE Cancel
  BY <1>2, AbandonedFacts, NoJobFacts
  DEF Cancel, Notify, consumer
<1>3. ASSUME NEW g \in Generations, Withdraw(g) PROVE SleepsOnlyForCause'
  BY <1>3, AbandonedFacts, NoJobFacts
  DEF Withdraw, WithdrawWaiting, WithdrawActive, worker, consumer
<1>4. CASE PollResult
  BY <1>4, NoJobFacts
  DEF PollResult, Notify
<1>5. CASE PollNothing
  BY <1>5, NoJobFacts
  DEF PollNothing, shared, worker
<1>6. CASE TakeSignal
  BY <1>6, NoJobFacts
  DEF TakeSignal, shared, worker
<1>7. CASE Drop
  BY <1>7, AbandonedFacts, NoJobFacts
  DEF Drop, Notify, consumer
<1>8. CASE Stop
  BY <1>8, NoJobFacts
  DEF Stop, shared, consumer
<1>9. CASE StartJob
  BY <1>9, TakenFacts, NoJobFacts
  DEF StartJob, consumer, WaitsToStart
<1>10. CASE SkipAbandoned
  BY <1>10, HandedFacts, NoJobFacts
  DEF SkipAbandoned, Promote, worker, consumer
<1>11. CASE SleepForJob
  BY <1>11, NoJobFacts
  DEF SleepForJob, shared, consumer
<1>12. CASE SpuriousWake
  BY <1>12, NoJobFacts
  DEF SpuriousWake, shared, consumer
<1>13. CASE BeginSend
  BY <1>13, NoJobFacts
  DEF BeginSend, shared, consumer
<1>14. CASE WaitForRoom
  BY <1>14, NoJobFacts
  DEF WaitForRoom, shared, consumer
<1>15. CASE SendDelivers
  BY <1>15, NoJobFacts
  DEF SendDelivers, Deliver, Stale, Room, consumer
<1>16. CASE SendStale
  BY <1>16, NoJobFacts
  DEF SendStale, shared, consumer
<1>17. CASE BeginReturn
  BY <1>17, NoJobFacts
  DEF BeginReturn, shared, consumer
<1>18. CASE ReturnNothing
  BY <1>18, HandedFacts, NoJobFacts
  DEF ReturnNothing, Promote, consumer
<1>19. CASE ReturnDelivers
  BY <1>19, HandedFacts, NoJobFacts
  DEF ReturnDelivers, Deliver, Stale, Room, Promote, consumer
<1>20. CASE ReturnStale
  BY <1>20, HandedFacts, NoJobFacts
  DEF ReturnStale, Promote, consumer
<1>21. CASE CallWaker
  BY <1>21, NoJobFacts
  DEF CallWaker, shared
<1>22. CASE UNCHANGED vars
  BY <1>22 DEF vars, shared, worker, consumer
<1> QED
  BY <1>1, <1>2, <1>3, <1>4, <1>5, <1>6, <1>7, <1>8, <1>9, <1>10, <1>11,
     <1>12, <1>13, <1>14, <1>15, <1>16, <1>17, <1>18, <1>19, <1>20, <1>21,
     <1>22
  DEF Next, ConsumerNext, WorkerStep, JobStep, Terminated

LEMMA HistoryStep ==
    ASSUME TypeOK, WaitsBehindNewer, WorkerHoldsActive, NothingAhead,
           UnstartedIsNewer, ResultsInOrder, HistoryAgrees, [Next]_vars
    PROVE  HistoryAgrees'
<1> USE DEF TypeOK, HistoryAgrees, NothingAhead, WaitsBehindNewer, UnstartedIsNewer, WorkerHoldsActive, Working, WaitsToStart, Jobs, Generations
<1>1. CASE Request
  <2>1. told' \in {told, told \union ({pending} \ {0})}
    BY <1>1, RequestFacts
  <2>2. \A h \in told' : h <= generation + 1 /\ h \notin started
    BY <2>1
  <2>3. pending' \notin told'
    BY <1>1, <2>1, RequestFacts
  <2>4. WaitsToStart' /\ active'.generation \in told' => active'.abandoned
    BY <1>1, <2>1, RequestFacts
  <2> QED BY <1>1, <2>2, <2>3, <2>4 DEF Request, consumer
<1>2. CASE Cancel
  BY <1>2, AbandonedFacts, NoJobFacts
  DEF Cancel, Notify, consumer
<1>3. ASSUME NEW g \in Generations, Withdraw(g) PROVE HistoryAgrees'
  <2>1. CASE WithdrawWaiting(g)
    BY <1>3, <2>1 DEF Withdraw, WithdrawWaiting, worker, consumer
  <2>2. CASE WithdrawActive(g)
    BY <1>3, <2>2, AbandonedFacts, NoJobFacts
    DEF Withdraw, WithdrawActive, worker, consumer
  <2> QED BY <1>3, <2>1, <2>2 DEF Withdraw
<1>4. CASE PollResult
  BY <1>4, NoJobFacts
  DEF PollResult, Notify
<1>5. CASE Drop
  BY <1>5, AbandonedFacts, NoJobFacts
  DEF Drop, Notify, consumer
<1>6. CASE StartJob
  <2>1. active.generation \notin told /\ current < active.generation
    BY <1>6 DEF StartJob, MayStart
  <2>2. ~WaitsToStart'
    BY <1>6, TakenFacts DEF StartJob
  <2>3. active.generation \in Int /\ \A h \in started : h \in Int
    OBVIOUS
  <2> QED BY <1>6, <2>1, <2>2, <2>3 DEF StartJob, consumer
<1>7. CASE SkipAbandoned
  BY <1>7, HandedFacts, NoJobFacts
  DEF SkipAbandoned, Promote, worker, consumer
<1>8. CASE SendDelivers
  BY <1>8, NoJobFacts
  DEF SendDelivers, Deliver, Stale, Room, consumer
<1>9. CASE ReturnNothing
  BY <1>9, HandedFacts, NoJobFacts
  DEF ReturnNothing, Promote, consumer
<1>10. CASE ReturnDelivers
  BY <1>10, HandedFacts, NoJobFacts
  DEF ReturnDelivers, Deliver, Stale, Room, Promote, consumer
<1>11. CASE ReturnStale
  BY <1>11, HandedFacts, NoJobFacts
  DEF ReturnStale, Promote, consumer
<1>12. CASE Quiet
  BY <1>12 DEF Quiet
<1> QED
  BY <1>1, <1>2, <1>3, <1>4, <1>5, <1>6, <1>7, <1>8, <1>9, <1>10,
     <1>11, <1>12, QuietSteps
  DEF Next, ConsumerNext, WorkerStep, JobStep, Terminated

LEMMA AccountedStep ==
    ASSUME TypeOK, WaitsBehindNewer, WorkerHoldsActive, NothingAhead,
           UnstartedIsNewer, ResultsInOrder, HistoryAgrees, Accounted, [Next]_vars
    PROVE  Accounted'
<1> USE LatestAssumption DEF TypeOK, Accounted, JobsAccounted, AbandonedForCause, WaitsToStart, WorkerHoldsActive, Working, HistoryAgrees, Jobs
<1>1. CASE Request
  <2>1. \A h \in 1 .. generation + 1 : h \in 1 .. generation \/ h = generation + 1
    BY <1>1, RequestFacts
  <2>2. told \subseteq told'
    BY <1>1, RequestFacts
  <2>3. AbandonedForCause'
    BY <1>1, <2>2, RequestFacts, NoJobFacts DEF Request
  <2>4. JobsAccounted'
    <3>1. CASE active = NoJob
      BY <1>1, <3>1, <2>1, <2>2, RequestFacts, NoJobFacts DEF Request, WaitsBehindNewer
    <3>2. CASE active # NoJob
      BY <1>1, <3>2, <2>1, <2>2, RequestFacts DEF Request
    <3> QED BY <3>1, <3>2
  <2> QED BY <2>3, <2>4
<1>2. CASE Cancel
  <2>1. JobsAccounted'
    <3>1. \A h \in 1 .. generation + 1 : h <= generation + 1
      OBVIOUS
    <3>2. generation' = generation + 1 /\ floor' = generation + 1
      BY <1>2 DEF Cancel
    <3> QED BY <3>1, <3>2
  <2>2. active'.generation <= floor'
    BY <1>2, AbandonedFacts DEF Cancel, NothingAhead
  <2> QED BY <2>1, <2>2
<1>3. ASSUME NEW g \in Generations, Withdraw(g) PROVE Accounted'
  <2>1. CASE WithdrawWaiting(g)
    BY <1>3, <2>1 DEF Withdraw, WithdrawWaiting, worker, consumer
  <2>2. CASE WithdrawActive(g)
    BY <1>3, <2>2, AbandonedFacts, NoJobFacts
    DEF Withdraw, WithdrawActive, worker, consumer
  <2> QED BY <1>3, <2>1, <2>2 DEF Withdraw
<1>4. CASE PollResult
  BY <1>4, NoJobFacts
  DEF PollResult, Notify
<1>5. CASE Drop
  BY <1>5, AbandonedFacts, NoJobFacts
  DEF Drop, Notify, consumer
<1>6. CASE StartJob
  BY <1>6, TakenFacts, NoJobFacts
  DEF StartJob, consumer, WaitsToStart
<1>7. CASE SkipAbandoned
  BY <1>7, HandedFacts, NoJobFacts
  DEF SkipAbandoned, MayStart, Promote, worker, consumer
<1>8. CASE SendDelivers
  BY <1>8, NoJobFacts
  DEF SendDelivers, Deliver, Stale, Room, consumer
<1>9. CASE ReturnNothing
  BY <1>9, HandedFacts, NoJobFacts
  DEF ReturnNothing, Promote, consumer
<1>10. CASE ReturnDelivers
  BY <1>10, HandedFacts, NoJobFacts
  DEF ReturnDelivers, Deliver, Stale, Room, Promote, consumer
<1>11. CASE ReturnStale
  BY <1>11, HandedFacts, NoJobFacts
  DEF ReturnStale, Promote, consumer
<1>12. CASE Quiet
  BY <1>12 DEF Quiet
<1> QED
  BY <1>1, <1>2, <1>3, <1>4, <1>5, <1>6, <1>7, <1>8, <1>9, <1>10,
     <1>11, <1>12, QuietSteps
  DEF Next, ConsumerNext, WorkerStep, JobStep, Terminated

LEMMA InitIInv == Init => IInv
<1> SUFFICES ASSUME Init PROVE IInv
  OBVIOUS
<1>1. FlagsOK
  BY Zenon DEF Init, FlagsOK
<1>2. ValuesOK
  BY LatestAssumption, NoJobFacts DEF Init, ValuesOK, Generations, Places
<1>3. /\ WaitsBehindNewer /\ WorkerHoldsActive /\ TokensTell
      /\ SleepsOnlyForCause /\ UnstartedIsNewer
  BY NoJobFacts
  DEF Init, WaitsBehindNewer, WorkerHoldsActive, Working, TokensTell,
      SleepsOnlyForCause, UnstartedIsNewer, WaitsToStart
<1>4. ResultsInOrder /\ NothingAhead /\ HistoryAgrees
  BY LatestAssumption, NoJobFacts
  DEF Init, ResultsInOrder, NothingAhead, HistoryAgrees, WaitsToStart,
      Working
<1>5. Accounted
  BY NoJobFacts
  DEF Init, Accounted, JobsAccounted, AbandonedForCause, WaitsToStart
<1> QED BY <1>1, <1>2, <1>3, <1>4, <1>5, TypeParts DEF IInv

LEMMA TypeStep == ASSUME TypeOK, [Next]_vars PROVE TypeOK'
<1>1. FlagsOK /\ ValuesOK
  BY TypeParts
<1>2. FlagsOK' /\ ValuesOK'
  BY <1>1, FlagsStep, ValuesStep
<1> QED BY <1>2 DEF TypeOK, FlagsOK, ValuesOK

LEMMA IInvStep == IInv /\ [Next]_vars => IInv'
  BY TypeStep, WaitsStep, HoldsStep, AheadStep, NewerStep, ResultsStep,
     TokensStep, SleepStep, HistoryStep, AccountedStep
  DEF IInv

LEMMA IInvAlways == Spec => []IInv
  BY InitIInv, IInvStep, PTL DEF Spec

-----------------------------------------------------------------------------

\* Every variable keeps its type, whatever the bounds.
THEOREM TypeCorrect == Spec => []TypeOK
<1>1. IInv => TypeOK
  BY DEF IInv
<1> QED BY <1>1, IInvAlways, PTL

\* No waiting job is older than the active one.
THEOREM OrderCorrect == Spec => []WaitsBehindNewer
<1>1. IInv => WaitsBehindNewer
  BY DEF IInv, Accounted
<1> QED BY <1>1, IInvAlways, PTL

\* The worker's job is the active one.
THEOREM WorkerCorrect == Spec => []WorkerHoldsActive
<1>1. IInv => WorkerHoldsActive
  BY DEF IInv, Accounted
<1> QED BY <1>1, IInvAlways, PTL

\* Every generation handed out is accounted for.
THEOREM JobsCorrect == Spec => []JobsAccounted
<1>1. IInv => JobsAccounted
  BY DEF IInv, Accounted
<1> QED BY <1>1, IInvAlways, PTL

\* Results wait in generation order above the floor, within their bound.
THEOREM ResultsCorrect == Spec => []ResultsInOrder
<1>1. IInv => ResultsInOrder
  BY DEF IInv
<1> QED BY <1>1, IInvAlways, PTL

\* A job's tokens say what has become of it.
THEOREM TokensCorrect == Spec => []TokensTell
<1>1. IInv => TokensTell
  BY DEF IInv
<1> QED BY <1>1, IInvAlways, PTL

\* No wake-up of the worker is lost.
THEOREM WakeUpsCorrect == Spec => []SleepsOnlyForCause
<1>1. IInv => SleepsOnlyForCause
  BY DEF IInv
<1> QED BY <1>1, IInvAlways, PTL

\* The worker's side and the consumer's side of the one mutex together:
\* what latest.rs promises of every state.
THEOREM LatestCorrect == Spec => []LatestSound
<1>1. /\ WaitsBehindNewer /\ WorkerHoldsActive /\ SleepsOnlyForCause
      /\ ResultsInOrder /\ TokensTell /\ JobsAccounted
      => LatestSound
  BY DEF LatestSound, WorkerSound, ConsumerSound
<1> QED BY <1>1, OrderCorrect, WorkerCorrect, WakeUpsCorrect, ResultsCorrect,
           TokensCorrect, JobsCorrect, PTL

\* A job starts at most once, never after the consumer was told it will
\* not, and never below the floor.
THEOREM StartsCorrect == Spec => StartsOnce
<1>1. IInv /\ [Next]_vars =>
        [pc = "checking" /\ pc' = "running" =>
           current' \notin told \union started /\ current' > floor]_vars
  <2> SUFFICES ASSUME IInv, [Next]_vars, pc = "checking", pc' = "running"
               PROVE  current' \notin told \union started /\ current' > floor
    OBVIOUS
  <2>1. StartJob
    BY DEF Next, ConsumerNext, WorkerStep, JobStep, Terminated, Request,
       Cancel, Withdraw, PollResult, PollNothing, TakeSignal, Drop, Stop,
       SkipAbandoned, SleepForJob, WaitForRoom, SendDelivers, SendStale,
       ReturnDelivers, ReturnStale, CallWaker, BeginSend, BeginReturn,
       ReturnNothing, SpuriousWake, vars, worker
  <2>2. current' = active.generation /\ WaitsToStart /\ ~active.abandoned
    BY <2>1 DEF StartJob, MayStart
  <2>3. active.generation \in Int /\ floor \in Int /\ current \in Int
    BY DEF IInv, TypeOK, Jobs
  <2>4. active.generation > floor
    BY <2>2, <2>3 DEF IInv, TokensTell, WaitsToStart
  <2>5. active.generation \notin told
    BY <2>2 DEF IInv, HistoryAgrees
  <2>6. active.generation \notin started
    <3>1. current < active.generation
      BY <2>2 DEF IInv, UnstartedIsNewer
    <3>2. \A g \in started : g <= current
      BY DEF IInv, HistoryAgrees
    <3> QED BY <3>1, <3>2, <2>3
  <2> QED BY <2>2, <2>4, <2>5, <2>6
<1> QED BY <1>1, IInvAlways, PTL DEF Spec, StartsOnce

-----------------------------------------------------------------------------

\* A Latest does what LatestPromise promises: requests, cancels and
\* withdrawals give up at most one job newer than anything delivered, a
\* poll delivers, and every other step changes nothing a consumer relies
\* on.
THEOREM PromiseImplemented == Spec => PromiseKept
<1>1. Init => Promise!Init
  BY DEF Init, Promise!Init
<1>2. IInv /\ [Next]_vars => [Promise!Next]_(Promise!vars)
  <2> SUFFICES ASSUME IInv, [Next]_vars
               PROVE  Promise!Next \/ UNCHANGED Promise!vars
    OBVIOUS
  <2> USE DEF Promise!Next, Promise!vars
  <2>1. ASSUME NEW g \in Generations, lastDelivered < g, g <= generation,
               told' = told \union {g}
        PROVE  Promise!GiveUpAtMostOne
    <3>1. {g} \in SUBSET (lastDelivered + 1 .. generation)
      BY <2>1 DEF IInv, TypeOK, Generations
    <3>2. \A h, i \in {g} : h = i
      OBVIOUS
    <3> QED BY <2>1, <3>1, <3>2 DEF Promise!GiveUpAtMostOne
  <2>2. ASSUME told' = told
        PROVE  Promise!GiveUpAtMostOne
    <3>1. {} \in SUBSET (lastDelivered + 1 .. generation)
      OBVIOUS
    <3>2. (\A h, i \in {} : h = i) /\ told' = told \union {}
      BY <2>2
    <3> QED BY <3>1, <3>2 DEF Promise!GiveUpAtMostOne
  <2>3. pending # 0 =>
          pending \in Generations /\ lastDelivered < pending /\ pending <= generation
    BY DEF IInv, TypeOK, NothingAhead, UnstartedIsNewer, Generations
  <2>4. ASSUME told' = told \/ told' = told \union ({pending} \ {0})
        PROVE  Promise!GiveUpAtMostOne
    <3>1. CASE pending = 0
      BY <2>2, <2>4, <3>1
    <3>2. CASE pending # 0
      <4>1. {pending} \ {0} = {pending}
        BY <3>2
      <4> QED BY <2>1, <2>2, <2>3, <2>4, <3>2, <4>1
    <3> QED BY <3>1, <3>2
  <2>5. CASE Request
    <3>1. TypeOK
      BY DEF IInv
    <3>2. told' = told \/ told' = told \union ({pending} \ {0})
      BY <2>5, <3>1, RequestFacts
    <3> QED BY <2>4, <2>5, <3>2 DEF Request, consumer, Promise!Request
  <2>6. CASE Cancel
    BY <2>4, <2>6 DEF Cancel, consumer, Promise!Cancel
  <2>7. ASSUME NEW g \in Generations, Withdraw(g)
        PROVE  Promise!Next \/ UNCHANGED Promise!vars
    <3>1. told' = told \/ (told' = told \union {g} /\ WithdrawWaiting(g))
            \/ (told' = told \union {g} /\ active.generation = g /\ ~active.taken)
      BY <2>7, Zenon DEF Withdraw, WithdrawWaiting, WithdrawActive
    <3>2. CASE told' = told
      BY <2>2, <2>7, <3>2 DEF Withdraw, consumer, Promise!Withdraw
    <3>3. CASE told' = told \union {g} /\ WithdrawWaiting(g)
      <4>1. pending # 0 /\ pending = g
        BY <3>3 DEF WithdrawWaiting, Generations
      <4> QED BY <2>1, <2>3, <2>7, <3>3, <4>1 DEF Withdraw, consumer, Promise!Withdraw
    <3>4. CASE told' = told \union {g} /\ active.generation = g /\ ~active.taken
      <4>1. lastDelivered < g /\ g <= generation
        <5>1. active # NoJob
          BY <3>4, NoJobFacts DEF Generations
        <5> QED BY <3>4, <5>1 DEF IInv, TypeOK, Jobs, WaitsToStart,
                                   UnstartedIsNewer, NothingAhead
      <4> QED BY <2>1, <2>7, <3>4, <4>1 DEF Withdraw, consumer, Promise!Withdraw
    <3> QED BY <3>1, <3>2, <3>3, <3>4
  <2>8. CASE PollResult
    <3>1. /\ lastDelivered' = results[1] /\ results[1] \in Generations
          /\ 1 \in 1 .. Len(results)
      BY <2>8 DEF PollResult, IInv, TypeOK
    <3>2. /\ floor < results[1] /\ lastDelivered <= results[1]
          /\ results[1] <= current /\ results[1] \in started
      BY <3>1 DEF IInv, ResultsInOrder, HistoryAgrees
    <3>3. results[1] \in 1 .. generation
      BY <3>1, <3>2 DEF IInv, TypeOK, NothingAhead, Generations
    <3>4. results[1] \notin told
      BY <3>2 DEF IInv, HistoryAgrees
    <3> QED BY <2>8, <3>1, <3>2, <3>3, <3>4 DEF PollResult, Promise!Deliver
  <2>9. ASSUME UNCHANGED <<generation, floor, lastDelivered, told>>
        PROVE  UNCHANGED Promise!vars
    BY <2>9
  <2>10. CASE PollNothing \/ TakeSignal \/ Drop
    BY <2>9, <2>10 DEF PollNothing, TakeSignal, Drop, shared, consumer
  <2>11. CASE WorkerStep
    BY <2>9, <2>11 DEF WorkerStep, Stop, StartJob, SkipAbandoned, SleepForJob,
       WaitForRoom, SendDelivers, SendStale, ReturnDelivers, ReturnStale,
       CallWaker, shared, consumer
  <2>12. CASE JobStep \/ SpuriousWake \/ UNCHANGED vars
    BY <2>9, <2>12 DEF JobStep, BeginSend, BeginReturn, ReturnNothing,
       SpuriousWake, vars, shared, consumer
  <2> QED BY <2>5, <2>6, <2>7, <2>8, <2>10, <2>11, <2>12
          DEF Next, ConsumerNext, Terminated
<1> QED BY <1>1, <1>2, IInvAlways, PTL DEF Spec, PromiseKept, Promise!Spec

=============================================================================
