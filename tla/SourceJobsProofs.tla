--------------------------- MODULE SourceJobsProofs ---------------------------
(***************************************************************************)
(* The safety of SourceJobs, for any clients, photographs, identities and  *)
(* bounds: every job that is under way has exactly one task, a request     *)
(* joins only a job that will serve it, a blocked client waits for         *)
(* something that will wake it, and the gate is never held shut by planes  *)
(* that nothing would release.                                             *)
(*                                                                         *)
(* None of these is inductive.  A join needs that a job nobody stopped is  *)
(* wanted by somebody (Wanted), the gate that planes are kept only while   *)
(* no job can be joined (PlanesAlone), the table that only ended jobs      *)
(* leave it (CompletedEnded), and the owner that it never hears of the     *)
(* start of a job that has ended (StartedLive).                            *)
(***************************************************************************)
EXTENDS SourceJobs, FiniteSetTheorems, TLAPS

\* A job that is not stopped is wanted.
Wanted == \A i \in Live : ~jobs[i].cancelled => jobs[i].clients # {}

\* RAW planes are cached only while no job can be joined.
PlanesAlone ==
    cache.photo \in Raws /\ cache.planes => \A k \in Keys : active[k] = None

\* The list of ended jobs names each once, and no other job.
CompletedEnded ==
    /\ \A n \in 1 .. Len(completed) : jobs[completed[n]].state \in {"ready", "failed"}
    /\ \A m, n \in 1 .. Len(completed) : completed[m] = completed[n] => m = n

\* A job whose start the owner has yet to read is still with the worker, or
\* its end is behind the start in the channel.
StartedLive ==
    \A n \in 1 .. Len(inbox) : inbox[n].kind = "started" =>
        \/ inbox[n].id = worker.id
        \/ \E m \in EndMessages : m > n /\ inbox[m].id = inbox[n].id

WorkerHas == worker.doing = "idle" <=> worker.id = None

\* The parts of TypeOK: the tables, and the clients.
TypedTables ==
    /\ jobs \in [JobIds -> Job \union EndedJob \union {NoJob}]
    /\ active \in [Keys -> JobIds \union {None}]
    /\ completed \in Seq(JobIds) /\ Len(completed) <= ResultCapacity
    /\ cache \in Cache \union {NoCache}
    /\ inbox \in Seq(Message) /\ Len(inbox) <= InboxCapacity
    /\ queue \in Seq(JobIds) /\ Len(queue) <= QueueCapacity
    /\ worker \in [doing : {"idle", "gate", "work"}, id : JobIds \union {None}]

TypedClients ==
    /\ pinned \in BOOLEAN
    /\ stage \in [Clients -> {"idle", "ask", "told", "wait", "blocked", "refused"}]
    /\ want \in [Clients -> Stacks \union {None}]
    /\ at \in [Clients -> JobIds \union {None}]

\* A client that asks wants a stack.
Asking == \A c \in Clients : stage[c] # "idle" => want[c] \in Stacks

Tables ==
    /\ TypedTables /\ JobsAdvance /\ Joinable /\ Wanted /\ PlanesAlone
    /\ CompletedEnded /\ StartedLive /\ WorkerHas

Waits == TypedClients /\ WaitersWake /\ Asking

IInv == Tables /\ Waits

-----------------------------------------------------------------------------
\* Jobs and sequences.

LEMMA JobFacts ==
    ASSUME TypedTables, NEW i \in Live
    PROVE  /\ i \in JobIds /\ jobs[i] \in Job
           /\ jobs[i].key \in Keys /\ jobs[i].clients \in SUBSET Clients
           /\ jobs[i].cancelled \in BOOLEAN /\ jobs[i].sensor \in JobIds \union {None}
  <1>1. i \in JobIds /\ jobs[i].state \in {"queued", "preparing"}
    BY DEF Live
  <1>2. jobs[i] \in Job \union EndedJob \union {NoJob}
    BY <1>1 DEF TypedTables
  <1>3. jobs[i] \in Job
    BY <1>1, <1>2 DEF EndedJob, NoJob
  <1> QED BY <1>1, <1>3 DEF Job

\* A sequence at whose end something is put.
LEMMA Appended ==
    ASSUME NEW S, NEW q \in Seq(S), NEW e \in S
    PROVE  /\ Append(q, e) \in Seq(S) /\ Len(Append(q, e)) = Len(q) + 1 /\ Len(q) \in Nat
           /\ \A n \in 1 .. Len(q) : Append(q, e)[n] = q[n]
           /\ Append(q, e)[Len(q) + 1] = e
  OBVIOUS

\* A sequence without its head.
LEMMA Tailed ==
    ASSUME NEW S, NEW q \in Seq(S), q # <<>>
    PROVE  /\ Tail(q) \in Seq(S) /\ Len(Tail(q)) = Len(q) - 1 /\ Len(q) \in Nat \ {0}
           /\ \A n \in 1 .. Len(q) - 1 : Tail(q)[n] = q[n + 1]
           /\ Head(q) = q[1] /\ Head(q) \in S
  OBVIOUS

LEMMA QueuedAt ==
    ASSUME NEW q, NEW S, q \in Seq(S)
    PROVE  ToSet(q) = {q[n] : n \in 1 .. Len(q)}
  BY DEF ToSet
-----------------------------------------------------------------------------
\* The tables under the owner's steps for clients.

LEMMA SameTables ==
    ASSUME Tables, UNCHANGED <<owner, queue, worker>>
    PROVE  Tables'
  <1>1. UNCHANGED <<jobs, active, completed, cache, inbox, queue, worker>>
    BY DEF owner
  <1>2. UNCHANGED <<Live, Queued, Ending, EndMessages>>
    BY <1>1 DEF Live, Queued, EndMessages, Ending
  <1>3. TypedTables' /\ JobsAdvance' /\ PlanesAlone' /\ WorkerHas'
    BY <1>1, <1>2 DEF Tables, TypedTables, JobsAdvance, PlanesAlone, WorkerHas
  <1>4. Joinable' /\ Wanted' /\ CompletedEnded' /\ StartedLive'
    BY <1>1, <1>2 DEF Tables, Joinable, Wanted, CompletedEnded, StartedLive
  <1> QED BY <1>3, <1>4 DEF Tables

\* An eviction leaves no RAW planes in a cache of the same photograph.
LEMMA EvictedFacts ==
    ASSUME NEW kept \in Cache \union {NoCache}
    PROVE  /\ Evicted(kept) \in Cache \union {NoCache}
           /\ ~(Evicted(kept).photo \in Raws /\ Evicted(kept).planes)
           /\ Evicted(kept).photo = kept.photo /\ Evicted(kept).sensor = kept.sensor
  <1>1. CASE kept \in Cache
    BY <1>1 DEF Evicted, Cache
  <1>2. CASE kept = NoCache
    BY <1>2, SourceJobsAssumption DEF Evicted, NoCache
  <1> QED BY <1>1, <1>2

\* What a request that is not served asks for is a key.
LEMMA KeyTyped ==
    ASSUME IInv, NEW c \in Clients, stage[c] = "ask", ~Serves(want[c])
    PROVE  /\ want[c] \in Stacks
           /\ KeyFor(want[c]) \in Keys
           /\ SensorFor(KeyFor(want[c])) \in JobIds \union {None}
  <1>1. want[c] \in Stacks
    BY DEF IInv, Waits, Asking
  <1>2. cache.photo = want[c].photo => IsRaw(want[c])
    BY DEF Serves
  <1>3. KeyFor(want[c]) \in Keys
    BY <1>1, <1>2 DEF KeyFor, Keys
  <1>4. cache.sensor \in JobIds \union {None}
    BY DEF IInv, Tables, TypedTables, Cache, NoCache
  <1> QED BY <1>1, <1>3, <1>4 DEF SensorFor

LEMMA JoinTables ==
    ASSUME IInv, NEW c \in Clients, Join(c)
    PROVE  Tables' /\ Live' = Live /\ \A d \in Clients : JobsOf(d) \subseteq JobsOf(d)'
  <1> DEFINE k == KeyFor(want[c])
             i == active[k]
  <1>1. k \in Keys
    BY KeyTyped DEF Join
  <1>2. i \in Live /\ jobs[i].key = k /\ ~jobs[i].cancelled
    BY <1>1 DEF Join, IInv, Tables, Joinable
  <1>3. i \in JobIds /\ jobs[i] \in Job
    BY <1>2, JobFacts DEF IInv, Tables
  <1>4. /\ jobs' \in [JobIds -> Job \union EndedJob \union {NoJob}]
        /\ jobs'[i] \in Job /\ jobs'[i].clients = jobs[i].clients \union {c}
        /\ jobs'[i].key = k /\ jobs'[i].state = jobs[i].state
        /\ jobs'[i].cancelled = jobs[i].cancelled
        /\ \A j \in JobIds \ {i} : jobs'[j] = jobs[j]
    BY <1>2, <1>3 DEF Join, IInv, Tables, TypedTables, Job
  <1> HIDE DEF i, k
  <1>5. UNCHANGED <<active, completed, inbox, queue, worker>> /\ cache' = Evicted(cache)
    BY DEF Join
  <1>6. Live' = Live
    BY <1>2, <1>3, <1>4 DEF Live
  <1>7. \A d \in Clients : JobsOf(d) \subseteq JobsOf(d)'
    BY <1>4, <1>6 DEF JobsOf, Live
  <1>8. TypedTables'
    BY <1>4, <1>5, EvictedFacts DEF IInv, Tables, TypedTables
  <1>9. JobsAdvance'
    BY <1>5, <1>6 DEF IInv, Tables, JobsAdvance, Queued, Ending, EndMessages
  <1>10. Joinable'
    BY <1>1, <1>2, <1>4, <1>5, <1>6 DEF IInv, Tables, Joinable, Live, i
  <1>11. Wanted'
    BY <1>4, <1>6 DEF IInv, Tables, Wanted, Live
  <1>12. PlanesAlone'
    BY <1>5, EvictedFacts DEF IInv, Tables, TypedTables, PlanesAlone
  <1>13. CompletedEnded'
    <2>1. \A n \in 1 .. Len(completed) : completed[n] \in JobIds /\ completed[n] # i
      BY <1>2 DEF IInv, Tables, TypedTables, CompletedEnded, Live
    <2> QED BY <1>4, <1>5, <2>1 DEF IInv, Tables, CompletedEnded
  <1>14. StartedLive' /\ WorkerHas'
    BY <1>5 DEF IInv, Tables, StartedLive, WorkerHas, EndMessages
  <1> QED BY <1>6, <1>7, <1>8, <1>9, <1>10, <1>11, <1>12, <1>13, <1>14 DEF Tables

\* A job that is queued, for one client.
LEMMA SubmitTables ==
    ASSUME IInv, NEW c \in Clients, Submit(c)
    PROVE  Tables' /\ Live \subseteq Live' /\ \A d \in Clients : JobsOf(d) \subseteq JobsOf(d)'
  <1> DEFINE k == KeyFor(want[c])
             i == CHOOSE j \in JobIds : Fresh(j)
             new == [key |-> k, clients |-> {c}, cancelled |-> FALSE,
                     state |-> "queued", sensor |-> SensorFor(k)]
  <1>1. k \in Keys /\ SensorFor(k) \in JobIds \union {None}
    BY KeyTyped DEF Submit
  <1>2. i \in JobIds /\ jobs[i] = NoJob
    BY DEF Submit, Fresh
  <1>3. new \in Job
    BY <1>1 DEF Job
  <1>4. /\ jobs' = [jobs EXCEPT ![i] = new] /\ active' = [active EXCEPT ![k] = i]
        /\ queue' = Append(queue, i) /\ cache' = Evicted(cache) /\ active[k] = None
        /\ Len(queue) < QueueCapacity /\ UNCHANGED <<completed, inbox, worker>>
    BY DEF Submit
  <1>5. i \notin Live /\ new.state = "queued" /\ new.clients = {c} /\ new.key = k
        /\ ~new.cancelled
    BY <1>2 DEF Live, NoJob
  <1> HIDE DEF i, k, new
  <1>6. /\ jobs' \in [JobIds -> Job \union EndedJob \union {NoJob}] /\ jobs'[i] = new
        /\ \A j \in JobIds \ {i} : jobs'[j] = jobs[j]
    BY <1>2, <1>3, <1>4 DEF IInv, Tables, TypedTables
  <1>7. Live' = Live \union {i}
    BY <1>2, <1>5, <1>6 DEF Live
  <1>8. \A d \in Clients : JobsOf(d) \subseteq JobsOf(d)'
    BY <1>5, <1>6, <1>7 DEF JobsOf, Live
  <1>9. /\ queue' \in Seq(JobIds) /\ Len(queue') = Len(queue) + 1 /\ Len(queue) \in Nat
        /\ \A n \in 1 .. Len(queue) : queue'[n] = queue[n]
        /\ queue'[Len(queue) + 1] = i
    BY <1>2, <1>4, Appended DEF IInv, Tables, TypedTables
  <1>10. Queued' = Queued \union {i}
    <2>1. Queued = {queue[n] : n \in 1 .. Len(queue)}
      BY QueuedAt DEF Queued, IInv, Tables, TypedTables
    <2>2. Queued' = {queue'[n] : n \in 1 .. Len(queue')}
      BY <1>9, QueuedAt DEF Queued
    <2>3. 1 .. Len(queue') = (1 .. Len(queue)) \union {Len(queue) + 1}
      BY <1>9
    <2> QED BY <1>9, <2>1, <2>2, <2>3
  <1>11. TypedTables'
    <2>1. Len(queue') <= QueueCapacity
      BY <1>4, <1>9, SourceJobsAssumption
    <2>2. active' \in [Keys -> JobIds \union {None}]
      BY <1>1, <1>2, <1>4 DEF IInv, Tables, TypedTables
    <2> QED BY <1>4, <1>6, <1>9, <2>1, <2>2, EvictedFacts DEF IInv, Tables, TypedTables
  <1>12. JobsAdvance'
    <2>1. Ending' = Ending /\ EndMessages' = EndMessages /\ worker' = worker /\ inbox' = inbox
      BY <1>4 DEF Ending, EndMessages
    <2>2. i # None /\ i \notin Queued /\ i # worker.id /\ i \notin Ending
      BY <1>2, <1>5, SourceJobsAssumption DEF IInv, Tables, JobsAdvance
    <2>3. \A n \in 1 .. Len(queue) : queue[n] # i
      BY <2>2, QueuedAt DEF Queued, IInv, Tables, TypedTables
    <2>4. \A m, n \in 1 .. Len(queue') : queue'[m] = queue'[n] => m = n
      BY <1>9, <2>3 DEF IInv, Tables, JobsAdvance
    <2> QED BY <1>7, <1>10, <2>1, <2>2, <2>4 DEF IInv, Tables, JobsAdvance
  <1>13. Joinable'
    <2>1. \A l \in Keys : active'[l] = IF l = k THEN i ELSE active[l]
      BY <1>1, <1>4 DEF IInv, Tables, TypedTables
    <2>2. \A j \in Live : jobs[j].clients # {} => jobs[j].key # k
      BY <1>1, <1>4, JobFacts, SourceJobsAssumption DEF IInv, Tables, Joinable
    <2>3. \A j \in Live : j \in JobIds /\ j # i /\ jobs'[j] = jobs[j] /\ jobs[j].key \in Keys
      BY <1>5, <1>6, JobFacts DEF IInv, Tables
    <2>4. \A l \in Keys : active'[l] # None =>
             active'[l] \in Live' /\ jobs'[active'[l]].key = l /\ ~jobs'[active'[l]].cancelled
      BY <1>5, <1>6, <1>7, <2>1, <2>3 DEF IInv, Tables, Joinable
    <2>5. \A j \in Live' : jobs'[j].clients # {} => active'[jobs'[j].key] = j
      BY <1>1, <1>5, <1>6, <1>7, <2>1, <2>2, <2>3 DEF IInv, Tables, Joinable
    <2> QED BY <2>4, <2>5 DEF Joinable
  <1>14. Wanted'
    BY <1>5, <1>6, <1>7 DEF IInv, Tables, Wanted, Live
  <1>15. PlanesAlone'
    BY <1>4, EvictedFacts DEF IInv, Tables, TypedTables, PlanesAlone
  <1>16. CompletedEnded'
    <2>1. \A n \in 1 .. Len(completed) : completed[n] \in JobIds /\ completed[n] # i
      BY <1>2 DEF IInv, Tables, TypedTables, CompletedEnded, NoJob
    <2> QED BY <1>4, <1>6, <2>1 DEF IInv, Tables, CompletedEnded
  <1>17. StartedLive' /\ WorkerHas'
    BY <1>4 DEF IInv, Tables, StartedLive, WorkerHas, EndMessages
  <1> QED BY <1>7, <1>8, <1>11, <1>12, <1>13, <1>14, <1>15, <1>16, <1>17 DEF Tables
\* A job joins the list of ended ones, and the oldest may leave the table.
LEMMA Retired ==
    ASSUME IInv, NEW id \in JobIds, NEW table \in [JobIds -> Job \union EndedJob \union {NoJob}],
           \A n \in 1 .. Len(completed) :
              completed[n] # id /\ table[completed[n]] = jobs[completed[n]],
           table[id].state \in {"ready", "failed"},
           Retire(id, table)
    PROVE  /\ completed' \in Seq(JobIds) /\ Len(completed') <= ResultCapacity
           /\ jobs' \in [JobIds -> Job \union EndedJob \union {NoJob}]
           /\ \A j \in JobIds : \/ jobs'[j] = table[j]
                                \/ jobs'[j] = NoJob /\ table[j].state \in {"ready", "failed"}
           /\ CompletedEnded'
  <1> DEFINE ended == Append(completed, id)
  <1>1. /\ completed \in Seq(JobIds) /\ Len(completed) <= ResultCapacity
        /\ \A n \in 1 .. Len(completed) : jobs[completed[n]].state \in {"ready", "failed"}
        /\ \A m, n \in 1 .. Len(completed) : completed[m] = completed[n] => m = n
    BY DEF IInv, Tables, TypedTables, CompletedEnded
  <1>2. ResultCapacity \in Nat \ {0}
    BY SourceJobsAssumption
  <1>3. /\ ended \in Seq(JobIds) /\ Len(ended) = Len(completed) + 1 /\ Len(completed) \in Nat
        /\ \A n \in 1 .. Len(completed) : ended[n] = completed[n]
        /\ ended[Len(completed) + 1] = id
    BY <1>1, Appended
  <1>4. /\ \A n \in 1 .. Len(ended) : ended[n] \in JobIds /\ table[ended[n]].state \in {"ready", "failed"}
        /\ \A m, n \in 1 .. Len(ended) : ended[m] = ended[n] => m = n
    BY <1>1, <1>3
  <1>5. CASE Len(ended) > ResultCapacity
    <2>1. completed' = Tail(ended)
          /\ jobs' = [i \in JobIds |-> IF i \in {Head(ended)} THEN NoJob ELSE table[i]]
      BY <1>5 DEF Retire
    <2> HIDE DEF ended
    <2>2. /\ Tail(ended) \in Seq(JobIds) /\ Len(Tail(ended)) = Len(completed)
          /\ \A n \in 1 .. Len(completed) : Tail(ended)[n] = ended[n + 1]
          /\ Head(ended) = ended[1]
      BY <1>3, Tailed
    <2>3. \A n \in 1 .. Len(completed) : completed'[n] = ended[n + 1] /\ ended[n + 1] # ended[1]
      BY <1>3, <1>4, <2>1, <2>2
    <2>4. \A n \in 1 .. Len(completed) : jobs'[completed'[n]] = table[ended[n + 1]]
      BY <1>3, <1>4, <2>1, <2>2, <2>3
    <2>5. /\ \A n \in 1 .. Len(completed') : jobs'[completed'[n]].state \in {"ready", "failed"}
          /\ \A m, n \in 1 .. Len(completed') : completed'[m] = completed'[n] => m = n
      <3>1. Len(completed') = Len(completed)
        BY <2>1, <2>2
      <3>2. \A n \in 1 .. Len(completed) : n + 1 \in 1 .. Len(ended)
        BY <1>3
      <3>3. ASSUME NEW m \in 1 .. Len(completed), NEW n \in 1 .. Len(completed),
                   completed'[m] = completed'[n]
            PROVE  m = n
        <4>1. m + 1 = n + 1
          BY <1>4, <2>3, <3>2, <3>3
        <4> QED BY <1>3, <4>1
      <3> QED BY <1>4, <2>4, <3>1, <3>2, <3>3
    <2>6. CompletedEnded'
      BY <2>5 DEF CompletedEnded
    <2>7. jobs' \in [JobIds -> Job \union EndedJob \union {NoJob}]
      BY <2>1
    <2>8. \A j \in JobIds : \/ jobs'[j] = table[j]
                            \/ jobs'[j] = NoJob /\ table[j].state \in {"ready", "failed"}
      BY <1>3, <1>4, <2>1, <2>2
    <2> QED BY <1>1, <2>1, <2>2, <2>6, <2>7, <2>8
  <1>6. CASE ~(Len(ended) > ResultCapacity)
    <2>1. completed' = ended /\ jobs' = [i \in JobIds |-> table[i]]
      BY <1>6 DEF Retire
    <2>2. Len(ended) <= ResultCapacity
      BY <1>2, <1>3, <1>6
    <2> HIDE DEF ended
    <2>3. CompletedEnded'
      BY <1>4, <2>1 DEF CompletedEnded
    <2> QED BY <1>3, <2>1, <2>2, <2>3
  <1> QED BY <1>5, <1>6

\* A source that needs no preparation: an ended job, and nothing else.
LEMMA PrepareReadyTables ==
    ASSUME IInv, NEW c \in Clients, PrepareReady(c)
    PROVE  Tables' /\ Live' = Live /\ \A d \in Clients : JobsOf(d) \subseteq JobsOf(d)'
  <1> DEFINE i == CHOOSE j \in JobIds : Fresh(j)
             table == [jobs EXCEPT ![i] = [state |-> "ready"]]
  <1>1. i \in JobIds /\ jobs[i] = NoJob
    BY DEF PrepareReady, Fresh
  <1>2. Retire(i, table) /\ UNCHANGED <<active, cache, inbox, queue, worker>>
    BY DEF PrepareReady
  <1>3. i \notin Live
    BY <1>1 DEF Live, NoJob
  <1> HIDE DEF i
  <1>4. /\ table \in [JobIds -> Job \union EndedJob \union {NoJob}]
        /\ table[i].state = "ready" /\ \A j \in JobIds \ {i} : table[j] = jobs[j]
    BY <1>1 DEF IInv, Tables, TypedTables, EndedJob
  <1>5. \A n \in 1 .. Len(completed) : completed[n] \in JobIds /\ completed[n] # i
    BY <1>1 DEF IInv, Tables, TypedTables, CompletedEnded, NoJob
  <1> HIDE DEF table
  <1>6. /\ completed' \in Seq(JobIds) /\ Len(completed') <= ResultCapacity
        /\ jobs' \in [JobIds -> Job \union EndedJob \union {NoJob}]
        /\ \A j \in JobIds : \/ jobs'[j] = table[j]
                             \/ jobs'[j] = NoJob /\ table[j].state \in {"ready", "failed"}
        /\ CompletedEnded'
    BY <1>1, <1>2, <1>4, <1>5, Retired
  <1>7. \A j \in JobIds : j \in Live => jobs'[j] = jobs[j]
    BY <1>3, <1>4, <1>6 DEF Live
  <1>8. \A j \in JobIds : j \notin Live => jobs'[j].state \notin {"queued", "preparing"}
    BY <1>4, <1>6 DEF Live, NoJob
  <1>9. Live' = Live
    BY <1>7, <1>8 DEF Live
  <1>10. \A d \in Clients : JobsOf(d) \subseteq JobsOf(d)'
    BY <1>7, <1>9 DEF JobsOf, Live
  <1>11. TypedTables'
    BY <1>2, <1>6 DEF IInv, Tables, TypedTables
  <1>12. JobsAdvance' /\ PlanesAlone' /\ WorkerHas'
    BY <1>2, <1>9 DEF IInv, Tables, JobsAdvance, Queued, Ending, EndMessages, PlanesAlone,
                      WorkerHas
  <1>13. Joinable' /\ Wanted' /\ StartedLive'
    <2>1. \A j \in Live : j \in JobIds /\ jobs'[j] = jobs[j]
      BY <1>7 DEF Live
    <2>2. Joinable'
      BY <1>2, <1>9, <2>1 DEF IInv, Tables, Joinable
    <2>3. Wanted' /\ StartedLive'
      BY <1>2, <1>9, <2>1 DEF IInv, Tables, Wanted, StartedLive, EndMessages
    <2> QED BY <2>2, <2>3
  <1> QED BY <1>6, <1>9, <1>10, <1>11, <1>12, <1>13 DEF Tables

\* A client leaves jobs: those it leaves alone are stopped.
LEMMA LeaveTables ==
    ASSUME IInv, NEW c \in Clients, NEW left \in SUBSET JobsOf(c), Leave(c, left),
           UNCHANGED <<completed, cache, inbox, queue, worker>>
    PROVE  /\ Tables' /\ Live' = Live
           /\ \A d \in Clients : d # c => JobsOf(d) \subseteq JobsOf(d)'
  <1> DEFINE stopped == {i \in left : jobs[i].clients = {c}}
  <1>1. \A i \in left : i \in Live /\ i \in JobIds /\ jobs[i] \in Job /\ c \in jobs[i].clients
                        /\ jobs[i].clients \in SUBSET Clients
    BY JobFacts DEF JobsOf, IInv, Tables
  <1>2. \A i \in left : /\ jobs'[i] \in Job /\ jobs'[i].clients = jobs[i].clients \ {c}
                        /\ jobs'[i].key = jobs[i].key /\ jobs'[i].state = jobs[i].state
                        /\ jobs'[i].cancelled = (i \in stopped)
    <2> SUFFICES ASSUME NEW i \in left
                 PROVE  /\ jobs'[i] \in Job /\ jobs'[i].clients = jobs[i].clients \ {c}
                        /\ jobs'[i].key = jobs[i].key /\ jobs'[i].state = jobs[i].state
                        /\ jobs'[i].cancelled = (i \in stopped)
      OBVIOUS
    <2>1. jobs'[i] = [jobs[i] EXCEPT !.clients = @ \ {c}, !.cancelled = i \in stopped]
      BY <1>1 DEF Leave
    <2>2. (i \in stopped) \in BOOLEAN
      OBVIOUS
    <2> DEFINE b == i \in stopped
    <2>3. b \in BOOLEAN
      BY <2>2
    <2> HIDE DEF b
    <2>4. jobs'[i] = [jobs[i] EXCEPT !.clients = @ \ {c}, !.cancelled = b]
      BY <2>1 DEF b
    <2>5. /\ jobs'[i] \in Job /\ jobs'[i].clients = jobs[i].clients \ {c}
          /\ jobs'[i].key = jobs[i].key /\ jobs'[i].state = jobs[i].state
          /\ jobs'[i].cancelled = b
      <3> DEFINE C == jobs[i].clients \ {c}
                 j == jobs[i]
                 l == jobs'[i]
      <3>1. C \in SUBSET Clients /\ j \in Job
        BY <1>1
      <3>2. l = [j EXCEPT !.clients = C, !.cancelled = b]
        BY <2>4
      <3> HIDE DEF C, j, l
      <3>3. l \in Job /\ l.clients = C /\ l.key = j.key /\ l.state = j.state /\ l.cancelled = b
        <4>1. j.key \in Keys /\ j.state \in {"queued", "preparing"}
              /\ j.sensor \in JobIds \union {None}
          BY <3>1 DEF Job
        <4>2. l = [key |-> j.key, clients |-> C, cancelled |-> b, state |-> j.state,
                   sensor |-> j.sensor]
          BY <3>1, <3>2 DEF Job
        <4>3. l.cancelled = b
          BY <4>2, Zenon
        <4>4. l.clients = C /\ l.key = j.key /\ l.state = j.state
          BY <4>2, Zenon
        <4>5. l \in Job
          BY <2>3, <3>1, <4>1, <4>2, Zenon DEF Job
        <4> QED BY <4>3, <4>4, <4>5
      <3> QED BY <3>3 DEF C, j, l
    <2> QED BY <2>5 DEF b
  <1>3. \A i \in JobIds \ left : jobs'[i] = jobs[i]
    BY DEF Leave
  <1>4. \A k \in Keys : active'[k] = IF active[k] \in stopped THEN None ELSE active[k]
    BY DEF Leave
  <1>5. jobs' \in [JobIds -> Job \union EndedJob \union {NoJob}]
        /\ active' \in [Keys -> JobIds \union {None}]
    BY <1>2, <1>3 DEF Leave, IInv, Tables, TypedTables
  <1>6. \A i \in left : (jobs'[i].cancelled <=> i \in stopped)
    BY <1>2
  <1>7. \A i \in left : i \in stopped <=> jobs'[i].clients = {}
    BY <1>1, <1>2
  <1>8. \A i \in stopped : i \in left
    OBVIOUS
  <1> HIDE DEF stopped
  <1>9. Live' = Live
    BY <1>1, <1>2, <1>3 DEF Live
  <1>10. \A d \in Clients : d # c => JobsOf(d) \subseteq JobsOf(d)'
    BY <1>1, <1>2, <1>3, <1>9 DEF JobsOf, Live
  <1>11. TypedTables'
    BY <1>5 DEF IInv, Tables, TypedTables
  <1>12. JobsAdvance' /\ StartedLive' /\ WorkerHas'
    BY <1>9 DEF IInv, Tables, JobsAdvance, Queued, Ending, EndMessages, StartedLive, WorkerHas
  <1>13. Joinable'
    <2>1. ASSUME NEW k \in Keys, active'[k] # None
          PROVE  active'[k] \in Live' /\ jobs'[active'[k]].key = k
                 /\ ~jobs'[active'[k]].cancelled
      <3>1. active'[k] = active[k] /\ active[k] \notin stopped /\ active[k] # None
        BY <1>4, <2>1
      <3>2. active[k] \in Live /\ jobs[active[k]].key = k /\ ~jobs[active[k]].cancelled
            /\ active[k] \in JobIds
        BY <3>1 DEF IInv, Tables, Joinable, Live
      <3> QED BY <1>2, <1>3, <1>6, <1>9, <3>1, <3>2
    <2>2. ASSUME NEW i \in Live', jobs'[i].clients # {}
          PROVE  active'[jobs'[i].key] = i
      <3>1. i \in Live /\ i \in JobIds /\ i \notin stopped
        BY <1>7, <1>8, <1>9, <2>2 DEF Live
      <3>2. jobs[i].clients # {} /\ jobs'[i].key = jobs[i].key
        BY <1>1, <1>2, <1>3, <2>2, <3>1
      <3>3. active[jobs[i].key] = i /\ jobs[i].key \in Keys
        BY <3>1, <3>2, JobFacts DEF IInv, Tables, Joinable
      <3> QED BY <1>4, <3>1, <3>2, <3>3
    <2> QED BY <2>1, <2>2 DEF Joinable
  <1>14. Wanted'
    <2> SUFFICES ASSUME NEW i \in Live', ~jobs'[i].cancelled
                 PROVE  jobs'[i].clients # {}
      BY DEF Wanted
    <2>1. i \in Live /\ i \in JobIds
      BY <1>9 DEF Live
    <2> QED BY <1>3, <1>6, <1>7, <2>1 DEF IInv, Tables, Wanted
  <1>15. PlanesAlone'
    BY <1>4 DEF IInv, Tables, PlanesAlone
  <1>16. CompletedEnded'
    <2>1. \A n \in 1 .. Len(completed) : completed[n] \in JobIds
      BY DEF IInv, Tables, TypedTables
    <2>2. \A n \in 1 .. Len(completed) : jobs[completed[n]].state \in {"ready", "failed"}
      BY DEF IInv, Tables, CompletedEnded
    <2>3. \A j \in Live : jobs[j].state \notin {"ready", "failed"}
      BY DEF Live
    <2>4. \A n \in 1 .. Len(completed) : completed[n] \in JobIds \ left
      BY <1>1, <2>1, <2>2, <2>3
    <2>5. \A n \in 1 .. Len(completed) : jobs'[completed[n]] = jobs[completed[n]]
      BY <1>3, <2>4
    <2> QED BY <2>5 DEF IInv, Tables, CompletedEnded
  <1> QED BY <1>9, <1>10, <1>11, <1>12, <1>13, <1>14, <1>15, <1>16 DEF Tables
-----------------------------------------------------------------------------
\* The worker's steps: a task moves from the queue to the worker, and from
\* either to a message that ends it.

UnchangedTables == UNCHANGED <<jobs, active, completed, cache>>

\* A message at the end of the owner's channel.
LEMMA Told ==
    ASSUME TypedTables, NEW kind \in {"started", "prepared", "failed"}, NEW id \in JobIds,
           Tell(kind, id)
    PROVE  /\ inbox' \in Seq(Message) /\ Len(inbox') <= InboxCapacity
           /\ Len(inbox) \in Nat /\ Len(inbox') = Len(inbox) + 1
           /\ \A n \in 1 .. Len(inbox) : inbox'[n] = inbox[n]
           /\ inbox'[Len(inbox) + 1].kind = kind /\ inbox'[Len(inbox) + 1].id = id
           /\ EndMessages \subseteq 1 .. Len(inbox)
           /\ kind = "started" => EndMessages' = EndMessages /\ Ending' = Ending
           /\ kind # "started" => /\ EndMessages' = EndMessages \union {Len(inbox) + 1}
                                  /\ Ending' = Ending \union {id}
  <1> DEFINE m == [kind |-> kind, id |-> id]
  <1>1. m \in Message /\ m.kind = kind /\ m.id = id
    BY DEF Message
  <1>2. inbox \in Seq(Message) /\ inbox' = Append(inbox, m) /\ Len(inbox) < InboxCapacity
        /\ InboxCapacity \in Nat
    BY SourceJobsAssumption DEF TypedTables, Tell
  <1> HIDE DEF m
  <1>3. /\ inbox' \in Seq(Message) /\ Len(inbox) \in Nat /\ Len(inbox') = Len(inbox) + 1
        /\ \A n \in 1 .. Len(inbox) : inbox'[n] = inbox[n]
        /\ inbox'[Len(inbox) + 1] = m
    BY <1>1, <1>2, Appended
  <1>4. 1 .. Len(inbox') = (1 .. Len(inbox)) \union {Len(inbox) + 1}
    BY <1>3
  <1>5. EndMessages \subseteq 1 .. Len(inbox)
    BY DEF EndMessages
  <1>6. Len(inbox) + 1 \notin 1 .. Len(inbox)
    BY <1>3
  <1>7. EndMessages' = {n \in 1 .. Len(inbox') : inbox'[n].kind # "started"}
        /\ Ending' = {inbox'[n].id : n \in EndMessages'}
    BY DEF EndMessages, Ending
  <1>8. CASE kind = "started"
    <2>1. EndMessages' = EndMessages
      BY <1>1, <1>3, <1>4, <1>7, <1>8 DEF EndMessages
    <2>2. Ending' = Ending
      BY <1>3, <1>5, <1>7, <2>1 DEF Ending
    <2> QED BY <1>1, <1>2, <1>3, <1>5, <1>8, <2>1, <2>2
  <1>9. CASE kind # "started"
    <2>1. EndMessages' = EndMessages \union {Len(inbox) + 1}
      BY <1>1, <1>3, <1>4, <1>7, <1>9 DEF EndMessages
    <2>2. Ending' = Ending \union {id}
      BY <1>1, <1>3, <1>5, <1>7, <2>1 DEF Ending
    <2> QED BY <1>1, <1>2, <1>3, <1>5, <1>9, <2>1, <2>2
  <1> QED BY <1>8, <1>9

\* The oldest task leaves the queue.
LEMMA Dequeued ==
    ASSUME TypedTables, JobsAdvance, queue # <<>>, queue' = Tail(queue)
    PROVE  /\ queue' \in Seq(JobIds) /\ Len(queue') <= QueueCapacity
           /\ Head(queue) \in Queued /\ Head(queue) \in JobIds
           /\ Queued' = Queued \ {Head(queue)}
           /\ \A m, n \in 1 .. Len(queue') : queue'[m] = queue'[n] => m = n
  <1>1. queue \in Seq(JobIds) /\ Len(queue) <= QueueCapacity /\ QueueCapacity \in Nat
        /\ \A m, n \in 1 .. Len(queue) : queue[m] = queue[n] => m = n
    BY SourceJobsAssumption DEF TypedTables, JobsAdvance
  <1>2. /\ queue' \in Seq(JobIds) /\ Len(queue') = Len(queue) - 1 /\ Len(queue) \in Nat \ {0}
        /\ \A n \in 1 .. Len(queue) - 1 : queue'[n] = queue[n + 1]
        /\ Head(queue) = queue[1] /\ Head(queue) \in JobIds
    BY <1>1, Tailed
  <1>3. Queued = {queue[n] : n \in 1 .. Len(queue)}
        /\ Queued' = {queue'[n] : n \in 1 .. Len(queue')}
    <2>1. Queued = {queue[n] : n \in 1 .. Len(queue)}
      BY <1>1, QueuedAt DEF Queued
    <2>2. DOMAIN queue' = 1 .. Len(queue')
      BY <1>2
    <2>3. Queued' = {queue'[n] : n \in 1 .. Len(queue')}
      BY <2>2, Zenon DEF Queued, ToSet
    <2> QED BY <2>1, <2>3
  <1>4. ASSUME NEW m \in 1 .. Len(queue'), NEW n \in 1 .. Len(queue'), queue'[m] = queue'[n]
        PROVE  m = n
    <2>1. m + 1 \in 1 .. Len(queue) /\ n + 1 \in 1 .. Len(queue)
      BY <1>2
    <2>2. m + 1 = n + 1
      BY <1>1, <1>2, <1>4, <2>1
    <2> QED BY <1>2, <2>2
  <1>5. Queued' \subseteq Queued \ {queue[1]}
    <2> SUFFICES ASSUME NEW n \in 1 .. Len(queue')
                 PROVE  queue'[n] \in Queued \ {queue[1]}
      BY <1>3
    <2>1. n + 1 \in 1 .. Len(queue) /\ 1 \in 1 .. Len(queue) /\ n + 1 # 1
          /\ queue'[n] = queue[n + 1]
      BY <1>2
    <2>2. queue[n + 1] # queue[1]
      BY <1>1, <2>1
    <2> QED BY <1>3, <2>1, <2>2
  <1>6. Queued \ {queue[1]} \subseteq Queued'
    <2> SUFFICES ASSUME NEW n \in 1 .. Len(queue), queue[n] # queue[1]
                 PROVE  queue[n] \in Queued'
      BY <1>3
    <2>1. n - 1 \in 1 .. Len(queue') /\ queue'[n - 1] = queue[n]
      BY <1>2
    <2> QED BY <1>3, <2>1
  <1>7. queue[1] \in Queued
    BY <1>2, <1>3
  <1> QED BY <1>1, <1>2, <1>4, <1>5, <1>6, <1>7

\* A task ends, wherever it was, and the worker is idle.
LEMMA EndTables ==
    ASSUME IInv, NEW kind \in {"prepared", "failed"}, NEW id \in JobIds,
           id \in Queued \union {worker.id}, worker.id \in {id, None}, Tell(kind, id),
           WorkerDoes("idle", None), UnchangedTables,
           queue' \in Seq(JobIds), Len(queue') <= QueueCapacity, Queued' = Queued \ {id},
           \A m, n \in 1 .. Len(queue') : queue'[m] = queue'[n] => m = n
    PROVE  Tables' /\ Live' = Live
  <1>1. /\ inbox' \in Seq(Message) /\ Len(inbox') <= InboxCapacity
        /\ Len(inbox) \in Nat /\ Len(inbox') = Len(inbox) + 1
        /\ \A n \in 1 .. Len(inbox) : inbox'[n] = inbox[n]
        /\ inbox'[Len(inbox) + 1].kind = kind /\ inbox'[Len(inbox) + 1].id = id
        /\ EndMessages \subseteq 1 .. Len(inbox)
        /\ EndMessages' = EndMessages \union {Len(inbox) + 1}
        /\ Ending' = Ending \union {id}
    BY Told DEF IInv, Tables
  <1>2. UNCHANGED <<jobs, active, completed, cache>> /\ worker' = [doing |-> "idle", id |-> None]
    BY DEF UnchangedTables, WorkerDoes
  <1>3. Live' = Live
    BY <1>2 DEF Live
  <1>4. worker'.id = None /\ worker'.doing = "idle" /\ id # None
    BY <1>2, SourceJobsAssumption
  <1>5. TypedTables'
    BY <1>1, <1>2 DEF IInv, Tables, TypedTables
  <1>6. /\ Live = Queued \union ({worker.id} \ {None}) \union Ending
        /\ worker.id \notin Queued \union Ending /\ Queued \intersect Ending = {}
        /\ \A m, n \in EndMessages : inbox[m].id = inbox[n].id => m = n
    BY DEF IInv, Tables, JobsAdvance
  <1>7. id \notin Ending
    BY <1>6
  <1>8. \A n \in EndMessages : inbox'[n] = inbox[n] /\ inbox[n].id # id
    BY <1>1, <1>7 DEF Ending
  <1>9. None \notin Queued' \union Ending'
    <2>1. None \notin Live
      BY SourceJobsAssumption DEF Live
    <2> QED BY <1>1, <1>4, <1>6, <2>1
  <1>10. \A m, n \in EndMessages' : inbox'[m].id = inbox'[n].id => m = n
    BY <1>1, <1>6, <1>8
  <1>11. Live' = Queued' \union ({worker'.id} \ {None}) \union Ending'
    BY <1>1, <1>3, <1>4, <1>6
  <1>12. Queued' \intersect Ending' = {}
    BY <1>1, <1>6
  <1>13. JobsAdvance'
    BY <1>4, <1>9, <1>10, <1>11, <1>12 DEF JobsAdvance
  <1>14. StartedLive'
    <2> SUFFICES ASSUME NEW n \in 1 .. Len(inbox'), inbox'[n].kind = "started"
                 PROVE  \E m \in EndMessages' : m > n /\ inbox'[m].id = inbox'[n].id
      BY DEF StartedLive
    <2>1. n \in 1 .. Len(inbox) /\ inbox'[n] = inbox[n]
      BY <1>1
    <2>2. inbox[n] \in Message
      BY <2>1 DEF IInv, Tables, TypedTables
    <2>3. inbox[n].id # None
      BY <2>2, SourceJobsAssumption DEF Message
    <2>4. CASE inbox[n].id = worker.id
      <3>1. inbox[n].id = id
        BY <2>3, <2>4
      <3>2. Len(inbox) + 1 > n /\ Len(inbox) + 1 \in EndMessages'
        BY <1>1, <2>1
      <3> QED BY <1>1, <2>1, <3>1, <3>2
    <2>5. CASE inbox[n].id # worker.id
      <3>1. PICK m \in EndMessages : m > n /\ inbox[m].id = inbox[n].id
        BY <2>1, <2>5 DEF IInv, Tables, StartedLive
      <3>2. inbox'[m] = inbox[m] /\ m \in EndMessages'
        BY <1>1
      <3> QED BY <2>1, <3>1, <3>2
    <2> QED BY <2>4, <2>5
  <1>15. WorkerHas'
    BY <1>4 DEF WorkerHas
  <1>16. Joinable' /\ Wanted' /\ PlanesAlone' /\ CompletedEnded'
    BY <1>2, <1>3 DEF IInv, Tables, Joinable, Wanted, PlanesAlone, CompletedEnded
  <1> QED BY <1>3, <1>5, <1>13, <1>14, <1>15, <1>16 DEF Tables
LEMMA TakeTables ==
    ASSUME IInv, TakeTask
    PROVE  Tables' /\ Live' = Live /\ UNCHANGED jobs
  <1> DEFINE id == Head(queue)
  <1>1. queue # <<>> /\ queue' = Tail(queue) /\ worker.doing = "idle"
        /\ UNCHANGED <<jobs, active, completed, cache>>
    BY DEF TakeTask
  <1>2. /\ queue' \in Seq(JobIds) /\ Len(queue') <= QueueCapacity
        /\ id \in Queued /\ id \in JobIds /\ Queued' = Queued \ {id}
        /\ \A m, n \in 1 .. Len(queue') : queue'[m] = queue'[n] => m = n
    BY <1>1, Dequeued DEF IInv, Tables
  <1>3. worker.id = None
    BY <1>1 DEF IInv, Tables, WorkerHas
  <1> HIDE DEF id
  <1>4. CASE Drop(id)
    <2>1. Tell("failed", id) /\ WorkerDoes("idle", None) /\ UnchangedTables
      BY <1>1, <1>4 DEF Drop, UnchangedTables
    <2> QED BY <1>1, <1>2, <1>3, <2>1, EndTables
  <1>5. CASE WorkerDoes("gate", id) /\ UNCHANGED inbox
    <2>1. worker'.doing = "gate" /\ worker'.id = id /\ inbox' = inbox
          /\ worker' \in [doing : {"idle", "gate", "work"}, id : JobIds \union {None}]
      BY <1>2, <1>5 DEF WorkerDoes
    <2>2. Live' = Live /\ EndMessages' = EndMessages /\ Ending' = Ending
      BY <1>1, <2>1 DEF Live, EndMessages, Ending
    <2>3. id # None
      BY <1>2, SourceJobsAssumption
    <2>4. TypedTables'
      BY <1>1, <1>2, <2>1 DEF IInv, Tables, TypedTables
    <2>5. JobsAdvance'
      BY <1>2, <1>3, <2>1, <2>2, <2>3 DEF IInv, Tables, JobsAdvance
    <2>6. StartedLive'
      <3>0. \A n \in 1 .. Len(inbox) : inbox[n] \in Message
        BY DEF IInv, Tables, TypedTables
      <3>1. \A n \in 1 .. Len(inbox) : inbox[n].id # None
        BY <3>0, SourceJobsAssumption DEF Message
      <3> QED BY <1>3, <2>1, <2>2, <3>1 DEF IInv, Tables, StartedLive
    <2>7. WorkerHas'
      BY <2>1, <2>3 DEF WorkerHas
    <2>8. Joinable' /\ Wanted' /\ PlanesAlone' /\ CompletedEnded'
      BY <1>1, <2>2 DEF IInv, Tables, Joinable, Wanted, PlanesAlone, CompletedEnded
    <2> QED BY <1>1, <2>2, <2>4, <2>5, <2>6, <2>7, <2>8 DEF Tables
  <1> QED BY <1>4, <1>5 DEF TakeTask, id

\* The worker's own task ends.
LEMMA OwnEndTables ==
    ASSUME IInv, worker.doing # "idle", NEW kind \in {"prepared", "failed"},
           Tell(kind, worker.id), WorkerDoes("idle", None),
           UnchangedTables, UNCHANGED queue
    PROVE  Tables' /\ Live' = Live /\ UNCHANGED jobs
  <1> DEFINE id == worker.id
  <1>1. id \in JobIds
    BY DEF IInv, Tables, WorkerHas, TypedTables
  <1>2. queue' = queue /\ Queued' = Queued
    BY DEF Queued
  <1>3. id \notin Queued
    BY DEF IInv, Tables, JobsAdvance
  <1>4. /\ queue' \in Seq(JobIds) /\ Len(queue') <= QueueCapacity
        /\ \A m, n \in 1 .. Len(queue') : queue'[m] = queue'[n] => m = n
    BY <1>2 DEF IInv, Tables, TypedTables, JobsAdvance
  <1>5. Queued' = Queued \ {id}
    BY <1>2, <1>3
  <1>6. id \in Queued \union {worker.id} /\ worker.id \in {id, None} /\ Tell(kind, id)
    OBVIOUS
  <1> HIDE DEF id
  <1>7. Tables' /\ Live' = Live
    BY <1>1, <1>4, <1>5, <1>6, EndTables
  <1> QED BY <1>7 DEF UnchangedTables

LEMMA PassGateTables ==
    ASSUME IInv, PassGate
    PROVE  Tables' /\ Live' = Live /\ UNCHANGED jobs
  <1> DEFINE id == worker.id
  <1>1. worker.doing = "gate" /\ UNCHANGED <<jobs, active, completed, cache, queue>>
    BY DEF PassGate
  <1>2. id \in JobIds
    BY <1>1 DEF IInv, Tables, WorkerHas, TypedTables
  <1>3. CASE Drop(id)
    <2>1. Tell("failed", worker.id) /\ WorkerDoes("idle", None) /\ UnchangedTables
          /\ UNCHANGED queue /\ worker.doing # "idle"
      BY <1>1, <1>3 DEF Drop, UnchangedTables
    <2> QED BY <2>1, OwnEndTables
  <1>4. CASE Tell("started", id) /\ WorkerDoes("work", id)
    <2>1. worker'.doing = "work" /\ worker'.id = id
          /\ worker' \in [doing : {"idle", "gate", "work"}, id : JobIds \union {None}]
      BY <1>2, <1>4 DEF WorkerDoes
    <2> HIDE DEF id
    <2>2. /\ inbox' \in Seq(Message) /\ Len(inbox') <= InboxCapacity
          /\ Len(inbox) \in Nat /\ Len(inbox') = Len(inbox) + 1
          /\ \A n \in 1 .. Len(inbox) : inbox'[n] = inbox[n]
          /\ inbox'[Len(inbox) + 1].kind = "started" /\ inbox'[Len(inbox) + 1].id = id
          /\ EndMessages \subseteq 1 .. Len(inbox)
          /\ EndMessages' = EndMessages /\ Ending' = Ending
      BY <1>2, <1>4, Told DEF IInv, Tables
    <2>3. Live' = Live /\ Queued' = Queued
      BY <1>1 DEF Live, Queued
    <2>4. TypedTables'
      BY <1>1, <2>1, <2>2 DEF IInv, Tables, TypedTables
    <2>5. \A m, n \in EndMessages' : inbox'[m].id = inbox'[n].id => m = n
      BY <2>2 DEF IInv, Tables, JobsAdvance
    <2>6. JobsAdvance'
      BY <1>1, <2>1, <2>2, <2>3, <2>5 DEF IInv, Tables, JobsAdvance, id
    <2>7. StartedLive'
      <3> SUFFICES ASSUME NEW n \in 1 .. Len(inbox'), inbox'[n].kind = "started"
                   PROVE  \/ inbox'[n].id = worker'.id
                          \/ \E m \in EndMessages' : m > n /\ inbox'[m].id = inbox'[n].id
        BY DEF StartedLive
      <3>1. CASE n = Len(inbox) + 1
        BY <2>1, <2>2, <3>1
      <3>2. CASE n \in 1 .. Len(inbox)
        <4>1. inbox'[n] = inbox[n]
          BY <2>2, <3>2
        <4>2. \/ inbox[n].id = id
              \/ \E m \in EndMessages : m > n /\ inbox[m].id = inbox[n].id
          BY <3>2, <4>1 DEF IInv, Tables, StartedLive, id
        <4> QED BY <2>1, <2>2, <4>1, <4>2
      <3> QED BY <2>2, <3>1, <3>2
    <2>8. WorkerHas'
      BY <1>2, <2>1, SourceJobsAssumption DEF WorkerHas
    <2>9. Joinable' /\ Wanted' /\ PlanesAlone' /\ CompletedEnded'
      BY <1>1, <2>3 DEF IInv, Tables, Joinable, Wanted, PlanesAlone, CompletedEnded
    <2> QED BY <1>1, <2>3, <2>4, <2>6, <2>7, <2>8, <2>9 DEF Tables
  <1> QED BY <1>3, <1>4 DEF PassGate

LEMMA EndWorkTables ==
    ASSUME IInv, EndWork
    PROVE  Tables' /\ Live' = Live /\ UNCHANGED jobs
  <1>1. PICK kind \in {"prepared", "failed"} : Tell(kind, worker.id)
    BY DEF EndWork
  <1>2. worker.doing # "idle" /\ WorkerDoes("idle", None) /\ UnchangedTables /\ UNCHANGED queue
    BY DEF EndWork, UnchangedTables
  <1> QED BY <1>1, <1>2, OwnEndTables
-----------------------------------------------------------------------------
\* The owner's reads of its channel.

LEMMA InboxRead ==
    ASSUME IInv, inbox # <<>>, inbox' = Tail(inbox), UNCHANGED worker
    PROVE  /\ inbox' \in Seq(Message) /\ Len(inbox') <= InboxCapacity
           /\ 1 \in 1 .. Len(inbox) /\ Head(inbox) = inbox[1] /\ inbox[1] \in Message
           /\ \A m, n \in EndMessages' : inbox'[m].id = inbox'[n].id => m = n
           /\ StartedLive'
           /\ inbox[1].kind = "started" => Ending' = Ending
           /\ inbox[1].kind # "started" => /\ inbox[1].id \in Ending
                                           /\ Ending' = Ending \ {inbox[1].id}
  <1>1. /\ inbox \in Seq(Message) /\ Len(inbox) <= InboxCapacity /\ InboxCapacity \in Nat
        /\ \A m, n \in EndMessages : inbox[m].id = inbox[n].id => m = n
    BY SourceJobsAssumption DEF IInv, Tables, TypedTables, JobsAdvance
  <1>2. /\ inbox' \in Seq(Message) /\ Len(inbox') = Len(inbox) - 1 /\ Len(inbox) \in Nat \ {0}
        /\ \A n \in 1 .. Len(inbox) - 1 : inbox'[n] = inbox[n + 1]
        /\ Head(inbox) = inbox[1] /\ inbox[1] \in Message
    BY <1>1, Tailed
  <1>10. 1 \in 1 .. Len(inbox) /\ Len(inbox') <= InboxCapacity
    BY <1>1, <1>2
  <1>3. \A n \in EndMessages' : /\ n \in 1 .. Len(inbox') /\ n \in Nat
                                /\ n + 1 \in EndMessages /\ n + 1 # 1 /\ inbox'[n] = inbox[n + 1]
    BY <1>2 DEF EndMessages
  <1>4. \A n \in EndMessages : n # 1 => /\ n \in Nat /\ n - 1 \in EndMessages'
                                        /\ inbox'[n - 1] = inbox[n]
    BY <1>2 DEF EndMessages
  <1>5. ASSUME NEW m \in EndMessages', NEW n \in EndMessages', inbox'[m].id = inbox'[n].id
        PROVE  m = n
    <2>1. m + 1 = n + 1
      BY <1>1, <1>3, <1>5
    <2> QED BY <1>3, <2>1
  <1>6. StartedLive'
    <2> SUFFICES ASSUME NEW n \in 1 .. Len(inbox'), inbox'[n].kind = "started",
                        inbox'[n].id # worker'.id
                 PROVE  \E m \in EndMessages' : m > n /\ inbox'[m].id = inbox'[n].id
      BY DEF StartedLive
    <2>1. n + 1 \in 1 .. Len(inbox) /\ inbox'[n] = inbox[n + 1] /\ n \in Nat /\ n >= 1
      BY <1>2
    <2>2. PICK m \in EndMessages : m > n + 1 /\ inbox[m].id = inbox[n + 1].id
      BY <2>1 DEF IInv, Tables, StartedLive
    <2>3. m # 1 /\ m \in Nat
      BY <2>1, <2>2, <1>4 DEF EndMessages
    <2>4. m - 1 \in EndMessages' /\ inbox'[m - 1] = inbox[m]
      BY <1>4, <2>3
    <2>5. m - 1 > n
      BY <2>1, <2>2, <2>3
    <2> QED BY <2>1, <2>2, <2>4, <2>5
  <1>7. Ending' = {inbox[n].id : n \in EndMessages \ {1}}
    <2>1. Ending' = {inbox'[n].id : n \in EndMessages'}
      BY DEF Ending
    <2>2. \A n \in EndMessages' : \E m \in EndMessages \ {1} : inbox'[n].id = inbox[m].id
      BY <1>3
    <2>3. \A m \in EndMessages \ {1} : \E n \in EndMessages' : inbox'[n].id = inbox[m].id
      <3> SUFFICES ASSUME NEW m \in EndMessages \ {1}
                   PROVE  \E n \in EndMessages' : inbox'[n].id = inbox[m].id
        OBVIOUS
      <3>1. m - 1 \in EndMessages' /\ inbox'[m - 1].id = inbox[m].id
        BY <1>4
      <3> QED BY <3>1
    <2>4. \A x \in Ending' : \E m \in EndMessages \ {1} : x = inbox[m].id
      BY <2>1, <2>2, Zenon
    <2>5. \A m \in EndMessages \ {1} : inbox[m].id \in Ending'
      BY <2>1, <2>3, Zenon
    <2> QED BY <2>4, <2>5
  <1>8. CASE inbox[1].kind = "started"
    <2>1. 1 \notin EndMessages
      BY <1>8 DEF EndMessages
    <2>2. Ending' = Ending
      BY <1>7, <2>1 DEF Ending
    <2> QED BY <1>2, <1>5, <1>6, <1>8, <1>10, <2>2, Zenon
  <1>9. CASE inbox[1].kind # "started"
    <2>1. 1 \in EndMessages
      BY <1>2, <1>9 DEF EndMessages
    <2>2. \A n \in EndMessages \ {1} : inbox[n].id # inbox[1].id
      BY <1>1, <2>1
    <2>3. Ending = {inbox[n].id : n \in EndMessages}
      BY DEF Ending
    <2>4. Ending' = Ending \ {inbox[1].id} /\ inbox[1].id \in Ending
      BY <1>7, <2>1, <2>2, <2>3
    <2> QED BY <1>2, <1>5, <1>6, <1>9, <1>10, <2>4, Zenon
  <1> QED BY <1>8, <1>9

LEMMA StartedTables ==
    ASSUME IInv, SourceStarted
    PROVE  Tables' /\ Live' = Live /\ \A d \in Clients : JobsOf(d) \subseteq JobsOf(d)'
  <1> DEFINE i == inbox[1].id
  <1>1. inbox # <<>> /\ inbox' = Tail(inbox) /\ Head(inbox).kind = "started"
        /\ jobs' = [jobs EXCEPT ![Head(inbox).id].state = "preparing"]
        /\ UNCHANGED <<active, completed, cache, queue, worker>>
    BY DEF SourceStarted
  <1>2. /\ inbox' \in Seq(Message) /\ Len(inbox') <= InboxCapacity
        /\ 1 \in 1 .. Len(inbox) /\ Head(inbox) = inbox[1] /\ inbox[1] \in Message
        /\ \A m, n \in EndMessages' : inbox'[m].id = inbox'[n].id => m = n
        /\ StartedLive' /\ inbox[1].kind = "started" /\ Ending' = Ending
    BY <1>1, InboxRead
  <1>3. i \in JobIds /\ i # None
    BY <1>2, SourceJobsAssumption DEF Message
  <1>4. i \in Live
    <2>1. i = worker.id \/ i \in Ending
      BY <1>2 DEF IInv, Tables, StartedLive, Ending
    <2> QED BY <1>3, <2>1 DEF IInv, Tables, JobsAdvance
  <1>5. jobs[i] \in Job
    BY <1>4, JobFacts DEF IInv, Tables
  <1>6. jobs' = [jobs EXCEPT ![i].state = "preparing"]
    BY <1>1, <1>2
  <1> HIDE DEF i
  <1>7. /\ jobs' \in [JobIds -> Job \union EndedJob \union {NoJob}]
        /\ jobs'[i] \in Job /\ jobs'[i].clients = jobs[i].clients
        /\ jobs'[i].key = jobs[i].key /\ jobs'[i].state = "preparing"
        /\ jobs'[i].cancelled = jobs[i].cancelled
        /\ \A j \in JobIds \ {i} : jobs'[j] = jobs[j]
    BY <1>3, <1>5, <1>6 DEF IInv, Tables, TypedTables, Job
  <1>8. Live' = Live
    BY <1>3, <1>4, <1>7 DEF Live
  <1>9. \A d \in Clients : JobsOf(d) \subseteq JobsOf(d)'
    BY <1>7, <1>8 DEF JobsOf, Live
  <1>10. TypedTables'
    BY <1>1, <1>2, <1>7 DEF IInv, Tables, TypedTables
  <1>11. JobsAdvance'
    <2>1. Queued' = Queued /\ queue' = queue /\ worker' = worker
      BY <1>1 DEF Queued
    <2> QED BY <1>2, <1>8, <2>1 DEF IInv, Tables, JobsAdvance
  <1>12. Joinable'
    <2>1. \A j \in Live : j \in JobIds /\ jobs'[j].key = jobs[j].key
             /\ jobs'[j].clients = jobs[j].clients /\ jobs'[j].cancelled = jobs[j].cancelled
      BY <1>7 DEF Live
    <2> QED BY <1>1, <1>8, <2>1 DEF IInv, Tables, Joinable
  <1>13. Wanted'
    BY <1>7, <1>8 DEF IInv, Tables, Wanted, Live
  <1>14. PlanesAlone' /\ WorkerHas'
    BY <1>1 DEF IInv, Tables, PlanesAlone, WorkerHas
  <1>15. CompletedEnded'
    <2>1. \A n \in 1 .. Len(completed) : completed[n] \in JobIds /\ completed[n] # i
      BY <1>4 DEF IInv, Tables, TypedTables, CompletedEnded, Live
    <2> QED BY <1>1, <1>7, <2>1 DEF IInv, Tables, CompletedEnded
  <1> QED BY <1>2, <1>8, <1>9, <1>10, <1>11, <1>12, <1>13, <1>14, <1>15 DEF Tables

\* What may be installed is a cached original.
LEMMA InstalledTyped ==
    ASSUME TypedTables, NEW id \in Live
    PROVE  Installed(id) \in Cache \union {NoCache}
  <1>1. jobs[id].key \in Keys /\ jobs[id].sensor \in JobIds \union {None} /\ id \in JobIds
    BY JobFacts
  <1>2. jobs[id].key.stack \in Stacks
    BY <1>1 DEF Keys
  <1>3. jobs[id].key.stack.photo \in Photos /\ jobs[id].key.stack.gains \in Gains \union {None}
    BY <1>2 DEF Stacks
  <1> QED BY <1>1, <1>3 DEF Installed, Cache

LEMMA CompleteTables ==
    ASSUME IInv, SourceComplete
    PROVE  /\ Tables' /\ Head(inbox).id \in Live /\ Live' = Live \ {Head(inbox).id}
           /\ \A d \in Clients : JobsOf(d) \ {Head(inbox).id} \subseteq JobsOf(d)'
  <1> DEFINE id == Head(inbox).id
             installs == Head(inbox).kind = "prepared" /\ Installs(id)
             kept == IF installs THEN Installed(id) ELSE cache
             table == [jobs EXCEPT ![id] = [state |-> IF installs THEN "ready" ELSE "failed"]]
  <1>1. inbox # <<>> /\ inbox' = Tail(inbox) /\ Head(inbox).kind # "started"
        /\ active' = [k \in Keys |-> IF active[k] = id THEN None ELSE active[k]]
        /\ Retire(id, table) /\ cache' = Settled(kept, id) /\ UNCHANGED <<queue, worker>>
    BY DEF SourceComplete
  <1>2. /\ inbox' \in Seq(Message) /\ Len(inbox') <= InboxCapacity
        /\ Head(inbox) = inbox[1] /\ inbox[1] \in Message
        /\ \A m, n \in EndMessages' : inbox'[m].id = inbox'[n].id => m = n
        /\ StartedLive' /\ inbox[1].id \in Ending /\ Ending' = Ending \ {inbox[1].id}
    BY <1>1, InboxRead
  <1>3. id \in JobIds /\ id # None /\ id \in Ending /\ Ending' = Ending \ {id}
    BY <1>2, SourceJobsAssumption DEF Message
  <1>4. id \in Live /\ id # worker.id /\ id \notin Queued
    BY <1>3 DEF IInv, Tables, JobsAdvance
  <1>5. kept \in Cache \union {NoCache}
    BY <1>4, InstalledTyped DEF IInv, Tables, TypedTables
  <1>6. table \in [JobIds -> Job \union EndedJob \union {NoJob}]
        /\ table[id].state \in {"ready", "failed"}
        /\ \A j \in JobIds \ {id} : table[j] = jobs[j]
    BY <1>3 DEF IInv, Tables, TypedTables, EndedJob
  <1> HIDE DEF id, installs, kept, table
  <1>7. \A n \in 1 .. Len(completed) : completed[n] \in JobIds /\ completed[n] # id
    <2>1. jobs[id].state \notin {"ready", "failed"}
      BY <1>4 DEF Live
    <2> QED BY <2>1 DEF IInv, Tables, TypedTables, CompletedEnded
  <1>8. /\ completed' \in Seq(JobIds) /\ Len(completed') <= ResultCapacity
        /\ jobs' \in [JobIds -> Job \union EndedJob \union {NoJob}]
        /\ \A j \in JobIds : \/ jobs'[j] = table[j]
                             \/ jobs'[j] = NoJob /\ table[j].state \in {"ready", "failed"}
        /\ CompletedEnded'
    BY <1>1, <1>3, <1>6, <1>7, Retired
  <1>9. \A j \in Live \ {id} : j \in JobIds /\ jobs'[j] = jobs[j]
    BY <1>6, <1>8 DEF Live
  <1>10. \A j \in JobIds : j \notin Live \ {id} => jobs'[j].state \notin {"queued", "preparing"}
    BY <1>6, <1>8 DEF Live, NoJob
  <1>11. Live' = Live \ {id}
    BY <1>9, <1>10 DEF Live
  <1>12. \A d \in Clients : JobsOf(d) \ {id} \subseteq JobsOf(d)'
    BY <1>9, <1>11 DEF JobsOf
  <1>13. \A k \in Keys : active'[k] = IF active[k] = id THEN None ELSE active[k]
    BY <1>1
  <1>14. active' \in [Keys -> JobIds \union {None}]
    BY <1>1 DEF IInv, Tables, TypedTables
  <1>15. TypedTables' /\ PlanesAlone'
    <2>1. CASE \E k \in Keys : active[k] \notin {id, None}
      <3>1. cache' = Evicted(kept)
        BY <1>1, <2>1 DEF Settled
      <3>2. cache' \in Cache \union {NoCache} /\ ~(cache'.photo \in Raws /\ cache'.planes)
        BY <1>5, <3>1, EvictedFacts
      <3> QED BY <1>1, <1>2, <1>8, <1>14, <3>2 DEF IInv, Tables, TypedTables, PlanesAlone
    <2>2. CASE \A k \in Keys : active[k] \in {id, None}
      <3>1. cache' = kept
        BY <1>1, <2>2 DEF Settled
      <3>2. \A k \in Keys : active'[k] = None
        BY <1>13, <2>2
      <3> QED BY <1>1, <1>2, <1>5, <1>8, <1>14, <3>1, <3>2
              DEF IInv, Tables, TypedTables, PlanesAlone
    <2> QED BY <2>1, <2>2
  <1>16. JobsAdvance'
    <2>1. Queued' = Queued /\ queue' = queue /\ worker' = worker
      BY <1>1 DEF Queued
    <2> QED BY <1>2, <1>3, <1>4, <1>11, <2>1 DEF IInv, Tables, JobsAdvance
  <1>17. Joinable'
    <2>1. ASSUME NEW k \in Keys, active'[k] # None
          PROVE  active'[k] \in Live' /\ jobs'[active'[k]].key = k
                 /\ ~jobs'[active'[k]].cancelled
      <3>1. active'[k] = active[k] /\ active[k] # id /\ active[k] # None
        BY <1>13, <2>1
      <3>2. active[k] \in Live /\ jobs[active[k]].key = k /\ ~jobs[active[k]].cancelled
        BY <3>1 DEF IInv, Tables, Joinable
      <3> QED BY <1>9, <1>11, <3>1, <3>2
    <2>2. ASSUME NEW j \in Live', jobs'[j].clients # {}
          PROVE  active'[jobs'[j].key] = j
      <3>1. j \in Live /\ j # id /\ jobs'[j] = jobs[j]
        BY <1>9, <1>11
      <3>2. active[jobs[j].key] = j /\ jobs[j].key \in Keys
        BY <2>2, <3>1, JobFacts DEF IInv, Tables, Joinable
      <3> QED BY <1>13, <3>1, <3>2
    <2> QED BY <2>1, <2>2 DEF Joinable
  <1>18. Wanted' /\ WorkerHas'
    BY <1>1, <1>9, <1>11 DEF IInv, Tables, Wanted, WorkerHas
  <1> QED BY <1>2, <1>4, <1>8, <1>11, <1>12, <1>15, <1>16, <1>17, <1>18 DEF Tables, id
-----------------------------------------------------------------------------
\* The clients.

Stages == {"idle", "ask", "told", "wait", "blocked", "refused"}

\* One client moves, and no job that another waits for is lost.
LEMMA ClientWaits ==
    ASSUME IInv, NEW c \in Clients, NEW where \in Stages, NEW id \in JobIds \union {None},
           ClientAt(c, where, id), pinned' \in BOOLEAN,
           where # "idle" => stage[c] # "idle",
           Live # {} => Live' # {},
           \A d \in Clients : d # c => JobsOf(d) \subseteq JobsOf(d)',
           where = "blocked" => IF id = None THEN Live' # {} ELSE id \in JobsOf(c)'
    PROVE  Waits'
  <1>1. /\ stage' = [stage EXCEPT ![c] = where] /\ at' = [at EXCEPT ![c] = id]
        /\ want' = IF where = "idle" THEN [want EXCEPT ![c] = None] ELSE want
    BY DEF ClientAt
  <1>2. TypedClients /\ WaitersWake /\ Asking
    BY DEF IInv, Waits
  <1>3. /\ stage'[c] = where /\ at'[c] = id
        /\ \A d \in Clients : d # c => stage'[d] = stage[d] /\ at'[d] = at[d]
    BY <1>1, <1>2 DEF TypedClients
  <1>4. /\ where # "idle" => want'[c] = want[c]
        /\ \A d \in Clients : d # c => want'[d] = want[d]
    BY <1>1, <1>2 DEF TypedClients
  <1>5. TypedClients'
    BY <1>1, <1>2 DEF TypedClients, Stages
  <1>6. WaitersWake'
    BY <1>2, <1>3 DEF WaitersWake
  <1>7. Asking'
    BY <1>2, <1>3, <1>4 DEF Asking
  <1> QED BY <1>5, <1>6, <1>7 DEF Waits

LEMMA WorkerWaits ==
    ASSUME IInv, UNCHANGED <<jobs, clients>>, pinned' \in BOOLEAN
    PROVE  Waits'
  <1>1. UNCHANGED <<jobs, stage, want, at>>
    BY DEF clients
  <1>2. TypedClients'
    BY <1>1 DEF IInv, Waits, TypedClients
  <1>3. WaitersWake' /\ Asking'
    BY <1>1 DEF IInv, Waits, WaitersWake, Asking, Live, JobsOf
  <1> QED BY <1>2, <1>3 DEF Waits

LEMMA CompleteWaits ==
    ASSUME IInv, SourceComplete
    PROVE  Waits'
  <1> DEFINE id == Head(inbox).id
  <1>1. \A d \in Clients : JobsOf(d) \ {id} \subseteq JobsOf(d)'
    BY CompleteTables
  <1>2. ReleaseWaiters(id) /\ UNCHANGED pinned
    BY DEF SourceComplete
  <1> HIDE DEF id
  <1>3. /\ \A c \in Clients : stage'[c] =
              IF ~Ends(c, id) THEN stage[c] ELSE IF at[c] = None THEN "ask" ELSE "told"
        /\ UNCHANGED <<want, at, pinned>>
    BY <1>2 DEF ReleaseWaiters
  <1>4. TypedClients'
    BY <1>2, <1>3 DEF IInv, Waits, TypedClients, ReleaseWaiters
  <1>5. WaitersWake'
    <2> SUFFICES ASSUME NEW c \in Clients, stage'[c] = "blocked"
                 PROVE  at'[c] # None /\ at'[c] \in JobsOf(c)'
      BY DEF WaitersWake
    <2>1. stage[c] = "blocked" /\ ~Ends(c, id)
      BY <1>3
    <2>2. at[c] # id /\ at[c] # None
      BY <2>1 DEF Ends
    <2>3. at[c] \in JobsOf(c)
      BY <2>1, <2>2 DEF IInv, Waits, WaitersWake
    <2> QED BY <1>1, <1>3, <2>2, <2>3
  <1>6. Asking'
    <2>1. \A c \in Clients : stage'[c] # "idle" => stage[c] # "idle"
      BY <1>3 DEF Ends
    <2> QED BY <1>3, <2>1 DEF IInv, Waits, Asking
  <1> QED BY <1>4, <1>5, <1>6 DEF Waits

-----------------------------------------------------------------------------
\* The invariant.

LEMMA Initially == Init => IInv
  <1> SUFFICES ASSUME Init
               PROVE  IInv
    OBVIOUS
  <1>1. Live = {} /\ Queued = {} /\ EndMessages = {} /\ Ending = {}
    BY DEF Init, Live, NoJob, Queued, EndMessages, Ending, ToSet
  <1>2. TypedTables
    <2>1. jobs \in [JobIds -> Job \union EndedJob \union {NoJob}]
          /\ active \in [Keys -> JobIds \union {None}] /\ cache \in Cache \union {NoCache}
      BY DEF Init
    <2>2. completed \in Seq(JobIds) /\ Len(completed) <= ResultCapacity
          /\ inbox \in Seq(Message) /\ Len(inbox) <= InboxCapacity
          /\ queue \in Seq(JobIds) /\ Len(queue) <= QueueCapacity
      BY SourceJobsAssumption DEF Init
    <2>3. worker \in [doing : {"idle", "gate", "work"}, id : JobIds \union {None}]
      BY DEF Init
    <2> QED BY <2>1, <2>2, <2>3 DEF TypedTables
  <1>3. worker.id = None /\ worker.doing = "idle"
    BY DEF Init
  <1>4. JobsAdvance
    <2>1. \A m, n \in 1 .. Len(queue) : queue[m] = queue[n] => m = n
      BY DEF Init
    <2> QED BY <1>1, <1>3, <2>1 DEF JobsAdvance
  <1>5. Joinable /\ Wanted /\ PlanesAlone /\ WorkerHas
    BY <1>1, <1>3 DEF Init, Joinable, Wanted, PlanesAlone, WorkerHas
  <1>6. CompletedEnded /\ StartedLive
    BY DEF Init, CompletedEnded, StartedLive
  <1>7. Waits
    BY DEF Init, Waits, TypedClients, WaitersWake, Asking
  <1> QED BY <1>2, <1>4, <1>5, <1>6, <1>7 DEF IInv, Tables

LEMMA Stutters ==
    ASSUME IInv, UNCHANGED vars
    PROVE  IInv'
  <1>1. UNCHANGED <<owner, queue, worker, pinned, clients>>
    BY DEF vars
  <1>2. UNCHANGED jobs
    BY <1>1 DEF owner
  <1>3. pinned' \in BOOLEAN
    BY <1>1 DEF IInv, Waits, TypedClients
  <1>4. Tables'
    BY <1>1, SameTables DEF IInv
  <1>5. Waits'
    BY <1>1, <1>2, <1>3, WorkerWaits
  <1> QED BY <1>4, <1>5 DEF IInv

\* A step of a client that leaves the tables alone.
LEMMA ClientSteps ==
    ASSUME IInv, NEW c \in Clients, NEW where \in Stages, NEW id \in JobIds \union {None},
           ClientAt(c, where, id), UNCHANGED <<owner, queue, worker>>, pinned' \in BOOLEAN,
           stage[c] # "idle",
           where = "blocked" => IF id = None THEN Live # {} ELSE id \in JobsOf(c)
    PROVE  IInv'
  <1>1. Tables'
    BY SameTables DEF IInv
  <1>2. UNCHANGED jobs
    BY DEF owner
  <1>3. Live' = Live /\ \A d \in Clients : JobsOf(d)' = JobsOf(d)
    BY <1>2 DEF Live, JobsOf
  <1>4. Waits'
    BY <1>3, ClientWaits
  <1> QED BY <1>1, <1>4 DEF IInv
LEMMA Asked ==
    ASSUME IInv, NEW c \in Clients, Asks(c) \/ PrepareReady(c)
    PROVE  IInv'
  <1>1. CASE Served(c)
    <2>1. ClientAt(c, "idle", None) /\ UNCHANGED <<owner, queue, worker>> /\ pinned' \in BOOLEAN
          /\ stage[c] # "idle"
      BY <1>1 DEF Served, IInv, Waits, TypedClients
    <2> QED BY <2>1, ClientSteps DEF Stages
  <1>2. CASE Join(c)
    <2>1. Tables' /\ Live' = Live /\ \A d \in Clients : JobsOf(d) \subseteq JobsOf(d)'
      BY <1>2, JoinTables
    <2>2. /\ ClientAt(c, "told", active[KeyFor(want[c])]) /\ UNCHANGED pinned
          /\ stage[c] = "ask" /\ ~Serves(want[c])
      BY <1>2 DEF Join
    <2>3. active[KeyFor(want[c])] \in JobIds \union {None}
      BY <2>2, KeyTyped DEF IInv, Tables, TypedTables
    <2>4. pinned' \in BOOLEAN
      BY <2>2 DEF IInv, Waits, TypedClients
    <2>5. Waits'
      BY <2>1, <2>2, <2>3, <2>4, ClientWaits DEF Stages
    <2> QED BY <2>1, <2>5 DEF IInv
  <1>3. CASE Submit(c)
    <2> DEFINE i == CHOOSE j \in JobIds : Fresh(j)
    <2>1. Tables' /\ Live \subseteq Live' /\ \A d \in Clients : JobsOf(d) \subseteq JobsOf(d)'
      BY <1>3, SubmitTables
    <2>2. ClientAt(c, "told", i) /\ UNCHANGED pinned /\ stage[c] = "ask" /\ i \in JobIds
      BY <1>3 DEF Submit
    <2> HIDE DEF i
    <2>3. pinned' \in BOOLEAN
      BY <2>2 DEF IInv, Waits, TypedClients
    <2>4. Waits'
      BY <2>1, <2>2, <2>3, ClientWaits DEF Stages
    <2> QED BY <2>1, <2>4 DEF IInv
  <1>4. CASE Refuse(c)
    <2>1. ClientAt(c, "refused", None) /\ UNCHANGED <<owner, queue, worker>> /\ pinned' \in BOOLEAN
          /\ stage[c] # "idle"
      BY <1>4 DEF Refuse, IInv, Waits, TypedClients
    <2> QED BY <2>1, ClientSteps DEF Stages
  <1>5. CASE PrepareReady(c)
    <2>1. Tables' /\ Live' = Live /\ \A d \in Clients : JobsOf(d) \subseteq JobsOf(d)'
      BY <1>5, PrepareReadyTables
    <2>2. ClientAt(c, "idle", None) /\ UNCHANGED pinned
      BY <1>5 DEF PrepareReady
    <2>3. pinned' \in BOOLEAN
      BY <2>2 DEF IInv, Waits, TypedClients
    <2>4. Waits'
      BY <2>1, <2>2, <2>3, ClientWaits DEF Stages
    <2> QED BY <2>1, <2>4 DEF IInv
  <1> QED BY <1>1, <1>2, <1>3, <1>4, <1>5 DEF Asks

LEMMA Waited ==
    ASSUME IInv, NEW c \in Clients, ReadStatus(c) \/ AwaitJob(c) \/ AwaitRoom(c)
    PROVE  IInv'
  <1>1. at[c] \in JobIds \union {None} /\ UNCHANGED <<owner, queue, worker>> /\ pinned' \in BOOLEAN
        /\ stage[c] # "idle"
    BY DEF ReadStatus, AwaitJob, AwaitRoom, IInv, Waits, TypedClients
  <1>2. CASE \/ ClientAt(c, "wait", at[c]) \/ ClientAt(c, "told", at[c])
             \/ ClientAt(c, "ask", None) \/ ClientAt(c, "idle", None)
    BY <1>1, <1>2, ClientSteps DEF Stages
  <1>3. CASE ClientAt(c, "blocked", at[c]) /\ at[c] \in JobsOf(c)
    <2>1. at[c] # None
      BY <1>3, SourceJobsAssumption DEF JobsOf, Live
    <2> QED BY <1>1, <1>3, <2>1, ClientSteps DEF Stages
  <1>4. CASE ClientAt(c, "blocked", None) /\ Live # {}
    BY <1>1, <1>4, ClientSteps DEF Stages
  <1>5. CASE ReadStatus(c)
    BY <1>2, <1>5 DEF ReadStatus
  <1>6. CASE AwaitJob(c)
    BY <1>2, <1>3, <1>6 DEF AwaitJob
  <1>7. CASE AwaitRoom(c)
    BY <1>2, <1>4, <1>7 DEF AwaitRoom
  <1> QED BY <1>5, <1>6, <1>7

LEMMA Left ==
    ASSUME IInv, NEW c \in Clients, Cancel(c) \/ Disconnect(c)
    PROVE  IInv'
  <1>1. PICK left \in SUBSET JobsOf(c) : Leave(c, left)
    <2>1. CASE Cancel(c)
      BY <2>1 DEF Cancel
    <2>2. CASE Disconnect(c)
      BY <2>2 DEF Disconnect
    <2> QED BY <2>1, <2>2
  <1>2. ClientAt(c, "idle", None) /\ UNCHANGED <<completed, cache, inbox, queue, worker, pinned>>
    BY DEF Cancel, Disconnect
  <1>3. Tables' /\ Live' = Live /\ \A d \in Clients : d # c => JobsOf(d) \subseteq JobsOf(d)'
    BY <1>1, <1>2, LeaveTables
  <1>4. pinned' \in BOOLEAN
    BY <1>2 DEF IInv, Waits, TypedClients
  <1>5. Waits'
    BY <1>2, <1>3, <1>4, ClientWaits DEF Stages
  <1> QED BY <1>3, <1>5 DEF IInv

LEMMA Wants ==
    ASSUME IInv, NEW c \in Clients, NEW s \in Stacks, Want(c, s)
    PROVE  IInv'
  <1>1. /\ stage' = [stage EXCEPT ![c] = "ask"] /\ want' = [want EXCEPT ![c] = s]
        /\ UNCHANGED <<owner, queue, worker, pinned, at>>
    BY DEF Want
  <1>2. Tables'
    BY <1>1, SameTables DEF IInv
  <1>3. UNCHANGED jobs
    BY <1>1 DEF owner
  <1>4. TypedClients'
    BY <1>1 DEF IInv, Waits, TypedClients
  <1>5. WaitersWake'
    BY <1>1, <1>3 DEF IInv, Waits, TypedClients, WaitersWake, Live, JobsOf
  <1>6. Asking'
    BY <1>1 DEF IInv, Waits, TypedClients, Asking
  <1> QED BY <1>2, <1>4, <1>5, <1>6 DEF IInv, Waits

LEMMA OfThreads ==
    ASSUME IInv,
           TakeTask \/ PassGate \/ EndWork \/ EndPreview \/ SourceStarted \/ SourceComplete
    PROVE  IInv'
  <1>1. CASE TakeTask \/ PassGate \/ EndWork
    <2>1. Tables' /\ UNCHANGED jobs
      BY <1>1, TakeTables, PassGateTables, EndWorkTables
    <2>2. UNCHANGED <<clients, pinned>>
      BY <1>1 DEF TakeTask, PassGate, EndWork
    <2>3. pinned' \in BOOLEAN
      BY <2>2 DEF IInv, Waits, TypedClients
    <2>4. Waits'
      BY <2>1, <2>2, <2>3, WorkerWaits
    <2> QED BY <2>1, <2>4 DEF IInv
  <1>2. CASE EndPreview
    <2>1. pinned' \in BOOLEAN /\ UNCHANGED <<owner, queue, worker, clients>>
      BY <1>2 DEF EndPreview
    <2>2. Tables' /\ UNCHANGED jobs
      BY <2>1, SameTables DEF IInv, owner
    <2>3. Waits'
      BY <2>1, <2>2, WorkerWaits
    <2> QED BY <2>2, <2>3 DEF IInv
  <1>3. CASE SourceStarted
    <2>1. Tables' /\ Live' = Live /\ \A d \in Clients : JobsOf(d) \subseteq JobsOf(d)'
      BY <1>3, StartedTables
    <2>2. UNCHANGED <<stage, want, at, pinned>>
      BY <1>3 DEF SourceStarted, clients
    <2>3. TypedClients' /\ Asking'
      BY <2>2 DEF IInv, Waits, TypedClients, Asking
    <2>4. WaitersWake'
      BY <2>1, <2>2 DEF IInv, Waits, WaitersWake
    <2> QED BY <2>1, <2>3, <2>4 DEF IInv, Waits
  <1>4. CASE SourceComplete
    BY <1>4, CompleteTables, CompleteWaits DEF IInv
  <1> QED BY <1>1, <1>2, <1>3, <1>4

LEMMA Invariance == IInv /\ [Next]_vars => IInv'
  <1> SUFFICES ASSUME IInv, [Next]_vars
               PROVE  IInv'
    OBVIOUS
  <1>1. CASE UNCHANGED vars
    BY <1>1, Stutters
  <1>2. CASE TakeTask \/ PassGate \/ EndWork \/ EndPreview \/ SourceStarted \/ SourceComplete
    BY <1>2, OfThreads
  <1>3. ASSUME NEW c \in Clients,
               \/ \E s \in Stacks : Want(c, s)
               \/ Asks(c) \/ PrepareReady(c)
               \/ ReadStatus(c) \/ AwaitJob(c) \/ AwaitRoom(c)
               \/ Cancel(c) \/ Disconnect(c)
        PROVE  IInv'
    BY <1>3, Wants, Asked, Waited, Left
  <1> QED BY <1>1, <1>2, <1>3 DEF Next

\* A worker waiting for planes that the cache holds has a stopped job.
LEMMA Gate == IInv => GateOpens
  <1> SUFFICES ASSUME IInv, worker.doing = "gate", cache.photo \in Raws, cache.planes,
                      ~jobs[worker.id].cancelled
               PROVE  FALSE
    BY DEF GateOpens
  <1> DEFINE i == worker.id
  <1>1. i # None
    BY DEF IInv, Tables, WorkerHas
  <1>2. i \in Live
    BY <1>1 DEF IInv, Tables, JobsAdvance
  <1>3. jobs[i].clients # {}
    BY <1>2 DEF IInv, Tables, Wanted
  <1>4. active[jobs[i].key] = i /\ jobs[i].key \in Keys
    BY <1>2, <1>3, JobFacts DEF IInv, Tables, Joinable
  <1>5. active[jobs[i].key] = None
    BY <1>4 DEF IInv, Tables, PlanesAlone
  <1> QED BY <1>1, <1>4, <1>5

-----------------------------------------------------------------------------
\* The tables keep their types, and the channels and the list of ended
\* jobs their bounds (SOURCE_QUEUE_CAPACITY, SOURCE_RESULT_CAPACITY).
THEOREM TypeCorrect == Spec => []TypeOK
  <1>1. IInv => TypeOK
    BY DEF IInv, Tables, Waits, TypedTables, TypedClients, TypeOK
  <1> QED BY <1>1, Initially, Invariance, PTL DEF Spec

\* Every job under way has exactly one task (SourceJobs::submit, cancel,
\* complete).
THEOREM JobsCorrect == Spec => []JobsAdvance
  <1>1. IInv => JobsAdvance
    BY DEF IInv, Tables
  <1> QED BY <1>1, Initially, Invariance, PTL DEF Spec

\* A request joins only a job that will serve it, and finds every job that
\* somebody waits for.
THEOREM JoinsCorrect == Spec => []Joinable
  <1>1. IInv => Joinable
    BY DEF IInv, Tables
  <1> QED BY <1>1, Initially, Invariance, PTL DEF Spec

\* A blocked client waits for a job that is still to end (await_source,
\* release_waiters).
THEOREM WaitersCorrect == Spec => []WaitersWake
  <1>1. IInv => WaitersWake
    BY DEF IInv, Waits
  <1> QED BY <1>1, Initially, Invariance, PTL DEF Spec

\* No planes of the cache hold the gate shut before work that somebody
\* wants (evict_development, wait_released).
THEOREM GateCorrect == Spec => []GateOpens
  <1> QED BY Gate, Initially, Invariance, PTL DEF Spec
\* Who is refused waits for some job to end: the queue is full, or
\* developments under way keep all the mosaics there may be.
LEMMA RefusedLive ==
    ASSUME IInv, NEW c \in Clients, Refuse(c)
    PROVE  Live # {}
  <1>1. CASE Len(queue) = QueueCapacity
    <2>1. queue \in Seq(JobIds) /\ Len(queue) \in Nat \ {0}
      BY <1>1, SourceJobsAssumption DEF IInv, Tables, TypedTables
    <2>2. queue[1] \in Queued
      BY <2>1, QueuedAt DEF Queued
    <2> QED BY <2>2 DEF IInv, Tables, JobsAdvance
  <1>2. CASE ~MosaicRoom(KeyFor(want[c]))
    <2> SUFFICES ASSUME Live = {}
                 PROVE  FALSE
      OBVIOUS
    <2>1. Sensors = {}
      BY DEF Sensors, SensorsOf
    <2>2. Cardinality(Sensors) < MaxMosaics
      BY <2>1, FS_EmptySet, SourceJobsAssumption
    <2> QED BY <1>2, <2>2 DEF MosaicRoom
  <1> QED BY <1>1, <1>2 DEF Refuse

LEMMA OnlyRefused ==
    ASSUME IInv, [Next]_vars, NEW c \in Clients, stage[c] # "refused", stage'[c] = "refused"
    PROVE  Live # {}
  <1>1. stage \in [Clients -> Stages]
    BY DEF IInv, Waits, TypedClients, Stages
  <1>2. stage'[c] # stage[c]
    OBVIOUS
  <1>3. \A d \in Clients, where \in Stages \ {"refused"}, id \in JobIds \union {None} :
           ~ClientAt(d, where, id)
    BY <1>1, <1>2 DEF ClientAt
  <1>4. ~UNCHANGED stage
    BY <1>2
  <1>5. CASE UNCHANGED vars
    BY <1>4, <1>5 DEF vars, clients
  <1>6. CASE TakeTask \/ PassGate \/ EndWork \/ EndPreview \/ SourceStarted
    BY <1>4, <1>6 DEF TakeTask, PassGate, EndWork, EndPreview, SourceStarted, clients
  <1>7. CASE SourceComplete
    <2>1. ReleaseWaiters(Head(inbox).id)
      BY <1>7 DEF SourceComplete
    <2>2. stage'[c] \in {stage[c], "ask", "told"}
      BY <2>1 DEF ReleaseWaiters
    <2> QED BY <2>2
  <1>8. ASSUME NEW d \in Clients, NEW s \in Stacks, Want(d, s)
        PROVE  FALSE
    BY <1>1, <1>2, <1>8 DEF Want
  <1>9. ASSUME NEW d \in Clients, Asks(d) \/ PrepareReady(d)
        PROVE  Live # {}
    <2>1. CASE Refuse(d)
      BY <2>1, RefusedLive
    <2>2. CASE Served(d) \/ PrepareReady(d)
      BY <1>3, <2>2 DEF Served, PrepareReady, Stages
    <2>3. CASE Join(d)
      <3>1. ClientAt(d, "told", active[KeyFor(want[d])]) /\ KeyFor(want[d]) \in Keys
        BY <2>3, KeyTyped DEF Join
      <3> QED BY <1>3, <3>1 DEF IInv, Tables, TypedTables, Stages
    <2>4. CASE Submit(d)
      <3> DEFINE i == CHOOSE j \in JobIds : Fresh(j)
      <3>1. ClientAt(d, "told", i) /\ i \in JobIds
        BY <2>4 DEF Submit
      <3> HIDE DEF i
      <3> QED BY <1>3, <3>1 DEF Stages
    <2> QED BY <1>9, <2>1, <2>2, <2>3, <2>4 DEF Asks
  <1>10. ASSUME NEW d \in Clients,
                ReadStatus(d) \/ AwaitJob(d) \/ AwaitRoom(d) \/ Cancel(d) \/ Disconnect(d)
         PROVE  FALSE
    <2>1. at[d] \in JobIds \union {None}
      BY DEF IInv, Waits, TypedClients
    <2> QED BY <1>3, <1>10, <2>1 DEF ReadStatus, AwaitJob, AwaitRoom, Cancel, Disconnect, Stages
  <1> QED BY <1>5, <1>6, <1>7, <1>8, <1>9, <1>10 DEF Next

\* What the table, the channels, the worker and the clients believe of a
\* source job agrees, across both threads (tasks.rs, source.rs).
THEOREM SoundCorrect == Spec => []JobsSound
  BY TypeCorrect, JobsCorrect, JoinsCorrect, WaitersCorrect, GateCorrect, PTL DEF JobsSound

\* A client is refused only while some job is under way, so the wait for
\* room does not spin (tasks.rs:548).
THEOREM NoSpinning == Spec => NeverSpins
  <1>1. IInv /\ [Next]_vars =>
           [\A c \in Clients : stage[c] # "refused" /\ stage'[c] = "refused" => Live # {}]_vars
    BY OnlyRefused
  <1> QED BY <1>1, Initially, Invariance, PTL DEF Spec, NeverSpins
=============================================================================
