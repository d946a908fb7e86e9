----------------------------- MODULE PointWorker -----------------------------
(***************************************************************************)
(* The catalog owner's point worker (api/owner/point.rs): one thread that  *)
(* evaluates planned samples in the order they were queued and answers     *)
(* each on its own channel.  The owner queues, drops a gone client's calls *)
(* and stops; the thread is started with the first call and may fail to    *)
(* start.                                                                  *)
(*                                                                         *)
(* The queue and the stop are under one mutex; the thread waits on a       *)
(* condition variable only the owner signals.  A client waits for its      *)
(* answer before it calls again, as its transport does.                    *)
(***************************************************************************)
EXTENDS Integers, Sequences, FiniteSets

CONSTANTS
    Clients,
    Capacity,   \* POINT_QUEUE_CAPACITY
    MaxCalls    \* bound: calls planned

PointAssumption == {Capacity, MaxCalls} \subseteq Nat \ {0}

VARIABLES
    queue,      \* the calls that wait, by number
    stopping,
    thread,     \* "none", "taking", "waiting", "woken", "evaluating", "ended"
    serving,    \* the call being evaluated
    starting,   \* the owner queued a call and has yet to start the thread
    owner,      \* "serving", "stopping", "gone"
    gone,       \* clients that disconnected; an identity is not used again
    calls,      \* who made each call, in the order they were planned
    \* history
    answered,   \* the answers given, in order
    dropped     \* the calls whose channel closed unanswered

vars == <<queue, stopping, thread, serving, starting, owner, gone, calls,
          answered, dropped>>

None == 0
Numbers == 1 .. MaxCalls
Answers == {"value", "refused", "not-started"}

Init ==
    /\ queue = <<>>
    /\ stopping = FALSE
    /\ thread = "none"
    /\ serving = None
    /\ starting = FALSE
    /\ owner = "serving"
    /\ gone = {}
    /\ calls = <<>>
    /\ answered = <<>>
    /\ dropped = {}

Numbered(s) == {s[i] : i \in DOMAIN s}

\* partition: what is not among these, in its order.  (SelectSeq, written
\* as a function that a proof can unfold.)
Retained(list, these) ==
    LET kept[i \in 0 .. Len(list)] ==
            IF i = 0 THEN <<>>
            ELSE IF list[i] \in these THEN kept[i - 1]
            ELSE Append(kept[i - 1], list[i])
    IN  kept[Len(list)]

AnsweredCalls == {answered[i].call : i \in DOMAIN answered}
Settled == AnsweredCalls \union dropped

Outstanding(c) == {n \in DOMAIN calls : calls[n] = c} \ Settled

Answer(list, how) ==
    answered' = answered \o [i \in DOMAIN list |-> [call |-> list[i], how |-> how]]

\* A bug for the mutants: a queued call wakes no one.
FaultyNotify == thread' = thread

\* Condvar::notify_one: nothing is kept for a thread that does not wait.
Notify == thread' = IF thread = "waiting" THEN "woken" ELSE thread

Full == Len(queue) >= Capacity

\* What the owner plans while it serves: one call of a client at a time.
Plans(c) ==
    /\ owner = "serving" /\ ~starting
    /\ c \notin gone /\ Outstanding(c) = {} /\ Len(calls) < MaxCalls
    /\ calls' = Append(calls, c)

\* submit: a full queue refuses the call on its own channel.
SubmitRefused(c) ==
    /\ Plans(c) /\ Full
    /\ Answer(<<Len(calls) + 1>>, "refused")
    /\ UNCHANGED <<queue, stopping, thread, serving, starting, owner, gone, dropped>>

SubmitQueued(c) ==
    /\ Plans(c) /\ ~Full
    /\ queue' = Append(queue, Len(calls) + 1)
    /\ Notify
    /\ starting' = (thread = "none")
    /\ UNCHANGED <<stopping, serving, owner, gone, answered, dropped>>

ThreadStarts ==
    /\ starting
    /\ starting' = FALSE
    /\ thread' = "taking"
    /\ UNCHANGED <<queue, stopping, serving, owner, gone, calls, answered,
                   dropped>>

\* A bug for the mutants: the calls are refused and stay queued.
FaultyLeftQueued == queue

\* mem::take
LeftQueued == <<>>

\* Without its thread nothing would answer the calls that wait.
ThreadFailsToStart ==
    /\ starting
    /\ starting' = FALSE
    /\ Answer(queue, "not-started")
    /\ queue' = LeftQueued
    /\ UNCHANGED <<stopping, thread, serving, owner, gone, calls, dropped>>

Gone(c) == {n \in Numbered(queue) : calls[n] = c}

\* disconnect: the client's waiting calls go; one being evaluated ends
\* with an answer no one takes.
Disconnect(c) ==
    /\ owner = "serving" /\ ~starting
    /\ c \notin gone
    /\ gone' = gone \union {c}
    /\ dropped' = dropped \union Gone(c)
    /\ queue' = Retained(queue, Gone(c))
    /\ UNCHANGED <<stopping, thread, serving, starting, owner, calls, answered>>

\* stop: raise the flag, take what waits, wake the thread, then join it.
Stop ==
    /\ owner = "serving" /\ ~starting
    /\ owner' = "stopping"
    /\ stopping' = TRUE
    /\ dropped' = dropped \union Numbered(queue)
    /\ queue' = <<>>
    /\ Notify
    /\ UNCHANGED <<serving, starting, gone, calls, answered>>

Joined ==
    /\ owner = "stopping"
    /\ thread \in {"none", "ended"}
    /\ owner' = "gone"
    /\ UNCHANGED <<queue, stopping, thread, serving, starting, gone, calls,
                   answered, dropped>>

-----------------------------------------------------------------------------
\* run

Taking == thread \in {"taking", "woken"}

\* pop_front
TakesCall ==
    /\ Taking /\ ~stopping /\ queue # <<>>
    /\ serving' = Head(queue)
    /\ queue' = Tail(queue)
    /\ thread' = "evaluating"
    /\ UNCHANGED <<stopping, starting, owner, gone, calls, answered, dropped>>

Waits ==
    /\ Taking /\ ~stopping /\ queue = <<>>
    /\ thread' = "waiting"
    /\ UNCHANGED <<queue, stopping, serving, starting, owner, gone, calls,
                   answered, dropped>>

\* Condvar::wait may return without a signal.
WakesUnsignalled ==
    /\ thread = "waiting"
    /\ thread' = "woken"
    /\ UNCHANGED <<queue, stopping, serving, starting, owner, gone, calls,
                   answered, dropped>>

Ends ==
    /\ Taking /\ stopping
    /\ thread' = "ended"
    /\ UNCHANGED <<queue, stopping, serving, starting, owner, gone, calls,
                   answered, dropped>>

\* The evaluation returns, or panics and is answered as a failure: the
\* thread lives on either way.
Evaluates ==
    /\ thread = "evaluating"
    /\ Answer(<<serving>>, "value")
    /\ serving' = None
    /\ thread' = "taking"
    /\ UNCHANGED <<queue, stopping, starting, owner, gone, calls, dropped>>

Work == TakesCall \/ Waits \/ Ends \/ Evaluates
Start == ThreadStarts \/ ThreadFailsToStart

Next ==
    \/ \E c \in Clients : SubmitRefused(c) \/ SubmitQueued(c) \/ Disconnect(c)
    \/ Start \/ Stop \/ Joined
    \/ Work \/ WakesUnsignalled
    \/ owner = "gone" /\ UNCHANGED vars

\* The thread runs when it can and an evaluation returns (its tile is
\* bounded); the owner gets through the call it is in.  A wake-up without
\* a signal is never relied on.
Spec ==
    /\ Init /\ [][Next]_vars
    /\ WF_vars(Work) /\ WF_vars(Start) /\ WF_vars(Joined)

-----------------------------------------------------------------------------
\* Properties

TypeOK ==
    /\ queue \in Seq(Numbers) /\ Len(queue) <= Capacity
    /\ stopping \in BOOLEAN /\ starting \in BOOLEAN
    /\ thread \in {"none", "taking", "waiting", "woken", "evaluating", "ended"}
    /\ serving \in Numbers \union {None}
    /\ owner \in {"serving", "stopping", "gone"}
    /\ gone \subseteq Clients
    /\ calls \in Seq(Clients)
    /\ answered \in Seq([call : Numbers, how : Answers])
    /\ dropped \subseteq Numbers

\* Every call is in exactly one place: it waits once, is being evaluated,
\* or was answered once or dropped; none is lost or answered twice,
\* whatever disconnects, refusals and failed starts come in between.
EveryCallInOnePlace ==
    /\ \A i, j \in DOMAIN answered :
          answered[i].call = answered[j].call => i = j
    /\ \A i, j \in DOMAIN queue : queue[i] = queue[j] => i = j
    /\ \A n \in DOMAIN calls :
          Cardinality({p \in {"waits", "evaluated", "answered", "dropped"} :
             \/ p = "waits" /\ n \in Numbered(queue)
             \/ p = "evaluated" /\ serving = n
             \/ p = "answered" /\ n \in AnsweredCalls
             \/ p = "dropped" /\ n \in dropped}) = 1

\* Calls that were evaluated are answered in the order they were planned.
AnsweredInOrder ==
    \A i, j \in DOMAIN answered :
        /\ i < j /\ answered[i].how = "value" /\ answered[j].how = "value"
        => answered[i].call < answered[j].call

\* A call is dropped for its own client's disconnect or the owner's stop
\* only: no one else's call goes with it.
DroppedForCause ==
    owner = "serving" => \A n \in dropped : calls[n] \in gone

\* The four together: what the owner and its point thread do with a call
\* between them, whoever leaves and whatever fails to start.
PointsAnswered ==
    TypeOK /\ EveryCallInOnePlace /\ AnsweredInOrder /\ DroppedForCause

\* A call that waits is settled in the end, though the thread may be slow
\* to start, fail to start, or have fallen asleep; and a stop returns.
EveryCallSettles == \A n \in Numbers : []<>(n \in DOMAIN calls => n \in Settled)
StopReturns == []<>(owner # "stopping")

=============================================================================
