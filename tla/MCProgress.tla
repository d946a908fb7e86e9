------------------------------ MODULE MCProgress ------------------------------
(***************************************************************************)
(* What must happen in the end, for TLC: small instances of the components *)
(* whose work is awaited, each under the fairness its own module states.   *)
(* They share no state, so one component moves in each behaviour; the runs *)
(* of safety take larger instances.                                        *)
(***************************************************************************)
EXTENDS Integers

CONSTANTS Desktop, Agent, Nobody, First, Second, Waker, Photo, Day, J1, J2, Vacant, AnotherAsset, R1, R2

VARIABLES
    part,  \* the component that takes the steps of this behaviour
    jobs, active, completed, cache, inbox, queue, worker, pinned, stage,
    want, at,
    pointQueue, stopping, thread, serving, starting, owner, gone, calls,
    answered, dropped,
    generation, floor, reducing, pending, results, stopped, pc, asleep,
    current, sends, signal, draining, lastDelivered, told, started, records,
    index, lastId, generations, tasks, askers, orphans, peeked,
    phase, catalog, file, accepting, closingDown, held, backlog, count,
    connection, server,
    table, lastJob, requests, activations, granted, closing, laneThread,
    posted, loaded,
    log, truth, lastSeen, signalled, syncWanted, busy, apiSequence,
    ownRequests, screen, seenGeneration, librarySequence, poll, command,
    change, compare, madeRequests, failures, past, unread, unreadOwn,
    revision, heldDraft, sentCalls, answers, known, serial, slot, kind,
    drawn, draft, crop, newest, refused, committed,
    open, run, notice, tracked, flights, panelPoll, allowed, job,
    now, cancelled, since, to, post, credentials, followed, step, addresses,
    toWrite, blocked, inner, progressed, head, framing, body, received,
    result, exchanged,
    used, peak, store, doing, ask, runs, inFrame, cancelledRenders, fill,
    toRead, heldTiles, highest, evaluated

sourceVars == <<jobs, active, completed, cache, inbox, queue, worker,
    pinned, stage, want, at>>
pointVars == <<pointQueue, stopping, thread, serving, starting, owner, gone,
    calls, answered, dropped>>
analysisVars == <<generation, floor, reducing, pending, results, stopped,
    pc, asleep, current, sends, signal, draining, lastDelivered, told,
    started, records, index, lastId, generations, tasks, askers, orphans,
    peeked>>
sessionVars == <<phase, catalog, file, accepting, closingDown, held,
    backlog, count, connection, server>>
laneVars == <<table, lastJob, requests, activations, granted, closing,
    laneThread, posted, loaded>>
syncVars == <<log, truth, lastSeen, signalled, syncWanted, busy,
    apiSequence, ownRequests, screen, seenGeneration, librarySequence, poll,
    command, change, compare, madeRequests, failures, past, unread,
    unreadOwn>>
gestureVars == <<revision, heldDraft, sentCalls, answers, known, serial,
    slot, kind, drawn, draft, crop, newest, refused, committed>>
panelVars == <<open, run, notice, tracked, flights, panelPoll, allowed, job>>
transportVars == <<now, cancelled, since, to, post, credentials, followed,
    step, addresses, toWrite, blocked, inner, progressed, head, framing,
    body, received, result, exchanged>>
budgetVars == <<used, peak, store, doing, ask, runs, inFrame,
    cancelledRenders, fill, toRead, heldTiles, highest, evaluated>>
everything == <<part, sourceVars, pointVars, analysisVars, sessionVars,
    laneVars, syncVars, gestureVars, panelVars, transportVars, budgetVars>>

Sources == INSTANCE SourceJobs WITH
    Clients <- {Desktop, Agent}, Photos <- {Photo}, Raws <- {Photo},
    Gains <- {Day}, JobIds <- {1, 2, 3}, None <- Nobody, QueueCapacity <- 1,
    ResultCapacity <- 1, InboxCapacity <- 1, MaxMosaics <- 1

Sampler == INSTANCE PointWorker WITH
    Clients <- {Desktop, Agent}, Capacity <- 2, MaxCalls <- 3,
    queue <- pointQueue

Analysis == INSTANCE Analyses WITH
    Clients <- {Agent}, Identities <- {"preview", "export"},
    Unevaluable <- {}, WaitingResults <- 1, MaxGeneration <- 2,
    MaxSends <- 0, MaxReady <- 1, MaxRecords <- 4, MaxJobs <- 2,
    MayPanic <- FALSE, jobs <- records, active <- reducing,
    connected <- askers

Session == INSTANCE LiveSession WITH
    Processes <- {First, Second}, Peers <- {Desktop}, NoProcess <- Nobody,
    MaxClients <- 1, stage <- phase, stopping <- closingDown

Lane == INSTANCE Lanes WITH
    Modules <- {"denoise"}, Grants <- {"consent"}, LaneQueue <- 1,
    FinishedRecords <- 2, MaxRequests <- 2, inbox <- posted,
    worker <- laneThread, lastId <- lastJob

Screen == INSTANCE Sync WITH
    EVENT_CAPACITY <- 1, OWN_REQUESTS <- 1, MaxSequence <- 1,
    MaxRequests <- 1, MaxFailures <- 1, generation <- lastSeen,
    signal <- signalled, requests <- madeRequests

Hand == INSTANCE Gestures WITH
    Kinds <- {"slider", "brush"}, MaxGestures <- 2, MaxOffers <- 2,
    LastRevision <- 2, Faults <- TRUE, calls <- sentCalls, held <- heldDraft,
    ownerRevision <- revision, replies <- answers

Panel == INSTANCE TaskPanel WITH
    Assets <- {Photo}, JobIds <- {J1, J2}, Slots <- 1, Granted <- {},
    Presses <- {}, Outside <- {}, granted <- allowed, poll <- panelPoll

Polls == INSTANCE TaskPanel WITH
    Assets <- {Photo}, JobIds <- {J1}, Slots <- 1, Granted <- {Photo},
    Presses <- {}, Outside <- {"job", "reload", "forget"},
    granted <- allowed, poll <- panelPoll

Exchange == INSTANCE Transport WITH
    Origins <- {"home", "vault"}, First <- "home",
    ClassOf <- [home |-> "loopback", vault |-> "loopback"],
    Secure <- {"vault"}, Allowed <- {"vault"}, MaxRedirects <- 1,
    LookupAnswers <- {<<"own">>, <<"bad">>, <<>>}, MaxAddresses <- 1,
    AddressClass <- [own |-> "loopback", bad |-> "none"], Total <- 3,
    IdleTime <- 3, ConnectTimeout <- 1, Slice <- 1, LongestLookup <- 0,
    HeadLimit <- 0, Limit <- 1, Lengths <- {1}, MaxInner <- 1, outcome <- result,
    log <- exchanged

Budget == INSTANCE TileBudget WITH
    Renders <- {R1, R2}, Queries <- {}, TargetBytes <- 1,
    WorkingBytes <- [e \in {R1, R2} |-> 2],
    TileCount <- [r \in {R1, R2} |-> IF r = R1 THEN 2 ELSE 1], Workers <- 4,
    TileBytes <- 1, Floor <- 2, Segments <- 1, GridSide <- 1, RowsOfTile <- 2,
    Points <- {}, KeyOf <- [r \in {R1, R2} |-> r], StoreEntries <- 1,
    cancelled <- cancelledRenders

ASSUME Assumptions ==
    /\ Sampler!PointAssumption
    /\ Analysis!AnalysesAssumption
    /\ Session!LiveSessionAssumption
    /\ Lane!LanesAssumption
    /\ Screen!SyncAssumption
    /\ Hand!GesturesAssumption
    /\ Panel!TaskPanelAssumption
    /\ Polls!TaskPanelAssumption
    /\ Exchange!TransportAssumption
    /\ Budget!TileBudgetAssumption

\* A component that does not move rests where it begins.
Init ==
    /\ part \in {"sources", "points", "analysis", "session", "lane",
                 "follows", "hand", "panel", "polls", "exchange", "budget"}
    /\ Sources!Init
    /\ Sampler!Init
    /\ Analysis!AnalysesInit
    /\ Session!SessionInit
    /\ Lane!LanesInit
    /\ Screen!SyncInit
    /\ Hand!GestureInit
    /\ IF part = "polls" THEN Polls!Init ELSE Panel!Init
    /\ Exchange!TransportInit
    /\ Budget!BudgetInit
    /\ post => part = "exchange"

SourceSteps ==
    /\ part = "sources"
    /\ Sources!Next
    /\ UNCHANGED <<part, pointVars, analysisVars, sessionVars, laneVars,
        syncVars, gestureVars, panelVars, transportVars, budgetVars>>

PointSteps ==
    /\ part = "points"
    /\ Sampler!Next
    /\ UNCHANGED <<part, sourceVars, analysisVars, sessionVars, laneVars,
        syncVars, gestureVars, panelVars, transportVars, budgetVars>>

AnalysisSteps ==
    /\ part = "analysis"
    /\ Analysis!AnalysesNext
    /\ UNCHANGED <<part, sourceVars, pointVars, sessionVars, laneVars,
        syncVars, gestureVars, panelVars, transportVars, budgetVars>>

SessionSteps ==
    /\ part = "session"
    /\ Session!SessionNext
    /\ UNCHANGED <<part, sourceVars, pointVars, analysisVars, laneVars,
        syncVars, gestureVars, panelVars, transportVars, budgetVars>>

LaneSteps ==
    /\ part = "lane"
    /\ Lane!LanesNext
    /\ UNCHANGED <<part, sourceVars, pointVars, analysisVars, sessionVars,
        syncVars, gestureVars, panelVars, transportVars, budgetVars>>

ScreenSteps ==
    /\ part = "follows"
    /\ Screen!SyncNext
    /\ UNCHANGED <<part, sourceVars, pointVars, analysisVars, sessionVars,
        laneVars, gestureVars, panelVars, transportVars, budgetVars>>

HandSteps ==
    /\ part = "hand"
    /\ Hand!GestureNext
    /\ UNCHANGED <<part, sourceVars, pointVars, analysisVars, sessionVars,
        laneVars, syncVars, panelVars, transportVars, budgetVars>>

PanelSteps ==
    /\ part = "panel"
    /\ Panel!Next
    /\ UNCHANGED <<part, sourceVars, pointVars, analysisVars, sessionVars,
        laneVars, syncVars, gestureVars, transportVars, budgetVars>>

PollSteps ==
    /\ part = "polls"
    /\ Polls!Next
    /\ UNCHANGED <<part, sourceVars, pointVars, analysisVars, sessionVars,
        laneVars, syncVars, gestureVars, transportVars, budgetVars>>

ExchangeSteps ==
    /\ part = "exchange"
    /\ Exchange!TransportNext
    /\ UNCHANGED <<part, sourceVars, pointVars, analysisVars, sessionVars,
        laneVars, syncVars, gestureVars, panelVars, budgetVars>>

BudgetSteps ==
    /\ part = "budget"
    /\ Budget!BudgetNext
    /\ UNCHANGED <<part, sourceVars, pointVars, analysisVars, sessionVars,
        laneVars, syncVars, gestureVars, panelVars, transportVars>>

\* There is no more to start, to offer or to serve.
Rest ==
    /\ part = "hand" /\ ~ENABLED Hand!GestureNext
    /\ UNCHANGED everything

Next ==
    \/ SourceSteps \/ PointSteps \/ AnalysisSteps \/ SessionSteps \/ LaneSteps
    \/ ScreenSteps \/ HandSteps \/ PanelSteps \/ PollSteps \/ ExchangeSteps
    \/ BudgetSteps \/ Rest

\* Every thread that can run does, the owner serves and messages arrive:
\* what each module's own fairness says of its component.  Only one
\* component moves in a behaviour, so weak fairness of one action of each
\* is weak fairness of all of them.
moving ==
    CASE part = "sources" -> sourceVars
      [] part = "points" -> pointVars
      [] part = "analysis" -> analysisVars
      [] part = "session" -> sessionVars
      [] part = "lane" -> laneVars
      [] part = "follows" -> syncVars
      [] part = "hand" -> gestureVars
      [] part = "panel" -> panelVars
      [] part = "polls" -> panelVars
      [] part = "exchange" -> transportVars
      [] part = "budget" -> budgetVars

Fair(n) ==
    /\ part' = part
    /\ \/ /\ part = "sources"
          /\ \/ n = 1 /\ Sources!TakeTask
             \/ n = 2 /\ Sources!PassGate
             \/ n = 3 /\ Sources!EndWork
             \/ n = 4 /\ (Sources!SourceStarted \/ Sources!SourceComplete)
             \/ n = 5 /\ Sources!EndPreview
             \/ n = 6 /\ Sources!Asks(Desktop)
             \/ n = 7 /\ Sources!ReadStatus(Desktop)
             \/ n = 8 /\ Sources!AwaitJob(Desktop)
             \/ n = 9 /\ Sources!AwaitRoom(Desktop)
             \/ n = 10 /\ Sources!Asks(Agent)
             \/ n = 11 /\ Sources!ReadStatus(Agent)
             \/ n = 12 /\ Sources!AwaitJob(Agent)
             \/ n = 13 /\ Sources!AwaitRoom(Agent)
       \/ /\ part = "points"
          /\ \/ n = 1 /\ Sampler!Work
             \/ n = 2 /\ Sampler!Start
             \/ n = 3 /\ Sampler!Joined
       \/ /\ part = "analysis"
          /\ \/ n = 1 /\ Analysis!OwnerStep
             \/ n = 2 /\ Analysis!WorkerFair
       \/ /\ part = "session"
          /\ \/ n = 1 /\ Session!Listener(First)
             \/ n = 2 /\ Session!Closing(First)
             \/ n = 3 /\ Session!Listener(Second)
             \/ n = 4 /\ Session!Closing(Second)
       \/ /\ part = "lane"
          /\ \/ n = 1 /\ Lane!ServeResult
             \/ n = 2 /\ Lane!LaneStep
       \/ /\ part = "follows"
          /\ \/ n = 1 /\ Screen!Changed
             \/ n = 2 /\ (Screen!Synced \/ Screen!SyncFailed)
             \/ n = 3 /\ Screen!PollReads
             \/ n = 4 /\ (Screen!CommandRuns \/ Screen!CommandReads)
             \/ n = 5 /\ (Screen!EditRefreshed \/ Screen!RefreshFailed \/ Screen!VersionsLoaded)
             \/ n = 6 /\ (Screen!ChangeRuns \/ Screen!ChangeReads \/ Screen!ChangeAnswered)
             \/ n = 7 /\ (Screen!PreviewRuns \/ Screen!PreviewLoaded)
       \/ /\ part = "hand"
          /\ \/ n = 1 /\ Hand!OwnerServes
             \/ n = 2 /\ Hand!TakeAnswer
       \/ /\ part = "panel"
          /\ \/ n = 1 /\ Panel!Step(0)
             \/ n = 2 /\ Panel!Step(1)
             \/ n = 3 /\ Panel!Poll
             \/ n = 4 /\ Panel!PollRead
             \/ n = 5 /\ Panel!Polled
             \/ n = 6 /\ Panel!JobEnds(J1)
             \/ n = 7 /\ Panel!JobEnds(J2)
       \/ /\ part = "polls"
          /\ \/ n = 1 /\ Polls!Step(0)
             \/ n = 2 /\ Polls!Step(1)
             \/ n = 3 /\ Polls!Poll
             \/ n = 4 /\ Polls!PollRead
             \/ n = 5 /\ Polls!Polled
             \/ n = 6 /\ Polls!JobEnds(J1)
       \/ /\ part = "exchange"
          /\ \/ n = 1 /\ Exchange!Own
       \/ /\ part = "budget"
          /\ \/ n = 1 /\ Budget!Working(R1)
             \/ n = 2 /\ Budget!Working(R2)

Fairness == \A n \in 1 .. 13 : WF_moving(Fair(n))

Spec == Init /\ [][Next]_everything /\ Fairness

-----------------------------------------------------------------------------
\* Properties

\* What the owner and its threads were asked for ends: a job of a source,
\* and a client that waits for one is woken; a call for a sample; a stop
\* of the point worker; an analysis a client waits for; a window that
\* closes; every job and activation of a lane, and its thread once the
\* editor closes; an exchange, unless one TLS call never returns;
\* and every evaluation that waits for room.
OwnerProgress ==
    /\ Sources!JobsEnd /\ Sources!ClientsWake
    /\ Sampler!EveryCallSettles /\ Sampler!StopReturns
    /\ Analysis!PendingEnds
    /\ Session!CloseEnds
    /\ Lane!JobsEnd /\ Lane!ActivationsSettle /\ Lane!ClosingEnds
    /\ part = "exchange" => Exchange!RequestEnds
    /\ part = "budget" => Budget!EvaluationsEnd

\* The desktop does not wait for ever: a change comes to the screen unless
\* a reply or a failed poll left it unread, a gesture that was given up
\* frees the slot, one that was let go is committed or refused, and a run
\* of the panel takes how its job ended and stops polling.
DesktopProgress ==
    /\ Screen!ChangesShown
    /\ Hand!SlotFrees /\ Hand!ReleaseEnds
    /\ part = "panel" => Panel!RunSettles /\ Panel!Asked
    /\ part = "polls" => Polls!PollStops
===============================================================================
