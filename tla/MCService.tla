------------------------------ MODULE MCService -------------------------------
(***************************************************************************)
(* What the catalog owner serves its clients with, for TLC: the event log  *)
(* and the answers it remembers (Owner, extended here), analyses           *)
(* (Analyses), the activity board (ActivityBoard) and the live session     *)
(* (LiveSession); and the jobs of a module's task, with the panel in which *)
(* a client follows them (TaskPanel).  They share no state, so one         *)
(* component moves in each behaviour and the run is as large as their sum. *)
(***************************************************************************)
EXTENDS Owner, LiveSession, ActivityBoard

CONSTANTS Desktop, Agent, A1, A2, J1, J2, Vacant, AnotherAsset

VARIABLES
    part,  \* the component that takes the steps of this behaviour
    generation, floor, reducing, pending, results, stopped, pc, asleep,
    current, sends, signal, draining, lastDelivered, told, started, jobs,
    index, lastId, generations, tasks, askers, orphans, peeked,
    open, run, notice, tracked, flights, poll, granted, job

analysisVars == <<generation, floor, reducing, pending, results, stopped, pc,
    asleep, current, sends, signal, draining, lastDelivered, told, started,
    jobs, index, lastId, generations, tasks, askers, orphans, peeked>>
panelVars == <<open, run, notice, tracked, flights, poll, granted, job>>
everything == <<part, vars, analysisVars, boardVars, sessionVars, panelVars>>

\* Two requests under one identity and one under another; the answers of
\* two are together too big for the table.
TwoInputs == {[id |-> "a", input |-> 1], [id |-> "a", input |-> 2], [id |-> "b", input |-> 1]}
Sizes == [r \in TwoInputs |-> IF r.id = "b" THEN 3 ELSE r.input]

\* Two clients ask for the same two images, and the worker may panic.
Shared == INSTANCE Analyses WITH
    Clients <- {Desktop, Agent}, Identities <- {"preview", "export"},
    Unevaluable <- {}, WaitingResults <- 1, MaxGeneration <- 2,
    MaxSends <- 0, MaxReady <- 1, MaxRecords <- 4, MaxJobs <- 2,
    MayPanic <- TRUE, active <- reducing, connected <- askers

\* One client has jobs displaced and withdrawn, or fills the table.
Displaced == INSTANCE Analyses WITH
    Clients <- {Agent}, Identities <- {"preview", "export"},
    Unevaluable <- {}, WaitingResults <- 1, MaxGeneration <- 3,
    MaxSends <- 0, MaxReady <- 1, MaxRecords <- 4, MaxJobs <- 3,
    MayPanic <- FALSE, active <- reducing, connected <- askers

Filled == INSTANCE Analyses WITH
    Clients <- {Agent}, Identities <- {"preview", "export"},
    Unevaluable <- {"export"}, WaitingResults <- 1, MaxGeneration <- 2,
    MaxSends <- 0, MaxReady <- 1, MaxRecords <- 4, MaxJobs <- 5,
    MayPanic <- FALSE, active <- reducing, connected <- askers

\* A panel of one photograph that must ask, with two round trips in
\* flight; one of two photographs, both allowed; one of two of which one
\* must ask, so that requests of both are in flight at once.
Asks == INSTANCE TaskPanel WITH
    Assets <- {A1}, JobIds <- {J1, J2}, Slots <- 2, Granted <- {},
    Presses <- {"cancel", "revoke"}, Outside <- {}

Panel == INSTANCE TaskPanel WITH
    Assets <- {A1, A2}, JobIds <- {J1, J2}, Slots <- 1, Granted <- {A1, A2},
    Presses <- {"cancel"}, Outside <- {}

Pair == INSTANCE TaskPanel WITH
    Assets <- {A1, A2}, JobIds <- {J1}, Slots <- 2, Granted <- {A1},
    Presses <- {"cancel"}, Outside <- {}

ASSUME Assumptions ==
    /\ OwnerAssumption /\ CapacityAssumption /\ TableAssumption
    /\ Shared!AnalysesAssumption /\ Displaced!AnalysesAssumption
    /\ Filled!AnalysesAssumption
    /\ ActivityAssumption
    /\ LiveSessionAssumption
    /\ Asks!TaskPanelAssumption /\ Panel!TaskPanelAssumption
    /\ Pair!TaskPanelAssumption

\* A component that does not move rests where it begins.
ServiceInit ==
    /\ Init /\ BoardInit /\ SessionInit
    /\ \/ /\ part \in {"log", "board", "session", "displaced", "asks", "panel", "pair"}
          /\ Displaced!AnalysesInit
       \/ part = "shared" /\ Shared!AnalysesInit
       \/ part = "filled" /\ Filled!AnalysesInit
    /\ IF part = "panel" THEN Panel!Init
       ELSE IF part = "pair" THEN Pair!Init ELSE Asks!Init

LogSteps ==
    /\ part = "log"
    /\ Next
    /\ UNCHANGED <<part, analysisVars, boardVars, sessionVars, panelVars>>

SharedSteps ==
    /\ part = "shared"
    /\ Shared!AnalysesNext
    /\ UNCHANGED <<part, vars, boardVars, sessionVars, panelVars>>

DisplacedSteps ==
    /\ part = "displaced"
    /\ Displaced!AnalysesNext
    /\ UNCHANGED <<part, vars, boardVars, sessionVars, panelVars>>

FilledSteps ==
    /\ part = "filled"
    /\ Filled!AnalysesNext
    /\ UNCHANGED <<part, vars, boardVars, sessionVars, panelVars>>

BoardSteps ==
    /\ part = "board"
    /\ BoardNext
    /\ UNCHANGED <<part, vars, analysisVars, sessionVars, panelVars>>

SessionSteps ==
    /\ part = "session"
    /\ SessionNext
    /\ UNCHANGED <<part, vars, analysisVars, boardVars, panelVars>>

AskSteps ==
    /\ part = "asks"
    /\ Asks!Next
    /\ UNCHANGED <<part, vars, analysisVars, boardVars, sessionVars>>

PanelSteps ==
    /\ part = "panel"
    /\ Panel!Next
    /\ UNCHANGED <<part, vars, analysisVars, boardVars, sessionVars>>

PairSteps ==
    /\ part = "pair"
    /\ Pair!Next
    /\ UNCHANGED <<part, vars, analysisVars, boardVars, sessionVars>>

ServiceNext ==
    \/ LogSteps \/ SharedSteps \/ DisplacedSteps \/ FilledSteps
    \/ BoardSteps \/ SessionSteps
    \/ AskSteps \/ PanelSteps \/ PairSteps

ServiceSpec == ServiceInit /\ [][ServiceNext]_everything

-----------------------------------------------------------------------------
\* Properties

\* The three instances of Analyses read the same variables.
AnalysesTyped ==
    /\ part = "shared" => Shared!StoreTypeOK
    /\ part = "displaced" => Displaced!StoreTypeOK
    /\ part = "filled" => Filled!StoreTypeOK

\* An image has one job that answers for it, work is done only for a
\* client that is there, an open job is held by the worker or its outcome
\* is on the way (unless the worker may panic), the ring names what can be
\* withdrawn, the table keeps its bounds, and a job ends once.
AnalysesAnswer ==
    /\ [](AnalysesTyped /\ Shared!OneAnswer /\ Shared!WorkIsWanted)
    /\ [](part # "shared" => Displaced!PendingHeld /\ Displaced!HeldAreNamed)
    /\ [](Shared!StoreBounded)
    /\ Shared!EndsOnce /\ Shared!OpenedIsThere

\* The poll asks about the job a run waits for as long as the owner has it
\* live; an answer that brings that job's record settles the run or leaves
\* it to the poll; and what reads as ended has ended so.  An end that the
\* answer of another round trip reports first is never taken by the run
\* (RunSettles), and a run may be given a job of another photograph.
PanelFollows ==
    /\ [](part = "asks" => Asks!TypeOK /\ Asks!LiveFollowed /\ Asks!EndsTrue)
    /\ [](part = "panel" => Panel!TypeOK /\ Panel!LiveFollowed /\ Panel!EndsTrue)
    /\ [](part = "pair" => Pair!TypeOK /\ Pair!LiveFollowed /\ Pair!EndsTrue)
    /\ [][/\ part = "asks" => Asks!AnswersFollow
          /\ part = "panel" => Panel!AnswersFollow
          /\ part = "pair" => Pair!AnswersFollow]_panelVars
===============================================================================
