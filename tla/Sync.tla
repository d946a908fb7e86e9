---------------------------------- MODULE Sync ----------------------------------
(***************************************************************************)
(* How the desktop keeps its screen in step with the catalog owner         *)
(* (luxforge-app: app/sync.rs, app/tasks.rs, app/history.rs, app/presets.rs*)
(* and app/waker.rs, over the owner's event log).                          *)
(*                                                                         *)
(* Other clients change the photograph, its versions and the preset        *)
(* library.  The owner wakes the desktop for their changes and never for   *)
(* its own, whose answers read them back.  A woken desktop polls: the      *)
(* events since its cursor, then only the reads they call for.  Every read *)
(* is an owner call of its own, so changes land between any two of them,   *)
(* and the answers of a poll, a command, a library change and a comparison *)
(* arrive in any order.                                                    *)
(*                                                                         *)
(* A photograph is open throughout.  A value is the number of changes made *)
(* to it.                                                                  *)
(***************************************************************************)
EXTENDS EventLog

CONSTANTS
    OWN_REQUESTS,   \* own requests remembered between polls
    MaxSequence,    \* bound: no other client changes anything after so many events
    MaxRequests,    \* bound: requests the desktop makes
    MaxFailures     \* bound: calls that fail

SyncAssumption ==
    /\ OWN_REQUESTS \in Nat \ {0}
    /\ {MaxSequence, MaxRequests, MaxFailures} \subseteq Nat

VARIABLES
    \* the owner
    log,          \* its event log
    truth,        \* how often revision, versions and library changed
    generation,   \* the preview generation of the desktop's session
    signal,       \* the one buffered wake of the desktop
    \* the desktop
    syncWanted, busy, apiSequence, ownRequests,
    screen,       \* what it shows: revision, versions, library
    seenGeneration,  \* the preview generation it holds
    librarySequence, \* where the library it shows was read
    \* its tasks in flight
    poll, command, change, compare,
    \* what happened, for the bounds and the properties
    requests,     \* requests made
    failures,     \* calls failed
    past,         \* truth after each event
    unread,       \* a poll failed and none has begun since
    unreadOwn     \* so did the read-back of a change of its own

ownerVars == <<log, truth, generation, signal>>
cursorVars == <<syncWanted, busy, apiSequence, ownRequests>>
shownVars == <<screen, seenGeneration, librarySequence>>
taskVars == <<poll, command, change, compare>>
pastVars == <<requests, failures, past, unread, unreadOwn>>
syncVars == <<ownerVars, cursorVars, shownVars, taskVars, pastVars>>

NoTask == [at |-> "none"]

SyncInit ==
    /\ log = EmptyLog
    /\ truth = [revision |-> 0, versions |-> 0, library |-> 0]
    /\ generation = 0
    /\ signal = FALSE
    /\ syncWanted = FALSE /\ busy = FALSE
    /\ apiSequence = 0 /\ ownRequests = << >>
    /\ screen = truth
    /\ seenGeneration = 0 /\ librarySequence = 0
    /\ poll = NoTask /\ command = NoTask /\ change = NoTask /\ compare = NoTask
    /\ requests = 0 /\ failures = 0 /\ past = << >>
    /\ unread = FALSE /\ unreadOwn = FALSE

-------------------------------------------------------------------------------
\* The owner.

\* A commit of `field` by `request` (0 is another client's): the value
\* moves and the event is recorded.
CommitBy(field, request) ==
    /\ log' = RecordEvent(log, [sequence |-> 0, request |-> request,
                                kind |-> IF field = "library" THEN "preset" ELSE "asset"])
    /\ truth' = [truth EXCEPT ![field] = @ + 1]
    /\ past' = Append(past, truth')

\* Another client's change, which wakes the desktop.
OtherChanges(field) ==
    /\ log.sequence < MaxSequence
    /\ CommitBy(field, 0)
    /\ signal' = TRUE
    /\ UNCHANGED <<generation, cursorVars, shownVars, taskVars, requests, failures, unread, unreadOwn>>

-------------------------------------------------------------------------------
\* The poll, and what every message of the desktop ends with.

Syncing == poll.at # "none"

\* What a message leaves, before the desktop decides whether to poll.
Now == [wanted |-> syncWanted, syncing |-> Syncing, busy |-> busy,
        failed |-> unread, failedOwn |-> unreadOwn]

\* sync_when_wanted, called after every message: one poll, when one is
\* wanted, none is in flight and no request of the desktop's own is.
SyncWhenWanted(now) ==
    /\ busy' = now.busy
    /\ IF now.wanted /\ ~now.syncing /\ ~now.busy
       THEN /\ syncWanted' = FALSE
            /\ poll' = [at |-> "since", after |-> apiSequence', own |-> ownRequests']
            /\ unread' = FALSE /\ unreadOwn' = FALSE
       ELSE /\ syncWanted' = now.wanted
            /\ poll' = IF now.syncing THEN poll ELSE NoTask
            /\ unread' = now.failed /\ unreadOwn' = now.failedOwn

\* SyncMessage::Changed.
Changed ==
    /\ signal
    /\ signal' = FALSE
    /\ UNCHANGED <<apiSequence, ownRequests>>
    /\ SyncWhenWanted([Now EXCEPT !.wanted = TRUE])
    /\ UNCHANGED <<log, truth, generation, shownVars, command, change, compare,
                   requests, failures, past>>

\* read_back: the ring of own requests whose events the poll may skip.
ReadBack(request) ==
    ownRequests' = Append(IF Len(ownRequests) = OWN_REQUESTS THEN Tail(ownRequests)
                          ELSE ownRequests, request)

\* A bug for the mutants: only the preview generation is compared.
OnlyPreviewSuperseded(read) == read.generation < seenGeneration

\* superseded: an answer read before what the screen already holds.
Superseded(read) ==
    read.generation < seenGeneration \/ read.revision < screen.revision

\* accept, of the photograph's values that were read.
Accept(read, library) ==
    /\ screen' = [revision |-> read.revision, library |-> library,
                  versions |-> IF read.whole THEN read.versions ELSE screen.versions]
    /\ seenGeneration' = read.generation

\* PresetLibrary::adopt, when a listing was read.
Adopted(listed, sequence) == listed /\ sequence >= librarySequence

\* The events the poll acts on are those of others, and of its own that
\* are not known to be on screen.
PollReadsEvents ==
    LET answer == Since(log, poll.after)
        own    == {poll.own[i] : i \in DOMAIN poll.own}
        acted  == {answer.events[i] : i \in DOMAIN answer.events}
        others == {e \in acted : e.request \notin own}
        has(kind) == answer.gap \/ \E e \in others : e.kind = kind
    IN  /\ poll.at = "since"
        /\ poll' = [at |-> IF has("preset") THEN "presets"
                           ELSE IF has("asset") THEN "state" ELSE "answer",
                    sequence |-> answer.sequence,
                    skipped |-> {e.request : e \in acted \ others},
                    listed |-> has("preset"), library |-> 0, listedAt |-> 0,
                    asset |-> has("asset"), whole |-> TRUE, answered |-> 0,
                    revision |-> 0, versions |-> 0, generation |-> 0]

PollReadsPresets ==
    /\ poll.at = "presets"
    /\ poll' = [poll EXCEPT !.at = IF poll.asset THEN "state" ELSE "answer",
                            !.library = truth.library, !.listedAt = log.sequence]

\* refresh: the state, then, unless a commit's own answer names that very
\* revision, the versions, then the session.
Refreshing(task, next) ==
    \/ LET whole == task.whole \/ truth.revision # task.answered
       IN  /\ task.at = "state"
           /\ next = [task EXCEPT !.at = IF whole THEN "versions" ELSE "session",
                                  !.whole = whole, !.revision = truth.revision]
    \/ /\ task.at = "versions"
       /\ next = [task EXCEPT !.at = "session", !.versions = truth.versions]
    \/ /\ task.at = "session"
       /\ next = [task EXCEPT !.at = "answer", !.generation = generation]

\* A read that fails ends its task.
Failing(task, next) ==
    /\ task.at \notin {"none", "send", "answer", "failed"}
    /\ failures < MaxFailures /\ failures' = failures + 1
    /\ next = [task EXCEPT !.at = "failed"]

OnlyTask == UNCHANGED <<ownerVars, cursorVars, shownVars, requests, past, unread, unreadOwn>>

PollReads ==
    /\ \/ /\ PollReadsEvents \/ PollReadsPresets \/ Refreshing(poll, poll')
          /\ UNCHANGED failures
       \/ Failing(poll, poll')
    /\ OnlyTask /\ UNCHANGED <<command, change, compare>>

\* The own requests whose events no poll has met yet.  (SelectSeq, written
\* as a function that a proof can unfold.)
Unseen(ring, met) ==
    LET kept[i \in 0 .. Len(ring)] ==
            IF i = 0 THEN << >>
            ELSE IF ring[i] \in met THEN kept[i - 1] ELSE Append(kept[i - 1], ring[i])
    IN  kept[Len(ring)]

\* SyncMessage::Synced: adopt the listing, accept the refresh unless it
\* was overtaken, and only then move the cursor.
Synced ==
    LET superseded == poll.asset /\ Superseded(poll)
        adopted    == Adopted(poll.listed, poll.listedAt)
        library    == IF adopted THEN poll.library ELSE screen.library
    IN  /\ poll.at = "answer"
        /\ librarySequence' = IF adopted THEN poll.listedAt ELSE librarySequence
        /\ IF poll.asset /\ ~superseded THEN Accept(poll, library)
           ELSE screen' = [screen EXCEPT !.library = library] /\ UNCHANGED seenGeneration
        /\ apiSequence' = IF superseded \/ poll.sequence < apiSequence THEN apiSequence
                          ELSE poll.sequence
        /\ ownRequests' = IF superseded THEN ownRequests
                          ELSE Unseen(ownRequests, poll.skipped)
        /\ SyncWhenWanted([Now EXCEPT !.wanted = @ \/ superseded, !.syncing = FALSE])
        /\ UNCHANGED <<ownerVars, command, change, compare, requests, failures, past>>

\* A poll that failed says so, and nothing asks for another.
SyncFailed ==
    /\ poll.at = "failed"
    /\ UNCHANGED <<apiSequence, ownRequests>>
    /\ SyncWhenWanted([Now EXCEPT !.syncing = FALSE, !.failed = TRUE])
    /\ UNCHANGED <<ownerVars, shownVars, command, change, compare, requests, failures, past>>

-------------------------------------------------------------------------------
\* A command of the desktop's own: an edit, answered by a refresh, or a
\* change of the versions, answered by their list.

Ask(kind) ==
    /\ ~busy
    /\ requests < MaxRequests /\ requests' = requests + 1
    /\ command' = [at |-> "send", kind |-> kind, request |-> requests', whole |-> FALSE,
                   answered |-> 0, revision |-> 0, versions |-> 0, generation |-> 0]
    /\ UNCHANGED <<apiSequence, ownRequests>>
    /\ SyncWhenWanted([Now EXCEPT !.busy = TRUE])
    /\ UNCHANGED <<ownerVars, shownVars, change, compare, failures, past>>

\* The owner runs it, and wakes nobody here.  An edit may change nothing.
CommandRuns ==
    LET reads == IF command.kind = "edit" THEN "state" ELSE "versions"
    IN  /\ command.at = "send"
        /\ \/ /\ CommitBy(IF command.kind = "edit" THEN "revision" ELSE "versions",
                          command.request)
              /\ command' = [command EXCEPT !.at = reads, !.answered = truth'.revision]
              /\ UNCHANGED failures
           \/ /\ command.kind = "edit"
              /\ command' = [command EXCEPT !.at = reads, !.answered = truth.revision]
              /\ UNCHANGED <<log, truth, past, failures>>
           \/ /\ failures < MaxFailures /\ failures' = failures + 1
              /\ command' = [command EXCEPT !.at = "failed"]
              /\ UNCHANGED <<log, truth, past>>
        /\ UNCHANGED <<generation, signal, cursorVars, shownVars, poll, change, compare,
                       requests, unread, unreadOwn>>

CommandReads ==
    /\ \/ /\ command.at # "none" /\ command.kind = "edit"
          /\ Refreshing(command, command') /\ UNCHANGED failures
       \/ /\ command.at = "versions" /\ command.kind = "version"
          /\ command' = [command EXCEPT !.at = "answer", !.versions = truth.versions]
          /\ UNCHANGED failures
       \/ Failing(command, command')
    /\ OnlyTask /\ UNCHANGED <<poll, change, compare>>

\* SyncMessage::Refreshed.  An answer overtaken by what the desktop holds
\* is dropped whole, before `busy` is cleared.
EditRefreshed ==
    /\ command.at = "answer" /\ command.kind = "edit"
    /\ command' = NoTask
    /\ UNCHANGED apiSequence
    /\ IF Superseded(command)
       THEN /\ SyncWhenWanted(Now)
            /\ UNCHANGED <<shownVars, ownRequests>>
       ELSE /\ Accept(command, screen.library)
            /\ ReadBack(command.request)
            /\ SyncWhenWanted([Now EXCEPT !.busy = FALSE])
            /\ UNCHANGED librarySequence
    /\ UNCHANGED <<ownerVars, change, compare, requests, failures, past>>

\* A failed edit may have landed, so the log is read once.
RefreshFailed ==
    /\ command.at = "failed" /\ command.kind = "edit"
    /\ command' = NoTask
    /\ UNCHANGED <<apiSequence, ownRequests>>
    /\ SyncWhenWanted([Now EXCEPT !.busy = FALSE, !.wanted = TRUE])
    /\ UNCHANGED <<ownerVars, shownVars, change, compare, requests, failures, past>>

\* HistoryMessage::VersionsLoaded: the list is shown as it is; a failure
\* is only said.
VersionsLoaded ==
    /\ command.at \in {"answer", "failed"} /\ command.kind = "version"
    /\ command' = NoTask
    /\ UNCHANGED <<apiSequence, seenGeneration, librarySequence>>
    /\ IF command.at = "answer"
       THEN /\ screen' = [screen EXCEPT !.versions = command.versions]
            /\ ReadBack(command.request)
            /\ SyncWhenWanted([Now EXCEPT !.busy = FALSE])
       ELSE /\ UNCHANGED <<screen, ownRequests>>
            /\ SyncWhenWanted([Now EXCEPT !.busy = FALSE, !.failedOwn = TRUE])
    /\ UNCHANGED <<ownerVars, change, compare, requests, failures, past>>

-------------------------------------------------------------------------------
\* A change of the preset library, one at a time and beside everything
\* else, and a comparison or a selection, which move the preview.

AskChange ==
    /\ change = NoTask
    /\ requests < MaxRequests /\ requests' = requests + 1
    /\ change' = [at |-> "send", request |-> requests', library |-> 0, listedAt |-> 0]
    /\ UNCHANGED <<apiSequence, ownRequests>>
    /\ SyncWhenWanted(Now)
    /\ UNCHANGED <<ownerVars, shownVars, command, compare, failures, past>>

ChangeRuns ==
    /\ change.at = "send"
    /\ \/ /\ CommitBy("library", change.request)
          /\ change' = [change EXCEPT !.at = "list"]
          /\ UNCHANGED failures
       \/ /\ failures < MaxFailures /\ failures' = failures + 1
          /\ change' = [change EXCEPT !.at = "failed"]
          /\ UNCHANGED <<log, truth, past>>
    /\ UNCHANGED <<generation, signal, cursorVars, shownVars, poll, command, compare,
                   requests, unread, unreadOwn>>

ChangeReads ==
    /\ \/ /\ change.at = "list"
          /\ change' = [change EXCEPT !.at = "answer", !.library = truth.library,
                                      !.listedAt = log.sequence]
          /\ UNCHANGED failures
       \/ Failing(change, change')
    /\ OnlyTask /\ UNCHANGED <<poll, command, compare>>

\* adopt_change, or preset_failed, which only says so.
ChangeAnswered ==
    LET adopted == Adopted(TRUE, change.listedAt)
    IN  /\ change.at \in {"answer", "failed"}
        /\ change' = NoTask
        /\ UNCHANGED <<apiSequence, seenGeneration>>
        /\ IF change.at = "answer"
           THEN /\ ReadBack(change.request)
                /\ IF adopted
                   THEN /\ screen' = [screen EXCEPT !.library = change.library]
                        /\ librarySequence' = change.listedAt
                   ELSE UNCHANGED <<screen, librarySequence>>
                /\ SyncWhenWanted(Now)
           ELSE /\ UNCHANGED <<ownRequests, screen, librarySequence>>
                /\ SyncWhenWanted([Now EXCEPT !.failedOwn = TRUE])
        /\ UNCHANGED <<ownerVars, command, compare, requests, failures, past>>

\* CompareBegin asks whatever is in flight; Select waits for a request in
\* flight and is one itself.  One of the two at a time.
Preview(kind) ==
    /\ compare = NoTask
    /\ kind = "select" => ~busy
    /\ requests < MaxRequests /\ requests' = requests + 1
    /\ compare' = [at |-> "send", kind |-> kind, generation |-> 0]
    /\ UNCHANGED <<apiSequence, ownRequests>>
    /\ SyncWhenWanted([Now EXCEPT !.busy = @ \/ kind = "select"])
    /\ UNCHANGED <<ownerVars, shownVars, command, change, failures, past>>

\* preview.select at the owner.
PreviewRuns ==
    /\ compare.at = "send"
    /\ generation' = generation + 1
    /\ compare' = [compare EXCEPT !.at = "answer", !.generation = generation']
    /\ UNCHANGED <<log, truth, signal, cursorVars, shownVars, poll, command, change, pastVars>>

\* PreviewMessage::Loaded; a selection's answer clears `busy` whatever it
\* carries.
PreviewLoaded ==
    /\ compare.at = "answer"
    /\ compare' = NoTask
    /\ seenGeneration' = IF compare.generation < seenGeneration THEN seenGeneration
                         ELSE compare.generation
    /\ UNCHANGED <<apiSequence, ownRequests, screen, librarySequence>>
    /\ SyncWhenWanted([Now EXCEPT !.busy = @ /\ compare.kind # "select"])
    /\ UNCHANGED <<ownerVars, command, change, requests, failures, past>>

-------------------------------------------------------------------------------
Deliveries ==
    \/ Changed \/ Synced \/ SyncFailed \/ EditRefreshed \/ RefreshFailed
    \/ VersionsLoaded \/ ChangeAnswered \/ PreviewLoaded

Resting == ~signal /\ \A task \in {poll, command, change, compare} : task = NoTask

\* With nothing to deliver the update loop does not run.
Asleep == Resting /\ UNCHANGED syncVars

SyncNext ==
    \/ \E field \in DOMAIN truth : OtherChanges(field)
    \/ Deliveries
    \/ PollReads \/ CommandRuns \/ CommandReads \/ ChangeRuns \/ ChangeReads \/ PreviewRuns
    \/ \E kind \in {"edit", "version"} : Ask(kind)
    \/ AskChange
    \/ \E kind \in {"compare", "select"} : Preview(kind)
    \/ Asleep

\* The event loop handles every message, and every task goes on.
SyncFairness ==
    /\ WF_syncVars(Changed) /\ WF_syncVars(Synced \/ SyncFailed) /\ WF_syncVars(PollReads)
    /\ WF_syncVars(CommandRuns \/ CommandReads)
    /\ WF_syncVars(EditRefreshed \/ RefreshFailed \/ VersionsLoaded)
    /\ WF_syncVars(ChangeRuns \/ ChangeReads \/ ChangeAnswered)
    /\ WF_syncVars(PreviewRuns \/ PreviewLoaded)

SyncSpec == SyncInit /\ [][SyncNext]_syncVars /\ SyncFairness

-------------------------------------------------------------------------------
Values == [revision : Nat, versions : Nat, library : Nat]

SyncTypeOK ==
    /\ log.sequence = Len(past) /\ Len(log.events) <= EVENT_CAPACITY
    /\ truth \in Values /\ screen \in Values
    /\ {generation, seenGeneration, apiSequence, librarySequence} \subseteq Nat
    /\ {signal, syncWanted, busy, unread, unreadOwn} \subseteq BOOLEAN
    /\ Len(ownRequests) <= OWN_REQUESTS
    /\ poll.at \in {"none", "since", "presets", "state", "versions", "session",
                    "answer", "failed"}
    /\ command.at \in {"none", "send", "state", "versions", "session", "answer", "failed"}
    /\ change.at \in {"none", "send", "list", "answer", "failed"}
    /\ compare.at \in {"none", "send", "answer"}

\* No request of the desktop's own is in flight, nothing was lost to a
\* failed call, and no poll is under way or wanted.
Quiet == Resting /\ ~syncWanted /\ ~busy /\ ~unread /\ ~unreadOwn

\* When nothing is left to deliver the screen shows the newest revision
\* and the whole preset library, though the owner never wakes the desktop
\* for its own changes and polls skip their events.
ScreenCaughtUp ==
    Quiet => screen.revision = truth.revision /\ screen.library = truth.library

Shown(s) ==
    s <= Len(past) /\ past[s].revision <= screen.revision /\ past[s].library <= screen.library

\* The cursor never passes a change that has not reached the screen.
CursorBehindScreen == \A s \in 1 .. apiSequence : Shown(s)

\* Answers arrive in any order, and what is shown never goes back.
NeverBack ==
    [][/\ screen'.revision >= screen.revision
       /\ screen'.library >= screen.library
       /\ apiSequence' >= apiSequence
       /\ seenGeneration' >= seenGeneration]_syncVars

\* What the screen shows follows the events the sync has taken, a cursor
\* is never ahead of the screen, and nothing on the screen goes back.
ScreenFollows ==
    /\ [](SyncTypeOK /\ ScreenCaughtUp /\ CursorBehindScreen)
    /\ NeverBack

\* A request of the desktop's own is in flight whenever it says it is.
InFlight == command # NoTask \/ (compare # NoTask /\ compare.kind = "select")

\* Another client's change reaches the screen, or the desktop is left
\* waiting for an answer that has come, or a poll failed.
ChangesShown ==
    \A s \in 1 .. MaxSequence + MaxRequests :
        []<>(s <= Len(past) => Shown(s) \/ (busy /\ ~InFlight) \/ unread \/ unreadOwn)

\* "Whatever overtook it ended the request it answered" (app/sync.rs): the
\* desktop says it is busy only while an answer is still to come.
BusyEnds == busy => InFlight

\* "A response is adopted only if newer" (develop-workspace.md): the
\* versions shown at rest are the photograph's.
VersionsFollow == Quiet => screen.versions = truth.versions

\* "A request of its own whose read-back failed asks for one more" poll
\* (develop-workspace.md).
FailedReadBackAsks == unreadOwn => syncWanted
===============================================================================
