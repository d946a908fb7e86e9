# Formal models of Luxforge

Luxforge (the crates under `src/crates`) is a photo editor: a desktop window and any number of
local clients talk to one *catalog owner* thread, which holds an SQLite catalog, a few bounded
tables and queues, and hands slow work to a handful of worker threads. This directory models the
parts of `luxforge-core` and of the desktop (`luxforge-app`) where those threads, retries, crashes
and bounded tables meet, and the algorithms that turn a recipe into a picture. TLC checks the models
on small instances; TLAPS, the TLA+ proof system, proves the safety of seventeen of the components for
every value of their constants.

Paths below are relative to `src/crates/luxforge-core/src` unless they begin with `app`
(`src/crates/luxforge-app/src/app`) or `docs` (`src/docs`).

1. [The system](#1-the-system)
2. [The modules](#2-the-modules)
3. [The runs](#3-the-runs)
4. [What is proved](#4-what-is-proved)
5. [Disagreements found](#5-disagreements-found)
6. [What is not modelled](#6-what-is-not-modelled)
7. [What is left](#7-what-is-left)

## 1. The system

```
 desktop window ──┐                      ┌── source worker   (decode, develop, collect)
 loopback client ─┼─ one call at a time ─┤── module lanes    (tasks, installs, activation)
 loopback client ─┘   ▼                  ├── analysis worker (a Latest)
                 catalog owner           └── point worker
                 catalog rows, caches, tables          desktop ── preview worker (a Latest)
```

The owner (`api/owner.rs`) takes one message at a time from a bounded channel: a client's call, a
disconnect, or what a worker reports. So everything the owner does is serial, and the hard
behaviour is between it and a worker, between two messages of one conversation, between two editor
processes over the same files, or across a crash.

| Component | State | Operations | Hard behaviour | What makes it correct |
|---|---|---|---|---|
| Latest-job worker, `latest.rs` | one active and one waiting job, two tokens per job, results, a delivery floor, a generation counter | request, cancel, withdraw, poll, drop; the worker's loop, send and return | mutex and condition variable; a cancel, a replacement or a drop meets a job being taken, run, or waiting for room | no job vanishes, starts twice or starts after it was given up; results in order and never stale; no lost wake-up |
| Asset history, `editor/history.rs`, `editor/entries.rs`, `editor/catalog.rs` | rows: entries, current, revision, redo list, stored answers, versions; memory: cached heads | run an action, undo, redo, restore, name and unname a version, import, read | retried, late and stale requests from several clients; a cache moved by hand; restart | one linear log of moves; redo is a path; every answer is what happened; the cache is the rows |
| Sessions and drafts, `draft.rs`, `api/methods.rs` | per client a selection and one draft with its base revision | begin, set, reapply, commit, cancel, preview, restore | the asset moves under the draft | a commit replaces only what the client saw; a conflict is told |
| Derived artifacts, `artifacts/`, `editor/artifact_store.rs`, `capabilities/host/tasks.rs` | object files and a manifest, catalog rows, references, the live set | publish, register, commit a reference, plan a collection, sweep, reopen | the lane writes, the owner records, the worker removes, over one directory; crash; failed write | what is recorded has its file; what was promised stays; garbage is found |
| Source jobs, `api/owner.rs`, `editor/source.rs`, `source.rs`, `app/tasks.rs` | a table of jobs, keys that may be joined, ended jobs, a one-place cache, a memory gate, bounded channels | ask, join, queue, refuse, cancel, disconnect, wait, start, complete | planes too large to hold twice; eviction while others wait; a stop that meets a start | every job has one task; every waiter is woken; the gate opens |
| Events, requests and clients, `api/owner.rs`, `api/owner/requests.rs` | the last events, watchers, the first answers | record, read since, watch, remember, replay, disconnect | a slow client's gap; a retry after its answer was forgotten | a client never goes on unaware of a change; a remembered mutation runs once |
| Point worker, `api/owner/point.rs` | a bounded queue with reply channels | submit, disconnect, evaluate, stop | disconnect, thread start and stop race the queue | one answer per remaining call, in order |
| Analysis jobs, `analysis/jobs.rs` | jobs by identity, interest per client, a ring of generations; a Latest | request, read, cancel, submit, complete, disconnect | a displaced job's outcome crosses its supersession | each job ends once, as what happened to it |
| Activity board, `activity.rs` | running entries, a list of recent ones, counters | begin, phase, progress, end | a full board, the clock read before the lock | the board shows what runs |
| Live session, `api/transport.rs`, `app/lifecycle.rs` | a session file, a listener, connections and their counter | open, accept, serve, close, die | processes that follow one another on one catalog | the file names the server; the counter is true |
| Capability jobs and lanes, `capabilities/jobs.rs`, `capabilities/host/` | a table of jobs, a lane's thread, activations, grants | activate, deactivate, run a task, cancel, revoke, complete, shut down | a cancel meets a result on its way; a release meets an activation | one end per job; an active module is loaded; no task goes on untold without its grant |
| Resources, `capabilities/resources.rs` | staging and version directories, a marker written last | install, remove | crash between any two steps; two processes in one root | installed means complete |
| Settings and secrets, `capabilities/settings.rs`, `capabilities/document.rs` | one file under an advisory lock, the platform's secret store, consent | set, reset, profiles, secrets, revoke | several processes write; two stores, one write | no lost update; no secret without its profile |
| Network transport, `capabilities/transport/` | one exchange: time, addresses, bytes read | resolve, connect, write, read, redirect | deadlines, slices, redirects, cut answers | sent only where allowed; ends in time; never a cut answer for a whole one |
| Desktop sync, `app/sync.rs` | a cursor into the log, what is on the screen, reads in flight | wake, poll, read, adopt | answers in any order, own changes that wake nobody | the screen follows, and never goes back |
| Desktop gestures, `app/draft.rs`, `app/gesture.rs`, `app/crop.rs` | the slot, a core draft, calls in flight | start, offer, release, discard, reapply | the draft's calls run in any order | the newest fields are committed once; no draft is left |
| Preview and presentation, `preview/`, `app/preview.rs` | the queue's jobs and tokens, the frame shown | request, cancel, poll, present, refit, stage | proxy and exact phases; frames of older targets | a quiet screen shows what it should |
| Capability panel, `app/capabilities.rs` | a run, a notice, tracked jobs, a poll | run, cancel, allow, deny, poll | round trips answered in any order | a run follows its job |
| Stack, masks, geometry, `editor/plan.rs`, `modules/registry/placement.rs`, `mask/commands.rs`, `modules/transform.rs`, `modules/crop.rs` | a recipe | placement, mask commands, transforms, crop | long sequences of legal edits | the order of stages; names and numbers of masks; a transform turns the crop |
| Presets, `presets/`, `modules/field_patch.rs` | rows, patches | capture, import, export, apply | modules that come and go | a preset carries the look and touches nothing else |
| Spatial rendering, `render/spatial.rs`, `render/context.rs`, `render/window.rs` | tiles, a byte budget of two atomics, a store of estimates | run a chain over tiles, reserve, release, cut a window | halos at edges; threads without a lock; limits | a tile is what the whole frame would be; the budget is kept; a window reads what the whole would |

`PROJECT.json` lists the components with their state of modelling, and under `hazards` every
behaviour found that is hard to test, with the properties that cover it.

## 2. The modules

| Module | What it is |
|---|---|
| `Latest`, `LatestPromise` | `latest.rs`, one action per critical section of each thread; and what a consumer may rely on, which `Latest` implements (`PromiseKept`) |
| `History`, `TwoStacks` | an asset's rows, requests and the cache of heads; and undo and redo as a user knows them, which `History` implements (`IsTwoStacks`) |
| `Drafts` | EXTENDS `History`: the sessions and drafts of clients over it |
| `Artifacts` | the lane, the owner and the worker over one artifact directory |
| `SourceJobs` | the owner's source jobs, the worker, the gate and the waiting clients |
| `EventLog`, `Owner` | the event log; the owner's loop with the table of first answers, watchers and clients. `Sync` uses `EventLog` too |
| `PointWorker` | the point worker's queue and thread |
| `Analyses` | EXTENDS `Latest`: the table of analysis jobs over the worker |
| `ActivityBoard`, `LiveSession` | the board; the session file and its listener |
| `Lanes`, `Resources`, `Settings`, `Transport` | the capability host: a lane's jobs, the resources on disk, settings with secrets, one exchange |
| `Sync`, `Gestures`, `Frames`, `TaskPanel` | the desktop: what it follows, the gesture in hand, frames on their way, a task's panel |
| `Placement`, `Stack`, `MaskTable` | where a layer goes, the recipe under edits, the masks and their components |
| `Orientation`, `Turning`, `FieldPatch`, `Presets` | the eight orientations; transforms and crop of a recipe; patches; the library |
| `TileChain`, `TileBudget`, `Windows` | a chain of units over tiles; the budget; the windows of a proxy |
| `LatestProofs`, `HistoryProofs`, `DesktopProofs`, `DiskProofs`, `SourceJobsProofs`, `CapabilityProofs`, `ServiceProofs`, `PictureProofs` | the theorems (section 4) |
| `MCHistory`, `MCSourceJobs`, `MCService`, `MCCapabilities`, `MCDesktop`, `MCPictures`, `MCProgress` | instances for TLC (section 3) |

Each module's header says which code it models and what it abstracts; every property is preceded by
what it says of the code. Operators whose names begin with `Faulty`, `Only`, `Short`, `Unsorted`,
`Forgetful`, `Careless` and the like, placed before the definition they resemble, are not part of a
model: each is one definition with a plausible bug, and `PROJECT.json` (`mutants`) names the
property that notices it.

Conventions shared by the modules: one action is what one thread does between two points at which
another can act (a message of the owner, a critical section, an update of the desktop, an atomic
operation, a step on the disk); variables under *history* are read by no action; a bound that the
code does not have is a constant named `Max...`, and a limit of the code carries the code's name.

### Latest

`shared` is the mutex-protected `State`; the worker's place in `work` and the job it runs; what the
thread that polls knows. A job is its generation. The active job carries the two tokens
(`superseded`, `abandoned`) and whether the worker has taken it. Waiting on the condition variable is
`asleep`, and `Notify` clears it exactly where the code notifies. Spurious wake-ups happen. The waker
is called outside the mutex, in a step of its own (`CallWaker`). What a job computes is left out: it
hands over some results and then returns one, or none, which is also what a panic amounts to.

### History and Drafts

Each action is one call on the owner thread, and each write is one transaction. A request has an
identity and the revision its client saw, and any message may be handled at any time: that covers
late requests, duplicates, lost answers and clients that race. `mutate`'s order is kept: the stored
answer first (`Fresh`), then the expected revision, then the operation, then rows, answer and cached
head together. A request that is refused, that repeats, or whose transaction fails, leaves at most a
read of the head (`ReadHead`), which may load the cache and evict another. `Reopen` drops the memory
at any point; it covers crashes, because a transaction that has not committed has changed no row.

`Drafts` adds what a client's session holds: a selection (live, or an entry it previews), the draft
with its base revision, and the answer it was last given. A call of a client is a step of the history,
a change of its own session, or both; a conflict is worked out again whenever the draft is read. What
a draft's fields make of a stack is any stack. Named versions take no part in it.

### Artifacts and SourceJobs

In `Artifacts` three threads act. The *lane* runs one task: it creates the directory and its manifest,
marks an artifact live under the lock `OBJECT_DECISIONS`, and settles its file. The *owner* registers
what a task published when the task returns, links artifacts a committed entry names, plans a
collection and posts the plan. The *worker* sweeps with the plan's keep list, judging each file under
the same lock. Writes may fail at any step, tasks and collections may be cancelled, files may be lost,
and the program may stop or crash at any step (`Reopen`).

In `SourceJobs`, `jobs`, `active` and `completed` are the owner's table, its index of jobs that may be
joined, and the ring of ended ones; `cache` is its one original; `inbox` and `queue` are the two
bounded channels; `worker` and `pinned` decide the memory gate (`Held`). A client's request goes
through `stage`: *ask*, *told*, *wait*, *blocked*, *refused* and back to *ask*, as the desktop's
`ready_preview_job` does. Jobs that only read artifacts, collections and the event an import announces
are left out; a decode ends well or badly for reasons of its own.

### Owner and PointWorker

`Owner` handles a call of a client, a finished job, or a disconnect in one action. What a handler does
is its outcome: how many changes it records and whether its answer is remembered. `Announce` wakes
every watcher but the caller's (`notify_watchers`), `Since` answers a cursor with the events it has
not read and whether the log no longer holds some (`EventLog::since`), and `Keep` stores a first
answer and forgets the oldest ones above either bound. In `PointWorker` the owner and the thread meet
at one mutex and one condition variable; the thread is started with the first call and may fail to
start, in which case the queue is answered with the failure. `Retained` is the partition that a
disconnect makes of the queue.

### The others

Their headers are their documentation. `Analyses` runs on the real worker of `Latest` rather than on
its promise. `Resources` and `Settings` let several processes act on the same files, each of which may
die between any two steps on the disk. `Transport` counts time in the slices its blocking calls let
pass and lets a server answer anything. Over plain http a blocking call is one use of the socket; over
https it is a call of the TLS session, which uses the socket as often as its handshake and records
need while nobody looks at the clock or the token (`HeldByTls`; `inner` counts the uses). `Frames` and `Gestures` let the tasks of the desktop answer in
any order. `Stack`, `MaskTable`, `Turning`, `Presets`, `TileChain` and `Windows` are algorithms: their
state is a recipe, a library or a tile in progress, and their properties compare what long sequences of
operations give with a definition that does not know the algorithm.

## 3. The runs

Runs that name a sum (`service`, `capabilities`, `desktop`, `pictures`, `progress`) check several
components in one TLC run: the variable `part` says which component moves in a behaviour, and the
others rest where they begin. The components are not composed by it. They share no state in the code
either, except through the interfaces that their modules model (`Analyses` over `Latest`, `Drafts` over
`History`, `Sync` over `EventLog` are composed for real); a run is as large as the sum of its parts.

| Run | Instance | Properties |
|---|---|---|
| `latest` | room for 2 results, 4 generations, 1 early result per job | `TypeOK`, `LatestSound`, `StartsOnce`, `PromiseKept`, `Progress` |
| `history` | one photograph with 6 requests, 5 entries, 6 moves; or two that share one cached head, with names | `TypeOK`, `TreeSound`, `OncePerRequest`, `Retained`, `IsTwoStacks` |
| `artifacts` | 2 artifacts, a queue of 2 | `TypeOK`, `StoreSound`, `NoGarbageMissed` |
| `source_jobs` | 2 clients, a RAW photo, 2 gains, 4 identities, capacities 1 | `JobsSound`, `NeverSpins` |
| `service` | the owner with a log of 1 event, 2 answers and 3 bytes; analyses in three instances; the board; two processes of a session; panels of one photograph with two round trips in flight and consents revoked, of two with one, and of two with two | `LogAndAnswers`, `AnalysesAnswer`, `BoardTells`, `SessionServed`, `PanelFollows` |
| `capabilities` | a point worker with a queue of 2 and 4 calls; a lane of 2 modules; two resources, with room for one, in one process, and one resource in two; settings of two profiles in two processes, and of one profile with consents in one; an exchange with 4 origins, two of them over TLS with at most 2 uses of the socket in a call, 2 redirects, a deadline of 6 steps of the clock and slices of 2, and bodies of 0, 1 and 3 units | `PointsAnswered`, `LanesHold`, `ResourcesWhole`, `SettingsKept`, `ExchangesBound`, `InstancesKept` |
| `desktop` | two clients' drafts over one photograph; sync, gestures, frames in four situations | `DraftsHonest`, `ScreenFollows`, `GesturesHold`, `FramesTrue` |
| `pictures` | chains over up to four tiles, stacks of eight effects, mask tables, transforms, presets, windows; a budget of 12 bytes and two renders of 5 and 4 tiles of 3 bytes, or one of 1 tile and a query, or a query alone, over 3 by 3 tiles and two segments | `ChainSound`, `ChainDelivers`, `StackInOrder`, `MasksWhole`, `TransformsTurn`, `PresetsCarry`, `BudgetSound`, `WindowsAlike` |
| `progress` | smaller instances of eleven components under fairness | `OwnerProgress`, `DesktopProgress` |
| `artifacts_failed`, `source_jobs_two`, `panel_stuck` | | violations (section 5) |

### Properties

Most are conjunctions, whose parts the modules state and comment one by one.

*Latest.* `LatestSound`: nothing waits behind an idle worker, the worker's job is the active one, no
wake-up is lost, results are ordered, fresh and bounded, tokens mean what the job takes them to mean,
no job vanishes. `StartsOnce`: a job starts at most once and never after its consumer was told it will
not. `PromiseKept`: the whole implements `LatestPromise`. `Progress`: a waiting job starts with no help,
a drop ends the thread, and with a consumer that polls when woken every job ends.

*History.* `TreeSound`: each entry's parent is what was current at its base revision (`UndoTree`), the
redo list is a path down that tree (`RedoIsPath`), the cache is the rows (`HeadsAreRows`).
`OncePerRequest`: every move was made from the head its client had seen, is the only move of its request
and is what the stored answer says. `Retained`: entries, answers and names are never lost or rewritten.
`IsTwoStacks`: with the path of undo parents as the past and the redo list as the future, the history is
two stacks. *Drafts.* `DraftsHonest`: a commit lands only on what its client saw, a conflict is told
truly, and two answers of one session revision are the same but for the conflict.

*Artifacts.* `StoreSound`: what history references is recorded, what is recorded has its file, what a
task published or a client was told of survives any collection, however old its plan.
`NoGarbageMissed`: and yet a collection passes over nothing but what was recorded or published.

*SourceJobs.* `JobsSound`: the types; every job has exactly one task under way; a client joins only work that will
serve it; a blocked client waits for something that will happen; the gate never waits for planes that
only its own progress would release. `NeverSpins`: a client is refused for want of room only while a
job is under way.

*The owner's services.* `LogAndAnswers`: each event is read or announced as missed, exactly one of the
two; a watcher is asleep only if it has read everything others did; a request runs as often as its
answer was forgotten, and once more while it is remembered; the table keeps both bounds and its byte
count. `PointsAnswered`: a call is in one place, answered in order, dropped only for its own client's
leaving or the stop. `AnalysesAnswer`, `BoardTells`, `SessionServed`: see section 1. `PanelFollows`: the run of a task and the
owner's jobs (section 4 says what it does not promise).

*Capabilities.* `LanesHold`, `ResourcesWhole`, `SettingsKept`, `ExchangesBound`; `InstancesKept` is `ResourcesWhole`
of two processes in one root and `SettingsKept` of one process that asks for consents (what
`OneLossIsHarmless` says of one process alone); *desktop:*
`ScreenFollows`, `GesturesHold`, `FramesTrue`; *pictures:* `ChainSound` (every unit finds
its pixels, tile by tile is the frame as a whole, finite, and everything asked for), `ChainDelivers` (a
tile reads at most nine tiles and is paid for away from the edges, a walk over a stage evaluates each tile
once, and the types), `BudgetSound` (the use is what the evaluations have, the peak the most there was, what
runs passes the target by one working set each, tiles in order, and what a query holds, reads and evaluates
again), `StackInOrder`, `MasksWhole`, `TransformsTurn`, `PresetsCarry`, `WindowsAlike`. The comment before
each says what it means.

### Why the bounds are enough

Latest has one active and one waiting job, so three generations give every job, replacement and
result a predecessor and a successor; the fourth lets a cancel (which takes a generation) fall between
them. Five entries and six moves let a branch be abandoned by undo, edited, restored across and redone.
Two assets with one cached head evict at every change of asset. Two artifacts are the smallest number at
which one is being swept while the other is published, and a queue of two lets an old plan wait behind
another. In SourceJobs two clients can share a job, want different developments of one mosaic, or fill
the queue for each other; capacities of one make every channel full at some time. The same holds of the
sums: two actors that can meet, limits of one or two so that each is reached, and one more step than the
limit. A component that would be too large with everything at once has several instances, each with its
own question (three of `Analyses` and of `TaskPanel`, four of `Frames`, two of `Resources` and of `Settings`). A query's capacity is
the 12 tiles that the target has bytes for: what a row of points reads through two segments just fits, and what
a walk over the 9 tiles reads does not, so that tiles are pushed out. That the interesting case does
happen is confirmed by the mutants: each planted bug is found within these bounds.

Symmetry is declared only in runs without liveness, over sets the models never order: photographs in
`history`; clients and gains in `source_jobs`; the two modules, resources and profiles in
`capabilities`. Deadlock is checked in every run: a system that may stop has a step
that says so (`Terminated`, `Done`, `Rest`).

### Fairness

*Latest.* `WorkerFairness`: the thread is scheduled, the mutex is held only briefly, and every run
function returns (the crate's render functions are finite; a panic is caught and counts as a return).
Nothing is asked of the consumer except under `ConsumerFairness`, where it takes a posted signal and
then polls until nothing is left, as the desktop's and the owner's loop do.

`progress` takes weak fairness of the steps of each component's own threads: the source worker and the
owner run while they can, a decode and a preview end, a client that has begun a request goes on with it;
the point worker's thread runs and its start succeeds or fails; the analysis worker and the owner's polls;
a listener and a closing window; a lane and the owner that takes its results; the desktop's tasks end and
their messages are handled; a sending thread; rendering threads. A blocking call of the sending thread is
assumed to return only over plain http, where each use of the socket has a timeout: over TLS a call may go on
for ever, and `RequestEnds` says that a request ends unless one such call never returns. Nobody has to ask, cancel, disconnect or
press anything, no server has to answer, and no swap of an atomic has to succeed. Only one component moves
in a behaviour, so weak fairness of one action per numbered slot (`Fair`) is weak fairness of every
component's own.

`PatientSpec` (`MCSourceJobs`) is for one question alone, whether a request is ever answered: it adds the
kindest environment, in which clients start only while nothing is under way, never give up, go on before
any decode ends, and no decode fails. The answer is no all the same (section 5).

## 4. What is proved

All theorems are for every value of the constants that satisfies the modules' named assumptions and rest
on nothing else. The bounds (`MaxGeneration`, `MaxEntries`, `MaxCalls`, `MaxSequence`...) may be any
numbers, so the theorems hold of behaviours of every length; the limits of the code may be any positive
numbers. `HistoryAssumption` and its like say that the value which stands for none is not one of the
others. `OwnerAssumption` says that requests are records of an identity and an input and that answers
have sizes.

| Module | Theorems | Properties of the runs they state |
|---|---|---|
| `LatestProofs` | `TypeCorrect`, `LatestCorrect` (with `OrderCorrect`, `WorkerCorrect`, `JobsCorrect`, `ResultsCorrect`, `TokensCorrect`, `WakeUpsCorrect`), `StartsCorrect`, `PromiseImplemented` | all but `Progress` |
| `HistoryProofs` | `TypeCorrect`, `TreeCorrect` (with `RedoCorrect`, `UndoTreeCorrect`, `CacheCorrect`), `OnceCorrect` (with `MovesChainCorrect`, `AnswersCorrect`), `RetainedCorrect`, `TwoStacksImplemented` | all |
| `DesktopProofs` | `HistoryImplemented`, `DraftsCorrect`, `GesturesCorrect`, `ScreenCorrect` | `DraftsHonest`, `GesturesHold`, `ScreenFollows` |
| `DiskProofs` | of `Artifacts`: `TypeCorrect`, `StoreCorrect` (with `ReferencesCorrect`, `FilesCorrect`, `PublishedCorrect`, `AnswersCorrect`), `SweepCorrect`; `ResourcesCorrect`; `ExchangeCorrect` | all of `artifacts`; `ResourcesWhole`, `ExchangesBound` |
| `SourceJobsProofs` | `TypeCorrect`, `SoundCorrect` (with `JobsCorrect`, `JoinsCorrect`, `WaitersCorrect`, `GateCorrect`), `NoSpinning` | all |
| `CapabilityProofs` | `PointsCorrect`, `SettingsCorrect`, `LanesCorrect` | `PointsAnswered`, `SettingsKept`, `LanesHold` |
| `ServiceProofs` | `OwnerCorrect`, `SessionCorrect`, `BoardCorrect` | `LogAndAnswers`, `SessionServed`, `BoardTells` |
| `PictureProofs` | `ChainCorrect` (with `NeighboursCorrect`, `TileCorrect`, `FrameCorrect`, `DeliveredCorrect`, `FiniteCorrect`), `ChainTyped`, `BudgetCorrect`, `Associative`, `Undone`, `ActionIsOrientation`, `OneMapping` | `ChainSound`, `BudgetSound`, and the algebra beneath `TransformsTurn` |

**Latest.** The invariant `IInv` adds to the checked properties that nothing is ahead of the generation
counter (`NothingAhead`), that a job not started is newer than any that was (`UnstartedIsNewer`), that the
history variables agree with the places a job can be (`HistoryAgrees`), and that an abandoned job was
cancelled, withdrawn or dropped with the `Latest` (`AbandonedForCause`). `StartsOnce` needs the second:
starting is safe because whatever waits is newer than everything that started. `PromiseKept` is proved
action by action, each mapped to a step of the promise or a stutter.

**History.** The first invariant is that cached heads equal their rows (`HeadsMatch`), that an imported
asset's current entry exists (`Grounded`), and that parents are earlier than their entries (`Earlier`):
each action reads the head through the cache, so nothing about the rows is inductive without `HeadsMatch`.
`OnceCorrect` goes move by move along the log, and needs that an unanswered request has made no entry and
an answer names an entry that exists (`AnswersGrounded`). `TwoStacksImplemented` is the refinement: the
mapping `PathTo`, a recursive function up the tree, is shown to be defined for every tree whose parents
come earlier, to depend only on the entries below its argument, and so to be kept by every append; then an
append is a *do*, an undo pops the past onto the future, a redo pops it back, and every other step
stutters.

**Drafts.** `HistoryImplemented`: each call of a session is a step of `History` or leaves it alone, so
every theorem about `History` holds under any number of sessions. `DraftsCorrect` then needs, per client,
that a draft is overtaken exactly when its asset's revision is past its base (`Based`), that every edit of
a draft was a change of the session (`EditsCounted`), and that what was last answered is still true up to
the conflict (`ReportKept`, `TruthTold`).

**Gestures.** There is at most one request or answer on its way, of the round trip that the draft says is in
flight (`OneRound`): that an answer finds its gesture, and a gesture room, follows. The rest is what a draft
must be to *fit* its gesture (`Fit`): the newest fields are pending, or were sent and are then at the owner or
refused; a draft waits for nothing once its gesture is discarded but for the cancel. One lemma for each
event of the draft says that its result fits; one for each of the two ways an update ends
(`KeepLeaves`, `DriveLeaves`) says that what it sends is the one request. What the owner holds is this
gesture's or nothing (`HeldRight`), whichever of the begin and a displaced brush's cancel is served first.

**Sync.** That an idle screen is up to date is not inductive: `SyncInv` says where what is newer at the owner
still is. If its revision is past the screen's, a signal or a wanted poll asks for it, a poll on its way has
read it or is yet to, a command's answer brings it, a failed read lost it, or the desktop is left busy, which
section 5 reports (`RevisionComes`; so the library, `LibraryComes`). A poll that read no state may still move the cursor: then every
event it met moved another value, or was the desktop's own and already on the screen (`RingShown`), for a
request enters the ring only with the answer that shows it, and none whose answer is on its way is in it
(`OnItsWay`). With a gap in the log it reads everything. What was read earlier than what is shown is
superseded, and then neither the cursor nor the ring moves (`PollRead`). Each message ends with
`sync_when_wanted`, so one lemma says what a message leaves (`Afterwards`) and each handler adds what it
changed.

**Artifacts.** The properties are not inductive by themselves. `Marked` says that what a task has published
is live, and that the file being settled is live and not being removed: the lock's work. `Guarded` says
that every recorded artifact is in the keep list of every collection planned or running, or live, and that
the file being removed is neither: why an old plan is safe.

**SourceJobs.** A join needs that a job nobody stopped is wanted by somebody (`Wanted`), the gate that
planes are kept only while no job can be joined (`PlanesAlone`), the table that only ended jobs leave it
(`CompletedEnded`), and the owner that it never hears of the start of a job that has ended
(`StartedLive`).

**Owner.** The invariant adds that the events held are the last ones and numbered without a break
(`LogOk`), which is what makes the gap's comparison with the oldest one right, also for an empty log and for a
cursor one behind; what watchers were notified of; and that every answer in the table is of a request and
its bytes are summed (`TableOk`). `After`, `BytesOf` and `Trimmed` are recursive functions; the lemma
`Recursion` proves from `Induction` that such a function exists and satisfies its equation for every
length, and the facts about each follow: what `After` collects, that a sum changes by what is appended or
dropped, that trimming ends within both bounds and forgets from the front.

**Live session.** Only the process that owns the catalog is alive (`OneOwner`), and its listener, its flag
and its file follow its life (`Lives`). A backlog holds connections that wait for its own listener, each
once, and the waker only after the flag (`InLine`); the one in hand is out of the backlog (`InHand`), so it
is admitted once. Then the counter is the connections served and the one being turned away (`Counted`),
whichever of the two ends first.

**Activity board.** An identity is given once (`Numbered`), so an end finds its own entry and no other, and
work that began untracked takes none away. That `recent` is what ended last and ran long goes one end at a
time along the recursive function `LongOf`.

**PointWorker.** The four places of a call (waiting, in hand, answered, dropped) partition the calls
planned (`Places`, `AnsweredOnce`); the queue is in the order of planning, behind the call in hand, which
is behind all that were evaluated (`InLine`); the thread evaluates exactly while it has a call in hand
(`Phases`). `Retained` keeps that order whatever a disconnect takes out.

**Lanes.** A job is in one place: in the queue, the one the lane runs, or in the ring of finished records
(`Ring`, `RunsOne`, `InOrder`); the one that runs is on its way to the thread, at it, or on its way back
(`Located`, `Doing`). The queue is in the order of the jobs' numbers, so what runs is older than everything
that waits. Each operation of the table (`Submitted`, `Dropped`, `Asked`, `Completed`, `Dispatched`) has a
lemma that says what it keeps and that it never changes how a job ended (`Continues`). `ModuleFits` relates
a module to the jobs about it that are not over: an active module is loaded and no activation or release of
it waits; the last of those that wait is the activation it is waiting for; at most one is a release; and its
tasks, for which it is loaded, come before all of them in line. That is why a task finds its module loaded: whatever unloads
it is behind the task in the queue. It also bounds the queue, which a release may enter when it is full.

**Settings.** Under the lock the file is what its holder has read (`InHandOf`), and a removal has already
taken its secrets (`Cleared`); a revision is used by a request that was counted (`Accounted`). With one
process, a consent was passed by as many changes of its endpoint as lost their revocation, and by the one
whose revocation comes next (`Passed`). One change leaves an endpoint other than the one consented to, so
it takes two to come back to it.

**Resources.** With any number of processes in one root little is kept but identities: each job has a
staging directory of its own (`OwnIds`), another process can only empty it or take it away, so what a lane
has verified it finds whole or not at all (`Fits`), and a marker, which it writes after it has moved that
directory into place, stands for a whole resource. The rest is said of one process alone
(`ResourcesAlone`), where every step finds exactly what the step before left: what is staged
(`StagesAlone`), what is published and that there is room for it (`PublishesAlone`), and what an answer
says (`AnswersAlone`). The quota holds because the check counts every marked resource but the one it is
about to replace, and nothing is marked between the check and the marker: the same count, plus one, is
carried through each step of the publish. Deleting and replacing go entry by entry, and are taken off the
marker first; the induction is over steps, never over entries. `LostInv` counts what a failure leaves in
the way of a later job: markers whose file is gone (`Lost`), but for the directory the lane is itself taking
apart (`Busy`). A crash or a failed operation adds at most one (`LosesOne`), nothing else adds any
(`LosesNone`), so an install refused for the quota counted at most that many besides what is installed
(`LeftoversBounded`).

**Transport.** `Times` gives each step its own bound: a blocked call began before the deadline and within
the idle time, so it overshoots by at most a slice for each time it used the socket (`OneCall`): one over
plain http, any number over TLS, since `MaxInner` may be any number. A cancel is at most the lookup and
the attempts already made behind, which is a sum over the addresses left and the reason why their number is
bounded. `Directed` says where the request may go next and with what: the class of the first origin, TLS if
that had it, the header only to the first origin; it is what is used at the next connection, and `Logged`
says that it was so at every earlier one. That a dropped header stays dropped needs that the header still
there means it was sent at every hop so far. `Counted` says that nothing is received before the body and
that what was received is within the limit.

**Pictures.** The invariant says of the tile being run that its rectangle covers the tile grown by the
halos still to come (clipped to the stage), and that every value in it comes from the pixels within the
halos already spent; the rest is arithmetic of spans. That what was asked for is delivered needs the
division into tiles: `MultiplesApart` and `TileOfPixel` give every pixel of the stage one tile that it is in
(`TilesCover`), so the tiles left and the pixels written are together the stage, and disjoint. That nothing
written is not finite needs that a value which is not finite stops the chain that reads it, and that no
tile is copied past the units unless its input is finite and the mask leaves it alone. The orientations are proved to be a group on which
the four actions act, and the mapping that a composed orientation compiles to is the composition of the
mappings, for every width and height.

**Budget.** What the evaluations have is a sum over a set of any size, so `Together` counts bytes: the sum is
the cardinality of the set of numbered bytes of each evaluation, and one step changes the part of one of them
(`Balanced`). `BudgetInv` says where each evaluation stands. A reservation is of the right bytes and is
between its read, its swap and its raise (`AskSound`); a swap that succeeds saw the use as it is, so what it
adds fits the target or is one tile, which is the working set it may pass by (`Paced`). Between a swap
and its raise the peak may be behind: then somebody is about to raise it to the highest use (`Peaks`), and the
raise takes the larger, so no order of raises loses it. A render has written the tiles before its batch
(`RenderSound`). A query's stack of tiles goes down one segment at a time, so it is no deeper than the
segments, and none of it is held; what it holds repeats nothing and keeps the capacity; everything it reads is in
the cone of its points (`QuerySoundOf`), whose size `ConeSize` bounds. That a tile is evaluated once needs that,
as long as what was evaluated fits the capacity, nothing was ever pushed out: everything evaluated is held. The
assumption is on the shape of the constants: the counts are positive numbers, the target is a number, the
evaluations are finitely many, and points are on the stage.

*Recursion.* The prover has no induction rule it can apply. `Induction` (in `HistoryProofs`,
`CapabilityProofs` and `ServiceProofs`) is therefore proved from the pigeonhole principle of the library of
finite sets: a counterexample and its predecessors would be a finite set with an injection into a smaller one.
Properties of recursive functions are proved with it; that is why these modules write recursion as
functions and use no fold.

**Only model-checked.**

* Liveness (`Progress`, `OwnerProgress`, `DesktopProgress`) and everything that speaks of ENABLED:
  temporal properties under fairness are beyond the prover.
* Of `ChainDelivers`: the count of tiles that an input crosses (`NineTiles`, where halos are no longer than
  a side) and its price (`PaidWithinEdges`), sums over sets of tiles; and `WalkedOnce`, that a walk over a stage
  evaluates each tile once with room for four rows of them: it depends on the order in which a whole walk reads
  (which tile is the least recently read at every point of it), an induction over the walk. The types are
  proved (`ChainTyped`).
* `StackInOrder`, `MasksWhole`, `PresetsCarry`, `WindowsAlike`, and of `TransformsTurn` what is said of
  crops: algorithms over sequences of layers or segments, each a separate induction, which TLC evaluates
  over every bounded input instead.
* `InstancesKept`: it is `ResourcesWhole` and `SettingsKept` of two more instances, and `ResourcesCorrect`
  and `SettingsCorrect` hold for those values of the constants as for any.
* `AnalysesAnswer`: three instances over one set of variables, on the worker of `Latest`; `FramesTrue`, which
  speaks of quiet states that are reached, not kept, and has no small inductive form.
* `PanelFollows`: checked of three instances, among them two photographs whose round trips overlap. It
  promises that a job the owner has live is polled by the run that waits for it (`LiveFollowed`), that an answer
  with a job's record settles the run or leaves the job to the poll (`AnswersFollow`), and that an end shown is
  the job's own (`EndsTrue`). It does not promise that a run has a job of its own photograph, nor that
  it takes an end that another round trip read: the code does neither (section 5).

## 5. Disagreements found

Three are shown by runs that find the violation:

* **A failed task may leave a row behind** (`artifacts_failed`). `capabilities/host/tasks.rs:425` says that
  a failed or cancelled task records nothing. `task_result` records each published artifact in its own
  transaction and stops at the first that fails (line 444), so the ones before it stay recorded. The next
  process's collection removes such a row.
* **Two clients that want different developments of one RAW photograph may starve each other**
  (`source_jobs_two`). When a development ends, `source_complete` installs its planes and at once evicts
  them if any other source job can be joined (`api/owner.rs:1549`). The client that waited then asks again,
  finds no planes, and queues the same development, which is now the active job that makes the *other*
  client's completion evict. Both are prompt, no decode fails, nobody cancels, and neither is ever answered.
  `docs/user-guide.md:381` and `docs/design/modules-and-api.md:136` tell a client to wait for the job and
  ask again.
* **A run of a task waits for ever** (`panel_stuck`). `capability_answered` tracks every job the module's
  status lists, also as finished, without settling the run that waits for it
  (`app/capabilities.rs:1000`); the poll then leaves that job out. The comment at line 1112 says
  that a terminal status makes the task's run take its result or its error.

The following were met while modelling. The models do what the code does, and the properties are stated so
that they hold of it; no run is kept for them.

* *Sync.* A superseded `Refreshed` returns before `busy` is cleared (`app/sync.rs:92`), and what overtook it
  may clear nothing either. `VersionsLoaded` shows whatever list arrives last (`app/history.rs:28`). A
  read-back of versions or presets that fails asks for no poll (`app/history.rs:32`, `app/presets.rs:243`),
  against `docs/design/develop-workspace.md:268`.
* *Gestures.* `open_draft` drops the task that is the reapply's call (`app/crop.rs:442`), so a crop begun
  over a moved asset waits for ever. A revision that arrives during a reapply is not marked as a conflict
  (`app/draft.rs:294`).
* *Frames.* An open that fails leaves a stopped exact phase nobody restarts (`app/sync.rs:254`); any exact
  frame completes a pending open (`app/preview.rs:1123`); a second input stage forgets the first without
  stopping it, and its frame is presented as the photograph (`app/crop.rs:197`).
* *Panel.* An answer sets the phase of whatever run the task has, also of another photograph
  (`app/capabilities.rs:1047`), against "a task run's result belongs to the asset it ran for" (line 504); a declined consent never reaches the branch that would end the run (line 1013).
* *Analyses.* A job whose worker panics stays pending until it is cancelled (`analysis/jobs.rs:35`).
* *Lanes.* An activation superseded while it runs may leave what it loaded with the module inactive
  (`capabilities/host/activation.rs:391`), against lines 80-81.
* *Resources.* A crash between the rename and the marker leaves the version's directory, not only a staging
  one (`capabilities/resources.rs:612`, against 11-12); `clear_staging` may remove what another process is
  downloading (`capabilities/resources.rs:408`). A crash or a failed
  removal while a version is replaced or undone (whose result is ignored, `let _ = fs::remove_dir_all`, lines
  632-634) may leave a marker without its file. Its resource is not installed, but `used_bytes` reads only markers (217-243) and goes on counting
  it: other installs are refused for the quota until that resource is installed again or removed.
* *Transport.* "The connection's reads and writes, each bounded by a slice so a cancel and the deadlines are
  checked between them" (`capabilities/transport/exchange.rs:3-5`, also `transport/mod.rs:298-299`, `tls.rs:62-63`) is
  so of the socket, not of the exchange's calls: over https one `read`, `write` or `flush` is rustls's, which
  repeats reads and writes of the socket until its handshake or a record is done, with no `wait()` between
  (`tls.rs:65-72`). A server that keeps sending without completing anything holds the request past its deadline, idle
  time and cancel. The test of a server that trickles (`transport/tests.rs:671`) uses plain http.
* *Windows.* "An operation that prepares a global estimate is handed the estimate prepared for the **exact**
  stage" (`render/window.rs:36-37`) is not so of a window at the origin: line 252 compares it with the stage as earlier segments have already cut it (290-291),
  takes it for the whole and hands nothing, so the operation reduces its window.
* *Settings.* A revocation that fails may leave a consent that the settings come to hold again
  (`capabilities/host.rs:525`); a write that fails after its rename is answered as failed and is in force
  (`atomic_file.rs:79`).
* *Drafts.* A conflict changes a session without touching its revision (`api/methods.rs:1594`, against
  `api/mod.rs:245`); a client that previews an entry may commit its draft (`api/methods.rs:1733`, against
  `docs/specs/edit-history.md:23`).
* *Activity.* Two threads that end together can leave the recent list out of order (`activity.rs:343`).
* *Masks.* A label can name two components over time, since ordinals begin again with every mask
  (`model.rs:385`, against 340).
* *Budget.* A point query holds a reservation for each tile, so the overshoot is not at most one working set
  per evaluation (`render/context.rs:179`). *Tile chains.* Near an edge a chain may hold more than
  `worst_case_working_set` (`render/spatial.rs:165`).
* *Presets.* A preset that names a field of a neutral layer loses it (`modules/field_patch.rs:488`); an
  export may not be importable by the program that wrote it (`presets/library.rs:462`).
* *Live session.* One accept that fails ends the accept loop, and the session file stays
  (`api/transport.rs:63`).

## 6. What is not modelled

* Rendering, colour, rasterization of masks, RAW decoding and the analysis reducers are numerical: a finite
  model tells none of their values apart. Parsing, framing, file formats, FFI, the API's method tables and
  the tests are not modelled; they are most of the repository's lines, so the map covers a small share of
  them. The desktop's widgets and view state are left out, except where they carry a protocol.
* SQLite's durability is taken as given: a committed transaction survives. Crashes are of processes; a power
  loss that undoes unsynced writes is not modelled. Two catalogs that claim one artifact root at the same
  time (`artifacts/store.rs:287`) are not covered.
* *Drafts:* named versions, which fields and targets a draft accepts. *Turning:* straightening, the fit to a
  ratio and the proxy's second rounding. *MaskTable:* a mask's return with a restored stack. *Stack:* the
  compile of the whole stack.
* *Frames:* the preview of a historical entry, the mark that an update is on its way, evidence runs, the
  mask overlay, a slider's reapply; an open begins only with an empty gesture slot; an update takes one
  result. *Gestures:* what a gesture draws.
* *TileBudget:* the scratch budget of rows, the globals a query resolves for its first tile, `set_target`
  and `reset_peak`. *Windows:* rotation by the 3-4-5 triangle keeps the arithmetic exact, so what `TAP_MARGIN`
  is for does not show. *TileChain:* a unit is the set of pixels it reads.
* *Presets:* Lightroom's parsers, reports, the records' times, masked layers; only the last export is kept as
  a file.
* *Transport:* of a TLS session, only how often a call uses the socket; TLC stops counting at `MaxInner`.
  Address ranges, URLs and heads are classes.
  *LiveSession:* the token and the lines of a connection, a half-written session file, a panic of a serving
  thread. *TaskPanel:* the limit of tracked jobs, settings, resources and activation; a tracked job is not
  forgotten between an answer and the read of its job.
* *Owner:* what a handler changes is its outcome. *Lanes:* scopes and denials of grants. *Resources:* consent
  of a download. *Settings:* validation, schema versions, redaction.
* The runs do not reach: in `BudgetSound`, a query whose tile fails, the eviction of a render's store and
  the floor of one tile; in `AnalysesAnswer`, the job of a worker that panics (section 5); in `SettingsKept`,
  consents, which `InstancesKept` has.

## 7. What is left

To model: the claim of an artifact root by several writers, as the precondition of `Artifacts`.
