------------------------------- MODULE Frames -------------------------------
(***************************************************************************)
(* How rendered frames reach the desktop's canvas: the preview queue and   *)
(* its worker (luxforge-core, preview/queue.rs, preview/worker.rs), and    *)
(* the desktop that asks for frames and presents them (luxforge-app,       *)
(* app/preview.rs and what of app/sync.rs, app/crop.rs and app/gesture.rs  *)
(* asks for a frame or stops one).                                         *)
(*                                                                         *)
(* A job renders a display-size proxy first, when it is asked for bounds,  *)
(* and then the exact frame.  A newer job stops the exact phase of an      *)
(* older one and nothing else; a cancel stops both and raises the floor.   *)
(* The desktop presents what is not older than what it shows.  The crop    *)
(* frame's input stage is a job of the same queue that shows a part of the *)
(* stack.                                                                  *)
(*                                                                         *)
(* An entry is a number, a newer one being larger; a draft is the number   *)
(* of the `draft.set` it was rendered from, 0 for the committed state.     *)
(* A size stands for the bounds a frame is wanted in, and 0 for the exact  *)
(* frame.  The historical preview and what a frame shows are left out, and *)
(* a slider gesture whose asset moved can only be discarded here.          *)
(*                                                                         *)
(* An update is one action.  What every update ends with (update_inner) is *)
(* part of each.  The operators named Faulty... are mistakes the code      *)
(* avoids; no action uses them.                                            *)
(***************************************************************************)
EXTENDS Integers, Sequences

CONSTANTS
    Kinds,           \* the gestures there are
    Sizes,           \* what a view may want
    MaxEntries,      \* bound: entries of the photograph
    MaxDrafts,       \* bound: accepted `draft.set` calls
    MaxGenerations,  \* bound: generations of the queue
    MaxAsked,        \* bound: frames asked of the owner at a time
    Failures,        \* what may fail: a render, an answer, an open, a begin
    Again            \* a crop stage may be asked for while one is awaited

FramesAssumption ==
    /\ Kinds \subseteq {"slider", "crop"}
    /\ Sizes \subseteq Nat /\ 0 \in Sizes /\ Sizes # {0}
    /\ MaxEntries \in Nat \ {0} /\ MaxDrafts \in Nat
    /\ MaxGenerations \in Nat \ {0} /\ MaxAsked \in Nat
    /\ Failures \subseteq {"render", "answer", "open", "begin"}
    /\ Again \in BOOLEAN

WaitingResults == 2

Entries == 1 .. MaxEntries

Jobs == [gen : 0 .. MaxGenerations, whole : BOOLEAN, entry : 0 .. MaxEntries,
         draft : 0 .. MaxDrafts, size : Sizes]

NoJob == [gen |-> 0, whole |-> TRUE, entry |-> 0, draft |-> 0, size |-> 0]

NoFrame == [job |-> NoJob, proxy |-> FALSE]

Nothing == [entry |-> 0, draft |-> 0]

NoCrop == [awaits |-> FALSE, base |-> 0, frame |-> FALSE, gen |-> 0,
           moved |-> FALSE]

VARIABLES
    queue,    \* generation, floor, active and pending job, rendering, results
    shown,    \* the photograph on the canvas, and what the desktop holds of it
    view,     \* what the desktop wants to show
    gesture,  \* the gesture in the slot: none, slider, crop, closing
    begun,    \* its `draft.begin` has been answered
    drafted,  \* it has an accepted `draft.set`
    drafts,   \* accepted `draft.set` calls
    crop,     \* the crop gesture
    asked,    \* current_preview tasks to be answered, by entry
    reseed,   \* the entry read back for the closing gesture, 0 for none
    stages,   \* crop_preview_task tasks to be answered, by entry
    opening   \* a file is being opened

vars == <<queue, shown, view, gesture, begun, drafted, drafts, crop, asked,
          reseed, stages, opening>>

-----------------------------------------------------------------------------
\* The queue.

Busy(q) == q.active # NoJob \/ q.pending # NoJob \/ q.results # <<>>

\* The tokens of the running job.
Superseded(q) == q.active.gen < q.generation
Abandoned(q) == q.active.gen <= q.floor

Job(entry, draft) == [NoJob EXCEPT !.entry = entry, !.draft = draft]

Requested(q, job, size) ==
    LET next == [job EXCEPT !.gen = q.generation + 1, !.size = size]
    IN IF q.active = NoJob
       THEN [q EXCEPT !.generation = @ + 1, !.active = next,
                      !.rendering = "proxy"]
       ELSE [q EXCEPT !.generation = @ + 1, !.pending = next]

\* cancel: no result of what was asked before is ever handed over.
Stopped(q) ==
    [q EXCEPT !.generation = @ + 1, !.floor = q.generation + 1,
              !.pending = NoJob, !.results = <<>>]

\* The job of the worker has ended: it takes the waiting one by itself.
Ended(q) ==
    [q EXCEPT !.active = q.pending, !.pending = NoJob, !.rendering = "proxy"]

Room == Len(queue.results) < WaitingResults

Kept(q, phase, outcome) ==
    IF Abandoned(q) THEN q
    ELSE [q EXCEPT !.results =
              Append(@, [job |-> q.active, phase |-> phase,
                         outcome |-> outcome])]

\* The proxy phase: only for the whole stack in bounds.  It is skipped
\* without a word when it is declined or fails.
Proxy ==
    /\ queue.active # NoJob /\ queue.rendering = "proxy"
    /\ \/ /\ queue.active.size # 0 /\ Room
          /\ queue' = IF Abandoned(queue) THEN Ended(queue)
                      ELSE [Kept(queue, "proxy", "plain")
                                EXCEPT !.rendering = "exact"]
       \/ queue' = [queue EXCEPT !.rendering = "exact"]
    /\ UNCHANGED <<shown, view, gesture, begun, drafted, drafts, crop, asked,
                   reseed, stages, opening>>

\* A drafted frame may approximate the white balance, and is not reduced
\* then.  A job that saw its token in time carries no frame.
Outcomes(q) ==
    {"reduced"}
    \union (IF q.active.draft # 0 THEN {"rough"} ELSE {})
    \union (IF ~q.active.whole THEN {"plain"} ELSE {})
    \union (IF "render" \in Failures THEN {"plain", "failed"} ELSE {})
    \union (IF Superseded(q) THEN {"cancelled"} ELSE {})

Exact ==
    /\ queue.active # NoJob /\ queue.rendering = "exact" /\ Room
    /\ \E outcome \in Outcomes(queue) :
           /\ queue.active.whole \/ outcome # "reduced"
           /\ queue' = Ended(Kept(queue, "exact", outcome))
    /\ UNCHANGED <<shown, view, gesture, begun, drafted, drafts, crop, asked,
                   reseed, stages, opening>>

-----------------------------------------------------------------------------
\* The canvas.

\* present: of a frame that was rendered, or of one that was retained
\* (hand_retained), which keeps the name of what is on screen.
Presented(s, job, proxy) ==
    [s EXCEPT !.frame = [job |-> job, proxy |-> proxy],
              !.gen = job.gen,
              !.size = IF job.gen = s.gen THEN @ ELSE job.size,
              !.refit = FALSE, !.error = Nothing,
              !.held = IF proxy /\ s.pending THEN job.gen ELSE 0,
              !.pending = proxy /\ @]

Named(s, job) == [s EXCEPT !.entry = job.entry, !.draft = job.draft]

\* present_retained, under what the view wants now: only frames of the
\* generation on screen.
Retained(s, size) ==
    IF s.gen = 0 \/ (size # 0) = s.frame.proxy \/ s.entry = 0 THEN s
    ELSE IF size # 0
    THEN IF s.proxy.gen = s.gen THEN Presented(s, s.proxy, TRUE) ELSE s
    ELSE IF s.raster.gen = s.gen THEN Presented(s, s.raster, FALSE) ELSE s

Reduced(s, r) ==
    [s EXCEPT !.raster = r.job,
              !.analysis = CASE r.outcome = "reduced" -> r.job.gen
                             [] r.outcome = "rough" -> @
                             [] r.outcome = "plain" -> 0]

Failure(r) == [entry |-> r.job.entry, draft |-> r.job.draft]

Withdrawn(s) ==
    [s EXCEPT !.frame = NoFrame, !.proxy = NoJob, !.raster = NoJob,
              !.analysis = 0, !.entry = 0, !.draft = 0, !.held = 0]

\* preview_failed: only a frame of the target that failed stays.
Failed(s, r) ==
    LET told == [s EXCEPT !.refit = FALSE, !.pending = FALSE,
                          !.error = Failure(r)]
    IN IF s.entry = r.job.entry /\ s.draft = r.job.draft THEN told
       ELSE Withdrawn(told)

FaultyAdopts(s, r, size) ==
    r.phase = "exact" /\ r.job.gen = s.gen /\ s.frame.proxy

\* The exact phase behind a proxy that is on screen and wanted there.
Adopts(s, r, size) ==
    r.phase = "exact" /\ r.job.gen = s.gen /\ s.frame.proxy /\ size # 0

\* release_held: the open a proxy on screen was holding back is over.
Released(s, r) ==
    IF s.held = r.job.gen THEN [s EXCEPT !.held = 0, !.pending = FALSE] ELSE s

Newer(s, r) == r.job.gen >= s.gen

Arrived(s, r, size) ==
    IF ~Newer(s, r) THEN s
    ELSE IF r.outcome = "failed" THEN Failed(s, r)
    ELSE IF Adopts(s, r, size) THEN Released(Reduced(s, r), r)
    ELSE IF r.phase = "proxy"
    THEN Retained([Named(Presented(s, r.job, TRUE), r.job)
                      EXCEPT !.proxy = r.job], size)
    ELSE Retained(Reduced(Named(Presented(s, r.job, FALSE), r.job), r), size)
-----------------------------------------------------------------------------
\* The end of an update.  A refit is asked for when the proxy on screen
\* has other bounds than the view and no gesture is in the way; a crop
\* gesture with neither a frame nor a stage on its way is discarded.

Ask(bag, entry) == [bag EXCEPT ![entry] = @ + 1]

Refits(s, v, held) ==
    /\ held = "none"
    /\ s.gen # 0 /\ s.frame.proxy /\ ~s.refit
    /\ v.size # 0 /\ s.size # v.size

Refitted(s, v, held, bag) ==
    IF Refits(s, v, held)
    THEN /\ shown' = [s EXCEPT !.refit = TRUE]
         /\ asked' = Ask(bag, v.entry)
    ELSE shown' = s /\ asked' = bag

\* A discarded gesture: the committed frame is read back behind its
\* `draft.cancel`, which waits for the answer to its `draft.begin`.
Closes(v) ==
    /\ gesture' = "closing"
    /\ reseed' = IF begun THEN v.entry ELSE 0

\* end_crop_view: a stage the queue holds is stopped.
EndCropView(c, q, v) ==
    /\ crop' = NoCrop
    /\ IF c.gen # 0
       THEN queue' = Stopped(q)
       ELSE queue' = q
    /\ view' = v

\* What every update ends with.
Ends(s, v, q, c, held, bag) ==
    /\ Refitted(s, v, held, bag)
    /\ IF held = "crop" /\ ~c.awaits /\ ~c.frame
       THEN Closes(v) /\ EndCropView(c, q, v)
       ELSE gesture' = held /\ crop' = c /\ queue' = q /\ view' = v
            /\ reseed' = IF held = "closing" THEN reseed ELSE 0

\* drop_crop_stage: a reapply keeps its frame.
Lost(c) == [c EXCEPT !.gen = 0, !.awaits = FALSE]

Replaced(q, c) ==
    IF q.active # NoJob /\ q.pending # NoJob /\ q.pending.gen = c.gen
       /\ c.awaits
    THEN Lost(c) ELSE c

CanRequest == queue.generation < MaxGenerations

\* A frame of the displayed state is requested.
AsksFor(v, draft, c, held, bag) ==
    /\ CanRequest
    /\ Ends(shown, v, Requested(queue, Job(v.entry, draft), v.size),
            Replaced(queue, c), held, bag)

-----------------------------------------------------------------------------
\* One result taken up by an update.

TakeResult ==
    LET r == Head(queue.results)
        q == [queue EXCEPT !.results = Tail(@)]
        stage == r.job.gen = crop.gen
    IN /\ queue.results # <<>>
       /\ \/ /\ stage /\ r.outcome \in {"cancelled", "failed"}
             /\ Ends(shown, view, q, IF crop.awaits THEN Lost(crop) ELSE crop,
                     gesture, asked)
          \/ /\ stage /\ r.outcome \notin {"cancelled", "failed"}
             /\ Ends(shown, view, q,
                     [crop EXCEPT !.awaits = FALSE, !.frame = @ \/ crop.awaits],
                     gesture, asked)
          \/ /\ ~stage
             /\ Ends(IF r.outcome = "cancelled" THEN shown
                     ELSE Arrived(shown, r, view.size),
                     view, q, crop, gesture, asked)
       /\ UNCHANGED <<begun, drafted, drafts, stages, opening>>

\* Loaded: a frame asked of the owner.  One planned from an entry that is
\* not the current one any more is dropped.
Loaded(e, held, bag) ==
    /\ \/ e = view.entry /\ AsksFor(view, 0, crop, held, bag)
       \/ /\ e # view.entry \/ "answer" \in Failures
          /\ Ends(shown, view, queue, crop, held, bag)
    /\ UNCHANGED <<begun, drafted, drafts, stages, opening>>

TakeAnswer ==
    \E e \in Entries :
        asked[e] > 0 /\ Loaded(e, gesture, [asked EXCEPT ![e] = @ - 1])

\* draft_cancelled: the closing gesture is over, and its frame is taken.
TakeReseed == reseed # 0 /\ Loaded(reseed, "none", asked)

\* PreviewReady: the crop's input stage is planned, from a stack that is
\* the current one still or not.
TakeStage ==
    \E e \in Entries :
        LET current == crop.awaits /\ e = view.entry /\ e = crop.base
            job == [Job(e, 0) EXCEPT !.whole = FALSE]
        IN /\ stages[e] > 0
           /\ stages' = [stages EXCEPT ![e] = @ - 1]
           /\ \/ /\ current /\ CanRequest
                 /\ Ends(shown, view, Requested(queue, job, 0),
                         [crop EXCEPT !.gen = queue.generation + 1],
                         gesture, asked)
              \/ /\ ~current
                 /\ Ends(shown, view, queue,
                         IF crop.awaits THEN Lost(crop) ELSE crop,
                         gesture, asked)
              \/ /\ "answer" \in Failures
                 /\ Ends(shown, view, queue, Lost(crop), gesture, asked)
           /\ UNCHANGED <<begun, drafted, drafts, opening>>

-----------------------------------------------------------------------------
\* The state and the view.

\* A refresh shows another entry: this client's command, or another's.
Accept ==
    /\ ~opening
    /\ view.entry < MaxEntries
    /\ AsksFor([view EXCEPT !.entry = @ + 1], 0, [crop EXCEPT !.moved = gesture # "none"],
                gesture, asked)
    /\ UNCHANGED <<begun, drafted, drafts, stages, opening>>

\* The window, a panel or the display scale changes the bounds.
Resize ==
    \E size \in Sizes \ {0, view.size} :
        /\ view.size # 0
        /\ Ends(shown, [view EXCEPT !.size = size], queue, crop, gesture,
                asked)
        /\ UNCHANGED <<begun, drafted, drafts, stages, opening>>

\* zoom_changed: a frame is asked for only when the view crosses to a
\* proxy that was never rendered.
Zoom ==
    \E size \in Sizes \ {view.size} :
        LET v == [view EXCEPT !.size = size]
            stays == \/ shown.gen = 0 \/ (size # 0) = shown.frame.proxy
                     \/ shown.frame = NoFrame /\ shown.error # Nothing
            missing == size # 0 /\ shown.proxy.gen # shown.gen
        IN /\ asked[view.entry] < MaxAsked
           /\ Ends(IF stays THEN shown ELSE Retained(shown, size), v, queue,
                   crop, gesture,
                   IF ~stays /\ missing THEN Ask(asked, view.entry)
                   ELSE asked)
           /\ UNCHANGED <<begun, drafted, drafts, stages, opening>>

\* open_queued: what is in flight must not become the image of the open.
Open ==
    /\ ~opening /\ gesture = "none" /\ CanRequest
    /\ view.entry < MaxEntries
    /\ opening' = TRUE
    /\ Ends([shown EXCEPT !.pending = TRUE], view, Stopped(queue), crop,
            gesture, asked)
    /\ UNCHANGED <<begun, drafted, drafts, stages>>

Opened ==
    /\ opening
    /\ opening' = FALSE
    /\ AsksFor([view EXCEPT !.entry = @ + 1], 0, crop, gesture, asked)
    /\ UNCHANGED <<begun, drafted, drafts, stages>>

NotOpened ==
    /\ opening /\ "open" \in Failures
    /\ opening' = FALSE
    /\ Ends([shown EXCEPT !.pending = FALSE], view, queue, crop, gesture,
            asked)
    /\ UNCHANGED <<begun, drafted, drafts, stages>>

-----------------------------------------------------------------------------
\* Gestures.

\* The slot is empty, and a crop's view with it.
Leaves(bag) ==
    /\ crop.gen # 0 => CanRequest
    /\ EndCropView(crop, queue, view)
    /\ gesture' = "none" /\ reseed' = 0
    /\ Refitted(shown, view, "none", bag)

Begin(kind) ==
    /\ gesture = "none" /\ ~opening
    /\ drafts < MaxDrafts
    /\ begun' = FALSE /\ drafted' = FALSE
    /\ \/ /\ kind = "slider"
          /\ Ends(shown, view, queue, crop, kind, asked)
          /\ UNCHANGED stages
       \/ /\ kind = "crop"
          /\ Again \/ \A e \in Entries : stages[e] = 0
          /\ stages[view.entry] < MaxAsked
          /\ stages' = Ask(stages, view.entry)
          /\ Ends(shown, view, queue,
                  [NoCrop EXCEPT !.awaits = TRUE, !.base = view.entry],
                  kind, asked)
    /\ UNCHANGED <<drafts, opening>>

\* `draft.begin` is answered: a gesture discarded meanwhile is cancelled.
Begun ==
    /\ gesture # "none" /\ ~begun
    /\ begun' = TRUE
    /\ reseed' = IF gesture = "closing" THEN view.entry ELSE 0
    /\ UNCHANGED <<queue, shown, view, gesture, drafted, drafts, crop, asked,
                   stages, opening>>

\* `draft.begin` is refused: end_gesture.
NotBegun ==
    /\ gesture # "none" /\ ~begun
    /\ "begin" \in Failures
    /\ Leaves(asked)
    /\ UNCHANGED <<begun, drafted, drafts, stages, opening>>

\* An accepted `draft.set` of a slider and the preview of its fields; a
\* crop frame is drawn by the desktop.
Draft ==
    /\ gesture = "slider" /\ begun /\ ~crop.moved
    /\ drafts < MaxDrafts
    /\ drafts' = drafts + 1
    /\ drafted' = TRUE
    /\ AsksFor(view, drafts + 1, crop, gesture, asked)
    /\ UNCHANGED <<begun, stages, opening>>

\* A commit that made an entry.
Commit ==
    /\ gesture \in {"slider", "crop"} /\ begun /\ ~opening
    /\ ~crop.moved /\ (gesture = "crop" => crop.frame)
    /\ view.entry < MaxEntries
    /\ queue.generation + 1 < MaxGenerations
    /\ LET q == IF crop.gen # 0 THEN Stopped(queue) ELSE queue
           v == [view EXCEPT !.entry = @ + 1]
       IN Ends(shown, v, Requested(q, Job(v.entry, 0), v.size), NoCrop,
               "none", asked)
    /\ UNCHANGED <<begun, drafted, drafts, stages, opening>>

\* A commit that changed nothing: the committed frame is asked for.
CommitNothing ==
    /\ gesture \in {"slider", "crop"} /\ begun
    /\ ~crop.moved /\ (gesture = "crop" => crop.frame)
    /\ asked[view.entry] < MaxAsked
    /\ Leaves(Ask(asked, view.entry))
    /\ UNCHANGED <<begun, drafted, drafts, stages, opening>>

\* The crop frame is rebased onto the current stack's input stage; its
\* draft is no nearer to a commit (Gestures).
Reapply ==
    /\ gesture = "crop" /\ crop.frame /\ crop.moved /\ ~opening
    /\ Again \/ (~crop.awaits /\ \A e \in Entries : stages[e] = 0)
    /\ stages[view.entry] < MaxAsked
    /\ stages' = Ask(stages, view.entry)
    /\ Ends(shown, view, queue,
            [crop EXCEPT !.awaits = TRUE, !.base = view.entry], gesture, asked)
    /\ UNCHANGED <<begun, drafted, drafts, opening>>

\* close_if_discarded: what the draft asked for is stopped, and a stage
\* that may still be on its way.
Discard ==
    LET stops == drafted \/ crop.gen # 0 \/ (crop.frame /\ begun)
    IN /\ gesture \in {"slider", "crop"}
       /\ stops => CanRequest
       /\ Closes(view) /\ crop' = NoCrop
       /\ queue' = IF stops THEN Stopped(queue) ELSE queue
       /\ UNCHANGED <<shown, view, begun, drafted, drafts, asked, stages,
                      opening>>

-----------------------------------------------------------------------------
Init ==
    \E size \in Sizes :
        /\ queue = Requested([generation |-> 0, floor |-> 0,
                              active |-> NoJob, pending |-> NoJob,
                              rendering |-> "proxy", results |-> <<>>],
                             Job(1, 0), size)
        /\ shown = [frame |-> NoFrame, gen |-> 0, size |-> 0, entry |-> 0,
                    draft |-> 0, proxy |-> NoJob, raster |-> NoJob,
                    analysis |-> 0, refit |-> FALSE, error |-> Nothing,
                    pending |-> TRUE, held |-> 0]
        /\ view = [entry |-> 1, size |-> size]
        /\ gesture = "none" /\ begun = FALSE /\ drafted = FALSE
        /\ drafts = 0
        /\ crop = NoCrop
        /\ asked = [e \in Entries |-> 0]
        /\ stages = [e \in Entries |-> 0]
        /\ reseed = 0 /\ opening = FALSE

Worker == Proxy \/ Exact

Answer == TakeResult \/ TakeAnswer \/ TakeReseed \/ TakeStage

Use ==
    \/ Accept \/ Resize \/ Zoom \/ Open
    \/ \E kind \in Kinds : Begin(kind)
    \/ Draft \/ Commit \/ CommitNothing \/ Reapply \/ Discard

Owner == Opened \/ NotOpened \/ Begun \/ NotBegun

Next == Worker \/ Answer \/ Use \/ Owner

Spec == Init /\ [][Next]_vars

-----------------------------------------------------------------------------
TypeOK ==
    /\ queue.generation \in 0 .. MaxGenerations /\ queue.floor \in 0 .. MaxGenerations
    /\ {queue.active, queue.pending} \subseteq Jobs
    /\ queue.active = NoJob => queue.pending = NoJob
    /\ queue.rendering \in {"proxy", "exact"}
    /\ Len(queue.results) <= WaitingResults
    /\ \A i \in DOMAIN queue.results :
           /\ queue.results[i].job \in Jobs
           /\ queue.results[i].phase \in {"proxy", "exact"}
           /\ queue.results[i].outcome
                  \in {"plain", "reduced", "rough", "failed", "cancelled"}
    /\ shown.frame.job \in Jobs /\ shown.proxy \in Jobs /\ shown.raster \in Jobs
    /\ view.size \in Sizes /\ view.entry \in Entries
    /\ gesture \in {"none", "slider", "crop", "closing"}
    /\ {begun, drafted, opening} \subseteq BOOLEAN
    /\ reseed \in 0 .. MaxEntries
    /\ asked \in [Entries -> Nat] /\ stages \in [Entries -> 0 .. MaxAsked]

\* Nothing is on its way to the canvas.
Quiet ==
    /\ ~Busy(queue) /\ ~opening /\ gesture = "none"
    /\ \A e \in Entries : asked[e] = 0

\* A view at full resolution that has only a proxy to show waits for a
\* frame that is on its way, unless the canvas explains a failure.
ExactOnItsWay ==
    shown.frame.proxy /\ view.size = 0 /\ shown.error = Nothing => ~Quiet

\* Whatever was zoomed, resized, drafted, discarded, overtaken or stopped:
\* once nothing is on its way, the canvas explains a failure, or it shows
\* the committed state, at full resolution when the view wants that and
\* otherwise in the bounds the view has now, and the histogram beside it
\* is that picture's (zoom_changed, refit_proxy, preview_ready).
QuietScreenRight ==
    Quiet =>
        \/ shown.error # Nothing
        \/ /\ shown.frame.job = [shown.frame.job EXCEPT
                                   !.whole = TRUE, !.entry = view.entry,
                                   !.draft = 0]
           /\ shown.frame.proxy => view.size # 0 /\ shown.size = view.size
           /\ shown.analysis \in {0, shown.gen}

\* The canvas is never given a part of the stack as the photograph: a crop
\* frame's input stage is taken up as that or not at all (end_crop_view).
PhotoWhole == shown.frame.job.whole

\* A picture that is put back from what was retained is never named after
\* an entry or a draft it was not rendered from (hand_retained).
PictureNamed ==
    shown.frame # NoFrame =>
        shown.entry = shown.frame.job.entry /\ shown.draft = shown.frame.job.draft

\* While the canvas explains a failure there is no picture on it, or one
\* of the very state that failed, with its own histogram (preview_failed,
\* withdraw_photo).
ErrorShowsTarget ==
    shown.error # Nothing =>
        IF shown.frame = NoFrame
        THEN shown.analysis = 0 /\ shown.raster = NoJob /\ shown.proxy = NoJob
        ELSE Failure([job |-> shown.frame.job]) = shown.error

\* The histogram and the pixels the overlays read describe one frame,
\* unless those pixels are a drafted approximation (retain_unreduced).
HistogramTrue ==
    shown.analysis \notin {0, shown.raster.gen} => shown.raster.draft # 0

\* A crop gesture that waits for its input stage has one on its way: it
\* was asked for, or it is in the queue, or it is ready to be taken.
StageOnItsWay ==
    crop.awaits =>
        \/ \E e \in Entries : stages[e] > 0
        \/ /\ crop.gen # 0
           /\ \/ crop.gen \in {queue.active.gen, queue.pending.gen}
              \/ \E i \in DOMAIN queue.results :
                     queue.results[i].job.gen = crop.gen

\* A refit that is pending holds back the next one, so its frame, or one
\* that takes its place, is on its way (refit_proxy).
RefitOnItsWay == Quiet => ~shown.refit

\* A frame replaces another only in the order the frames were asked for,
\* and none that was asked for before a cancel is ever put on the canvas
\* after it (PreviewQueue::cancel).
InOrder ==
    shown'.gen # shown.gen => shown'.gen > shown.gen /\ shown'.gen > queue.floor

NewestWins == [][InOrder]_vars

\* An open is completed by a frame of the photograph it opened, or by a
\* failure, and never while the file is still being read (open_queued).
OpenIsItsOwn ==
    [][shown.pending /\ ~shown'.pending /\ opening => ~opening']_vars

=============================================================================
