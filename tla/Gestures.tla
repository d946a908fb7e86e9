------------------------------ MODULE Gestures ------------------------------
(***************************************************************************)
(* The one gesture a desktop client holds (luxforge-app, app/draft.rs,     *)
(* app/gesture.rs and the part of app/crop.rs that opens, rebases and ends *)
(* the crop frame), together with the draft the catalog owner holds for    *)
(* it.                                                                     *)
(*                                                                         *)
(* A gesture drafts through a core draft at the owner.  `draft.set` is     *)
(* called on the update thread and answered at once; `draft.begin`,        *)
(* `draft.commit`, `draft.cancel` and `draft.reapply` are tasks that run   *)
(* on an executor in any order and come back as messages.  CoreDraft is a  *)
(* state machine that takes an event and says what to send; the driver     *)
(* sends it.  One action below is one update of the desktop, or one call   *)
(* the owner serves.                                                       *)
(*                                                                         *)
(* Fields are numbers, a newer offer being a larger one, and 0 is none.  A *)
(* core draft has the number of the gesture it was begun for.              *)
(***************************************************************************)
EXTENDS Integers, FiniteSets

CONSTANTS
    Kinds,         \* the kinds of gesture: slider, brush, crop
    MaxGestures,   \* bound: gestures started
    MaxOffers,     \* bound: fields offered
    LastRevision,  \* bound: revisions of the asset
    Faults         \* the owner may refuse, and a read-back may fail

GesturesAssumption ==
    /\ Kinds \subseteq {"slider", "brush", "crop"}
    /\ MaxGestures \in Nat /\ MaxOffers \in Nat /\ LastRevision \in Nat \ {0}
    /\ Faults \in BOOLEAN

Gestures == 1 .. MaxGestures
Rounds == {"begin", "commit", "cancel", "reapply"}
Outcomes == {"ok", "noop", "conflict", "failed"}

\* A draft as the owner holds it and as its answers carry it.
CoreDrafts ==
    [id : 0 .. MaxGestures, base : 0 .. LastRevision, fields : 0 .. MaxOffers]

NothingHeld == [id |-> 0, base |-> 0, fields |-> 0]

VARIABLES
    \* the owner
    ownerRevision, \* the asset's revision
    held,          \* this client's draft
    \* the executor and the message queue
    calls,         \* tasks that have not reached the owner
    replies,       \* answers no update has taken up
    \* the desktop
    known,         \* the newest revision it holds
    serial,        \* the last gesture number given
    slot,          \* the gesture slot: none, open, closing
    kind,          \* what the gesture in it drafts
    drawn,         \* a brush has painted
    draft,         \* its CoreDraft
    crop,          \* the crop frame is open, its input stage is on its way
    \* history, read by no action
    newest,        \* the newest fields offered
    refused,       \* the fields the owner refused
    committed      \* the gestures whose draft was committed

owner == <<ownerRevision, held>>
desktop == <<known, serial, slot, kind, drawn, draft, crop>>
gestureVars == <<owner, calls, replies, desktop, newest, refused, committed>>

NoCrop == [frame |-> FALSE, stage |-> FALSE]

\* CoreDraft::open.  `rebase` is armed_rebase naming this gesture.
Opened(g, base, fields) ==
    [gesture |-> g, id |-> 0, base |-> base, conflicted |-> FALSE,
     flight |-> "begin", pending |-> fields,
     sent |-> 0, finish |-> "none", rebase |-> FALSE]

NoGesture == [Opened(0, 0, 0) EXCEPT !.flight = "none"]

GestureInit ==
    /\ ownerRevision = 1 /\ held = NothingHeld
    /\ calls = {} /\ replies = {}
    /\ known = 1 /\ serial = 0
    /\ slot = "none" /\ kind = "slider" /\ drawn = FALSE
    /\ draft = NoGesture /\ crop = NoCrop
    /\ newest = 0 /\ refused = {} /\ committed = {}

-----------------------------------------------------------------------------
\* CoreDraft: what it is waiting for, and its answer to each event, which
\* is the draft afterwards and the step the driver takes.  The definitions
\* named Faulty are mistakes of the one they are named for and are used by
\* no action.

Say(d, step) == [draft |-> d, step |-> step]

Outstanding(d) == d.pending # 0 /\ d.pending # d.sent

Closing(d) == d.finish = "cancel" /\ d.flight # "commit"

FaultySettled(d) == Closing(d)

Settled(d) == Closing(d) \/ d.flight = "commit"

Idle(d) == d.flight = "none" /\ d.id # 0 /\ d.finish = "none"

Armed == kind = "brush" /\ ~drawn

\* Discard first, then the newest fields, then the commit.
Advance(d) ==
    IF d.flight # "none" \/ d.id = 0 THEN Say(d, "none")
    ELSE IF d.finish = "cancel"
         THEN Say([d EXCEPT !.flight = "cancel"], "cancel")
    ELSE IF Outstanding(d) /\ ~d.conflicted
         THEN Say([d EXCEPT !.sent = d.pending, !.pending = 0,
                            !.flight = "set"], "set")
    ELSE IF d.finish = "commit" /\ ~d.conflicted
         THEN Say([d EXCEPT !.finish = "none", !.flight = "commit"],
                  "commit")
    ELSE Say([d EXCEPT !.finish = "none"],
             IF d.finish = "commit" THEN "refused" ELSE "none")

Offered(d, fields) == Advance([d EXCEPT !.pending = fields])

Released(d) ==
    IF d.flight # "none" THEN Say([d EXCEPT !.finish = "commit"], "none")
    ELSE IF d.conflicted THEN Say([d EXCEPT !.finish = "none"], "refused")
    ELSE Advance([d EXCEPT !.finish = "commit"])

Cancelled(d) ==
    IF Closing(d) THEN Say(d, "none")
    ELSE Advance([d EXCEPT !.finish = "cancel", !.pending = 0])

Reapplying(d) ==
    IF Idle(d) THEN Say([d EXCEPT !.flight = "reapply"], "reapply")
    ELSE Say(d, "none")

OpenedAs(d, a) ==
    [d EXCEPT !.flight = "none", !.id = a.id, !.base = a.base,
              !.conflicted = known > a.base]

Begun(d, outcome, a) ==
    LET next == Advance(OpenedAs(d, a))
    IN IF outcome # "ok" THEN Say([d EXCEPT !.flight = "none"], "done")
       ELSE IF next.step = "none" /\ next.draft.conflicted
            THEN Say(next.draft, "conflicted")
       ELSE next

\* The rebased draft still holds the fields; they are sent again for the
\* frame they bring.
Resent(d) ==
    [d EXCEPT !.pending = IF d.pending # 0 THEN d.pending ELSE d.sent,
              !.sent = 0]

Rebased(d, outcome, a) ==
    LET idle == [d EXCEPT !.flight = "none"]
    IN Advance(IF outcome = "ok"
               THEN Resent([idle EXCEPT !.base = a.base,
                                        !.conflicted = FALSE])
               ELSE idle)

\* A refused commit.
Refused(d, outcome) ==
    LET idle == [d EXCEPT !.flight = "none",
                          !.conflicted = @ \/ outcome = "conflict"]
    IN IF d.finish = "cancel" THEN Advance(idle)
       ELSE Say([idle EXCEPT !.finish = "none"], "none")

MovedOn(d, to) ==
    IF \/ d.id = 0 \/ Closing(d) \/ d.conflicted
       \/ d.flight = "commit" \/ to = d.base
    THEN Say(d, "none")
    ELSE Say([d EXCEPT !.conflicted = TRUE], "conflicted")
-----------------------------------------------------------------------------
\* The driver.

Request(call, d, displaced) ==
    [call |-> call, gesture |-> d.gesture, displaced |-> displaced,
     expected |-> d.base]

FaultySent(said) ==
    IF said.step \in {"commit", "cancel"}
    THEN {Request(said.step, said.draft, 0)} ELSE {}

\* Editor::run, for the steps that send a task.
Sent(said) ==
    IF said.step \in {"commit", "cancel", "reapply"}
    THEN {Request(said.step, said.draft, 0)} ELSE {}

\* What every update ends with: an armed brush that a revision conflicted
\* is rebased without a notice, and a crop gesture with neither a frame
\* nor a stage on its way is discarded.
UpdateEnds(d, view) ==
    IF kind = "crop" /\ view = NoCrop THEN Cancelled(d)
    ELSE IF d.rebase /\ d.conflicted THEN Reapplying(d)
    ELSE Say([d EXCEPT !.rebase = FALSE], "none")

Noticed(said) ==
    IF said.step = "conflicted" /\ Armed
    THEN [said.draft EXCEPT !.rebase = TRUE] ELSE said.draft

EndGesture(queue) ==
    /\ slot' = "none" /\ draft' = NoGesture /\ crop' = NoCrop
    /\ calls' = queue

\* Take the draft a step leaves, and close the gesture when it was
\* discarded: it leaves the screen at once and keeps the slot.
KeepGesture(said, queue, view) ==
    LET last == IF slot = "open" THEN UpdateEnds(Noticed(said), view)
                ELSE Say(said.draft, "none")
        closing == Closing(last.draft)
    IN /\ draft' = last.draft
       /\ slot' = IF closing THEN "closing" ELSE slot
       /\ crop' = IF closing THEN NoCrop ELSE view
       /\ calls' = queue \union Sent(said) \union Sent(last)

Settle(said, queue, view) ==
    \/ said.step = "done" /\ EndGesture(queue)
    \/ said.step # "done" /\ KeepGesture(said, queue, view)

\* draft.set, on the update thread: the owner takes the fields, or takes
\* them and refuses the preview of them, or refuses them.
SetAccepted(d, queue, view) ==
    /\ held.id = d.id
    /\ held' = [held EXCEPT !.fields = d.sent]
    /\ Settle(Advance([d EXCEPT !.flight = "none",
                                !.conflicted = held.base # ownerRevision]),
              queue, view)
    /\ UNCHANGED refused

SetUnpreviewed(d, queue, view) ==
    /\ Faults /\ kind # "crop"
    /\ held.id = d.id
    /\ held' = [held EXCEPT !.fields = d.sent]
    /\ Settle(Advance([d EXCEPT !.flight = "none"]), queue, view)
    /\ UNCHANGED refused

SetRefused(d, queue, view) ==
    /\ Faults \/ held.id # d.id
    /\ Settle(Advance([d EXCEPT !.flight = "none"]), queue, view)
    /\ refused' = refused \union {d.sent}
    /\ UNCHANGED held

Set(said, queue, view) ==
    \/ SetAccepted(said.draft, queue, view)
    \/ SetUnpreviewed(said.draft, queue, view)
    \/ SetRefused(said.draft, queue, view)

\* Editor::drive.
Drive(said, queue, view) ==
    \/ said.step = "set" /\ Set(said, queue, view)
    \/ said.step # "set" /\ Settle(said, queue, view)
       /\ UNCHANGED <<held, refused>>

-----------------------------------------------------------------------------
\* The person at the desktop.

Yields == slot = "open" /\ Armed /\ Idle(draft)

MayStart == slot = "none" \/ Yields

\* open_core, after claim_slot.  A slider starts with its first value, a
\* brush with nothing, the crop frame with its input stage on its way.
Start(k) ==
    LET fields == IF k = "slider" THEN newest + 1 ELSE 0
        displaced == IF slot = "open" THEN draft.id ELSE 0
        opened == Opened(serial + 1, known, fields)
    IN /\ MayStart
       /\ serial < MaxGestures
       /\ k = "slider" => newest < MaxOffers
       /\ serial' = serial + 1
       /\ slot' = "open" /\ kind' = k /\ drawn' = FALSE
       /\ draft' = opened
       /\ crop' = [frame |-> FALSE, stage |-> k = "crop"]
       /\ calls' = calls \union {Request("begin", opened, displaced)}
       /\ newest' = newest + (IF k = "slider" THEN 1 ELSE 0)
       /\ UNCHANGED <<owner, replies, known, refused, committed>>

Offer ==
    /\ slot = "open" /\ ~Settled(draft)
    /\ kind = "crop" => crop.frame
    /\ newest < MaxOffers
    /\ Drive(Offered(draft, newest + 1), calls, crop)
    /\ newest' = newest + 1
    /\ drawn' = (kind = "brush")
    /\ UNCHANGED <<ownerRevision, replies, known, serial, kind, committed>>

ReleaseRefused ==
    \/ Armed
    \/ kind = "crop" /\ (~crop.frame \/ draft.conflicted)

Release ==
    /\ slot = "open" /\ ~ReleaseRefused
    /\ ~Settled(draft)
    /\ Drive(Released(draft), calls, crop)
    /\ UNCHANGED <<ownerRevision, replies, known, serial, kind, drawn, newest,
                   committed>>

Discard ==
    /\ slot = "open"
    /\ Drive(Cancelled(draft), calls, crop)
    /\ UNCHANGED <<ownerRevision, replies, known, serial, kind, drawn, newest,
                   committed>>

\* The Changed elsewhere notice's Reapply, of a slider or a mask.
Reapply ==
    /\ slot = "open" /\ kind # "crop"
    /\ draft.conflicted /\ ~draft.rebase
    /\ Drive(Reapplying(draft), calls, crop)
    /\ UNCHANGED <<ownerRevision, replies, known, serial, kind, drawn, newest,
                   committed>>

\* Of a crop frame: its input stage is asked for again first.
ReapplyCrop ==
    /\ slot = "open" /\ kind = "crop" /\ crop.frame /\ draft.conflicted
    /\ crop' = [crop EXCEPT !.stage = TRUE]
    /\ UNCHANGED <<owner, calls, replies, known, serial, slot, kind, drawn,
                   draft, newest, refused, committed>>

\* An armed brush put down for a command: nothing is read back for it.
Disarm ==
    LET said == Cancelled(draft)
    IN /\ slot = "open" /\ Armed
       /\ slot' = "closing"
       /\ draft' = said.draft
       /\ calls' = calls \union Sent(said)
       /\ UNCHANGED <<owner, replies, known, serial, kind, drawn, crop,
                      newest, refused, committed>>

\* The input stage is on screen: open_draft opens the frame on it, or
\* rebases the frame and asks for the core draft to be rebased; then the
\* frame's fields are offered.  The task of the rebase is dropped in this
\* update, so nothing is sent for it.
StageArrives ==
    LET rebased == IF crop.frame THEN Reapplying(draft).draft ELSE draft
    IN /\ slot = "open" /\ crop.stage
       /\ newest < MaxOffers
       /\ Drive(Offered(rebased, newest + 1), calls,
                [frame |-> TRUE, stage |-> FALSE])
       /\ newest' = newest + 1
       /\ UNCHANGED <<ownerRevision, replies, known, serial, kind, drawn,
                      committed>>

\* drop_crop_stage: a rebase keeps its frame, a start is discarded as the
\* update ends.
StageFails ==
    /\ slot = "open" /\ crop.stage
    /\ Drive(Say(draft, "none"), calls, [crop EXCEPT !.stage = FALSE])
    /\ UNCHANGED <<ownerRevision, replies, known, serial, kind, drawn, newest,
                   committed>>
-----------------------------------------------------------------------------
\* The owner serves one call at a time, in any order of the tasks.

Reply(c, outcome, d) == [call |-> c.call, gesture |-> c.gesture,
                          outcome |-> outcome, draft |-> d]

Serve(c, outcome) ==
    /\ calls' = calls \ {c}
    /\ replies' = replies \union {Reply(c, outcome, held')}
    /\ UNCHANGED <<desktop, newest, refused>>

\* The cancel of a displaced draft runs in the same task as the begin.
Displaced(c) == IF c.displaced # 0 /\ held.id = c.displaced THEN NothingHeld
                ELSE held

Begins(c) ==
    LET free == Displaced(c) = NothingHeld
    IN /\ c.call = "begin"
       /\ \/ /\ free
             /\ held' = [id |-> c.gesture, base |-> ownerRevision, fields |-> 0]
             /\ Serve(c, "ok")
          \/ /\ ~free \/ Faults
             /\ held' = Displaced(c)
             /\ Serve(c, "failed")
       /\ UNCHANGED <<ownerRevision, committed>>

Stale(c) == held.base # ownerRevision \/ c.expected # held.base

\* An entry, or none because nothing would change.
Lands(c) ==
    /\ c.call = "commit" /\ held.id = c.gesture /\ ~Stale(c)
    /\ held' = NothingHeld
    /\ committed' = committed \union {c.gesture}
    /\ \/ /\ ownerRevision < LastRevision
          /\ ownerRevision' = ownerRevision + 1
          /\ \/ Serve(c, "ok")
             \/ Faults /\ Serve(c, "failed")
       \/ UNCHANGED ownerRevision /\ Serve(c, "noop")

NotCommitted(c) ==
    /\ c.call = "commit"
    /\ UNCHANGED <<owner, committed>>
    /\ \/ held.id = c.gesture /\ Stale(c) /\ Serve(c, "conflict")
       \/ held.id # c.gesture /\ Serve(c, "failed")
       \/ /\ held.id = c.gesture /\ ~Stale(c) /\ Faults
          /\ Serve(c, "failed")

Ends(c) ==
    /\ c.call = "cancel"
    /\ held' = IF held.id = c.gesture THEN NothingHeld ELSE held
    /\ Serve(c, "ok")
    /\ UNCHANGED <<ownerRevision, committed>>

Rebases(c) ==
    /\ c.call = "reapply"
    /\ \/ /\ held.id = c.gesture
          /\ held' = [held EXCEPT !.base = ownerRevision]
          /\ Serve(c, "ok")
       \/ /\ held.id # c.gesture \/ Faults
          /\ UNCHANGED held
          /\ Serve(c, "failed")
    /\ UNCHANGED <<ownerRevision, committed>>

OwnerServes ==
    \E c \in calls : \/ Begins(c) \/ Lands(c) \/ NotCommitted(c)
                     \/ Ends(c) \/ Rebases(c)

\* Another client commits.
CommitElsewhere ==
    /\ ownerRevision < LastRevision
    /\ ownerRevision' = ownerRevision + 1
    /\ UNCHANGED <<held, calls, replies, desktop, newest, refused, committed>>

-----------------------------------------------------------------------------
\* An update takes up one answer.  Only the gesture it names takes it.

Finds(a) == slot # "none" /\ draft.gesture = a.gesture

Taken(a) ==
    /\ replies' = replies \ {a}
    /\ UNCHANGED <<ownerRevision, serial, kind, drawn, newest, committed>>

TakeBegun(a) ==
    /\ a.call = "begin" /\ Finds(a)
    /\ Drive(Begun(draft, a.outcome, a.draft), calls, crop)
    /\ UNCHANGED known
    /\ Taken(a)

\* The committed state is taken up and the slot is empty.
TakeCommitted(a) ==
    /\ a.call = "commit" /\ Finds(a)
    /\ a.outcome \in {"ok", "noop"}
    /\ \/ a.outcome = "noop" /\ UNCHANGED known
       \/ a.outcome = "ok" /\ known' \in known .. ownerRevision
          /\ known' > draft.base
    /\ EndGesture(calls)
    /\ UNCHANGED <<held, refused>>
    /\ Taken(a)

TakeRefused(a) ==
    /\ a.call = "commit" /\ Finds(a)
    /\ a.outcome \in {"conflict", "failed"}
    /\ Drive(Refused(draft, a.outcome), calls, crop)
    /\ UNCHANGED known
    /\ Taken(a)

TakeReapplied(a) ==
    /\ a.call = "reapply" /\ Finds(a)
    /\ Drive(Rebased([draft EXCEPT !.rebase = FALSE], a.outcome, a.draft),
             calls, crop)
    /\ UNCHANGED known
    /\ Taken(a)

TakeCancelled(a) ==
    /\ a.call = "cancel" /\ Finds(a)
    /\ EndGesture(calls)
    /\ UNCHANGED <<held, refused, known>>
    /\ Taken(a)

TakeAnswer ==
    \E a \in replies : \/ TakeBegun(a) \/ TakeCommitted(a) \/ TakeRefused(a)
                       \/ TakeReapplied(a) \/ TakeCancelled(a)

Heard == MovedOn(draft, known')

\* The event sync reads a newer state: gesture_revision.
Learn ==
    /\ known' \in known + 1 .. ownerRevision
    /\ \/ slot = "none" /\ UNCHANGED <<held, calls, slot, draft, crop,
                                       refused>>
       \/ slot # "none" /\ Drive(Heard, calls, crop)
    /\ UNCHANGED
        <<ownerRevision, replies, serial, kind, drawn, newest, committed>>

GestureNext ==
    \/ \E k \in Kinds : Start(k)
    \/ Offer \/ Release \/ Discard \/ Reapply \/ ReapplyCrop \/ Disarm
    \/ StageArrives \/ StageFails
    \/ OwnerServes \/ CommitElsewhere
    \/ TakeAnswer \/ Learn

GestureSpec == GestureInit /\ [][GestureNext]_gestureVars

\* The executor runs every task and the update loop takes every answer.
LiveSpec ==
    GestureSpec /\ WF_gestureVars(OwnerServes) /\ WF_gestureVars(TakeAnswer)
-----------------------------------------------------------------------------

GestureTypeOK ==
    /\ ownerRevision \in 1 .. LastRevision /\ known \in 1 .. ownerRevision
    /\ held \in CoreDrafts
    /\ \A c \in calls : /\ c.call \in Rounds /\ c.gesture \in Gestures
                        /\ c.displaced \in 0 .. MaxGestures
                        /\ c.expected \in 1 .. LastRevision
    /\ \A a \in replies : /\ a.call \in Rounds /\ a.gesture \in Gestures
                          /\ a.outcome \in Outcomes /\ a.draft \in CoreDrafts
    /\ serial \in 0 .. MaxGestures
    /\ slot \in {"none", "open", "closing"} /\ kind \in Kinds \union {"slider"}
    /\ draft.gesture \in 0 .. MaxGestures
    /\ draft.id \in {0, draft.gesture}
    /\ draft.gesture # 0 => draft.base \in 1 .. ownerRevision
    /\ draft.flight \in Rounds \union {"none"}
    /\ draft.pending \in 0 .. MaxOffers /\ draft.sent \in 0 .. MaxOffers
    /\ draft.finish \in {"none", "commit", "cancel"}
    /\ crop \in [frame : BOOLEAN, stage : BOOLEAN]
    /\ newest \in 0 .. MaxOffers /\ refused \subseteq 1 .. MaxOffers
    /\ committed \subseteq Gestures

\* A request or an answer on its way belongs to the gesture in the slot
\* and is the round trip that gesture waits for: no answer ever finds
\* another gesture, or nobody, in its place (draft_begun and
\* draft_committed handle the case and say it does not happen).
AnswersWanted ==
    \A x \in calls \union replies :
        slot # "none" /\ draft.gesture = x.gesture /\ draft.flight = x.call

\* A gesture waits for a round trip only while its request or the answer
\* to it is on its way (CoreDraft::in_flight; open_draft says that the
\* reapply is in flight).
RoundCarried ==
    draft.flight = "none"
    \/ \E x \in calls \union replies :
           x.gesture = draft.gesture /\ x.call = draft.flight

\* A `draft.begin` never reaches the owner while it still holds another
\* draft of this client than the one the same task ends first: it cannot
\* overtake the cancel of the last gesture.
BeginFindsRoom ==
    \A c \in calls : c.call = "begin" => held.id \in {0, c.displaced}

\* The owner never holds a draft no gesture answers for.
NoDraftLeft ==
    held.id # 0 =>
        \/ slot # "none" /\ draft.gesture = held.id
        \/ \E c \in calls : c.call = "begin" /\ c.displaced = held.id

\* What a release commits is the newest fields offered, unless the owner
\* refused them, however early the release came.
CommitsNewest ==
    [][committed' # committed =>
          held.fields = newest \/ newest \in refused]_gestureVars

\* A gesture that left the screen as discarded commits nothing.
DiscardedStays ==
    [][\A g \in committed' \ committed :
          ~(slot = "closing" /\ draft.gesture = g)]_gestureVars

\* An answer finds the gesture that asked, a begin finds the slot free, no
\* draft of the desktop's is left at the owner, a commit carries the
\* newest fields, and a gesture that was discarded changes nothing more.
GesturesHold ==
    /\ [](GestureTypeOK /\ AnswersWanted /\ BeginFindsRoom /\ NoDraftLeft)
    /\ CommitsNewest /\ DiscardedStays

\* A gesture with nothing in flight knows that its draft is based on a
\* revision the desktop has seen replaced (gesture_revision: the draft is
\* kept and marked).
ConflictKnown ==
    slot = "open" /\ Idle(draft) /\ draft.base < known => draft.conflicted

\* A discarded gesture gives the slot up.
SlotFrees ==
    \A g \in Gestures : []<>~(slot = "closing" /\ draft.gesture = g)

\* A release is answered: an entry, a no-op or a refusal the person sees.
ReleaseEnds ==
    \A g \in Gestures :
        LET waits == /\ draft.gesture = g
                     /\ draft.finish = "commit" \/ draft.flight = "commit"
        IN []<>~waits

=============================================================================
