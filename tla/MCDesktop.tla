------------------------------ MODULE MCDesktop -------------------------------
(***************************************************************************)
(* A client's side, for TLC: the sessions and drafts the owner holds for   *)
(* clients (Drafts, extended here) and what the desktop keeps of the       *)
(* owner's state: the gestures and the drafts they hold (Gestures,         *)
(* extended too), the sync of its screen with the event log (Sync, too)    *)
(* and the frames it shows (Frames).  They share no state, so one          *)
(* component moves in each behaviour and the run is as large as their sum. *)
(***************************************************************************)
EXTENDS Drafts, Gestures, Sync

VARIABLES
    part,  \* the component that takes the steps of this behaviour
    queue, shown, view, gesture, begun, drafted, drafts, cropView, asked,
    reseed, stages, opening

frameVars == <<queue, shown, view, gesture, begun, drafted, drafts,
    cropView, asked, reseed, stages, opening>>
everything == <<part, allVars, syncVars, gestureVars, frameVars>>

\* The configuration has one request among two changes of another client;
\* here are two among one, with a log that holds one event.
Both == INSTANCE Sync WITH
    EVENT_CAPACITY <- 1, OWN_REQUESTS <- 1, MaxSequence <- 1,
    MaxRequests <- 2, MaxFailures <- 1

\* A view that is zoomed; a slider; a crop; a crop whose calls fail.
Zoom == INSTANCE Frames WITH
    Kinds <- {}, Sizes <- {0, 1, 2}, MaxEntries <- 2, MaxDrafts <- 0,
    MaxGenerations <- 3, MaxAsked <- 1, Failures <- {"render"},
    Again <- FALSE, crop <- cropView

Slide == INSTANCE Frames WITH
    Kinds <- {"slider"}, Sizes <- {0, 1}, MaxEntries <- 2, MaxDrafts <- 1,
    MaxGenerations <- 2, MaxAsked <- 1, Failures <- {"render"},
    Again <- FALSE, crop <- cropView

Crops == INSTANCE Frames WITH
    Kinds <- {"crop"}, Sizes <- {0, 1}, MaxEntries <- 2, MaxDrafts <- 1,
    MaxGenerations <- 3, MaxAsked <- 1, Failures <- {}, Again <- FALSE,
    crop <- cropView

Broken == INSTANCE Frames WITH
    Kinds <- {"crop"}, Sizes <- {0, 1}, MaxEntries <- 2, MaxDrafts <- 1,
    MaxGenerations <- 3, MaxAsked <- 1,
    Failures <- {"answer", "open", "begin"}, Again <- FALSE,
    crop <- cropView

ASSUME Assumptions ==
    /\ DraftsAssumption
    /\ CapacityAssumption /\ SyncAssumption
    /\ Both!CapacityAssumption /\ Both!SyncAssumption
    /\ GesturesAssumption
    /\ Zoom!FramesAssumption /\ Slide!FramesAssumption
    /\ Crops!FramesAssumption /\ Broken!FramesAssumption

\* A component that does not move rests where it begins.
DesktopInit ==
    /\ part \in {"drafts", "follows", "both", "hand", "zoom", "slide", "crops", "broken"}
    /\ DraftsInit /\ SyncInit /\ GestureInit
    /\ IF part = "zoom" THEN Zoom!Init ELSE Crops!Init
    /\ part \notin {"zoom", "slide", "crops", "broken"} => view.size = 0

DraftSteps ==
    /\ part = "drafts"
    /\ DraftsNext
    /\ UNCHANGED <<part, syncVars, gestureVars, frameVars>>

FollowSteps ==
    /\ part = "follows"
    /\ SyncNext
    /\ UNCHANGED <<part, allVars, gestureVars, frameVars>>

BothSteps ==
    /\ part = "both"
    /\ Both!SyncNext
    /\ UNCHANGED <<part, allVars, gestureVars, frameVars>>

HandSteps ==
    /\ part = "hand"
    /\ GestureNext
    /\ UNCHANGED <<part, allVars, syncVars, frameVars>>

ZoomSteps ==
    /\ part = "zoom"
    /\ Zoom!Next
    /\ UNCHANGED <<part, allVars, syncVars, gestureVars>>

SlideSteps ==
    /\ part = "slide"
    /\ Slide!Next
    /\ UNCHANGED <<part, allVars, syncVars, gestureVars>>

CropSteps ==
    /\ part = "crops"
    /\ Crops!Next
    /\ UNCHANGED <<part, allVars, syncVars, gestureVars>>

BrokenSteps ==
    /\ part = "broken"
    /\ Broken!Next
    /\ UNCHANGED <<part, allVars, syncVars, gestureVars>>

\* There is no more to start, to offer, to ask for or to serve.
Rest ==
    /\ \/ part = "hand" /\ ~ENABLED GestureNext
       \/ part = "zoom" /\ ~ENABLED Zoom!Next
       \/ part = "slide" /\ ~ENABLED Slide!Next
       \/ part = "crops" /\ ~ENABLED Crops!Next
       \/ part = "broken" /\ ~ENABLED Broken!Next
    /\ UNCHANGED everything

DesktopNext ==
    \/ DraftSteps \/ FollowSteps \/ BothSteps \/ HandSteps \/ ZoomSteps \/ SlideSteps
    \/ CropSteps \/ BrokenSteps
    \/ Rest

DesktopSpec == DesktopInit /\ [][DesktopNext]_everything

-----------------------------------------------------------------------------
\* Properties

\* The instances of Frames read the same variables.
FramesTyped ==
    /\ part = "zoom" => Zoom!TypeOK
    /\ part = "slide" => Slide!TypeOK
    /\ part \in {"crops", "broken"} => Crops!TypeOK

\* Once nothing is on its way the screen shows what it should, and names
\* and measures what it shows; a picture that awaits a refit or a stage
\* gets it, and an older frame never replaces a newer.
FramesTrue ==
    /\ []FramesTyped
    /\ [](part \in {"zoom", "slide", "crops"} => Zoom!QuietScreenRight)
    /\ [](part \in {"zoom", "slide"} => Zoom!HistogramTrue)
    /\ [](part = "zoom" => Zoom!RefitOnItsWay)
    /\ [](part = "slide" => Slide!PictureNamed /\ Slide!ErrorShowsTarget)
    /\ [](part \in {"crops", "broken"} => Crops!PhotoWhole /\ Crops!StageOnItsWay)
    /\ [][part # "slide" => Zoom!InOrder]_frameVars
===============================================================================
