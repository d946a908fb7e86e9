-------------------------------- MODULE Windows --------------------------------
(***************************************************************************)
(* The windows of a cropped stack's proxy (render/window.rs): a stack that *)
(* is compiled against the whole proxy stage is cut down to what its       *)
(* output reads.                                                           *)
(*                                                                         *)
(* A stack is a sequence of segments.  A segment maps the pixels of the    *)
(* stage it reads by exact geometry, and reads that stage through its      *)
(* entry: the source, a resample of the segment before (a straightened     *)
(* crop), or a spatial operation over it, which reads a neighbourhood of   *)
(* every pixel tile by tile.                                               *)
(*                                                                         *)
(* Values of pixels are left out.  A pixel of the cut stack is right when  *)
(* it is made of the same pixels, at the same places of the tile grid and  *)
(* of the masks, as the pixel of the whole stack it stands for.            *)
(***************************************************************************)
EXTENDS Orientation, Sequences, FiniteSets

CONSTANTS
    Stacks,     \* [source, segments]: what is compiled
    TileSide,   \* SPATIAL_TILE
    TapMargin   \* TAP_MARGIN

WindowAssumption == TileSide \in Nat \ {0} /\ TapMargin \in Nat

VARIABLES
    whole,      \* the stack as it was compiled
    phase,      \* "compiled", "planned", "cut", "uncut", "refused"
    source,     \* the window of the source
    kept,       \* the windows of the segments' outputs
    cut         \* the stack as it is rendered

vars == <<whole, phase, source, kept, cut>>

-----------------------------------------------------------------------------
\* Stacks

Stage(w, h) == Rect(0, 0, w, h)
OutputStage(s) == Stage(s.width, s.height)
EntryStage(e) == Stage(e.width, e.height)

\* The stage a segment reads: a resample has one of its own.
InputStage(st, i) ==
    LET s == st.segments[i]
    IN  IF s.entry.kind = "source" THEN st.source
        ELSE IF s.entry.kind = "resample" THEN EntryStage(s.entry)
        ELSE OutputStage(st.segments[i - 1])

\* The tenths of a pixel that a resample's output pixel samples: a rotation, the
\* 3-4-5 triangle's, and a translation.
InputAt(e, x, y) ==
    <<4 * (2 * x + 1) - 3 * (2 * y + 1) + e.cx, 3 * (2 * x + 1) + 4 * (2 * y + 1) + e.cy>>

\* The index of the pixel whose centre is at or before a coordinate.
IndexBefore(tenths) == (tenths - 5) \div 10

LOCAL Least(s) == CHOOSE n \in s : \A k \in s : n <= k
LOCAL Greatest(s) == CHOOSE n \in s : \A k \in s : n >= k
LOCAL Within(n, low, high) == Greatest({low, Least({n, high})})

-----------------------------------------------------------------------------
\* WindowPlan::of

Corners(r) == {r.x, r.x + r.width - 1} \X {r.y, r.y + r.height - 1}

\* The rectangle that the taps of a resample read, and a margin around it.
TapRegion(e, read, input) ==
    LET u == {IndexBefore(InputAt(e, p[1], p[2])[1]) : p \in Corners(read)}
        v == {IndexBefore(InputAt(e, p[1], p[2])[2]) : p \in Corners(read)}
        x0 == Within(Least(u) - TapMargin, 0, input.width)
        y0 == Within(Least(v) - TapMargin, 0, input.height)
    IN  Rect(x0, y0, Within(Greatest(u) + 1 + TapMargin + 1, 0, input.width) - x0,
                     Within(Greatest(v) + 1 + TapMargin + 1, 0, input.height) - y0)

\* Region::grown
Grown(r, halo, stage) ==
    LET x0 == Greatest({0, r.x - halo})
        y0 == Greatest({0, r.y - halo})
    IN  Rect(x0, y0, Least({r.x + r.width + halo, stage.width}) - x0,
                     Least({r.y + r.height + halo, stage.height}) - y0)

\* A bug for the mutants: the window's origin is where the halo begins.
FaultyOnTheGrid(r) == r

\* The origin is moved down to the grid of tiles.
OnTheGrid(r) ==
    LET x0 == (r.x \div TileSide) * TileSide
        y0 == (r.y \div TileSide) * TileSide
    IN  Rect(x0, y0, r.x + r.width - x0, r.y + r.height - y0)

\* What a segment needs of the one before, for a rectangle of the stage it reads.
EntryReads(st, i, read) ==
    LET e == st.segments[i].entry
        before == OutputStage(st.segments[i - 1])
    IN  IF e.kind = "resample" THEN TapRegion(e, read, before)
        ELSE OnTheGrid(Grown(read, e.halo, before))

\* What every segment must produce, from the last one back.
Needed(st) ==
    LET n == Len(st.segments)
        need[i \in 1 .. n] ==
            IF i = n THEN OutputStage(st.segments[n])
            ELSE EntryReads(st, i + 1, UnmapRegion(st.segments[i + 1].geometry, need[i + 1]))
    IN  need

SourceRead(st, need) == UnmapRegion(st.segments[1].geometry, need[1])

\* A unit or replacement that is told its place in the frame, geometry that reads
\* outside its stage, or an estimate that the exact phase could prepare only by
\* rendering another operation.
CannotBeCut(st, need, i) ==
    LET s == st.segments[i]
        input == InputStage(st, i)
        read == UnmapRegion(s.geometry, need[i])
    IN  \/ s.positional /\ need[i] # OutputStage(s)
        \/ read.x + read.width > input.width \/ read.y + read.height > input.height
        \/ /\ s.entry.kind = "spatial" /\ s.entry.estimates
           /\ \E j \in 1 .. i - 1 : st.segments[j].entry.kind = "spatial"

HasWindow(st, need) ==
    /\ \A i \in DOMAIN st.segments : ~CannotBeCut(st, need, i)
    /\ SourceRead(st, need) # st.source

Init ==
    /\ whole \in Stacks
    /\ phase = "compiled"
    /\ source = whole.source
    /\ kept = <<>>
    /\ cut = whole

Plan ==
    /\ phase = "compiled"
    /\ LET need == Needed(whole)
       IN  IF HasWindow(whole, need)
           THEN phase' = "planned" /\ kept' = need /\ source' = SourceRead(whole, need)
           ELSE phase' = "uncut" /\ UNCHANGED <<kept, source>>
    /\ UNCHANGED <<whole, cut>>

-----------------------------------------------------------------------------
\* WindowPlan::apply

\* The window is at its origin in the stage, ahead of all the segment does.
Placed(g, window, stage) ==
    IF window = stage THEN g
    ELSE After(Cropping(Rect(-window.x, -window.y, stage.width, stage.height)), g)

CutOff(g, keep, stage) == IF keep = stage THEN g ELSE After(g, Cropping(keep))

\* The crop is a step that a masked operation before it maps back through.
CutSteps(steps, keep, stage) ==
    IF keep = stage THEN steps ELSE Append(steps, Cropping(keep))

\* An operation whose window is not the stage it reads is handed the exact stage's
\* estimates.
Handed(e, window, stage) == e.kind = "spatial" /\ e.estimates /\ window # stage

\* The stage of a spatial operation is already cut when it is compared with its window,
\* so the two are the same when the window begins where the whole stage does.
StageMet(i) ==
    IF whole.segments[i].entry.kind = "spatial" THEN OutputStage(kept[i - 1])
    ELSE InputStage(whole, i)

CutSegment(i) ==
    LET s == whole.segments[i]
        stage == StageMet(i)
        window == IF s.entry.kind = "source" THEN source
                  ELSE IF s.entry.kind = "spatial" THEN kept[i - 1] ELSE stage
    IN  [s EXCEPT
            !.origin = IF s.entry.kind = "resample" THEN <<kept[i - 1].x, kept[i - 1].y>>
                       ELSE @,
            !.maskOrigin = IF s.entry.kind = "spatial" THEN <<window.x, window.y>> ELSE @,
            !.handed = Handed(s.entry, window, stage),
            !.geometry = CutOff(Placed(@, window, stage), kept[i], OutputStage(s)),
            !.steps = CutSteps(@, kept[i], OutputStage(s)),
            !.width = kept[i].width,
            !.height = kept[i].height]

CutStack ==
    [source |-> Stage(source.width, source.height),
     segments |-> [i \in DOMAIN whole.segments |-> CutSegment(i)]]

ReadsItsInput(st, i) ==
    LET input == InputStage(st, i)
    IN  ReadsInside(st.segments[i].geometry, input.width, input.height)

Apply ==
    /\ phase = "planned"
    /\ cut' = CutStack
    /\ phase' = IF \A i \in DOMAIN cut'.segments : ReadsItsInput(cut', i)
                THEN "cut" ELSE "refused"
    /\ UNCHANGED <<whole, source, kept>>

Next == Plan \/ Apply \/ (phase \in {"cut", "uncut", "refused"} /\ UNCHANGED vars)
Spec == Init /\ [][Next]_vars

-----------------------------------------------------------------------------
\* What a pixel is made of: the renderer, as a reference.

Place(p, origin) == <<p[1] + origin.x, p[2] + origin.y>>

\* The four pixels a resample blends, clamped to the stage, with the weights of
\* the coordinate between them.
TapsAt(s, p, input) ==
    LET c == InputAt(s.entry, p[1], p[2])
        u == c[1] - 10 * s.origin[1]
        v == c[2] - 10 * s.origin[2]
        x == {Within(IndexBefore(u) + n, 0, input.width - 1) : n \in 0 .. 1}
        y == {Within(IndexBefore(v) + n, 0, input.height - 1) : n \in 0 .. 1}
    IN  [pixels |-> x \X y, weight |-> <<(u - 5) % 10, (v - 5) % 10>>]

\* The pixels around one that a spatial operation reads, as far as the stage goes.
Around(p, halo, stage) == PixelsOf(Grown(Rect(p[1], p[2], 1, 1), halo, stage))

\* The pixel of a segment's first stage that a pixel of its frame comes from, through
\* the steps one by one: where a mask of that stage is read.
MaskPlace(steps, p) ==
    LET back[i \in 0 .. Len(steps)] ==
            IF i = 0 THEN p
            ELSE Reads(steps[Len(steps) + 1 - i], back[i - 1][1], back[i - 1][2])
    IN  back[Len(steps)]

\* Whether a pixel of the cut segment is made as its pixel of the whole one is, out of
\* pixels of the segment before that are right themselves.
MadeAlike(i, p, rightBefore) ==
    LET s == cut.segments[i]
        w == whole.segments[i]
        P == Place(p, kept[i])
        q == Reads(s.geometry, p[1], p[2])
        Q == Reads(w.geometry, P[1], P[2])
    IN  /\ MaskPlace(s.steps, p) = MaskPlace(w.steps, P)
        /\ s.positional => p = P
        /\ s.entry.kind = "source" => Place(q, source) = Q
        /\ s.entry.kind = "spatial" =>
              LET window == kept[i - 1]
                  near == Around(q, s.entry.halo, OutputStage(cut.segments[i - 1]))
                  Near == Around(Q, w.entry.halo, OutputStage(whole.segments[i - 1]))
              IN  /\ Place(q, window) = Q
                  /\ {Place(n, window) : n \in near} = Near
                  /\ near \subseteq rightBefore
                  /\ <<q[1] % TileSide, q[2] % TileSide>> = <<Q[1] % TileSide, Q[2] % TileSide>>
                  /\ <<q[1] + s.maskOrigin[1], q[2] + s.maskOrigin[2]>> = Q
        /\ s.entry.kind = "resample" =>
              LET window == kept[i - 1]
                  taps == TapsAt(s, q, OutputStage(cut.segments[i - 1]))
                  Taps == TapsAt(w, Q, OutputStage(whole.segments[i - 1]))
              IN  /\ {Place(n, window) : n \in taps.pixels} = Taps.pixels
                  /\ taps.weight = Taps.weight
                  /\ taps.pixels \subseteq rightBefore

Right ==
    LET n == Len(cut.segments)
        right[i \in 0 .. n] ==
            IF i = 0 THEN {}
            ELSE {p \in PixelsOf(OutputStage(cut.segments[i])) : MadeAlike(i, p, right[i - 1])}
    IN  right[n]

-----------------------------------------------------------------------------
\* Properties

RectOK(r) ==
    r \in [x : Nat, y : Nat, width : Nat \ {0}, height : Nat \ {0}]

TypeOK ==
    /\ phase \in {"compiled", "planned", "cut", "uncut", "refused"}
    /\ RectOK(source)
    /\ phase = "planned" =>
          \A i \in DOMAIN kept : RectOK(kept[i]) /\
             LET out == OutputStage(whole.segments[i])
             IN  kept[i].x + kept[i].width <= out.width /\ kept[i].y + kept[i].height <= out.height

\* A windowed proxy is, pixel for pixel and but for the estimates, the proxy of the whole
\* stage: every pixel of
\* the cut stack's output is made of the same pixels, read at the same places of the
\* masks and of the tile grid.
FrameUnchanged ==
    phase = "cut" => Right = PixelsOf(OutputStage(whole.segments[Len(whole.segments)]))

\* The cut is never refused as a bug of the host: no segment reads outside the window
\* it is given.
NeverRefused == phase # "refused"

\* The exact stage's estimates are handed only for a stage that is cut, and only where
\* they need no render of another operation; an operation that is handed none reduces
\* the whole stage or a window at its origin (which the documentation excludes too).
EstimatesWhole ==
    phase = "cut" =>
        \A i \in DOMAIN cut.segments :
            LET s == cut.segments[i]
                same == InputStage(cut, i) = InputStage(whole, i)
            IN  /\ s.handed => /\ ~same
                               /\ \A j \in 1 .. i - 1 : cut.segments[j].entry.kind # "spatial"
                /\ s.entry.kind = "spatial" /\ s.entry.estimates /\ ~s.handed =>
                       same \/ (kept[i - 1].x = 0 /\ kept[i - 1].y = 0)

================================================================================
