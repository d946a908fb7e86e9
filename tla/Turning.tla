------------------------------- MODULE Turning -------------------------------
(***************************************************************************)
(* The geometry tail of a stack (modules/transform.rs, modules/crop).      *)
(*                                                                         *)
(* A stack turns and reflects its picture through one orientation layer    *)
(* and frames it through one crop layer behind it. A transform is applied  *)
(* to what the stack shows, yet it is made ahead of the crop, so the crop  *)
(* is carried through it, and an orientation a stored stack holds behind   *)
(* the crop is folded into the one ahead.                                  *)
(*                                                                         *)
(* A crop's payload is the rectangle in fractions of its input stage, here *)
(* in Units of a side. Straightening is left out: the angle is zero.       *)
(***************************************************************************)
EXTENDS Placement, Orientation

CONSTANTS Width, Height,  \* the extents of the source
          Units,          \* the fractions of a side a payload tells apart
          Framings,       \* the crops that are set
          Stored          \* the stacks the catalog may hold

VARIABLE layers

TurningAssumption ==
    /\ {Width, Height, Units} \subseteq Nat \ {0}
    /\ Units % Width = 0 /\ Units % Height = 0
    /\ {"orientation", "crop"} \subseteq Effect

Whole == Rect(0, 0, Units, Units)    \* the payload of a neutral crop

\* The payloads that lie in the unit square and are not empty.
Payloads == {r \in [x : 0..Units - 1, y : 0..Units - 1, width : 1..Units, height : 1..Units] :
               r.x + r.width <= Units /\ r.y + r.height <= Units}

Layer(effect, turn, crop) == [effect |-> effect, mask |-> Global, turn |-> turn, crop |-> crop]
OrientationLayer(o) == Layer("orientation", o, Whole)
CropLayer(r) == Layer("crop", Neutral, r)

IsOrientation(l) == l.effect = "orientation"
IsCrop(l) == l.effect = "crop"

-----------------------------------------------------------------------------
\* What the layers do to the stage they receive.

\* Half of a pixel is rounded up, and an extent is never empty.
Rounded(n, side) == (2 * n * side + Units) \div (2 * Units)
Extent(n, side) == IF Rounded(n, side) = 0 THEN 1 ELSE Rounded(n, side)

\* The pixels a payload selects of a stage.
OutputRect(r, w, h) ==
    Rect(Rounded(r.x, w), Rounded(r.y, h), Extent(r.width, w), Extent(r.height, h))

\* A rectangle whose corner was rounded out of the stage is refused.
Covered(r, w, h) ==
    LET rect == OutputRect(r, w, h)
    IN  rect.x + rect.width <= w /\ rect.y + rect.height <= h

\* The mapping one layer declares for the stage it receives.
Declared(l, w, h) ==
    IF IsOrientation(l) THEN GeometryOf(l.turn, w, h)
    ELSE IF IsCrop(l) THEN Cropping(OutputRect(l.crop, w, h))
    ELSE Identity(w, h)

\* The mapping of the first n layers, composed into one.
Compiled(stack, n) ==
    LET through[i \in 0..n] ==
          IF i = 0 THEN Identity(Width, Height)
          ELSE LET g == through[i - 1]
               IN  After(g, Declared(stack[i], g.width, g.height))
    IN  through[n]

\* Every layer's mapping reads inside the stage it receives.
Readable(stack) ==
    \A i \in 1..Len(stack) :
       LET g == Compiled(stack, i - 1)
       IN  ReadsInside(Declared(stack[i], g.width, g.height), g.width, g.height)

-----------------------------------------------------------------------------
\* The transform.

\* A rectangle of whole pixels as the payload that selects it.
Normalized(r, w, h) ==
    Rect((r.x * Units) \div w, (r.y * Units) \div h,
         (r.width * Units) \div w, (r.height * Units) \div h)

\* Where a rectangle of a stage lies when the stage is mirrored and then turned.
CarriedRect(r, w, h, o) ==
    LET q == IF o.mirror = 1 THEN Rect(w - (r.x + r.width), r.y, r.width, r.height) ELSE r
    IN  IF o.turns = 0 THEN q
        ELSE IF o.turns = 1 THEN Rect(h - (q.y + q.height), q.x, q.height, q.width)
        ELSE IF o.turns = 2
        THEN Rect(w - (q.x + q.width), h - (q.y + q.height), q.width, q.height)
        ELSE Rect(q.y, w - (q.x + q.width), q.height, q.width)

\* The payload that selects the same content of the turned stage.
Carried(r, w, h, o) ==
    IF r = Whole THEN Whole
    ELSE LET rect == CarriedRect(OutputRect(r, w, h), w, h, o)
         IN  IF o.turns \in {1, 3} THEN Normalized(rect, h, w) ELSE Normalized(rect, w, h)

\* The orientations behind the first n layers, made one after the other.
Folded(stack, n) ==
    LET from[i \in n..Len(stack)] ==
          IF i = n THEN Neutral
          ELSE IF IsOrientation(stack[i]) THEN FollowedBy(from[i - 1], stack[i].turn)
          ELSE from[i - 1]
    IN  from[Len(stack)]

\* The layers behind the first n: the crop carried, the orientations neutral.
Rewritten(stack, n, o) ==
    [i \in 1..Len(stack) |->
        LET g == Compiled(stack, i - 1)
        IN  IF i > n /\ IsOrientation(stack[i]) THEN OrientationLayer(Neutral)
            ELSE IF i > n /\ IsCrop(stack[i])
            THEN CropLayer(Carried(stack[i].crop, g.width, g.height, o))
            ELSE stack[i]]

\* The stack a transform makes: what it and the orientations behind do together
\* goes to the orientation just ahead, or to a new one there.
Edits(stack, t) ==
    LET at     == InsertionIndex(stack, "orientation")
        turned == Then(Folded(stack, at), t)
        new    == Rewritten(stack, at, turned)
    IN  IF at > 0 /\ IsOrientation(stack[at])
        THEN [new EXCEPT ![at].turn = FollowedBy(@, turned)]
        ELSE IF turned = Neutral THEN new
        ELSE PlacedAt(new, at, OrientationLayer(turned))

-----------------------------------------------------------------------------
\* The actions.

Init == layers \in Stored

Transform(t) == layers' = Edits(layers, t)

Crops == {i \in 1..Len(layers) : IsCrop(layers[i])}

\* The crop layer's own stage, or the whole output when the stack has none.
CropStage ==
    LET g == IF Crops = {} THEN Compiled(layers, Len(layers))
             ELSE Compiled(layers, (CHOOSE i \in Crops : TRUE) - 1)
    IN  <<g.width, g.height>>

\* A crop is set: the same one, and a neutral one of a stack without a layer,
\* are no edit.
Crop(r) ==
    /\ Covered(r, CropStage[1], CropStage[2])
    /\ IF Crops = {}
       THEN /\ r # Whole
            /\ layers' = PlacedAt(layers, InsertionIndex(layers, "crop"), CropLayer(r))
       ELSE \E i \in Crops :
              /\ layers[i].crop # r
              /\ layers' = [layers EXCEPT ![i] = CropLayer(r)]

CropReset ==
    \E i \in Crops :
       /\ layers[i].crop # Whole
       /\ layers' = [layers EXCEPT ![i] = CropLayer(Whole)]

Next ==
    \/ \E t \in Transforms : Transform(t)
    \/ \E r \in Framings : Crop(r)
    \/ CropReset

Spec == Init /\ [][Next]_layers

-----------------------------------------------------------------------------
\* Properties.

\* Layers carry orientations and payloads that exist, a crop's rounds to pixels of
\* the stage it receives, and there is one crop.
TypeOK ==
    /\ \A i \in 1..Len(layers) :
          /\ layers[i].effect \in Effect
          /\ layers[i].turn \in Orientations /\ layers[i].crop \in Payloads
    /\ Cardinality(Crops) <= 1

\* A picture as its extents and the source pixel each of its pixels shows.
Picture(stack) ==
    LET g == Compiled(stack, Len(stack))
    IN  [width  |-> g.width, height |-> g.height,
         pixel  |-> [x \in 0..(g.width - 1), y \in 0..(g.height - 1) |-> Reads(g, x, y)]]

\* A picture turned or reflected on the table, told by its pixels alone.
PictureAfter(t, p) ==
    IF t = "RotateRight" THEN
        [width |-> p.height, height |-> p.width,
         pixel |-> [x \in 0..(p.height - 1), y \in 0..(p.width - 1) |->
                      p.pixel[y, p.height - 1 - x]]]
    ELSE IF t = "RotateLeft" THEN
        [width |-> p.height, height |-> p.width,
         pixel |-> [x \in 0..(p.height - 1), y \in 0..(p.width - 1) |->
                      p.pixel[p.width - 1 - y, x]]]
    ELSE
        [p EXCEPT !.pixel = [x \in 0..(p.width - 1), y \in 0..(p.height - 1) |->
            IF t = "MirrorHorizontal" THEN p.pixel[p.width - 1 - x, y]
            ELSE p.pixel[x, p.height - 1 - y]]]

\* A transform turns exactly what the stack shows, through a crop and through
\* whatever a stored stack holds behind it: edits, Orientation::then,
\* CropStage::carried and ExactGeometry::then agree to the pixel.
TurnsPicture ==
    \A t \in Transforms :
        layers' = Edits(layers, t) => Picture(layers') = PictureAfter(t, Picture(layers))

TurnsOutput == [][TurnsPicture]_layers

\* Whatever was stored, after a transform no orientation behind the crop turns
\* anything: "the crop's input stage therefore includes every transform".
CropIsBehind ==
    \A t \in Transforms :
        layers' = Edits(layers, t) =>
            \A i, j \in 1..Len(layers') :
                IsCrop(layers'[i]) /\ IsOrientation(layers'[j]) /\ i < j
                    => layers'[j].turn = Neutral

CropSeesAll == [][CropIsBehind]_layers

\* A transform is never a no-op (plan "always has at least one edit"): also when
\* it undoes what it is folded with.
AlwaysAnEdit == \A t \in Transforms : Edits(layers, t) # layers

\* Every stack the actions reach compiles: no crop carried through transforms,
\* and none set on a turned stage, reads outside the stage it receives.
NeverOutside == Readable(layers)

\* Steps a stack may compile to: any place of the stage it shows, turned any way.
Steps(w, h) ==
    {After(GeometryOf(o, w, h), Cropping(Rect(x, y, p, q))) :
       o \in Orientations, x \in -1..w, y \in -1..h, p \in 1..2, q \in 1..2}

\* The four corners tell what a look at every pixel would (ExactGeometry::
\* reads_inside), for every step on the stage that the stack shows.
CornersDecide ==
    LET g == Compiled(layers, Len(layers))
    IN  \A step \in Steps(g.width, g.height) :
           ReadsInside(step, g.width, g.height)
             <=> \A i \in 0..(step.width - 1), j \in 0..(step.height - 1) :
                    LET p == Reads(step, i, j)
                    IN  p[1] \in 0..(g.width - 1) /\ p[2] \in 0..(g.height - 1)

\* Two opposite corners tell where a rectangle of the stage lands: the pixels of
\* MapRegion are the output pixels that read the rectangle, so a masked frame that
\* is skipped as cropped away shows nowhere, and UnmapRegion is what those read.
RegionsDecide ==
    LET g == Compiled(layers, Len(layers))
        regions == {Rect(x, y, p, q) : x \in 0..(g.width - 1), y \in 0..(g.height - 1),
                                       p \in 0..2, q \in 1..2}
    IN  \A step \in Steps(g.width, g.height), r \in regions :
           LET out  == PixelsOf(Rect(0, 0, step.width, step.height))
               seen == {p \in out : Reads(step, p[1], p[2]) \in PixelsOf(r)}
               land == MapRegion(step, r)
           IN  /\ PixelsOf(land) = seen
               /\ seen # {} => PixelsOf(UnmapRegion(step, land))
                                = {Reads(step, p[1], p[2]) : p \in seen}
=============================================================================
