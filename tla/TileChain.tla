------------------------------ MODULE TileChain ------------------------------
(***************************************************************************)
(* How one spatial operation is evaluated tile by tile                     *)
(* (render/spatial.rs, modules/spatial.rs): a chain of neighbourhood units *)
(* run over each tile of a stage, grown by the halos the units still to    *)
(* come will eat, and blended through a mask, with the tiles the mask      *)
(* leaves alone copied instead of run.                                     *)
(*                                                                         *)
(* A pixel's value after some units is the set of input pixels it was      *)
(* computed from, so a unit that misses a neighbour shows.  Three kinds of *)
(* input pixel are told apart because the copy depends on them: a negative *)
(* zero, a value that is not finite, and one that is finite but overflows  *)
(* in the units that read it.  Sizes in bytes are counted in pixels of     *)
(* three planes.                                                           *)
(*                                                                         *)
(* The Faulty... variants are used by no action: each is a                 *)
(* plausible slip in the definition after it, and a run must notice it.    *)
(***************************************************************************)
EXTENDS Integers, Sequences, FiniteSets, FiniteSetsExt, Functions

CONSTANTS
    Stages,         \* the stages' sizes, records of a width and a height
    Side,           \* SPATIAL_TILE
    MaxHalo,        \* MAX_SPATIAL_HALO
    Chains,         \* the units' halos, in evaluation order
    Masking,        \* the masks: "none", the "whole" stage's or "any"
    OddKinds,       \* the kinds of pixel that differ from the plain ones
    Scratch         \* planes of scratch a unit asks for, per input pixel

MaxUnits == 4       \* MAX_SPATIAL_UNITS

ASSUME TileChainAssumption ==
    /\ Stages \subseteq [width : Nat \ {0}, height : Nat \ {0}]
    /\ Side \in Nat \ {0}
    /\ MaxHalo \in Nat
    /\ Scratch \in Nat
    /\ \A halos \in Chains :
          \E units \in 1 .. MaxUnits : halos \in [1 .. units -> Nat]

VARIABLES
    stage,          \* the stage's size
    halos,          \* the units' halos at this stage
    mask,           \* what the operation is masked by, or NoMask
    odd,            \* the input pixel that is not plain
    asked,          \* the pixel a sample asks for, or Everything
    step,
    left,           \* the tiles still to run
    tile,           \* the tile being run
    region,         \* the rectangle the values cover
    index,          \* the units that have run on it
    values,         \* each pixel of it: the input pixels it comes from
    input,          \* the snapshot of the tile's own input
    frame           \* what has been written

job == <<stage, halos, mask, odd, asked>>
run == <<tile, region, index, values, input>>
vars == <<stage, halos, mask, odd, asked, step, left, tile, region, index,
          values, input, frame>>

NoMask == [bounds |-> {}, covered |-> {}, minus |-> {}, reads |-> FALSE,
           there |-> FALSE]
Everything == <<>>
Over == {"done", "refused"}

Lesser(a, b) == IF a < b THEN a ELSE b
Greater(a, b) == IF a > b THEN a ELSE b

---------------------------------------------------------------------------
\* Pixels, spans and rectangles of the stage.

Frame(s) == (0 .. s.width - 1) \X (0 .. s.height - 1)
Pixels == Frame(stage)
InSpan(span, x) == span.lo <= x /\ x < span.hi
Inside(r) == {p \in Pixels : InSpan(r.x, p[1]) /\ InSpan(r.y, p[2])}
Size(r) == (r.x.hi - r.x.lo) * (r.y.hi - r.y.lo)
Whole(s) == [x |-> [lo |-> 0, hi |-> s.width], y |-> [lo |-> 0, hi |-> s.height]]

GrownSpan(span, halo, size) ==
    [lo |-> Greater(span.lo - halo, 0), hi |-> Lesser(span.hi + halo, size)]

Grown(r, halo) ==
    [x |-> GrownSpan(r.x, halo, stage.width),
     y |-> GrownSpan(r.y, halo, stage.height)]

\* The side that lies on the stage's edge does not move.
ShrunkSpan(span, halo, size) ==
    LET lo == IF span.lo = 0 THEN 0 ELSE span.lo + halo
        hi == IF span.hi >= size THEN size ELSE Greater(span.hi - halo, 0)
    IN  [lo |-> lo, hi |-> Greater(lo, hi)]

Shrunk(r, halo) ==
    [x |-> ShrunkSpan(r.x, halo, stage.width),
     y |-> ShrunkSpan(r.y, halo, stage.height)]

\* The tiles of the stage, aligned to its origin, and the one of a pixel.
TileSpan(lo, size) == [lo |-> lo, hi |-> Lesser(lo + Side, size)]
Starts(size) == {lo \in 0 .. size - 1 : lo % Side = 0}
Tiles == {[x |-> TileSpan(p[1], stage.width), y |-> TileSpan(p[2], stage.height)] :
             p \in Starts(stage.width) \X Starts(stage.height)}
TileContaining(p) ==
    [x |-> TileSpan((p[1] \div Side) * Side, stage.width),
     y |-> TileSpan((p[2] \div Side) * Side, stage.height)]

---------------------------------------------------------------------------
\* The chain's halos: what is left of them from a unit on.

Halo(i) == IF i \in DOMAIN halos THEN halos[i] ELSE 0
From(i, unit) == IF unit >= i THEN Halo(unit) ELSE 0
Rest(i) == From(i, 1) + From(i, 2) + From(i, 3) + From(i, 4)
Summed == Rest(1)
Units == Len(halos)

\* What one tile may hold at once, for the largest tile of the stage: every
\* rectangle of the chain, the snapshot a mask needs and the largest
\* scratch.
FaultyLargestSpan(size, halo) == Lesser(Lesser(Side, size) + halo, size)
LargestSpan(size, halo) == Lesser(Lesser(Side, size) + 2 * halo, size)
LargestArea(halo) == LargestSpan(stage.width, halo) * LargestSpan(stage.height, halo)
WorkingSet ==
    MapThenSumSet(LAMBDA i : LargestArea(Rest(i)), 1 .. Units + 1)
        + (IF mask.there THEN LargestArea(0) ELSE 0)
        + Scratch * Max({LargestArea(Rest(i)) : i \in 1 .. Units})

\* The mask.  Outside its bounds the coverage is a zero, of either sign.
Coverage(p) ==
    IF p \in mask.covered THEN "some" ELSE IF p \in mask.minus THEN "minus" ELSE "plus"
Reached(t) == Inside(t) \intersect mask.bounds # {}
Uncovered(t) == ~Reached(t) \/ \A p \in Inside(t) : Coverage(p) # "some"

\* What the proof evaluated before a covered pixel stopped it, and found to
\* be exactly positive zero; nothing was evaluated outside the bounds.
NotAfter(q, p) == q[2] < p[2] \/ (q[2] = p[2] /\ q[1] <= p[1])
FaultyKnown(t) ==
    {p \in Inside(t) : \A q \in Inside(t) : NotAfter(q, p) => Coverage(q) # "some"}
Known(t) ==
    IF ~Reached(t) THEN {}
    ELSE {p \in Inside(t) : \A q \in Inside(t) : NotAfter(q, p) => Coverage(q) = "plus"}

\* A copied input is bit for bit the blended one unless it is a negative
\* zero, whose sum with a zero takes that one's sign, or not finite.
CopiesExactly(t) ==
    odd.kind \in {"negative_zero", "not_finite"} => odd.at \notin Inside(t)

Copied(t) == mask.there /\ Uncovered(t) /\ CopiesExactly(t)

---------------------------------------------------------------------------
\* What is written at a pixel.

Result(kind, from, sign, units) ==
    [kind |-> kind, from |-> from, sign |-> sign, units |-> units]
Kept(from) == Result("kept", from, "", {})
Blended(from, coverage, units) ==
    IF coverage = "some" THEN Result("mixed", from, "", units)
    ELSE IF odd.kind = "negative_zero" /\ odd.at \in from
         THEN Result("signed", from, coverage, units)
         ELSE Kept(from)
Written(p) ==
    IF mask.there
    THEN Blended(input[p], IF p \in Known(tile) THEN "plus" ELSE Coverage(p), values[p])
    ELSE Result("unit", {}, "", values[p])

NonFinite(from) == odd.kind \in {"not_finite", "overflowing"} /\ odd.at \in from

\* A unit reads the pixels within its halo, clamped to the stage.
Near(a, b, halo) == a - b <= halo /\ b - a <= halo
Box(p, halo) == {q \in Pixels : Near(p[1], q[1], halo) /\ Near(p[2], q[2], halo)}

---------------------------------------------------------------------------
SomeOf(set) == {{}, set} \union {{p} : p \in set}
MasksOver(s) ==
    {m \in [bounds : {{}, Frame(s), {p \in Frame(s) : 2 * p[1] < s.width}},
            covered : SomeOf(Frame(s)), minus : SomeOf(Frame(s)),
            reads : BOOLEAN, there : {TRUE}] : m.covered \subseteq m.bounds}
WholeMask(s) ==
    [bounds |-> Frame(s), covered |-> Frame(s), minus |-> {}, reads |-> FALSE,
     there |-> TRUE]

Init ==
    /\ stage \in Stages
    /\ halos \in Chains
    /\ \/ "none" \in Masking /\ mask = NoMask
       \/ "whole" \in Masking /\ mask = WholeMask(stage)
       \/ "any" \in Masking /\ mask \in MasksOver(stage)
    /\ \/ odd = [kind |-> "none", at |-> <<0, 0>>]
       \/ odd \in [kind : OddKinds, at : Pixels]
    /\ asked \in {Everything} \union Pixels
    /\ step = "plan"
    /\ left = {} /\ tile = Whole(stage) /\ region = Whole(stage) /\ index = 0
    /\ values = <<>> /\ input = <<>> /\ frame = <<>>

\* SpatialPlan::new refuses what needs more halo than it accepts.
TooWide == Summed > MaxHalo

Refuse ==
    /\ step = "plan" /\ TooWide
    /\ step' = "refused"
    /\ UNCHANGED <<job, left, run, frame>>

Accept ==
    /\ step = "plan" /\ ~TooWide
    /\ step' = "next"
    /\ left' = IF asked = Everything THEN Tiles ELSE {TileContaining(asked)}
    /\ UNCHANGED <<job, run, frame>>

\* The tiles share nothing; their results are placed in row-major order.
Begin(t) ==
    /\ step = "next" /\ t \in left
    /\ \A u \in left : NotAfter(<<t.x.lo, t.y.lo>>, <<u.x.lo, u.y.lo>>)
    /\ step' = "tile" /\ tile' = t /\ left' = left \ {t}
    /\ UNCHANGED <<job, region, index, values, input, frame>>

Placed(result) ==
    frame' = [p \in DOMAIN frame \union Inside(tile) |->
                 IF p \in Inside(tile) THEN result[p] ELSE frame[p]]

\* A tile without coverage, known before a pixel is read: only the tile is
\* filled.
CopyUnread ==
    /\ step = "tile" /\ Copied(tile)
    /\ ~Reached(tile) \/ ~mask.reads
    /\ step' = "next"
    /\ Placed([p \in Inside(tile) |-> Kept({p})])
    /\ UNCHANGED <<job, left, run>>

\* The mask reads pixels: the whole input is filled before it is asked.
CopyRead ==
    /\ step = "tile" /\ Copied(tile)
    /\ Reached(tile) /\ mask.reads
    /\ step' = "next"
    /\ Placed([p \in Inside(tile) |-> Kept({p})])
    /\ UNCHANGED <<job, left, run>>

Filled == Grown(tile, Summed)
FirstValues == [p \in Inside(Filled) |-> {p}]

Fill ==
    /\ step = "tile" /\ ~Copied(tile)
    /\ step' = "chain" /\ index' = 0
    /\ region' = Filled
    /\ values' = FirstValues
    /\ input' = [p \in Inside(tile) |-> FirstValues[p]]
    /\ UNCHANGED <<job, left, tile, frame>>

\* One unit: its output rectangle, each pixel from its neighbours.
Output == Shrunk(region, halos[index + 1])
Applied ==
    [p \in Inside(Output) |->
       UNION {values[q] : q \in Box(p, halos[index + 1]) \intersect DOMAIN values}]

RunUnit ==
    /\ step = "chain" /\ index < Units
    /\ \A p \in DOMAIN Applied : ~NonFinite(Applied[p])
    /\ index' = index + 1
    /\ region' = Output
    /\ values' = Applied
    /\ UNCHANGED <<job, step, left, tile, input, frame>>

UnitFails ==
    /\ step = "chain" /\ index < Units
    /\ \E p \in DOMAIN Applied : NonFinite(Applied[p])
    /\ step' = "refused"
    /\ UNCHANGED <<job, left, run, frame>>

Write ==
    /\ step = "chain" /\ index = Units
    /\ step' = "next"
    /\ Placed([p \in Inside(tile) |-> Written(p)])
    /\ UNCHANGED <<job, left, run>>

Finish ==
    /\ step = "next" /\ left = {}
    /\ step' = "done"
    /\ UNCHANGED <<job, left, run, frame>>

Finished == step \in Over /\ UNCHANGED vars

Next ==
    \/ Refuse \/ Accept
    \/ \E t \in left : Begin(t)
    \/ CopyUnread \/ CopyRead \/ Fill
    \/ RunUnit \/ UnitFails \/ Write
    \/ Finish
    \/ Finished

Spec == Init /\ [][Next]_vars

---------------------------------------------------------------------------
\* The types of the variables, the finished records of the job included.
Spans(size) == [lo : 0 .. size, hi : 0 .. size]
Rectangles == [x : Spans(stage.width), y : Spans(stage.height)]
TypeOK ==
    /\ stage \in Stages /\ halos \in Chains
    /\ asked \in {Everything} \union Pixels
    /\ step \in {"plan", "next", "tile", "chain"} \union Over
    /\ left \subseteq Tiles /\ tile \in Rectangles /\ region \in Rectangles
    /\ index \in 0 .. Units
    /\ DOMAIN frame \subseteq Pixels
    /\ step = "chain" => DOMAIN values = Inside(region) /\ DOMAIN input = Inside(tile)

\* A unit finds every pixel within its halo of every pixel it writes in
\* the rectangle it is given, so the read that panics is never made.
NeighboursFound ==
    step = "chain" /\ index < Units =>
        \A p \in Inside(Output) : Box(p, halos[index + 1]) \subseteq Inside(region)

\* The rectangle of the last unit contains the tile the host takes from it.
TileDelivered ==
    step = "chain" /\ index = Units => Inside(tile) \subseteq Inside(region)

\* What is written at a pixel, by a render or for a sample, copied or
\* blended, is what one evaluation of the units over the whole frame gives
\* there, blended through the mask at every pixel.
OfWholeFrame(p) ==
    IF mask.there THEN Blended({p}, Coverage(p), Box(p, Summed))
    ELSE Result("unit", {}, "", Box(p, Summed))
FrameAsWhole == \A p \in DOMAIN frame : frame[p] = OfWholeFrame(p)

\* A finished render has written every pixel and a finished sample the one
\* it was asked for, in the tile the render evaluates it in; no tile is
\* written over another.
Delivered ==
    /\ step = "done" =>
          IF asked = Everything THEN DOMAIN frame = Pixels
          ELSE \E t \in Tiles : asked \in DOMAIN frame /\ DOMAIN frame = Inside(t)
    /\ step \in {"tile", "chain"} => Inside(tile) \intersect DOMAIN frame = {}

\* Nothing that is written comes from a value that is not finite, neither
\* through the units nor as a copy of the input.
FrameFinite ==
    \A p \in DOMAIN frame :
       /\ ~NonFinite(frame[p].units)
       /\ odd.kind = "not_finite" => odd.at \notin frame[p].from

\* Every pixel a unit reads is one that its tile's input covers, each tile
\* leaves the chain whole, a frame put together from tiles is the one the
\* stage evaluated at once would be, with nothing in it that is not
\* finite, and what was asked for is what is delivered.
ChainSound ==
    NeighboursFound /\ TileDelivered /\ FrameAsWhole /\ FrameFinite /\ Delivered

\* The input of one tile crosses at most three by three tiles of the stage
\* it reads, which is what a point query's cache counts on.
NineTiles ==
    step = "chain" /\ index = 0 =>
        Cardinality({t \in Tiles : Inside(t) \intersect Inside(region) # {}}) <= 9

\* What running one tile holds at once.
Held ==
    IF step = "chain" /\ index < Units
    THEN Size(region) + Size(Output) + (IF mask.there THEN Size(tile) ELSE 0)
            + Scratch * Size(Filled)
    ELSE 0

\* A tile whose halo reaches no edge of the stage that the tile does not
\* lie on itself holds no more than the working set that was reserved.
OwnEdges(inner, outer, size) ==
    (outer.lo = 0 => inner.lo = 0) /\ (outer.hi = size => inner.hi = size)
PaidWithinEdges ==
    OwnEdges(tile.x, Filled.x, stage.width) /\ OwnEdges(tile.y, Filled.y, stage.height)
        => Held <= WorkingSet

\* What the code says of the working set: it is enough for every tile
\* (render/spatial.rs:163-167).  It is not: a rectangle that reaches an edge
\* stays wide there while the units run.
Paid == Held <= WorkingSet
=============================================================================
