------------------------------ MODULE MCPictures ------------------------------
(***************************************************************************)
(* How an edit becomes a picture, for TLC: the places of the layers in the *)
(* stack (Stack), the masks and their components (MaskTable), orientation  *)
(* and crop (Turning), presets (Presets), and then the chain of spatial    *)
(* units over tiles and the budget its evaluations share (TileChain and    *)
(* TileBudget, extended here) and what is cut out for a part of the        *)
(* picture (Windows).  They share no state, so one component moves in each *)
(* behaviour and the run is as large as their sum.                         *)
(***************************************************************************)
EXTENDS TileChain, TileBudget, SequencesExt, TLC

CONSTANTS Global, X1, X2, X3, Y1, Y2, NoLayer, None, R1, R2, R3, Query

VARIABLES
    part,  \* the component that takes the steps of this behaviour
    layers, bound,
    masks, written,
    turned,
    library, registry, stacks, files, clipboard,
    whole, phase, source, kept, cut

stackVars == <<layers, bound>>
maskVars == <<masks, written>>
turnVars == <<turned>>
presetVars == <<library, registry, stacks, files, clipboard>>
windowVars == <<whole, phase, source, kept, cut>>
everything == <<part, vars, stackVars, maskVars, turnVars, presetVars,
    budgetVars, windowVars>>

\* The effects of the built-in modules: their stages, orders and targets.
BuiltIn == [raw         |-> <<"Source", 0>>,
            pixel       |-> <<"Pixel", 0>>,
            basic       |-> <<"Color", 0>>,
            mixer       |-> <<"Color", 10>>,
            presence    |-> <<"Spatial", 0>>,
            orientation |-> <<"Geometry", 0>>,
            crop        |-> <<"Geometry", 10>>,
            vignette    |-> <<"Finish", 0>>]
Stage(effects) == [e \in effects |-> BuiltIn[e][1]]
Order(effects) == [e \in effects |-> BuiltIn[e][2]]
MayMask == {"basic", "mixer", "presence"}

Every == DOMAIN BuiltIn \ {"raw"}
Few == DOMAIN BuiltIn \ {"pixel", "orientation"}
Pair == {"basic", "presence"}
Shown == {"basic", "orientation", "crop", "vignette"}

\* A JPEG with every effect but the source's, a RAW, and two maskable
\* effects of neighbouring stages with two settings.
Jpeg == INSTANCE Stack WITH
    Effect <- Every, StageOf <- Stage(Every), OrderOf <- Order(Every),
    Maskable <- MayMask \cap Every, Single <- Every \ {"pixel"},
    Masks <- {X1, X2}, Values <- {1}, MaxMasks <- 2, MaxLayers <- 4,
    Sources <- {<<>>}, masks <- bound

Development == <<[effect |-> "raw", mask |-> Global, value |-> 1]>>

Raw == INSTANCE Stack WITH
    Effect <- Few, StageOf <- Stage(Few), OrderOf <- Order(Few),
    Maskable <- MayMask \cap Few, Single <- Few \ {"pixel"},
    Masks <- {X1, X2}, Values <- {1}, MaxMasks <- 2, MaxLayers <- 4,
    Sources <- {Development}, masks <- bound

Two == INSTANCE Stack WITH
    Effect <- Pair, StageOf <- Stage(Pair), OrderOf <- Order(Pair),
    Maskable <- MayMask \cap Pair, Single <- Pair \ {"pixel"},
    Masks <- {X1, X2}, Values <- {1, 2}, MaxMasks <- 2, MaxLayers <- 5,
    Sources <- {<<>>}, masks <- bound

\* Two masks of declared components; one of drawn and sampled ones.
Listing == INSTANCE MaskTable WITH
    Items <- {Y1}, DefaultNames <- <<"Mask 1", "Mask 2", "Mask 3">>,
    Ids <- {X1, X2, X3}, MaxComponents <- 2, MaxSamples <- 1,
    MaxStrokes <- 1, MaxWritten <- 0, Declared <- {"linear"}, Drawn <- {},
    Sampling <- {}, Modes <- {"add"}, TypedNames <- {"Mask 2"},
    MaxMasks <- 2, MaxOrdinal <- 3

Items == INSTANCE MaskTable WITH
    Items <- {Y1, Y2}, DefaultNames <- <<"Mask 1", "Mask 2", "Mask 3">>,
    Ids <- {X1, X2, X3}, MaxComponents <- 3, MaxSamples <- 1,
    MaxStrokes <- 1, MaxWritten <- 0, Declared <- {}, Drawn <- {"brush"},
    Sampling <- {"colour"}, Modes <- {"add", "subtract", "intersect"},
    TypedNames <- {}, MaxMasks <- 1, MaxOrdinal <- 2

\* A source of 3 by 2 pixels, stored stacks with orientations ahead of the
\* crop and behind it, and crops that round to the whole stage or out of
\* it.
Exact == INSTANCE Orientation

Empty == INSTANCE Turning WITH
    Effect <- Shown, StageOf <- Stage(Shown), OrderOf <- Order(Shown),
    Width <- 3, Height <- 2, Units <- 6, Framings <- {}, Stored <- {<<>>},
    layers <- turned

StoredCrops == {Exact!Rect(0, 0, 2, 6), Empty!Whole, Exact!Rect(3, 3, 3, 3)}
Framings ==
    StoredCrops \cup {Exact!Rect(0, 3, 6, 3), Exact!Rect(0, 0, 5, 6),
                     Exact!Rect(1, 1, 5, 5), Exact!Rect(1, 0, 4, 5)}

Basic == Empty!Layer("basic", Exact!Neutral, Empty!Whole)
Vignette == Empty!Layer("vignette", Exact!Neutral, Empty!Whole)

Stored ==
    LET turns  == {Empty!OrientationLayer(o) : o \in Exact!Orientations}
        ahead  == {<<Basic>>} \cup {<<t>> : t \in turns}
        crops  == {<<Empty!CropLayer(r)>> : r \in StoredCrops}
        behind == {<<>>} \cup {<<t>> : t \in turns}
                  \cup {<<Empty!OrientationLayer(Exact!Oriented(0, 1)),
                          Empty!OrientationLayer(Exact!Oriented(1, 3))>>}
        all    == {<<>>, <<Basic>>, <<Basic, Vignette>>}
                  \cup {a \o c \o b \o <<Vignette>> : a \in ahead, c \in crops, b \in behind}
    IN  {s \in all : Empty!Readable(s)}

Turns == INSTANCE Turning WITH
    Effect <- Shown, StageOf <- Stage(Shown), OrderOf <- Order(Shown),
    Width <- 3, Height <- 2, Units <- 6, Framings <- Framings,
    Stored <- Stored, layers <- turned

Corners == INSTANCE Turning WITH
    Effect <- Shown, StageOf <- Stage(Shown), OrderOf <- Order(Shown),
    Width <- 3, Height <- 2, Units <- 6,
    Framings <- {Exact!Rect(3, 3, 3, 3)}, Stored <- {<<>>, <<Basic>>},
    layers <- turned

\* Fields of the built-in patches; a missing midpoint means the middle of
\* its range, every other field's default is 0.
Fields == [basic |-> {"exposure"}, vignette |-> {"amount", "midpoint"}, controls |-> {"level"}]
Defaults ==
    [f \in {"exposure", "amount", "midpoint", "level"} |-> IF f = "midpoint" THEN 1 ELSE 0]
Decides == [Fields EXCEPT !.vignette = {"amount"}]
Lower == [n \in {"soft", "Soft", "film", "User presets", "Imported"} |->
             IF n = "Soft" THEN "soft" ELSE n]

\* Settings sets that clients make up, one with a value out of its range.
Sets(a, f, v) == [b \in {a} |-> [g \in {f} |-> v]]

\* Two photographs to capture from; a library of two under names that
\* differ in case, without the developer's controls in some starts; and a
\* preset whose module is not in every start.
Looks == INSTANCE Presets WITH
    FieldsOf <- Fields, DefaultOf <- Defaults, Deciding <- Decides,
    Value <- {0, 1}, OutOfRange <- 9, Group <- {"User presets", "Imported"},
    Folded <- Lower, UserPresets <- "User presets", Imported <- "Imported",
    MaxPresets <- 1, Files <- {}, Patch <- {"basic", "vignette"},
    Preset <- {}, Photo <- {X1, X2}, Name <- {"soft"},
    Registries <- {{"basic", "vignette"}}, Offered <- {}, held <- clipboard

Library == INSTANCE Presets WITH
    FieldsOf <- Fields, DefaultOf <- Defaults, Deciding <- Decides,
    Value <- {0, 1}, OutOfRange <- 9, Group <- {"User presets", "Imported"},
    Folded <- Lower, UserPresets <- "User presets", Imported <- "Imported",
    MaxPresets <- 2,
    Files <- {[name |-> "soft", group |-> None, settings |-> Sets("basic", "exposure", 1)]},
    Patch <- {"basic", "controls"}, Preset <- {X1, X2, X3}, Photo <- {},
    Name <- {"soft", "Soft", "film"},
    Registries <- {{"basic", "controls"}, {"basic"}},
    Offered <- {Sets("basic", "exposure", 1), Sets("controls", "level", 1), Sets("basic", "exposure", 9), <<>>},
    held <- clipboard

Unlinked == INSTANCE Presets WITH
    FieldsOf <- Fields, DefaultOf <- Defaults, Deciding <- Decides,
    Value <- {0, 1}, OutOfRange <- 9, Group <- {"User presets", "Imported"},
    Folded <- Lower, UserPresets <- "User presets", Imported <- "Imported",
    MaxPresets <- 1, Files <- {}, Patch <- {"vignette"}, Preset <- {X1},
    Photo <- {X1}, Name <- {"soft"}, Registries <- {{"vignette"}, {}},
    Offered <- {Sets("vignette", "midpoint", 0), Sets("vignette", "amount", 9)},
    held <- clipboard

\* Two renders whose tiles are a quarter of the target, which is also what
\* a query may hold: what a row of points reads just fits, what a walk
\* over the stage reads does not.  A render of one tile is beside a query.
BytesOf == [e \in {R1, R2, R3, Query} |-> IF e = Query THEN 2 ELSE 3]
TilesOf == [r \in {R1, R2, R3} |-> CASE r = R1 -> 5 [] r = R2 -> 4 [] r = R3 -> 1]
OneEstimate == [r \in {R1, R2, R3} |-> "first"]
Row == << <<0, 1>>, <<1, 1>>, <<2, 1>>, <<0, 1>> >>
Walk == [i \in 1 .. 9 |-> <<(i - 1) % 3, (i - 1) \div 3>>]
Reads == {<< <<1, 1>> >>, Row, Walk}

\* Stacks of up to three segments over a source of 14 by 11 pixels: the
\* steps of a segment by name, and a straightened crop of 3 by 2 pixels.
StepsOf(shape, on) ==
    LET w == on.width h == on.height
    IN  IF shape = "plain" THEN <<>>
        ELSE IF shape = "turned" THEN <<Exact!Step("RotateRight", w, h)>>
        ELSE IF shape = "cropped" THEN <<Exact!Cropping(Exact!Rect(5, 2, w - 6, h - 5))>>
        ELSE <<Exact!Step("RotateLeft", w, h), Exact!Cropping(Exact!Rect(1, 6, h - 4, w - 7))>>

Shapes == {"plain", "turned", "cropped", "tall"}

Entry(kind, halo, estimates, cx, cy) ==
    [kind |-> kind, halo |-> halo, estimates |-> estimates, cx |-> cx, cy |-> cy,
     width |-> 3, height |-> 2]

EntriesOver(on) ==
    {Entry("resample", 0, FALSE, o[1], o[2]) :
        o \in {o \in {<<12, 0>>, <<53, 27>>, <<116, 76>>} :
                 o[1] + 24 <= 10 * on.width /\ o[2] + 34 <= 10 * on.height}}
    \union {Entry("spatial", 1, FALSE, 0, 0), Entry("spatial", 2, TRUE, 0, 0)}

SegmentOf(entry, on, shape, positional) ==
    LET g == FoldLeft(Exact!After, Exact!Identity(on.width, on.height), StepsOf(shape, on))
    IN  [entry |-> entry, geometry |-> g, steps |-> StepsOf(shape, on),
         positional |-> positional, origin |-> <<0, 0>>, maskOrigin |-> <<0, 0>>,
         handed |-> FALSE, width |-> g.width, height |-> g.height]

Scene == Exact!Rect(0, 0, 14, 11)
Begins(shape) == SegmentOf(Entry("source", 0, FALSE, 0, 0), Scene, shape, FALSE)

Longer(segments) ==
    LET last == Last(segments)
        over(e) == IF e.kind = "resample" THEN [width |-> e.width, height |-> e.height]
                   ELSE [width |-> last.width, height |-> last.height]
        shapes(e) == IF e.kind = "resample" THEN {"plain", "turned"} ELSE Shapes
    IN  {Append(segments, s) : s \in {s \in
            UNION {{SegmentOf(e, over(e), shape, positional) :
                        shape \in shapes(e), positional \in BOOLEAN}
                   : e \in EntriesOver([width |-> last.width, height |-> last.height])} :
            s.width > 0 /\ s.height > 0}}

Compilations ==
    LET one   == {<<Begins(shape)>> : shape \in Shapes}
        two   == UNION {Longer(s) : s \in one}
        three == UNION {Longer(s) : s \in two}
    IN  {[source |-> Scene, segments |-> s] : s \in one \union two \union three}

Uncut == {[source |-> Scene, segments |-> <<Begins("plain")>>]}

Views == INSTANCE Windows WITH
    Stacks <- Compilations, TileSide <- 3, TapMargin <- 2

Still == INSTANCE Windows WITH
    Stacks <- Uncut, TileSide <- 3, TapMargin <- 2

\* The chain extended here has one or two tiles, every mask and every odd
\* pixel; besides, every width up to four tiles, and stages wide enough
\* that a tile reaches no edge.
FewTiles == {[width |-> 3, height |-> 1], [width |-> 3, height |-> 2]}
ShortChains == {<<1>>, <<1, 1>>}

Shaped == INSTANCE TileChain WITH
    Stages <- [width : 1 .. 7, height : {1, 5}],
    Chains <- {<<1>>, <<2>>, <<0, 1>>, <<1, 1>>, <<2, 1>>, <<1, 0, 1>>, <<0, 1, 0, 1>>},
    Masking <- {"none"}, OddKinds <- {}

Wide == INSTANCE TileChain WITH
    Stages <- [width : {5, 7, 8}, height : {5, 6}],
    Chains <- {<<1>>, <<2>>, <<1, 1>>, <<0, 1>>},
    Masking <- {"none", "whole"}, OddKinds <- {}

ASSUME Assumptions ==
    /\ Jpeg!PlacementAssumption /\ Jpeg!StackAssumption
    /\ Raw!StackAssumption /\ Two!StackAssumption
    /\ Listing!MaskTableAssumption /\ Items!MaskTableAssumption
    /\ Turns!TurningAssumption
    /\ Looks!FieldPatchAssumption /\ Looks!PresetAssumption
    /\ Library!FieldPatchAssumption /\ Library!PresetAssumption
    /\ Unlinked!FieldPatchAssumption /\ Unlinked!PresetAssumption
    /\ TileBudgetAssumption
    /\ Views!WindowAssumption

\* A component that does not move rests where it may begin.
PicturesInit ==
    /\ part \in {"chain", "shaped", "wide", "jpeg", "raw", "two", "listing", "items",
                 "turns", "corners", "looks", "library", "unlinked",
                 "renders", "points", "walks", "views"}
    /\ IF part = "raw" THEN Raw!Init ELSE Jpeg!Init
    /\ Listing!Init
    /\ IF part = "turns" THEN Turns!Init ELSE IF part = "corners" THEN Corners!Init ELSE Empty!Init
    /\ IF part = "library" THEN Library!Init ELSE IF part = "unlinked" THEN Unlinked!Init ELSE Looks!Init
    /\ BudgetInit
    /\ IF part = "views" THEN Views!Init ELSE Still!Init
    /\ IF part = "chain" THEN Init ELSE IF part = "wide" THEN Wide!Init ELSE Shaped!Init
    /\ part \notin {"chain", "shaped", "wide"} =>
          stage = [width |-> 1, height |-> 1] /\ halos = <<1>> /\ asked = Everything

ChainSteps ==
    /\ part = "chain"
    /\ Next
    /\ UNCHANGED <<part, stackVars, maskVars, turnVars, presetVars,
        budgetVars, windowVars>>

ShapedSteps ==
    /\ part = "shaped"
    /\ Shaped!Next
    /\ UNCHANGED <<part, stackVars, maskVars, turnVars, presetVars,
        budgetVars, windowVars>>

WideSteps ==
    /\ part = "wide"
    /\ Wide!Next
    /\ UNCHANGED <<part, stackVars, maskVars, turnVars, presetVars,
        budgetVars, windowVars>>

JpegSteps ==
    /\ part = "jpeg"
    /\ Jpeg!Next
    /\ UNCHANGED <<part, vars, maskVars, turnVars, presetVars, budgetVars,
        windowVars>>

RawSteps ==
    /\ part = "raw"
    /\ Raw!Next
    /\ UNCHANGED <<part, vars, maskVars, turnVars, presetVars, budgetVars,
        windowVars>>

TwoSteps ==
    /\ part = "two"
    /\ Two!Next
    /\ UNCHANGED <<part, vars, maskVars, turnVars, presetVars, budgetVars,
        windowVars>>

ListingSteps ==
    /\ part = "listing"
    /\ Listing!Next
    /\ UNCHANGED <<part, vars, stackVars, turnVars, presetVars, budgetVars,
        windowVars>>

ItemSteps ==
    /\ part = "items"
    /\ Items!Next
    /\ UNCHANGED <<part, vars, stackVars, turnVars, presetVars, budgetVars,
        windowVars>>

TurnSteps ==
    /\ part = "turns"
    /\ Turns!Next
    /\ UNCHANGED <<part, vars, stackVars, maskVars, presetVars, budgetVars,
        windowVars>>

CornerSteps ==
    /\ part = "corners"
    /\ Corners!Next
    /\ UNCHANGED <<part, vars, stackVars, maskVars, presetVars, budgetVars,
        windowVars>>

LookSteps ==
    /\ part = "looks"
    /\ Looks!Next
    /\ UNCHANGED <<part, vars, stackVars, maskVars, turnVars, budgetVars,
        windowVars>>

LibrarySteps ==
    /\ part = "library"
    /\ Library!Next
    /\ UNCHANGED <<part, vars, stackVars, maskVars, turnVars, budgetVars,
        windowVars>>

UnlinkedSteps ==
    /\ part = "unlinked"
    /\ Unlinked!Next
    /\ UNCHANGED <<part, vars, stackVars, maskVars, turnVars, budgetVars,
        windowVars>>

\* The evaluations that move; the others have not begun.  A walk is alone.
Moving(some) ==
    \/ \E e \in some : Working(e)
    \/ \E r \in some \cap Renders : Cancel(r)
    \/ (\A e \in some : doing[e] \in Ended) /\ UNCHANGED budgetVars

RenderSteps ==
    /\ part = "renders"
    /\ Moving({R1, R2})
    /\ UNCHANGED <<part, vars, stackVars, maskVars, turnVars, presetVars,
        windowVars>>

PointSteps ==
    /\ part = "points"
    /\ Moving({R3, Query}) /\ Len(toRead'[Query]) <= Len(Row)
    /\ UNCHANGED <<part, vars, stackVars, maskVars, turnVars, presetVars,
        windowVars>>

WalkSteps ==
    /\ part = "walks"
    /\ Moving({Query})
    /\ UNCHANGED <<part, vars, stackVars, maskVars, turnVars, presetVars,
        windowVars>>

ViewSteps ==
    /\ part = "views"
    /\ Views!Next
    /\ UNCHANGED <<part, vars, stackVars, maskVars, turnVars, presetVars,
        budgetVars>>

PicturesNext ==
    \/ ChainSteps \/ ShapedSteps \/ WideSteps \/ JpegSteps \/ RawSteps
    \/ TwoSteps \/ ListingSteps \/ ItemSteps \/ TurnSteps \/ CornerSteps
    \/ LookSteps \/ LibrarySteps \/ UnlinkedSteps \/ RenderSteps \/ PointSteps
    \/ WalkSteps \/ ViewSteps

PicturesSpec == PicturesInit /\ [][PicturesNext]_everything

-----------------------------------------------------------------------------
\* Properties

\* A chain over tiles of every width is whole; a tile's input crosses at
\* most nine tiles of the stage it reads, and a tile away from the edges
\* is paid for by its working set.  A walk over a stage evaluates each
\* tile once, though it cannot hold them all.
ChainDelivers ==
    /\ part = "chain" => TypeOK
    /\ part = "shaped" => Shaped!TypeOK /\ Shaped!NineTiles /\ Shaped!ChainSound
    /\ part = "wide" => Wide!PaidWithinEdges
    /\ part \in {"points", "walks"} => WalkedOnce

\* Whatever order edits, masks' moves and copies come in, the stack stands
\* in the order the picture is evaluated in and every layer is bound to a
\* mask that is listed; two edits commute, an edit leaves every other
\* target as it was, and moving a mask moves no layer past another effect.
StackInOrder ==
    /\ [](part = "jpeg" => Jpeg!TypeOK /\ Jpeg!StagesInOrder /\ Jpeg!OrderWithinStage
                           /\ Jpeg!MasksInOrder /\ Jpeg!BoundToListed)
    /\ [](part = "raw" => Raw!EditsCommute)
    /\ [][part = "two" => Two!LeavesOthers /\ Two!KeepsPlaces]_stackVars

\* The components of a mask keep the rules that the refusals state, no two
\* share an identity or an ordinal, whatever is copied, moved or deleted.
MasksWhole ==
    /\ part # "items" => Listing!TypeOK /\ Listing!OrdinalsCover /\ Listing!OneIdentity
    /\ part = "items" => Items!TypeOK /\ Items!RuleIsRefusal

\* A transform turns exactly what the stack shows, through a crop and what
\* stands behind it, is never nothing, and never makes a stack that reads
\* outside its stage; and looking at corners decides for every pixel.
TransformsTurn ==
    /\ [](part \in {"turns", "corners"} =>
            Turns!TypeOK /\ Turns!AlwaysAnEdit /\ Turns!NeverOutside)
    /\ [](part = "corners" => Corners!CornersDecide /\ Corners!RegionsDecide)
    /\ [][part = "turns" => Turns!TurnsPicture /\ Turns!CropIsBehind]_turnVars

\* A preset that is captured and applied carries the look it was captured
\* from and leaves other fields alone; the library has one preset of a
\* name and keeps its bound, an export comes back when it is imported, and
\* a preset that is offered can be applied.
PresetsCarry ==
    /\ [](part = "looks" => Looks!TypeOK /\ Looks!CaptureCarriesTheLook)
    /\ [](part = "library" => Library!OneOfAName /\ Library!LibraryBounded
                               /\ Library!ExportComesBack)
    /\ [](part = "unlinked" => Unlinked!ListedApplies)
    /\ [][part = "looks" => Looks!KeepsOthers]_presetVars

\* A picture cut to what a part of the frame reads shows that part as the
\* whole picture would, is never refused, and hands the exact estimates
\* only where the stage is cut and no other operation need be rendered for
\* them; an operation that is handed none and estimates from a window has
\* that window at its stage's origin.
WindowsAlike ==
    part = "views" => Views!TypeOK /\ Views!FrameUnchanged
                      /\ Views!NeverRefused /\ Views!EstimatesWhole
===============================================================================
