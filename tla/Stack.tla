-------------------------------- MODULE Stack --------------------------------
(***************************************************************************)
(* The recipe of one asset under edits (editor/plan.rs, mask/commands.rs). *)
(*                                                                         *)
(* An edit of a module's settings goes to one target: the whole picture or *)
(* one mask. The module finds the one layer of its effect that belongs to  *)
(* the target and updates it where it stands, or has a new one placed. A   *)
(* mask command changes the list of masks, and the layers bound to them    *)
(* with it. Each of them makes the next recipe as a whole or is refused:   *)
(* the model takes only the ones that change something.                    *)
(*                                                                         *)
(* A mask is its identity here (its components are in MaskTable) and a     *)
(* layer's settings are one value of a small set.                          *)
(***************************************************************************)
EXTENDS Placement

CONSTANTS Maskable,    \* the effects a mask may be the target of
          Single,      \* the effects with at most one layer for a target
          Masks,       \* the identities of masks
          Values,      \* the settings a layer may hold
          MaxMasks,    \* MASKS_PER_RECIPE
          MaxLayers,   \* a bound of the model: layers of one recipe
          Sources      \* the recipes an asset begins with

StackAssumption ==
    /\ Maskable \subseteq Single
    /\ Single \subseteq Effect
    /\ Global \notin Masks
    /\ MaxMasks \in Nat /\ MaxLayers \in Nat

VARIABLES layers,      \* Recipe.layers
          masks        \* Recipe.masks, by identity

vars == <<layers, masks>>

Target == {Global} \cup Masks
Layer == [effect : Effect, mask : Target, value : Values]
Listed == {masks[i] : i \in DOMAIN masks}

TypeOK ==
    /\ layers \in Seq(Layer) /\ Len(layers) <= MaxLayers
    /\ masks \in Seq(Masks) /\ Len(masks) <= MaxMasks

-----------------------------------------------------------------------------
\* The edit of one module's settings.

\* The layer belongs to the stack the target sees.
InTarget(layer, target) == layer.mask = target \/ layer.effect \notin Maskable

\* The layers of the effect the target owns: one, if there are any.
OwnLayers(stack, effect, target) ==
    {i \in 1..Len(stack) : /\ stack[i].effect = effect
                           /\ effect \in Single
                           /\ InTarget(stack[i], target)}

\* The stack after the edit: the target's own layer is updated in its place,
\* or a new one joins the stack where its effect and its target say.
Edited(stack, list, effect, target, value) ==
    LET own == OwnLayers(stack, effect, target)
        new == [effect |-> effect, mask |-> target, value |-> value]
    IN  IF own # {} THEN [i \in 1..Len(stack) |->
                            IF i \in own THEN [stack[i] EXCEPT !.value = value] ELSE stack[i]]
        ELSE PlacedAt(stack, TargetIndex(stack, effect, target, list), new)

\* A target the effect accepts and the recipe holds.
Allowed(effect, target) ==
    \/ target = Global
    \/ effect \in Maskable /\ target \in Listed

EditLayer(effect, target, value) ==
    /\ StageOf[effect] # "Source" \/ OwnLayers(layers, effect, target) # {}
    /\ Allowed(effect, target)
    /\ layers' = Edited(layers, masks, effect, target, value)
    /\ layers' # layers
    /\ Len(layers') <= MaxLayers
    /\ UNCHANGED masks

\* A composite, such as applying a preset: its steps edit the global layers of
\* their effects, each against the stack the one before it made.
Compose(first, second, value) ==
    /\ first # second /\ {first, second} \subseteq Single
    /\ "Source" \notin {StageOf[first], StageOf[second]}
    /\ layers' = Edited(Edited(layers, masks, first, Global, value), masks, second, Global, value)
    /\ layers' # layers
    /\ Len(layers') <= MaxLayers
    /\ UNCHANGED masks

-----------------------------------------------------------------------------
\* The mask commands that reach the layers.

Without(list, m) == SelectSeq(list, LAMBDA n : n # m)

\* mask.create-<kind>, and the first stroke of a new mask.
CreateMask(m) ==
    /\ Len(masks) < MaxMasks /\ m \notin Listed
    /\ masks' = Append(masks, m)
    /\ UNCHANGED layers

\* mask.delete, with the layers bound to the mask.
DeleteMask(m) ==
    /\ m \in Listed
    /\ masks' = Without(masks, m)
    /\ layers' = SelectSeq(layers, LAMBDA l : l.mask # m)

\* The layers bound to the source, each followed by its copy.
WithCopies(stack, source, copy) ==
    LET before(i) == Cardinality({j \in 1..(i - 1) : stack[j].mask = source})
        total     == Len(stack) + before(Len(stack) + 1)
        layerOf(k) == CHOOSE i \in 1..Len(stack) :
                        \/ k = i + before(i)
                        \/ stack[i].mask = source /\ k = i + before(i) + 1
        isCopy(k) == LET i == layerOf(k) IN k # i + before(i)
    IN  [k \in 1..total |-> IF isCopy(k) THEN [stack[layerOf(k)] EXCEPT !.mask = copy]
                            ELSE stack[layerOf(k)]]

\* mask.duplicate: the copy stands right behind its source.
DuplicateMask(source, copy) ==
    /\ Len(masks) < MaxMasks
    /\ source \in Listed /\ copy \notin Listed
    /\ masks' = PlacedAt(masks, TargetRank(source, masks), copy)
    /\ layers' = WithCopies(layers, source, copy)
    /\ Len(layers') <= MaxLayers

\* A bug for the mutants: the layers stay in the order the list had.
UnsortedReorderMask(m, to) ==
    /\ m \in Listed /\ to < Len(masks)
    /\ masks' = PlacedAt(Without(masks, m), to, m)
    /\ masks' # masks
    /\ UNCHANGED layers

\* mask.reorder, which sorts the masked layers by the list it made.
ReorderMask(m, to) ==
    /\ m \in Listed /\ to < Len(masks)
    /\ masks' = PlacedAt(Without(masks, m), to, m)
    /\ masks' # masks
    /\ layers' = SortMaskedLayers(layers, masks')

-----------------------------------------------------------------------------

Init ==
    /\ layers \in Sources
    /\ masks = <<>>

Edit ==
    \/ \E e \in Effect, t \in Target, v \in Values : EditLayer(e, t, v)
    \/ \E e, f \in Effect, v \in Values : Compose(e, f, v)

Next ==
    \/ Edit
    \/ \E m \in Masks : CreateMask(m) \/ DeleteMask(m)
    \/ \E m, n \in Masks : DuplicateMask(m, n)
    \/ \E m \in Masks, to \in 0..(MaxMasks - 1) : ReorderMask(m, to)

Spec == Init /\ [][Next]_vars

-----------------------------------------------------------------------------
\* Properties.

StageRank == [Source |-> 0, Pixel |-> 1, Color |-> 1, Spatial |-> 2, Geometry |-> 3, Finish |-> 4]

\* The stages stand in the order the picture is evaluated in, whatever order the
\* edits came in: the source first, then what changes colours point by point,
\* what reads neighbourhoods, the geometry that carries all of it, and the finish.
StagesInOrder ==
    \A i, j \in DOMAIN layers :
        i < j => StageRank[StageAt(layers, i)] <= StageRank[StageAt(layers, j)]

\* Within a stage the layers stand in the order their effects declare, in
\* whatever order the edits were made.
OrderWithinStage ==
    \A i, j \in DOMAIN layers :
        i < j /\ StageAt(layers, i) = StageAt(layers, j)
            => OrderOf[layers[i].effect] <= OrderOf[layers[j].effect]

\* The layers of one effect stand in the order of their targets, the global one
\* first and the masks as the list shows them, one for each target: what
\* overlaps is applied in the order a person sees, after any creations,
\* deletions, copies and moves of masks.
MasksInOrder ==
    \A i, j \in DOMAIN layers :
        i < j /\ layers[i].effect = layers[j].effect /\ layers[i].effect \in Single
            => TargetRank(layers[i].mask, masks) < TargetRank(layers[j].mask, masks)

\* Every masked layer is bound to a mask of the list.
BoundToListed ==
    \A i \in DOMAIN layers : layers[i].mask \in {Global} \cup Listed

\* Two edits make the same stack in either order, except that a pixel and a
\* colour layer keep the order they came in.
EditsCommute ==
    \A e, f \in Single, s, t \in {Global} \cup Listed, v \in Values :
        /\ e # f \/ s # t
        /\ Allowed(e, s) /\ Allowed(f, t)
        /\ "Source" \notin {StageOf[e], StageOf[f]}
        /\ {StageOf[e], StageOf[f]} # Pointwise
        => Edited(Edited(layers, masks, e, s, v), masks, f, t, v)
             = Edited(Edited(layers, masks, f, t, v), masks, e, s, v)

\* The layers of the stack that are not among the ones of the target and effect.
Others(stack, effect, target) ==
    SelectSeq(stack, LAMBDA l : ~(l.effect = effect /\ l.mask = target))

\* An edit of one target leaves every other layer as and where it was: the one
\* of another mask, and the global one, keep their settings and their order.
LeavesOthers ==
    \A e \in Effect, t \in Target, v \in Values :
        EditLayer(e, t, v) => Others(layers', e, t) = Others(layers, e, t)

EditsOneTarget == [][LeavesOthers]_vars

\* Moving a mask changes no settings and moves no layer past one of another
\* effect: each position holds a layer of the effect it held.
KeepsPlaces ==
    \A m \in Masks, to \in 0..(MaxMasks - 1) :
        ReorderMask(m, to) =>
            /\ [i \in DOMAIN layers' |-> layers'[i].effect]
                 = [i \in DOMAIN layers |-> layers[i].effect]
            /\ {layers'[i] : i \in DOMAIN layers'} = {layers[i] : i \in DOMAIN layers}

MovesWithinEffect == [][KeepsPlaces]_vars
=============================================================================
