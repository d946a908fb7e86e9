------------------------------ MODULE Placement ------------------------------
(***************************************************************************)
(* Where a layer joins a recipe (modules/registry/placement.rs).           *)
(*                                                                         *)
(* A recipe is a sequence of layers. Every effect declares a stage of the  *)
(* picture's evaluation and an order within it, and a new layer is placed  *)
(* by these two alone, and among the layers of its own effect by the place *)
(* of its mask in the recipe's list of masks: the global layer is first.   *)
(* No layer that is already there moves, so a stack keeps an order it has, *)
(* whatever order that is. Positions count the layers in front of the new  *)
(* one: 0 is the front of the stack and Len(layers) its end.               *)
(*                                                                         *)
(* A layer is a record whose field "effect" names its effect and whose     *)
(* field "mask" is Global or the mask it is bound to.                      *)
(***************************************************************************)
EXTENDS Integers, Sequences, FiniteSets

CONSTANTS Effect,      \* the effects the registry knows
          StageOf,     \* the stage each of them declares
          OrderOf,     \* and its order within the stage
          Global       \* the target of a layer bound to no mask

StageNames == {"Source", "Pixel", "Color", "Spatial", "Geometry", "Finish"}

PlacementAssumption ==
    /\ StageOf \in [Effect -> StageNames]
    /\ OrderOf \in [Effect -> Nat]

LOCAL Least(S) == CHOOSE n \in S : \A m \in S : n <= m
LOCAL Greatest(S) == CHOOSE n \in S : \A m \in S : m <= n

StageAt(layers, i) == StageOf[layers[i].effect]
Pointwise == {"Pixel", "Color"}

\* A layer of the stage "first" ends the region of the stage "mine".
Opens(first, mine) ==
    \/ mine \in Pointwise /\ first \in {"Spatial", "Geometry", "Finish"}
    \/ mine = "Spatial" /\ first \in {"Geometry", "Finish"}
    \/ mine = "Geometry" /\ first = "Finish"

\* The region of a stage ends in front of the first layer that opens another.
RegionEnd(layers, stage) ==
    LET opening == {i \in 1..Len(layers) : Opens(StageAt(layers, i), stage)}
    IN  IF opening = {} THEN Len(layers) ELSE Least(opening) - 1

\* It begins behind a leading source layer, and for a spatial layer behind
\* every pointwise one of the region.
RegionStart(layers, stage) ==
    LET source  == {i \in 1..Len(layers) : i = 1 /\ StageAt(layers, i) = "Source"}
        earlier == {i \in 1..RegionEnd(layers, stage) :
                      stage = "Spatial" /\ StageAt(layers, i) \in Pointwise}
    IN  Greatest({0} \cup source \cup earlier)

\* Where a layer of the effect joins the stack: in front of the first layer of
\* its stage whose order is greater, or else at the end of its region.
InsertionIndex(layers, effect) ==
    LET stage == StageOf[effect]
        start == RegionStart(layers, stage)
        end   == Greatest({RegionEnd(layers, stage), start})
        later == {i \in 1..RegionEnd(layers, stage) :
                    StageAt(layers, i) = stage /\ OrderOf[layers[i].effect] > OrderOf[effect]}
    IN  IF stage = "Source" THEN 0
        ELSE IF later = {} THEN end ELSE Greatest({start, Least(later) - 1})

\* The place of a target among those of one effect: the global layer's is 0,
\* a mask's its place in the list, and a mask the list lacks comes last.
TargetRank(mask, masks) ==
    LET at == {i \in 1..Len(masks) : masks[i] = mask}
    IN  IF mask = Global THEN 0
        ELSE IF at = {} THEN Len(masks) + 1 ELSE Least(at)

\* Where a layer of the effect for this target joins the stack: a masked layer
\* behind the last layer of its effect whose target is not later, and the
\* global layer never behind a masked one of its effect.
TargetIndex(layers, effect, mask, masks) ==
    LET base   == InsertionIndex(layers, effect)
        same   == {i \in 1..Len(layers) : layers[i].effect = effect}
        masked == {i \in same : layers[i].mask # Global}
        rank   == TargetRank(mask, masks)
        before == {i \in same : TargetRank(layers[i].mask, masks) <= rank}
    IN  IF rank = 0 THEN
            IF masked = {} THEN base ELSE LET first == Least(masked) - 1
                                          IN  IF first < base THEN first ELSE base
        ELSE IF before # {} THEN Greatest(before)
        ELSE IF same # {} THEN Least(same) - 1 ELSE base

\* The stack with the layer behind its first n.
PlacedAt(layers, n, layer) ==
    SubSeq(layers, 1, n) \o <<layer>> \o SubSeq(layers, n + 1, Len(layers))

\* The layers of each effect that has a masked one, sorted by their targets in
\* the positions the effect's layers hold. Two layers of one target keep their
\* order: rank and position together tell any two apart.
SortMaskedLayers(layers, masks) ==
    LET held(e) == {i \in 1..Len(layers) : layers[i].effect = e}
        ahead(i, j) == LET ri == TargetRank(layers[i].mask, masks)
                           rj == TargetRank(layers[j].mask, masks)
                       IN  ri < rj \/ (ri = rj /\ i < j)
        nth(S, i) == CHOOSE j \in S :
                       Cardinality({k \in S : ahead(k, j)}) = Cardinality({k \in S : k < i})
        sorted(e) == \E i \in held(e) : layers[i].mask # Global
    IN  [i \in 1..Len(layers) |->
            LET e == layers[i].effect
            IN  IF sorted(e) THEN layers[nth(held(e), i)] ELSE layers[i]]
=============================================================================
