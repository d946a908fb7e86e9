------------------------------ MODULE MaskTable ------------------------------
(***************************************************************************)
(* The masks of one recipe and their components (mask/commands.rs,         *)
(* mask/rules.rs, model.rs).                                               *)
(*                                                                         *)
(* A mask folds its components in order: the first adds, and a later one   *)
(* adds, subtracts or intersects. A component's name is its kind and an    *)
(* ordinal its mask spends on it. A drawn component holds strokes, by what *)
(* they contain, and a sampling one the colours that were picked. Every    *)
(* edit commits an entry with a label. Amounts, inversions and the         *)
(* components' own settings are left out. So is bringing an earlier recipe *)
(* back: it makes a recipe that was a state before, and what is said here  *)
(* of recipes is said of each by itself.                                   *)
(***************************************************************************)
EXTENDS Integers, Sequences, FiniteSets

CONSTANTS Declared,       \* the kinds whose geometry is declared by numbers
          Drawn,          \* the kinds that hold strokes: the brush
          Sampling,       \* the kinds that hold picked colours
          Modes,          \* add, subtract, intersect
          Ids,            \* the identities of components
          Items,          \* what a stroke or a picked colour may be
          DefaultNames,   \* "Mask 1", "Mask 2", ...
          TypedNames,     \* the names a person may type
          MaxMasks,       \* MASKS_PER_RECIPE
          MaxComponents,  \* COMPONENTS_PER_MASK
          MaxSamples,     \* the colours a component may hold
          MaxStrokes,     \* a bound of the model: the strokes of a component
          MaxOrdinal,     \* a bound of the model: the ordinals of a kind
          MaxWritten      \* a bound of the model: the labels remembered

Kinds == Declared \cup Drawn \cup Sampling

MaskTableAssumption ==
    /\ \A k \in Kinds : Cardinality({S \in {Declared, Drawn, Sampling} : k \in S}) = 1
    /\ "add" \in Modes
    /\ MaxMasks < Len(DefaultNames)
    /\ MaxSamples \in Nat /\ MaxWritten \in Nat /\ MaxOrdinal \in Nat
    /\ MaxStrokes \in Nat \ {0}

VARIABLES masks,      \* Recipe.masks of the current entry
          written     \* the labels of the entries "Update <component>", and whose they are

vars == <<masks, written>>

Names == {DefaultNames[i] : i \in DOMAIN DefaultNames} \cup TypedNames
Component == [id : Ids, kind : Kinds, ordinal : Nat \ {0}, mode : Modes, items : Seq(Items)]

Range(s) == {s[i] : i \in DOMAIN s}
InsertedAt(s, n, x) == SubSeq(s, 1, n) \o <<x>> \o SubSeq(s, n + 1, Len(s))
Removed(s, i) == SubSeq(s, 1, i - 1) \o SubSeq(s, i + 1, Len(s))

\* A mask is as its commands leave it: within the limits, never empty, led by an
\* addition; a drawn component holds a stroke, and a sampling one each colour
\* once and as many as its kind allows.
IsMask(m) ==
    /\ m.name \in Names
    /\ m.spent \in [Kinds -> 0..MaxOrdinal]
    /\ m.components \in Seq(Component)
    /\ Len(m.components) \in 1..MaxComponents
    /\ m.components[1].mode = "add"
    /\ \A c \in Range(m.components) :
          LET n == Len(c.items)
          IN  /\ c.kind \in Declared => n = 0
              /\ c.kind \in Drawn => n \in 1..MaxStrokes
              /\ c.kind \in Sampling => /\ n <= MaxSamples
                                        /\ Cardinality(Range(c.items)) = n

TypeOK ==
    /\ Len(masks) <= MaxMasks /\ \A m \in Range(masks) : IsMask(m)
    /\ Cardinality(written) <= MaxWritten

-----------------------------------------------------------------------------
\* The names of masks and components.

\* The first default name no mask has.
NextMaskName ==
    LET free == {i \in DOMAIN DefaultNames : \A m \in Range(masks) : m.name # DefaultNames[i]}
    IN  DefaultNames[CHOOSE i \in free : \A j \in free : i <= j]

\* A bug for the mutants: the ordinal is the count of the components there are.
CountedSpend(m, kind) ==
    [m EXCEPT !.spent[kind] = Cardinality({i \in DOMAIN m.components :
                                             m.components[i].kind = kind}) + 1]

\* The mask with its next ordinal of the kind spent.
Spend(m, kind) == [m EXCEPT !.spent[kind] = @ + 1]

\* The mask with a new component, named by the ordinal it spends.
Joined(m, id, kind, mode, items) ==
    LET spent == Spend(m, kind)
    IN  [spent EXCEPT !.components =
            Append(@, [id |-> id, kind |-> kind, ordinal |-> spent.spent[kind],
                       mode |-> mode, items |-> items])]

\* A new mask has a name and no component, and has spent nothing.
NewMask(name) == [name |-> name, spent |-> [k \in Kinds |-> 0], components |-> <<>>]

\* The items a new component holds: a drawn one its first stroke, another none.
FirstItems(kind) == IF kind \in Drawn THEN {<<s>> : s \in Items} ELSE {<<>>}

-----------------------------------------------------------------------------
\* What makes a recipe refuse a change (Mask::validate and mask/rules.rs).

\* The first component adds.
Leads(m) == m.components # <<>> => m.components[1].mode = "add"

\* The rule of a move, as it is told before the move is made: of the component
\* the move would leave first. Positions are those of the sequence.
MayMove(m, from, to) ==
    LET first == IF to = 1 THEN from
                 ELSE IF from = 1 THEN (IF Len(m.components) > 1 THEN 2 ELSE 1)
                 ELSE 1
    IN  m.components[first].mode = "add"

\* The mask with its component moved.
Moved(m, from, to) ==
    [m EXCEPT !.components = InsertedAt(Removed(@, from), to - 1, @[from])]

-----------------------------------------------------------------------------
\* The commands.

Commit(list) ==
    /\ list # masks
    /\ masks' = list

NoLabel == UNCHANGED written

\* A new identity is one nothing names: uuids are not given out twice.
Known == UNION {{c.id : c \in Range(m.components)} : m \in Range(masks)}
           \cup {w[2] : w \in written}

\* The label of an entry names the mask too when there are two or more.
Label(list, m, c) == <<IF Len(list) >= 2 THEN m.name ELSE "", c.kind, c.ordinal>>

\* An entry "Update <component>" is written.
Writes(m, c) ==
    IF Cardinality(written) < MaxWritten
    THEN written' = written \cup {<<Label(masks, m, c), c.id>>}
    ELSE UNCHANGED written

\* mask.create-<kind>, and a stroke that draws a new mask.
Create(id, kind, items) ==
    /\ id \notin Known
    /\ Len(masks) < MaxMasks
    /\ Commit(Append(masks, Joined(NewMask(NextMaskName), id, kind, "add", items)))
    /\ NoLabel

\* mask.add-<kind>, and a stroke that puts a new brush on a mask.
Add(i, id, kind, mode, items) ==
    LET m == Joined(masks[i], id, kind, mode, items)
    IN  /\ id \notin Known
        /\ Len(masks[i].components) < MaxComponents
        /\ masks[i].spent[kind] < MaxOrdinal
        /\ Leads(m)
        /\ Commit([masks EXCEPT ![i] = m])
        /\ NoLabel

\* mask.set-<kind> changes the settings of a declared component: here only the
\* entry shows it.
SetGeometry(i, j) ==
    LET c == masks[i].components[j]
    IN  /\ c.kind \in Declared
        /\ Writes(masks[i], c)
        /\ UNCHANGED masks

\* mask.add-stroke to a component that is there.
AddStroke(i, j, stroke) ==
    LET c == masks[i].components[j]
    IN  /\ c.kind \in Drawn
        /\ Len(c.items) < MaxStrokes
        /\ Commit([masks EXCEPT ![i].components[j].items = Append(@, stroke)])
        /\ Writes(masks[i], c)
       

\* mask.delete-stroke takes the first one of that content, never the last left.
DeleteStroke(i, j, stroke) ==
    LET c == masks[i].components[j]
        at == {k \in DOMAIN c.items : c.items[k] = stroke}
    IN  /\ c.kind \in Drawn
        /\ at # {} /\ Len(c.items) # 1
        /\ Commit([masks EXCEPT ![i].components[j].items =
                     Removed(@, CHOOSE k \in at : \A l \in at : k <= l)])
        /\ NoLabel

\* mask.add-<kind>-sample: a colour that is there already changes nothing.
AddSample(i, j, colour) ==
    LET c == masks[i].components[j]
    IN  /\ c.kind \in Sampling
        /\ colour \notin Range(c.items)
        /\ Len(c.items) < MaxSamples
        /\ Commit([masks EXCEPT ![i].components[j].items = Append(@, colour)])
        /\ NoLabel

\* mask.delete-<kind>-sample, by its place.
DeleteSample(i, j, k) ==
    LET c == masks[i].components[j]
    IN  /\ c.kind \in Sampling /\ k \in DOMAIN c.items
        /\ Commit([masks EXCEPT ![i].components[j].items = Removed(@, k)])
        /\ NoLabel

\* mask.set-component-mode.
SetMode(i, j, mode) ==
    LET m == [masks[i] EXCEPT !.components[j].mode = mode]
    IN  /\ Leads(m)
        /\ Commit([masks EXCEPT ![i] = m])
        /\ NoLabel

\* mask.delete-component: never the last one, nor one that leaves a subtraction
\* or an intersection first.
DeleteComponent(i, j) ==
    LET m == [masks[i] EXCEPT !.components = Removed(@, j)]
    IN  /\ Len(masks[i].components) # 1
        /\ Leads(m)
        /\ Commit([masks EXCEPT ![i] = m])
        /\ NoLabel

\* mask.reorder-component: the rule is asked first, and the mask again.
MoveComponent(i, from, to) ==
    LET m == Moved(masks[i], from, to)
    IN  /\ MayMove(masks[i], from, to)
        /\ Leads(m)
        /\ Commit([masks EXCEPT ![i] = m])
        /\ NoLabel

\* mask.delete and mask.reorder (the layers bound to the mask are in Stack).
DeleteMask(i) == Commit(Removed(masks, i)) /\ NoLabel

MoveMask(from, to) ==
    /\ Commit(InsertedAt(Removed(masks, from), to - 1, masks[from]))
    /\ NoLabel

\* mask.rename.
Rename(i, name) ==
    /\ Commit([masks EXCEPT ![i].name = name])
    /\ NoLabel

\* The copy of a mask: a default name and new identities, the same components
\* and the same spent ordinals.
Copy(m, ids) ==
    [m EXCEPT !.name = NextMaskName,
              !.components = [j \in DOMAIN @ |-> [@[j] EXCEPT !.id = ids[j]]]]

\* mask.duplicate.
Duplicate(i, ids) ==
    /\ Len(masks) < MaxMasks
    /\ Range(ids) \cap Known = {}
    /\ Cardinality(Range(ids)) = Len(ids)
    /\ Commit(InsertedAt(masks, i, Copy(masks[i], ids)))
    /\ NoLabel

-----------------------------------------------------------------------------

Init ==
    /\ masks = <<>>
    /\ written = {}

OfComponent(i, j) ==
    \/ SetGeometry(i, j)
    \/ \E s \in Items : AddStroke(i, j, s) \/ DeleteStroke(i, j, s) \/ AddSample(i, j, s)
    \/ \E k \in 1..MaxSamples : DeleteSample(i, j, k)
    \/ \E mode \in Modes : SetMode(i, j, mode)
    \/ DeleteComponent(i, j)
    \/ \E to \in DOMAIN masks[i].components : MoveComponent(i, j, to)

OfMask(i) ==
    \/ \E id \in Ids, k \in Kinds, mode \in Modes :
          \E items \in FirstItems(k) : Add(i, id, k, mode, items)
    \/ DeleteMask(i)
    \/ \E to \in DOMAIN masks : MoveMask(i, to)
    \/ \E name \in TypedNames : Rename(i, name)
    \/ \E ids \in [DOMAIN masks[i].components -> Ids] : Duplicate(i, ids)

Next ==
    \/ \E id \in Ids, k \in Kinds : \E items \in FirstItems(k) : Create(id, k, items)
    \/ \E i \in DOMAIN masks : OfMask(i)
    \/ \E i \in DOMAIN masks : \E j \in DOMAIN masks[i].components : OfComponent(i, j)

Spec == Init /\ [][Next]_vars

-----------------------------------------------------------------------------
\* Properties.

\* A mask's spent ordinals cover the ordinals of its components, each of which
\* names one of them: an addition is never refused for a name that is taken,
\* after any copies, deletions, moves and restores.
OrdinalsCover ==
    \A m \in Range(masks) :
        /\ \A c \in Range(m.components) : c.ordinal <= m.spent[c.kind]
        /\ \A i, j \in DOMAIN m.components :
              /\ m.components[i].kind = m.components[j].kind
              /\ m.components[i].ordinal = m.components[j].ordinal
              => i = j

\* No two components have one identity, in one mask or in two.
OneIdentity ==
    \A i, j \in DOMAIN masks :
        \A k \in DOMAIN masks[i].components, l \in DOMAIN masks[j].components :
            masks[i].components[k].id = masks[j].components[l].id => i = j /\ k = l

\* What the rule says of a move, before it is made, is what the mask says of the
\* components it would leave: a panel never offers what the command refuses,
\* and never withholds what it would do.
RuleIsRefusal ==
    \A m \in Range(masks) : \A from, to \in DOMAIN m.components :
        MayMove(m, from, to) <=> Leads(Moved(m, from, to))

\* What docs/design/masking.md says of ordinals: an entry that says it updated
\* a component by its name can only mean the one it was written about.
LabelsHonest ==
    \A a, b \in written : a[1] = b[1] => a[2] = b[2]
=============================================================================
