------------------------------ MODULE FieldPatch ------------------------------
(***************************************************************************)
(* Modules that are tables of numeric fields (modules/field_patch.rs):     *)
(* Basic, Presence, the colour mixer and the vignette.  Each owns one      *)
(* layer, which a patch of some of its fields updates or adds, and whose   *)
(* missing keys mean the fields' defaults.  A module is named after the    *)
(* action that patches it.                                                 *)
(*                                                                         *)
(* The layers are the ones of the whole picture; Stack has the masked      *)
(* ones, and where in the stack they stand.                                *)
(***************************************************************************)
EXTENDS Integers, FiniteSets, Functions

CONSTANTS
    Patch,      \* the field-patch actions
    FieldsOf,   \* the fields of each
    DefaultOf,  \* the default of each field
    Deciding,   \* the fields whose defaults make a layer of the action neutral
    Value,      \* what a field may be set to
    OutOfRange, \* a value that the check of every field refuses
    NoLayer

FieldPatchAssumption ==
    /\ \A a \in Patch : Deciding[a] \subseteq FieldsOf[a]
    /\ \A a, b \in Patch : a # b => FieldsOf[a] \cap FieldsOf[b] = {}
    /\ \A a \in Patch : \A f \in FieldsOf[a] : DefaultOf[f] \in Value
    /\ OutOfRange \notin Value

\* The canonical stored form: only the fields that differ from their default.
Payload(a) ==
    UNION {{p \in [names -> Value] : \A f \in names : p[f] # DefaultOf[f]}
           : names \in SUBSET FieldsOf[a]}
Stacks == {s \in [Patch -> UNION {Payload(a) : a \in Patch} \cup {NoLayer}] :
              \A a \in Patch : s[a] \in Payload(a) \cup {NoLayer}}

\* The values of a layer, with every missing key read as its field's default.
ReadValues(a, layer) ==
    [f \in FieldsOf[a] |->
        IF layer # NoLayer /\ f \in DOMAIN layer THEN layer[f] ELSE DefaultOf[f]]

Stored(a, values) == Restrict(values, {f \in FieldsOf[a] : values[f] # DefaultOf[f]})

\* What a layer of these values does: the vignette's does nothing while its amount is
\* zero, whatever its shape is.
Neutral(a, values) == \A f \in Deciding[a] : values[f] = DefaultOf[f]

\* A bug for the mutants: the patch is merged over the defaults.
FaultyMerged(a, layer, patch) ==
    [f \in FieldsOf[a] |-> IF f \in DOMAIN patch THEN patch[f] ELSE DefaultOf[f]]

Merged(a, layer, patch) ==
    [f \in FieldsOf[a] |->
        IF f \in DOMAIN patch THEN patch[f] ELSE ReadValues(a, layer)[f]]

\* The layer that a set of values leaves: none is added by values that do nothing.
Planned(a, layer, values) ==
    IF layer = NoLayer /\ Neutral(a, values) THEN NoLayer ELSE Stored(a, values)

\* set-<name> and reset-<name>
Patched(stack, a, patch) ==
    [stack EXCEPT ![a] = Planned(a, @, Merged(a, @, patch))]
ResetLayer(stack, a) ==
    [stack EXCEPT ![a] = Planned(a, @, [f \in FieldsOf[a] |-> DefaultOf[f]])]

===============================================================================
