-------------------------------- MODULE Presets --------------------------------
(***************************************************************************)
(* The preset library (presets/library.rs) and what its presets do to      *)
(* photographs: a preset is a named set of field patches, captured from a  *)
(* photograph's layers or read from a file, and applied as one change.     *)
(*                                                                         *)
(* The library outlives the modules that are linked when it is opened: an  *)
(* action a preset names may be unavailable later.  A client reads a       *)
(* record, or captures a photograph, some time before it sends what it     *)
(* read; what it holds in between is its own.                              *)
(*                                                                         *)
(* Left out: Lightroom's formats (a file is what its import maps), the     *)
(* reports and the times of the records, and the retries of requests,      *)
(* which are Owner's.                                                      *)
(***************************************************************************)
EXTENDS FieldPatch

CONSTANTS
    Preset,         \* identities of presets
    Photo,          \* photographs, with a stack each
    Name, Group,    \* trimmed names
    Folded,         \* a name or a group in lower case
    None,           \* a name or a group that is not given
    UserPresets,    \* USER_PRESET_GROUP
    Imported,       \* IMPORTED_PRESET_GROUP
    MaxPresets,     \* MAX_PRESETS
    Registries,     \* the sets of actions that a start may find available
    Files,          \* the preset files of others
    Offered         \* the settings sets a client makes up

PresetAssumption ==
    /\ {UserPresets, Imported} \subseteq Group
    /\ None \notin Name \cup Group
    /\ MaxPresets \in Nat \ {0}
    /\ \A r \in Registries : r \subseteq Patch

VARIABLES
    library,    \* the presets table
    registry,   \* the actions of the modules that are available
    stacks,     \* the current stack of each photograph
    files,      \* the preset files a person has: those of others and the last export
    held        \* the settings a client holds, or None

vars == <<library, registry, stacks, files, held>>

-----------------------------------------------------------------------------
\* Settings sets

\* validate_settings: every action is there, and every field passes its check.
Valid(settings) ==
    /\ settings # <<>>
    /\ DOMAIN settings \subseteq registry
    /\ \A a \in DOMAIN settings :
          /\ DOMAIN settings[a] # {}
          /\ DOMAIN settings[a] \subseteq FieldsOf[a]
          /\ \A f \in DOMAIN settings[a] : settings[a][f] \in Value

Unavailable(settings) == DOMAIN settings \ registry

\* A stack of an unavailable module cannot be planned against.
Compiles(stack) == \A a \in Patch : stack[a] # NoLayer => a \in registry

\* apply-preset: a step for each action, all of them or none.
Appliable(stack, settings) == Valid(settings) /\ Compiles(stack)
Applied(stack, settings) ==
    [a \in Patch |-> IF a \in DOMAIN settings THEN Patched(stack, a, settings[a])[a]
                     ELSE stack[a]]

\* capture_preset: the fields' values or their defaults.
Captured(stack, fields) ==
    [a \in DOMAIN fields |-> Restrict(ReadValues(a, stack[a]), fields[a])]

-----------------------------------------------------------------------------
\* The library

Room == Cardinality(DOMAIN library) < MaxPresets

\* ensure_unique
Unique(group, name, others) ==
    \A id \in others :
        ~(Folded[library[id].group] = Folded[group] /\ Folded[library[id].name] = Folded[name])

Given(value, otherwise) == IF value = None THEN otherwise ELSE value

Insert(id, name, group, settings) ==
    /\ id \notin DOMAIN library
    /\ Room
    /\ Unique(group, name, DOMAIN library)
    /\ library' = [i \in DOMAIN library \cup {id} |->
                      IF i = id THEN [name |-> name, group |-> group, settings |-> settings]
                      ELSE library[i]]
    /\ UNCHANGED <<registry, stacks, files, held>>

Create(id, name, group, settings) ==
    /\ Valid(settings)
    /\ Insert(id, name, Given(group, UserPresets), settings)

Update(id, name, group, settings) ==
    /\ settings # None => Valid(settings)
    /\ id \in DOMAIN library
    /\ LET was == library[id]
           preset == [name |-> Given(name, was.name), group |-> Given(group, was.group),
                      settings |-> Given(settings, was.settings)]
       IN  /\ preset # was
           /\ Unique(preset.group, preset.name, DOMAIN library \ {id})
           /\ library' = [library EXCEPT ![id] = preset]
    /\ UNCHANGED <<registry, stacks, files, held>>

Delete(id) ==
    /\ id \in DOMAIN library
    /\ library' = Restrict(library, DOMAIN library \ {id})
    /\ UNCHANGED <<registry, stacks, files, held>>

Document(preset) ==
    [name |-> preset.name, group |-> preset.group, settings |-> preset.settings]

Export(id) ==
    /\ id \in DOMAIN library
    /\ files' = Files \cup {Document(library[id])}
    /\ UNCHANGED <<library, registry, stacks, held>>

\* What an import of a file stores; the request's name and group come first.
ImportedAs(file, name, group) ==
    [name |-> Given(name, file.name),
     group |-> Given(group, Given(file.group, Imported)),
     settings |-> file.settings]

Import(id, file, name, group) ==
    /\ file \in files
    /\ Valid(file.settings)
    /\ LET preset == ImportedAs(file, name, group)
       IN  Insert(id, preset.name, preset.group, preset.settings)

-----------------------------------------------------------------------------
\* A client, the photographs, and another start.

Hold(id) ==
    /\ id \in DOMAIN library
    /\ held' = library[id].settings
    /\ UNCHANGED <<library, registry, stacks, files>>

Capture(photo, fields) ==
    /\ DOMAIN fields \subseteq registry
    /\ held' = Captured(stacks[photo], fields)
    /\ UNCHANGED <<library, registry, stacks, files>>

Apply(photo) ==
    /\ held # None
    /\ Appliable(stacks[photo], held)
    /\ stacks' = [stacks EXCEPT ![photo] = Applied(@, held)]
    /\ stacks' # stacks
    /\ UNCHANGED <<library, registry, files, held>>

Edit(photo, a, patch) ==
    /\ Appliable(stacks[photo], [b \in {a} |-> patch])
    /\ stacks' = [stacks EXCEPT ![photo] = Patched(@, a, patch)]
    /\ stacks' # stacks
    /\ UNCHANGED <<library, registry, files, held>>

Reset(photo, a) ==
    /\ a \in registry /\ Compiles(stacks[photo])
    /\ stacks' = [stacks EXCEPT ![photo] = ResetLayer(@, a)]
    /\ stacks' # stacks
    /\ UNCHANGED <<library, registry, files, held>>

\* Another start; the catalog stays, and the clients go.
Reopen(r) ==
    /\ r # registry
    /\ registry' = r
    /\ held' = None
    /\ UNCHANGED <<library, stacks, files>>

Selections == UNION {[as -> {{f} : f \in UNION {FieldsOf[a] : a \in Patch}}
                              \cup {FieldsOf[a] : a \in Patch}] : as \in SUBSET Patch \ {{}}}
Selection == {s \in Selections : \A a \in DOMAIN s : s[a] \subseteq FieldsOf[a]}
OnePatch(a) == {[f \in {g} |-> v] : g \in FieldsOf[a], v \in Value \cup {OutOfRange}}

Init ==
    /\ library = <<>>
    /\ registry \in Registries
    /\ stacks = [p \in Photo |-> [a \in Patch |-> NoLayer]]
    /\ files = Files
    /\ held = None

LibraryStep ==
    \E id \in Preset :
        \/ \E n \in Name, g \in Group \cup {None}, s \in Offered \cup ({held} \ {None}) :
              Create(id, n, g, s)
        \/ \E n \in Name \cup {None}, g \in Group \cup {None}, s \in Offered \cup {None} :
              Update(id, n, g, s)
        \/ Delete(id)
        \/ Export(id)
        \/ \E f \in files, n \in Name \cup {None}, g \in Group \cup {None} : Import(id, f, n, g)
        \/ Hold(id)

PhotoStep ==
    \E p \in Photo :
        \/ \E s \in Selection : Capture(p, s)
        \/ Apply(p)
        \/ \E a \in Patch : Reset(p, a) \/ \E patch \in OnePatch(a) : Edit(p, a, patch)

Next == LibraryStep \/ PhotoStep \/ \E r \in Registries : Reopen(r)

Spec == Init /\ [][Next]_vars

-----------------------------------------------------------------------------
\* Properties

Settings ==
    UNION {[as -> UNION {[fs -> Value] : fs \in SUBSET UNION {FieldsOf[a] : a \in Patch}}]
           : as \in SUBSET Patch}

TypeOK ==
    /\ DOMAIN library \subseteq Preset
    /\ \A id \in DOMAIN library :
          /\ library[id].name \in Name /\ library[id].group \in Group
          /\ library[id].settings \in Settings
    /\ registry \in Registries
    /\ stacks \in [Photo -> Stacks]
    /\ held \in Settings \cup {None}

\* Names and groups find one preset: no two hold the same ones ignoring case, by
\* whatever creations, moves, renames and imports they came to them.
OneOfAName ==
    \A i, j \in DOMAIN library :
        i # j => <<Folded[library[i].group], Folded[library[i].name]>>
                   # <<Folded[library[j].group], Folded[library[j].name]>>

LibraryBounded == Cardinality(DOMAIN library) <= MaxPresets

\* A preset that lists no unavailable action applies to every photograph whose own
\* layers can be evaluated: nothing was stored that is refused only later.
ListedApplies ==
    \A id \in DOMAIN library, p \in Photo :
        Unavailable(library[id].settings) = {} /\ Compiles(stacks[p])
            => Appliable(stacks[p], library[id].settings)

\* What the exact picture of a stack is made of.
Look(stack, a) ==
    LET values == ReadValues(a, stack[a])
    IN  IF Neutral(a, values) THEN <<>> ELSE values

\* A preset of everything a photograph's modules hold gives another photograph its
\* look, whatever that one had: a captured default overwrites what is there.
CaptureCarriesTheLook ==
    \A p, q \in Photo : \A as \in SUBSET Patch \ {{}} :
        LET settings == Captured(stacks[p], [a \in as |-> FieldsOf[a]])
        IN  \A a \in as : Look(Applied(stacks[q], settings), a) = Look(stacks[p], a)

\* An exported preset is imported again as the preset it was.
ExportComesBack ==
    \A id \in DOMAIN library :
        LET document == Document(library[id])
        IN  Unavailable(document.settings) = {}
              => /\ Valid(document.settings)
                 /\ ImportedAs(document, None, None) = library[id]

\* What the documentation says of every preset, whatever modules this start found.
AlwaysComesBack == \A id \in DOMAIN library : Valid(Document(library[id]).settings)

\* Applying a preset leaves the fields it does not name as they were, whatever else
\* the client's library or the photograph went through since it was read.
KeepsOthers ==
    \A p \in Photo :
        Apply(p) =>
            \A a \in Patch : \A f \in FieldsOf[a] :
                ~(a \in DOMAIN held /\ f \in DOMAIN held[a])
                    => ReadValues(a, stacks'[p][a])[f] = ReadValues(a, stacks[p][a])[f]

OthersKept == [][KeepsOthers]_vars

\* What the documentation says of the fields it does name: they have its values.
NamedStand ==
    [][\A p \in Photo :
        Apply(p) =>
            \A a \in DOMAIN held : \A f \in DOMAIN held[a] :
                ReadValues(a, stacks'[p][a])[f] = held[a][f]]_vars

================================================================================
