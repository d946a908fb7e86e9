SPECIFICATION BoundedSpec
SYMMETRY Alike
CONSTANTS
    Assets = {photo, scan}
    Requests = {1, 2, 3, 4, 5, 6}
    Stacks = {plain, edited}
    Original = plain
    Names = {final}
    CachedHeads = 1
    MaxEntries = 5
    MaxRevision = 6
    ShortEntries = 3
    ShortRevision = 2
INVARIANTS
    TypeOK
    TreeSound
    OncePerRequest
PROPERTIES
    Retained
    IsTwoStacks
