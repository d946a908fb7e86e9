SPECIFICATION PicturesSpec
CONSTANTS
    Global = global
    X1 = x1
    X2 = x2
    X3 = x3
    Y1 = y1
    Y2 = y2
    NoLayer = nolayer
    None = none
    R1 = r1
    R2 = r2
    R3 = r3
    Query = query
    Stages <- FewTiles
    Side = 2
    MaxHalo = 2
    Chains <- ShortChains
    Masking = {"none", "any"}
    OddKinds = {"negative_zero", "not_finite", "overflowing"}
    Scratch = 1
    Renders = {r1, r2, r3}
    Queries = {query}
    TargetBytes = 12
    WorkingBytes <- BytesOf
    TileCount <- TilesOf
    Workers = 4
    TileBytes = 1
    Floor = 2
    Segments = 2
    GridSide = 3
    RowsOfTile = 2
    Points <- Reads
    KeyOf <- OneEstimate
    StoreEntries = 2
INVARIANTS
    ChainSound
    ChainDelivers
    MasksWhole
    BudgetSound
    WindowsAlike
PROPERTIES
    StackInOrder
    TransformsTurn
    PresetsCarry
