SPECIFICATION ServiceSpec
CONSTANTS
    Desktop = desktop
    Agent = agent
    A1 = a1
    A2 = a2
    J1 = j1
    J2 = j2
    Vacant = nothing
    AnotherAsset = elsewhere
    Processes = {first, second}
    Peers = {desktop, agent}
    NoProcess = none
    MaxClients = 1
    Works = {render, export}
    Phases = {quiet, loud}
    Unreported = quiet
    MaxActive = 1
    MaxRecent = 2
    Threshold = 1
    MaxClock = 2
    MaxChanges = 6
    Waker = waker
    Nobody = nobody
    Clients = {desktop, agent}
    EVENT_CAPACITY = 1
    REQUESTS = 2
    REQUEST_BYTES = 3
    Requests <- TwoInputs
    Bytes <- Sizes
    MaxSequence = 2
    MaxSends = 2
INVARIANTS
    LogAndAnswers
    SessionServed
PROPERTIES
    AnalysesAnswer
    BoardTells
    PanelFollows
