SPECIFICATION DesktopSpec
CONSTANTS
    Assets = {photo}
    Requests = {r1, r2}
    Stacks = {plain, edited}
    Original = plain
    Names = {}
    CachedHeads = 1
    MaxEntries = 3
    MaxRevision = 2
    Clients = {desktop, agent}
    MaxTouches = 2
    Kinds = {"slider", "brush", "crop"}
    MaxGestures = 2
    MaxOffers = 3
    LastRevision = 3
    Faults = TRUE
    EVENT_CAPACITY = 2
    OWN_REQUESTS = 1
    MaxSequence = 2
    MaxRequests = 1
    MaxFailures = 1
PROPERTIES
    DraftsHonest
    ScreenFollows
    GesturesHold
    FramesTrue
