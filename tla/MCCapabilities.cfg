SPECIFICATION CapabilitiesSpec
CONSTANTS
    One = one
    Other = other
    P1 = p1
    P2 = p2
    Near = near
    Far = far
    Clients = {desktop, agent}
    Capacity = 2
    MaxCalls = 4
    Hosts <- TwoHosts
    Profiles <- TwoProfiles
    Endpoints <- OneEndpoint
    MaxWrites = 4
    MaxGrants = 0
    MaxFaults = 2
    Modules <- TwoProfiles
    Grants <- OneEndpoint
    LaneQueue = 1
    FinishedRecords = 2
    MaxRequests = 3
    Editors <- OneHost
    Resources <- TwoProfiles
    Quota = 1
    TransferQueue = 2
    MaxJobs = 4
    MaxCrashes = 2
    MaxDiskFaults = 2
    Origins <- EachOrigin
    First = "home"
    ClassOf <- Classes
    Secure <- OverTls
    Allowed <- EachOrigin
    MaxRedirects = 2
    LookupAnswers <- Lookups
    MaxAddresses = 2
    AddressClass <- Classed
    Total = 6
    IdleTime = 3
    ConnectTimeout = 3
    Slice = 2
    LongestLookup = 1
    HeadLimit = 1
    Limit = 2
    Lengths = {0, 1, 3}
    MaxInner = 1
SYMMETRY Alike
INVARIANTS
    PointsAnswered
    ResourcesWhole
    SettingsKept
    ExchangesBound
    InstancesKept
PROPERTIES
    LanesHold
