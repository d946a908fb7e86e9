SPECIFICATION Spec
CONSTANTS
    Clients = {desktop, agent}
    Photos = {raw}
    Raws = {raw}
    Gains = {day, dusk}
    JobIds = {1, 2, 3, 4}
    None = none
    QueueCapacity = 1
    ResultCapacity = 1
    InboxCapacity = 1
    MaxMosaics = 1
SYMMETRY Symmetry
INVARIANT JobsSound
PROPERTY NeverSpins
