SPECIFICATION PatientSpec
CONSTANTS
    Clients = {desktop, agent}
    Photos = {raw}
    Raws = {raw}
    Gains = {day, dusk}
    JobIds = {1, 2, 3, 4, 5}
    None = none
    QueueCapacity = 2
    ResultCapacity = 2
    InboxCapacity = 1
    MaxMosaics = 1
PROPERTY RequestsEnd
