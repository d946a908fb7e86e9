SPECIFICATION Spec
CONSTANTS
    Desktop = desktop
    Agent = agent
    Nobody = nobody
    First = first
    Second = second
    Waker = waker
    Photo = photo
    Day = day
    J1 = j1
    J2 = j2
    Vacant = nothing
    AnotherAsset = elsewhere
    R1 = r1
    R2 = r2
PROPERTIES
    OwnerProgress
    DesktopProgress
