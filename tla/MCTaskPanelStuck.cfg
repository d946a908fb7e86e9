SPECIFICATION FairSpec
CONSTANTS
    Assets = {a1, a2}
    JobIds = {j1}
    Vacant = nothing
    AnotherAsset = elsewhere
    Slots = 1
    Granted = {a1}
    Presses = {"revoke"}
    Outside = {}
PROPERTY RunSettles
