CONSTANTS
    b1 = b1
    b2 = b2
    NoBSS = NoBSS
    BSSes = {b1, b2}
    BSSBags <- MCBSSBags
    HiddenSSIDs = {"net1"}
    HiddenBSSes = {b2}
    ReportedStates = {"completed", "associating"}
    MaxServices = 3
    MaxHandles = 2
    MaxEvents = 1
SPECIFICATION Spec
INVARIANTS
    TypeOK
    SlotsDistinct
    NetworkEntriesOwned
    HiddenBSSJoinsHiddenService
PROPERTIES
    PendingResolves
