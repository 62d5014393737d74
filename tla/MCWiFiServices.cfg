CONSTANTS
    b1 = b1
    b2 = b2
    BSSes = {b1, b2}
    BSSBags <- MCBSSBags
    HiddenSSIDs = {"net0"}
    MaxServices = 3
INIT RegInit
NEXT RegNext
INVARIANTS
    RegTypeOK
    EndpointInOneService
    GroupingByKey
PROPERTIES
    ImplementsDirectory
