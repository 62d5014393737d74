CONSTANTS
    Bags <- AnyBags
    Crash = Crash
    NoEndpoint = NoEndpoint
INIT Init
NEXT Next
CHECK_DEADLOCK FALSE
INVARIANT NeverCrashes
