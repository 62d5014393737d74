CONSTANTS
    Bags <- WellFormedBags
    Crash = Crash
    NoEndpoint = NoEndpoint
INIT Init
NEXT Next
INVARIANTS
    TypeOK
    SecurityIsStrongestAdvertised
