CONSTANTS
    c1 = c1
    c2 = c2
    d1 = d1
    d2 = d2
    d3 = d3
    Claimers = {c1, c2}
    Devices = {d1, d2, d3}
SPECIFICATION Spec
INVARIANTS
    NoOrphanBlacklisting
