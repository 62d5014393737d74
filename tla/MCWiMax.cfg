CONSTANTS
    s1 = s1
    s2 = s2
    NULL = NULL
    Services <- MCServices
    Networks = {"n1"}
    MaxConnects = 2
SPECIFICATION Spec
\* OnDeviceVanished is followed by the provider destroying the device.
CHECK_DEADLOCK FALSE
INVARIANTS TypeOK PendingGuardedByTimeout
PROPERTIES FailureOnlyAfterOwnConnecting PendingResolves
