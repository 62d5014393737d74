CONSTANTS
    c1 = c1
    c2 = c2
    c3 = c3
    Calls <- MCCalls
    \* The capability's callers pass &error to Register and Scan.
    ErrorPtrs = {TRUE}
SPECIFICATION CellularSpec
\* The destructor ends ModemInfo's life and each call is made once, so
\* the system stops once all calls are answered.
CHECK_DEADLOCK FALSE
INVARIANTS ModemInfoTypeOK DbClosedExactlyOnce OneManagerPerService TypeOK CallbackOwnedByPendingCall
PROPERTIES ImplementsContract
