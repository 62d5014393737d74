CONSTANTS
    r1 = r1
    r2 = r2
    NoRequest = NoRequest
    Requests = {r1}
    ReportedStates = {"NOT_ACTIVATED", "ACTIVATED", "PARTIALLY_ACTIVATED"}
    ReportedErrors = {"NO_ERROR", "COULD_NOT_CONNECT"}
    RegStates = {"UNKNOWN", "HOME"}
SPECIFICATION Spec
INVARIANTS
    TypeOK
    ServiceShowsActivationState
    StartingOnlyWhileRequested
    CallbackAtMostOnce
PROPERTIES
    EveryActivateAnswered
