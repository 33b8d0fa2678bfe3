\* Two processes that end in different ways, at any time; q's ping may time out.
CONSTANTS
    p = p
    q = q
    Procs <- TwoProcs
    Outcomes = {"ok", "signal"}
    SlowPings = {q}
SPECIFICATION Spec
INVARIANTS
    RightStatus
PROPERTIES
    EndIsReported
CHECK_DEADLOCK FALSE
