SPECIFICATION Spec
CONSTANTS
    a = a
    b = b
    d = d
    c1 = c1
    Nil = Nil
    OutPaths = {a, b, d}
    TestingPaths = {b}
    Inhibitors <- MCInhibitors
    Operations = {"switch", "test"}
    Clients = {c1}
    ClockStepsBack = FALSE
INVARIANTS PendingIsSignalled ResumeNotLost DoneIsCurrent
PROPERTIES SuspensionIsPersisted
