SPECIFICATION Spec
CONSTANTS
    a = a
    b = b
    d = d
    c1 = c1
    Nil = Nil
    OutPaths = {a}
    TestingPaths = {}
    Inhibitors <- MCInhibitors
    Operations = {"switch", "test"}
    Clients = {c1}
    ClockStepsBack = FALSE
INVARIANT GenerationAvailable
