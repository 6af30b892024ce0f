SPECIFICATION Spec
CONSTANTS
    g1 = g1
    g2 = g2
    g3 = g3
    s1 = s1
    s2 = s2
    c1 = c1
    None = None
    RepositoryType = "nix"
    Generations = {g1, g2}
    Foreign = {}
    Slots = {s1}
    Clients = {}
CHECK_DEADLOCK FALSE
INVARIANT NewCommitIsEvaluated
