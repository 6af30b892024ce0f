SPECIFICATION Spec
CONSTANTS
    g1 = g1
    g2 = g2
    g3 = g3
    s1 = s1
    s2 = s2
    c1 = c1
    None = None
    RepositoryType = "flake"
    Generations = {g1, g2, g3}
    Foreign = {}
    Slots = {s1, s2}
    Clients = {c1}
SYMMETRY BuilderSymmetry
CHECK_DEADLOCK FALSE
INVARIANTS TypeOK SingleTask DeploysBuilt CurrentIsStored
PROPERTIES EvaluationsDoNotOverlap
