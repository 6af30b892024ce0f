SPECIFICATION Spec
CONSTANTS
    MaxGenerations = 3
    Foreign = {2}
    Clients = {c1}
INVARIANTS NothingForgotten
PROPERTIES DeploysInOrder
CHECK_DEADLOCK FALSE
