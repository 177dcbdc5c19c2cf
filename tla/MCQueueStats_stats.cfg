CONSTANTS
    j1 = j1
    j2 = j2
    m = m
    r = r
    Jobs = {j1, j2}
    Counters = {m, r}
    Unlocked = {r}
    Lag = 1
    Setups <- AllSetups
    Null = Null
SPECIFICATION Spec
SYMMETRY Symmetry
INVARIANTS
    CountsExact
CHECK_DEADLOCK FALSE
