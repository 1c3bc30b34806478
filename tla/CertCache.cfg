SPECIFICATION Spec
CONSTANTS
    h1 = h1
    h2 = h2
    h3 = h3
    c1 = c1
    c2 = c2
    c3 = c3
    Hosts <- MCHosts
    Ctxs <- MCCtxs
    MaxEntries = 2
    UseGet = TRUE
SYMMETRY MCSymmetry
INVARIANTS LeastRecentlyUsed RefsBalanced
CHECK_DEADLOCK FALSE
