CONSTANTS
    l1 = l1
    l2 = l2
    l3 = l3
    c1 = c1
    c2 = c2
    Lhs <- MC_Lhs
    Rhs <- MC_Rhs
    MaxClauses = 2

SPECIFICATION Spec
SYMMETRY Symmetry

PROPERTY FailedMutationLeavesTRSUnchanged
