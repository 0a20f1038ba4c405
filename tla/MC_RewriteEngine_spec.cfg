CONSTANTS
    J = J
    F = F
    A = A
    B = B
    C = C
    D = D
    x = x
    y = y
    Ops <- MC_Ops
    Vars <- MC_Vars
    Arity <- MC_Arity
    TRSRules <- MC_TRSRules
    InputTerms <- MC_InputTerms
    Called <- MC_AllStrategies

SPECIFICATION Spec
CHECK_DEADLOCK FALSE

INVARIANT StrategiesFollowSpec
