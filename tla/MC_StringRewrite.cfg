CONSTANTS
    D_ = D_
    A = A
    B = B
    C = C
    F = F
    x = x
    y = y
    Ops <- MC_Ops
    Vars <- MC_Vars
    Arity <- MC_Arity
    Dot = D_
    TRSRules <- MC_TRSRules
    InputTerms <- MC_InputTerms
SPECIFICATION Spec
\* One call of the engine ends in "done": that final state is not a deadlock.
CHECK_DEADLOCK FALSE
INVARIANT StringRewritesSound
INVARIANT ConversionRoundTrip
