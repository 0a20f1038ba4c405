CONSTANTS
    NaN = NaN
    NotANumber <- NaN
    Bound = 4
    Builds <- MC_Builds
SPECIFICATION Spec
\* The calls for one x end when p_sub has been called for every y.
CHECK_DEADLOCK FALSE
INVARIANT PSubDistribution
