CONSTANTS
    a = a
    b = b
    Strings <- MC_Strings
    MaxCounts <- MC_MaxCounts
    PIns = 2
    PDel = 3
    SubWeight <- MC_SubWeight
SPECIFICATION Spec
\* compute returns once its range is exhausted: "done" is its final state.
CHECK_DEADLOCK FALSE
PROPERTY ComputeImplementsSpec
