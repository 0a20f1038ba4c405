CONSTANTS
    t1 = t1
    t2 = t2
    Bad = Bad
    Malformed <- Bad
    Build = "debug"
    Threads <- MC_Threads
    Calls <- MC_Calls
    InitialSignatures <- MC_InitialSignatures
    TMax = 1
    DMax = 1
    PIns = 2
    PDel = 3
    PCorrect = 5
    PIncorrect = 7

SPECIFICATION Spec
\* The final states are those where both p_list calls have returned or panicked.
CHECK_DEADLOCK FALSE

INVARIANT TypeOK
INVARIANT AtomNamedForNumber
INVARIANT OneCreationPerThreadAndNumber
