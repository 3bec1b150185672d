CONSTANTS
    Values <- MCValues
    MaxLeaves = 8
    K1 = K1
    K2 = K2
    K3 = K3
    Keys <- MCKeys
    Notaries <- MCNotaries
    MinNotaryInputs = 2
    MaxInputs = 3
    PrevoutIndexes = {0, 2}

SPECIFICATION Spec
INVARIANT RootIsReference
INVARIANT BranchProvesRoot
INVARIANT MutationDetected
INVARIANT SafePositionBinding
INVARIANT SafeCheckCanonical
INVARIANT AcceptsExactlyDistinctNotaries
