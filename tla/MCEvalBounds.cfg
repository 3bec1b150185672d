CONSTANTS
    Values <- MCValues
    MaxLeaves = 1
    K1 = K1
    K2 = K2
    K3 = K3
    Keys <- MCKeys
    Notaries <- MCNotaries
    MinNotaryInputs = 2
    MaxInputs = 3
    PrevoutIndexes = {0, 1}

SPECIFICATION Spec
INVARIANT AcceptedInputsInBounds
