SPECIFICATION Spec
CONSTANTS
    NProfile = 3
    Chain <- MCChain
    MaxOut = 4
    MaxIn = 1
    MaxHeld = 2
INVARIANTS CalledInOrder CutoffHidesNothing HelloSurvives SentOnce
PROPERTIES CutoffIsFinal
CHECK_DEADLOCK FALSE
