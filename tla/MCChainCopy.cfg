SPECIFICATION Spec
CONSTANTS
    NProfile = 1
    Chain <- MCChainCopy
    MaxOut = 3
    MaxIn = 1
    MaxHeld = 2
INVARIANTS SentOnce
CHECK_DEADLOCK FALSE
