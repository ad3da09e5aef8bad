CONSTANTS
    NList = 2
    Droproot = TRUE
    MaxEdits = 3
    MaxHups = 2
SPECIFICATION Spec
INVARIANTS ListsAreCurrent FatalIsEarned
CHECK_DEADLOCK FALSE
