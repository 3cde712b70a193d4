CONSTANTS
    MaxFd = 4
    Std = 1
    MaxOldPipes = 1
    MaxPipes = 1
SPECIFICATION Spec
CHECK_DEADLOCK FALSE
INVARIANTS EndsSurviveVfork HeirHasItsPipes
PROPERTIES FilesRestored
