SPECIFICATION FairSpec
CONSTANTS
    N = 2
    Window = 1
    Configs <- Loads
INVARIANT FilesSound
PROPERTIES VerdictIsTrue TransfersEnd
CHECK_DEADLOCK FALSE
