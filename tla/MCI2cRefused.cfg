SPECIFICATION LevelSpec
CONSTANTS
    FIFO_DEPTH = 2
    REGISTERS = 8
    MayLose = FALSE
    RETRIES = 2
    Messages <- MCMessages
    Pointers <- MCPointers
    Sizes = {2}
    MaxStretches = 0
    Octets = {0}
PROPERTIES WriteReported
