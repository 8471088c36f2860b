SPECIFICATION LevelSpec
CONSTANTS
    FIFO_DEPTH = 2
    REGISTERS = 8
    MayLose = TRUE
    RETRIES = 2
    Messages <- MCMessages
    Pointers <- MCPointers
    Sizes = {0, 2}
    MaxStretches = 1
    Octets = {0, 127, 128, 250, 255}
INVARIANTS LevelTypeOK Quiet LitLedExists
PROPERTIES SuccessIsReal ReadReported TransfersEnd KeepsLevelling
