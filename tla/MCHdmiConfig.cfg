SPECIFICATION Spec
CONSTANTS
    SLAVE_ADDR = 114
    LUT_SIZE = 3
    LUT_DATA <- MCLutData
    CLK_DIV_MAX = 1
    INTERRUPTS = TRUE
    MaxResets = 1
    MaxRefusals = 1
INVARIANTS WritesAreEntries PassedEntriesAreStored
PROPERTIES WireProtocol
