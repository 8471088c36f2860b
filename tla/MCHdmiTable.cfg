SPECIFICATION FairSpec
CONSTANTS
    SLAVE_ADDR = 114
    LUT_SIZE = 31
    LUT_DATA <- TableData
    CLK_DIV_MAX = 0
    INTERRUPTS = TRUE
    MaxResets = 0
    MaxRefusals = 1
PROPERTIES DeliverySpec AlwaysReadyAgain
