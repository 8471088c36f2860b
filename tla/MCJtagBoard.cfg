SPECIFICATION LonelySpec
CONSTANTS
    readBufferDepth = 1
    writeBufferDepth = 1
    readIRQThreshold = 0
    writeIRQThreshold = 0
    MaxIn = 0
    BUF_LEN = 2
    DEFAULT_TIMEOUT = 2
    INT_MAX = 4
    ClockFirst = FALSE
    Requests = {2}
    MaxOut = 4
    Timeouts = {2}
PROPERTY CallsReturn
