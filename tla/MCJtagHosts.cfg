SPECIFICATION LonelySpec
CONSTANTS
    readBufferDepth = 1
    writeBufferDepth = 1
    readIRQThreshold = 0
    writeIRQThreshold = 0
    MaxIn = 2
    BUF_LEN = 2
    DEFAULT_TIMEOUT = 3
    INT_MAX = 5
    ClockFirst = TRUE
    Requests = {3}
    MaxOut = 3
    Timeouts = {2}
PROPERTIES HostServed CallsReturn
