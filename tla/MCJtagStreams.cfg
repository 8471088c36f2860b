SPECIFICATION Spec
CONSTANTS
    readBufferDepth = 2
    writeBufferDepth = 2
    readIRQThreshold = 0
    writeIRQThreshold = 1
    MaxIn = 4
    BUF_LEN = 3
    DEFAULT_TIMEOUT = 2
    INT_MAX = 4
    ClockFirst = TRUE
    Requests = {0, 1, 3}
    MaxOut = 4
    Timeouts = {}
INVARIANTS TypeOK ReceiverReopens TransmitterArmed
PROPERTIES InputSpec OutputSpec
