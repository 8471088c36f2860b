SPECIFICATION HalSpec
CONSTANTS
    Names = {a1, a2, a3}
    List = alarm_list
    MaxPeriod = 1
    TICK_RATE = 1000
    Lines = {16}
    WORD = 4
    DELTA = 2
    MaxTime = 6
    MaxRaises = 1
    ALT_MAX_FD = 6
    DEV_NULL = null
    JTAG_UART = jtag_uart
    NoDevice = none
    HEAP_START = 2
    HEAP_LIMIT = 14
    ADDRESSES = 64
    Increments <- MCIncrements
INVARIANTS ListIsOneRing ClockKeepsTime ServedByHandlers NoDescriptorLost OneLockHolder BlocksAreApart
PROPERTIES AlarmsOnTime TrapsReturn LockKeepsOthersOut
CHECK_DEADLOCK FALSE
