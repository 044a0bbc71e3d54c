SPECIFICATION Spec
CONSTANTS
    RxTypes = {"fifo"}
    MsgqLen = 1
    MaxOthers = 0
    MaxCalls = 5
    Smp = TRUE
INVARIANTS
    AbortedNotReceived
