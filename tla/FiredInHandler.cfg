SPECIFICATION Spec
CONSTANTS
    RxTypes = {"callback", "msgq", "fifo"}
    MsgqLen = 2
    MaxOthers = 1
    MaxCalls = 3
    Smp = FALSE
INVARIANTS
    NotInUseWhenFired
CHECK_DEADLOCK FALSE
