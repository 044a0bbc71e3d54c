SPECIFICATION FairSpec
CONSTANTS
    RxTypes = {"callback", "msgq", "fifo"}
    MsgqLen = 2
    MaxOthers = 1
    MaxCalls = 5
    Smp = FALSE
INVARIANTS
    TypeOK
    RefCountExact
    ReturnsTellWhatIsToCome
    NeverAddedTwice
PROPERTIES
    RefusedOnlyInUse
    EventuallySettled
CHECK_DEADLOCK FALSE
