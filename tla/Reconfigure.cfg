SPECIFICATION Spec
SYMMETRY MsgSymmetry
CONSTANTS
    None = None
    WorkQ = WorkQ
    RxType <- MCRxType
    Priority <- MCPriority
    MaxPubId <- MCMaxPubId
    Subs = {"c1", "q1", "q2", "f1"}
    MsgqLen = 1
    Threads = {"p", "t1", "t2", "t3", "mgr"}
    Server <- OwnServer
    Publishers = {"p", "mgr"}
    Managers = {"mgr"}
    Managed = {"q2"}
    Retainers = {"c1"}
    Msgs = {m1, m2}
    MsgIds = {1, 3}
    InitList <- CallbackFirst
    InitSubscribed <- Subscribed1
    MaxPublish = 2
INVARIANTS
    RefCountExact
    InOrderFromBroker
    OthersMissNothing
    WalksUnderLock
    ForwardsToFifoOnly
