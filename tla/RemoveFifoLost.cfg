SPECIFICATION Spec
SYMMETRY MsgSymmetry
CONSTANTS
    None = None
    WorkQ = WorkQ
    RxType <- MCRxType
    Priority <- MCPriority
    MaxPubId <- MCMaxPubId
    Subs = {"q1", "f1", "f2"}
    MsgqLen = 1
    Threads = {"p", "t1", "t2", "t3", "mgr"}
    Server <- OwnServer
    Publishers = {"p"}
    Managers = {"mgr"}
    Managed = {"f1"}
    Retainers = {}
    Msgs = {m1, m2}
    MsgIds = {1}
    InitList <- MsgqAndFifos
    InitSubscribed <- Subscribed1
    MaxPublish = 3
INVARIANTS
    OthersMissNothing
