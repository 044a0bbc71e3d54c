SPECIFICATION Spec
SYMMETRY MsgSymmetry
CONSTANTS
    None = None
    WorkQ = WorkQ
    RxType <- MCRxType
    Priority <- MCPriority
    MaxPubId <- MCMaxPubId
    Subs = {"c1", "q1", "f1", "f2"}
    MsgqLen = 1
    Threads = {"p", "t1", "t2", "t3"}
    Server <- OwnServer
    Publishers = {"p"}
    Managers = {}
    Managed = {}
    Retainers = {}
    Msgs = {m1, m2}
    MsgIds = {1, 2}
    InitList <- OneOfEach
    InitSubscribed <- Mixed
    MaxPublish = 3
INVARIANTS
    InOrder
