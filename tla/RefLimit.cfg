SPECIFICATION Spec
SYMMETRY Symmetry
CONSTANTS
    Threads = {t1, t2}
    None = None
    Section <- MCSection
    Runtime = {"r1", "r2", "r3"}
    Blocks = {"b0", "b1"}
    Slab <- MCSlab
    Statics = {"s"}
    Callbacks = {"c"}
    Holders = {h1, h2, h3}
    MsgIds = {1, 2}
    RefMax = 2
    RuntimeOffset = 6
    MaxRuntime = 2
    AddedFirst = TRUE
PROPERTIES
    NoRefOverflow
