SPECIFICATION FairSpec
CONSTANTS
    States = {1, 2, 3, 4, 5}
    None = 0
    MaxNested = 3
    Hierarchies <- MCHierarchies
INVARIANTS
    TypeOK
    ActiveIsPath
    KeepsCommonParents
PROPERTIES
    NestedEntryAndExit
    RunsToCompletion
