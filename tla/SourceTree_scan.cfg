SPECIFICATION Spec
\* A scan is one call: it ends.
CHECK_DEADLOCK FALSE
CONSTANTS
    Top0 = Top0
    F = F
    G = G
    D = D
    DF = DF
    X = X
    XF = XF
    Root = Top0
    Paths <- MCPaths
    Parent <- MCParent
    Name <- MCName
    Excluded = {X}
    Inodes = {1, 2, 3, 4, 5, 6, 7}
    FirstInode <- MCFirst
    InitialTrees <- MCTrees
    Contents <- MCContents
    NewKinds = {"file", "directory", "link"}
    MaxChanges = 2
INVARIANTS
    AcceptedIsSnapshot
    RejectedForCause
