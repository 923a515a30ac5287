SPECIFICATION Spec
\* The verification is one call: it ends.
CHECK_DEADLOCK FALSE
CONSTANTS
    NoDoc = NoDoc
    Rows <- MCRows
    MaxRows = 3
    Surroundings <- MCSurroundings
    AllowedMarkets <- MCMarkets
    ConfigSequences = {1, 2}
    SessionStart = 1
    SessionEnd = 2
    ReplayTick = 2
    DecisionBudget = 1
    U64Max = 68
    RequestSets <- MCRequests
INVARIANTS
    BlameIsExact
    CandidatesAreOneHistory
    NothingFromQuarantine
    EveryCandidateReplayedOnce
    ReplayFollowsAvailability
    CutoffsCoverGroups
    RequestsFallOnEvents
