SPECIFICATION ReceiptsSpec
CONSTANTS
    Null = Null
    MaxU64 = 75
    MaxI128 = 200
    Unit = 4
    MaxProofRows = 8
    MaxRawLength = 4
    Fixtures <- MCFixtures
    Configs <- MCConfigs
    Signals <- MCSignals
    Outcomes <- MCOutcomes
    MaxReplaced = 2
    MaxOutputs = 2
    Opinions <- MCOpinions
    Journals <- MCJournals
    Timings <- MCTimings
INVARIANTS
    EveryOutcomeButOneAccepted
    ConclusionsFollowEvidence
    ReasonsAreReachable
    VerifiedRunCanClose
\* The replay is done.
CHECK_DEADLOCK FALSE
