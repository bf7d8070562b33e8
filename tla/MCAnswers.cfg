SPECIFICATION AnswersSpec
CONSTANTS
    MaxRuns = 2
    MaxChunks = 2
    MaxRequestSize = 3
    PieceSizes = {0, 1, 2, 3}
    MaxReceived = 5
    Instances = {"a", "b", "c"}
    Names = {"x", "y"}
    NameOf <- MCNameOf
    MaxHops <- MCMaxHops
    MaxParts = 3
    MaxFed = 2
    MaxPieces = 2
    MaxTurns = 4
    MaxBlocks = 2
    Events = {e1}
    Terminals = {t1, t2}
    Policies = {"best_effort", "durable"}
    QueueSize = 1
    MaxFaults = 1
    MaxSweeps = 1
INVARIANTS
    StreamIsWhole
    EarlyFailureKeepsStatus
    BodyIsBounded
    VisitsAreBounded
    ConvertedStreamIsWhole
    ConversationComesBack
PROPERTIES
    AnsweredIsForgotten
    KeepsTrail
    RemovalsFinish
    ConfirmEnds
CHECK_DEADLOCK FALSE
