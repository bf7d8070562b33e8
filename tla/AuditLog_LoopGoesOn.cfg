SPECIFICATION AnswersSpec
CONSTANTS
    MaxRuns = 1
    MaxChunks = 1
    MaxRequestSize = 1
    PieceSizes = {1}
    MaxReceived = 1
    Instances = {"a", "b", "c"}
    Names = {"x", "y"}
    NameOf <- MCNameOf
    MaxHops <- MCMaxHops
    MaxParts = 1
    MaxFed = 1
    MaxPieces = 1
    MaxTurns = 1
    MaxBlocks = 1
    Events = {e1}
    Terminals = {t1, t2}
    Policies = {"best_effort", "durable"}
    QueueSize = 1
    MaxFaults = 0
    MaxSweeps = 0
PROPERTIES
    LoopGoesOn
CHECK_DEADLOCK FALSE
