SPECIFICATION AnswersSpec
CONSTANTS
    MaxRuns = 1
    MaxChunks = 1
    MaxRequestSize = 1
    PieceSizes = {1}
    MaxReceived = 1
    Instances = {"a", "b", "c"}
    Names = {"x", "y"}
    NameOf <- MCNameOf
    MaxHops <- MCMaxHops
    MaxParts = 3
    MaxFed = 2
    MaxPieces = 2
    MaxTurns = 1
    MaxBlocks = 1
    Events = {e1}
    Terminals = {t1, t2}
    Policies = {"best_effort", "durable"}
    QueueSize = 1
    MaxFaults = 0
    MaxSweeps = 0
INVARIANTS
    ToolCallsStayWhole
CHECK_DEADLOCK FALSE
