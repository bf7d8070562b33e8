SPECIFICATION WorkSpec
CONSTANTS
    Starters = {r1, r2}
    CronPing = {}
    Stoppers = {unload}
    Pids = {1, 2}
    MaxStarts = 2
    MaxRestarts = 1
    NoProcess = NoProcess
    Remotes = {1, 2}
    Policies <- MCPolicies
    RetryCount = 1
    Fallbacks = 1
    Grace = 1
    MaxRefusals = 2
    MaxSmart = 1
    MaxHookCalls = 1
    MaxChanges = 1
    MaxRequeues = 1
    Upstream = 1
    Other = 0
    MaxTurns = 2
    MaxCalls = 2
INVARIANTS
    RunsBounded
    StreamNeverRepeats
    CallsAreAnswered
PROPERTIES
    OnlyOwnServer
    CallsReturn
    FindsOpenRemote
    RunsEnd
CHECK_DEADLOCK FALSE
