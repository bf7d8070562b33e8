SPECIFICATION BackendsSpec
CONSTANTS
    Candidates = {1, 2}
    Policy <- MCPolicy
    Sizes = {10000, 12000}
    MaxEntries = 1
    Ttl = 1
    Horizon = 1
    MaxForgets = 1
    NoRecord = NoRecord
    Requests = {r1}
    MaxRoutes = 2
    FallbackPrio <- MCFallbackPrio
    Consumers = {c1, c2}
    Capacity = 2
    Probers = {"poll", "dispatch"}
    MaxProbes = 2
    Cooldown = 2
    MaxReadings = 5
    Window = 3
    WarmLimit = 2
    RatioPercent = 50
    LastMoment = 5
    Work = {job, child}
    External = {job}
    NoTask = NoTask
    KeepAliveWindow = 3
    KeepAlivePeriod = 1
    AliveTime = 2
    MaxRun = 1
    NoMoment = NoMoment
INVARIANTS
    WaitsOnlyWhenNothingStarts
    RecordFollowsChoice
    DivertsOnTrueHistory
    RestartIsFaithful
PROPERTIES
    AdmissionFollowsProbes
    DrainIsPatient
    ShutdownEnds
    IdleModelIsLetGo
    ReactionsArePaced
CHECK_DEADLOCK FALSE
