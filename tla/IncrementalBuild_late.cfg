\* Files are saved once a build has decided what to parse, on a file system
\* whose mtimes are two clock ticks apart; an input may vanish.
\* A build does not start while an input is missing, so all may come to rest.
SPECIFICATION Spec
CONSTANTS
    NumInputs = 2
    Headers <- OneHeader
    Contents <- TwoContents
    SizeOf <- SameSize
    IncludesOf <- IncludesSome
    h = h
    v1 = v1
    v2 = v2
    None = None
    Torn = Torn
    ParseCfgs = {p1}
    RenderCfgs = {r1}
    Granularity = 2
    Slack = 1
    EditTicks = 0
    MaxTime = 2
    EditAt = {"idle", "ready", "record", "write", "index", "seal"}
    FailAt = {}
    MayMiss <- FirstInput
    ForceFull = {FALSE}
    NewProcess = {TRUE}
    Damage = {}
INVARIANTS
    RestatGuard
PROPERTIES
    NoWipe
CHECK_DEADLOCK FALSE
