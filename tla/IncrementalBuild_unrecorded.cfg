\* A build dies after moving the IR into place and before recording it.
SPECIFICATION Spec
CONSTANTS
    NumInputs = 2
    Headers <- OneHeader
    Contents <- TwoContents
    SizeOf <- SameSize
    IncludesOf <- IncludesSome
    h = h
    v1 = v1
    v2 = v2
    None = None
    Torn = Torn
    ParseCfgs = {p1}
    RenderCfgs = {r1, r2}
    Granularity = 1
    Slack = 0
    EditTicks = 1
    MaxTime = 3
    EditAt = {"idle"}
    FailAt = {"record"}
    MayMiss = {}
    ForceFull = {FALSE}
    NewProcess = {TRUE}
    Damage = {}
INVARIANTS
    CacheHitIr
