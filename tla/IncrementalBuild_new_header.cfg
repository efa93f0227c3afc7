\* A header that an #include did not find is created.
SPECIFICATION Spec
CONSTANTS
    NumInputs = 2
    Headers <- OneHeader
    Contents <- OneContent
    SizeOf <- OneSize
    IncludesOf <- IncludesAlways
    h = h
    v1 = v1
    v2 = v2
    None = None
    Torn = Torn
    ParseCfgs = {p1}
    RenderCfgs = {r1}
    Granularity = 1
    Slack = 0
    EditTicks = 1
    MaxTime = 3
    EditAt = {"idle"}
    FailAt = {}
    MayMiss <- OneHeader
    ForceFull = {FALSE}
    NewProcess = {TRUE}
    Damage = {}
INVARIANTS
    Fresh
