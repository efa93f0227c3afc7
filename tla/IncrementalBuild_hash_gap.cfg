\* A file is saved between the parser reading it and record_file hashing it.
SPECIFICATION Spec
CONSTANTS
    NumInputs = 2
    Headers <- OneHeader
    Contents <- TwoContents
    SizeOf <- SameSize
    IncludesOf <- IncludesSome
    h = h
    v1 = v1
    v2 = v2
    None = None
    Torn = Torn
    ParseCfgs = {p1}
    RenderCfgs = {r1}
    Granularity = 1
    Slack = 0
    EditTicks = 1
    MaxTime = 3
    EditAt = {"idle", "parse"}
    FailAt = {}
    MayMiss = {}
    ForceFull = {FALSE}
    NewProcess = {TRUE}
    Damage = {}
INVARIANTS
    HashIsOfParserRead
