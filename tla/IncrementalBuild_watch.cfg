\* Builds keep running, some of them strict; configurations change, files
\* change, stores get lost, until the clock stops.
SPECIFICATION WatchSpec
CONSTANTS
    NumInputs = 2
    Headers <- OneHeader
    Contents <- TwoContents
    SizeOf <- SameSize
    IncludesOf <- IncludesSome
    h = h
    v1 = v1
    v2 = v2
    None = None
    Torn = Torn
    ParseCfgs = {p1, p2}
    RenderCfgs = {r1}
    Granularity = 1
    Slack = 0
    EditTicks = 1
    MaxTime = 2
    EditAt = {"idle", "record", "write", "index", "seal"}
    FailAt = {}
    MayMiss = {}
    ForceFull = {FALSE, TRUE}
    NewProcess = {TRUE}
    Damage = {"ir", "book", "pages"}
INVARIANTS
    Fresh
PROPERTIES
    BuildEnds
    Converges
