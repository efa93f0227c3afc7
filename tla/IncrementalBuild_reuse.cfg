\* Under the conditions of Quiet: late saves, most crashes and every loss of a
\* store, in a process that keeps its memo of digests.
SPECIFICATION Spec
CONSTANTS
    NumInputs = 2
    Headers <- OneHeader
    Contents <- TwoContents
    SizeOf <- SameSize
    IncludesOf <- IncludesSome
    h = h
    v1 = v1
    v2 = v2
    None = None
    Torn = Torn
    ParseCfgs = {p1}
    RenderCfgs = {r1, r2}
    Granularity = 1
    Slack = 0
    EditTicks = 1
    MaxTime = 2
    EditAt = {"idle", "record", "write", "index", "seal"}
    FailAt = {"scan", "ready", "parse", "write", "index"}
    MayMiss = {}
    ForceFull = {FALSE}
    NewProcess = {FALSE}
    Damage = {"ir", "book", "pages"}
SYMMETRY Alike
INVARIANTS
    Fresh
    NextIsNoop
    FastPathHonest
    BookDescribesIr
    NoOrphanFiles
    RenderMetaHonest
    CacheHitIr
