\* A page is saved between the look at it and the stat a noop build heals.
SPECIFICATION Spec
CONSTANTS
    Dirs = {d1}
    d1 = d1
    a = a
    b = b
    bundled = bundled
    declared = declared
    custom = custom
    Pages = {a, b}
    Index = Index
    Irs <- Trees
    Cfgs = {bundled}
    TemplatesOf <- Templates
    None = None
    Hand = Hand
    Torn = Torn
    Stub = Stub
    Kinds = {"cached"}
    Follows <- AnyOrder
    HandAt = {"check"}
    StatRace = {"check"}
    FailAt = {}
    CacheLoss = FALSE
    MaxMoves = 1
INVARIANTS
    StatsHonest
