\* A stateless build, then a cached one.
SPECIFICATION Spec
CONSTANTS
    Dirs = {d1}
    d1 = d1
    a = a
    b = b
    bundled = bundled
    declared = declared
    custom = custom
    Pages = {a, b}
    Index = Index
    Irs <- Trees
    Cfgs = {bundled}
    TemplatesOf <- Templates
    None = None
    Hand = Hand
    Torn = Torn
    Stub = Stub
    Kinds = {"cached", "plain"}
    Follows <- AnyOrder
    HandAt = {}
    StatRace = {}
    FailAt = {}
    CacheLoss = FALSE
    MaxMoves = 2
INVARIANTS
    NoOrphans
