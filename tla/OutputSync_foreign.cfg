\* A cached build moves to another output directory.
SPECIFICATION Spec
CONSTANTS
    Dirs = {d1, d2}
    d1 = d1
    d2 = d2
    a = a
    b = b
    bundled = bundled
    declared = declared
    custom = custom
    Pages = {a, b}
    Index = Index
    Irs <- Trees
    Cfgs = {bundled}
    TemplatesOf <- Templates
    None = None
    Hand = Hand
    Torn = Torn
    Stub = Stub
    Kinds = {"cached"}
    Follows <- AnyOrder
    HandAt = {"idle"}
    StatRace = {}
    FailAt = {}
    CacheLoss = FALSE
    MaxMoves = 2
PROPERTIES
    ForeignSafe
