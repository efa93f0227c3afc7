\* Builds without a cache come last, and no build dies while its lists are behind.
SPECIFICATION Spec
CONSTANTS
    Dirs = {d1}
    d1 = d1
    a = a
    b = b
    bundled = bundled
    declared = declared
    custom = custom
    Pages = {a, b}
    Index = Index
    Irs <- Trees
    Cfgs = {bundled, custom}
    TemplatesOf <- Templates
    None = None
    Hand = Hand
    Torn = Torn
    Stub = Stub
    Kinds = {"cached", "plain", "stub"}
    Follows <- CachedFirst
    HandAt = {"idle", "check", "parse", "render", "write", "delete", "manifest", "seal"}
    StatRace = {}
    FailAt = {"check", "parse", "render", "seal"}
    CacheLoss = FALSE
    MaxMoves = 3
INVARIANTS
    NoOrphans
    Untouched
PROPERTIES
    ForeignSafe
