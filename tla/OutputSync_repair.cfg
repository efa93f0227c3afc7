\* Builds of every kind on directories that people, crashes and a lost cache damage.
SPECIFICATION Spec
CONSTANTS
    Dirs = {d1}
    d1 = d1
    a = a
    b = b
    bundled = bundled
    declared = declared
    custom = custom
    Pages = {a, b}
    Index = Index
    Irs <- Trees
    Cfgs = {declared, custom}
    TemplatesOf <- Templates
    None = None
    Hand = Hand
    Torn = Torn
    Stub = Stub
    Kinds = {"cached", "plain"}
    Follows <- AnyOrder
    HandAt = {"idle", "check", "write"}
    StatRace = {}
    FailAt = {"check", "parse", "render", "write", "delete"}
    CacheLoss = TRUE
    MaxMoves = 3
INVARIANTS
    PagesRight
    NextIsNoop
    StatsHonest
