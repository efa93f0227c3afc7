\* Any sequence of IRs of a small project, under every grouping.
SPECIFICATION Spec
CONSTANTS
    RowOrder <- Symbols
    Groups <- TwoGroups
    Files <- TwoFiles
    BaseName <- UtilH
    GroupName <- GroupOf
    Rank <- Collation
    WordsOf <- Words
    Lower <- LowerCase
    Operators = {"operator+"}
    Reserved <- Root
    None = None
    Projects <- SomeProjects
    Modes <- SomeModes
INVARIANTS
    DistinctFiles
    EachOnce
    Linked
    ReplayIsRender
PROPERTIES
    StemStable
