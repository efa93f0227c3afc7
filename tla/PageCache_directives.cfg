\* A page per file, with the same macro in both.
SPECIFICATION Spec
CONSTANTS
    RowOrder <- Symbols
    Groups <- TwoGroups
    Files <- TwoFiles
    BaseName <- UtilH
    GroupName <- GroupOf
    Rank <- Collation
    WordsOf <- Words
    Lower <- LowerCase
    Operators = {"operator+"}
    Reserved <- Root
    None = None
    Projects <- Duplicates
    Modes <- ByFile
INVARIANTS
    OneDirective
