\* A page with a variable template whose argument is spelled anew.
SPECIFICATION Spec
CONSTANTS
    RowOrder <- Symbols
    Groups <- TwoGroups
    Files <- TwoFiles
    BaseName <- UtilH
    GroupName <- GroupOf
    Rank <- Collation
    WordsOf <- Words
    Lower <- LowerCase
    Operators = {"operator+"}
    Reserved <- Root
    None = None
    Projects <- RespelledAlone
    Modes <- ByFile
INVARIANTS
    ArgumentsFresh
