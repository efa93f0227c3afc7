\* Every input has a unit of its own, in full and in partial parses.
SPECIFICATION Spec
CONSTANTS
    Files <- FourFiles
    Inputs <- ThreeInputs
    Usrs = {"ns", "f"}
    Callables = {"f"}
    Groups = {"g"}
    Trees <- SomeTrees
    FlagsOf <- SameFlags
    FullBatch = 1
    PartBatch = 1
    None = None
INVARIANTS
    DocumentedOnce
