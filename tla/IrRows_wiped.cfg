\* An input that reopens the namespace does not include the one that documents it.
SPECIFICATION Spec
CONSTANTS
    Files <- FourFiles
    Inputs <- ThreeInputs
    Usrs = {"ns", "f"}
    Callables = {"f"}
    Groups = {"g"}
    Trees <- LooseTrees
    FlagsOf <- SameFlags
    FullBatch = 2
    PartBatch = 3
    None = None
INVARIANTS
    OthersStay
