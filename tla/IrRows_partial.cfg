\* Full and partial parses in any order; an umbrella takes the inputs of one
\* set of flags, two at a time in a full parse, all in a partial one.
SPECIFICATION Spec
CONSTANTS
    Files <- FourFiles
    Inputs <- ThreeInputs
    Usrs = {"ns", "f"}
    Callables = {"f"}
    Groups = {"g"}
    Trees <- SomeTrees
    FlagsOf <- SameFlags
    FullBatch = 2
    PartBatch = 3
    None = None
INVARIANTS
    FilesAsFull
    HomedAsFull
    DocumentedOnce
    GroupAsDefined
