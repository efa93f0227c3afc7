\* Three callers, killed at any moment; each is scheduled and its time passes.
SPECIFICATION FairSpec
CONSTANTS
    Procs = {p1, p2, p3}
    NoOne = NoOne
INVARIANTS
    MutualExclusion
    NamesBuilder
PROPERTIES
    Answered
    Serialised
