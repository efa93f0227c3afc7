\* Every shape of call; parses, sinks and thread starts fail, waiters wake up
\* by themselves.  The call returns in the end, so all comes to rest.
SPECIFICATION FairSpec
CONSTANTS
    MaxJobs = 3
    Calls <- SomeCalls
INVARIANTS
    BoundedBacklog
    SlotsAreOwned
    NoThreadOutlives
PROPERTIES
    Streams
CHECK_DEADLOCK FALSE
