\* Full and partial parses, killed where the design heals it.
SPECIFICATION FileSpec
CONSTANTS
    Targets = {"direct", "sibling"}
    KillAt <- KillsThatHeal
    MaxParses = 5
    MaxDamage = 1
    Absent = Absent
    Mixed = Mixed
INVARIANTS
    Settled
    BoundedLitter
CHECK_DEADLOCK FALSE
