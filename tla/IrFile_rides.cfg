\* A cached build's parses, killed anywhere.
SPECIFICATION FileSpec
CONSTANTS
    Targets = {"sibling"}
    KillAt <- KillsAnywhere
    MaxParses = 3
    MaxDamage = 0
    Absent = Absent
    Mixed = Mixed
INVARIANTS
    NothingRidesAlong
CHECK_DEADLOCK FALSE
