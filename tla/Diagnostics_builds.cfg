\* Builds, strict, logging, cached or not; edits, deaths and losses between them.
SPECIFICATION Spec
CONSTANTS
    Inputs <- TwoInputs
    Files <- ThreeFiles
    Contents <- SomeContents
    Includes <- HeadersOf
    Problems <- ProblemsIn
    Everywhere <- Unlocated
    Configs <- SomeConfigs
    MaxEvents = 2
    None = None
INVARIANTS
    Picture
    StrictHonest
PROPERTIES
    LogTold
