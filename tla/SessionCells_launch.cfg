SPECIFICATION Spec
CONSTANTS
    Audit = TRUE
    BlockingRuns = TRUE
    MayBeUnwarmed = TRUE
    MaxCommands = 3
INVARIANTS
    OneLineage
    AccessorsHold
PROPERTIES
    Answers
CHECK_DEADLOCK FALSE
