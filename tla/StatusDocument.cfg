\* Operations with their commands, or shutdown requests, beside the other writers.
CONSTANTS
    MaxCommands = 3
    MaxShutdowns = 2
    Together = FALSE
    FreshWriters = TRUE
    Faults = FALSE
SPECIFICATION FairSpec
INVARIANTS IInv
PROPERTIES AnsweredIsDone CommandIsTaken StopsOnce ShutdownHappens
