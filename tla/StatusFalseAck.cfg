\* A coordinator and an agent, nobody else, nothing fails.
CONSTANTS
    MaxCommands = 2
    MaxShutdowns = 0
    Together = FALSE
    FreshWriters = FALSE
    Faults = FALSE
SPECIFICATION Spec
INVARIANT AckedIsPerformed
