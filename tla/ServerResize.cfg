\* A resize keeps the machine, as version.go says.
SPECIFICATION Spec
CONSTANTS
    m1 = m1
    m2 = m2
    g1 = g1
    g2 = g2
    b1 = b1
    b2 = b2
    Machine = {m1, m2}
    Game = {g1, g2}
    Backup = {b1, b2}
    Default = b1
    Created <- MCCreated
    Executors = {"local"}
    RetryAttempts = 2
    MaxRequests = 2
    MaxDeliveries = 2
    MaxRelease = 1
CHECK_DEADLOCK FALSE
PROPERTIES ResizeKeepsMachine
