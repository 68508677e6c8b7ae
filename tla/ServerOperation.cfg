\* A server is created and gets one more operation, on either executor.
SPECIFICATION FairSpec
CONSTANTS
    m1 = m1
    m2 = m2
    g1 = g1
    g2 = g2
    b1 = b1
    b2 = b2
    Machine = {m1, m2}
    Game = {g1, g2}
    Backup = {b1, b2}
    Default = b1
    Created <- MCCreated
    Executors = {"local", "cloud"}
    RetryAttempts = 2
    MaxRequests = 2
    MaxDeliveries = 2
    MaxRelease = 2
CHECK_DEADLOCK FALSE
INVARIANTS IInv RestartIsTried CompletedIsWanted FirstBootRestores
PROPERTIES  DeletedLeavesNothing OperationEnds ImplementsSerial
