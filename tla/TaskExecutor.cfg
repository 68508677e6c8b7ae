\* One user per server, as ADR-0002 assumes; deliveries fail and are retried.
CONSTANTS
    s1 = s1  o1 = o1  o2 = o2  o3 = o3  w1 = w1  w2 = w2
    Server <- MCServer
    Op <- MCOp
    ServerOf <- MCServerOf
    KindOf <- MCKindOf
    Worker <- MCWorker
    None = None
    MaxAttempts = 2
    SingleUser = TRUE
    Duplicates = FALSE
    SameSecond = FALSE
    BlindStarts = FALSE
    StoreFaults = FALSE
SPECIFICATION FairSpec
INVARIANTS IInv OneRunPerServer RunsItsOwnOperation LockHasOwner DeletedOnlyOnRequest
PROPERTIES TerminalIsFinal AcceptedIsResolved ImplementsSerial
\* every request has been answered and every task is gone
CHECK_DEADLOCK FALSE
