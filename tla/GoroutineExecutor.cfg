\* Three calls on one server, and a caller of CancelOperation.
CONSTANTS
    s1 = s1
    o1 = o1  o2 = o2  o3 = o3
    Server <- OneServer
    Op <- MCOp
    ServerOf <- CallsOnOne
    NoOp = NoOp
    CancelExposed = TRUE
SPECIFICATION FairSpec
INVARIANTS IInv OverlapOnlyAfterCancel
PROPERTIES RecordTakeover ServerIsFreed
\* every call has been made and has ended
CHECK_DEADLOCK FALSE
