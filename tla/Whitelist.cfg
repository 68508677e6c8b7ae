\* Two players; three requests, failing calls and restarts in all.
SPECIFICATION FairSpec
CONSTANTS
    p1 = p1
    p2 = p2
    r1 = r1
    r2 = r2
    Player = {p1, p2}
    Request = {r1, r2}
    MaxEvents = 3
CHECK_DEADLOCK FALSE
INVARIANTS IInv AddedIsListed RemovedIsUnlisted
 
