\* s2 is updated while it is destroyed, s1 is not.
SPECIFICATION Spec
CONSTANTS
    s1 = s1  s2 = s2  a1 = a1  a2 = a2  b1 = b1
    Server = {s1, s2}
    Snapshot = {a1, b1}
    ServerOf <- OneEach
    Nothing = Nothing
    Updated = {s2}
    MaxDestroys = 2
    Faults = TRUE
INVARIANTS IInv AckedIsRecorded
PROPERTIES RetentionIsHonoured SweepSparesLive ObjectsGoFirst
