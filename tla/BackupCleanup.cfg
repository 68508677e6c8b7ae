\* One server with two snapshots, destroyed at most twice.
SPECIFICATION FairSpec
CONSTANTS
    s1 = s1  s2 = s2  a1 = a1  a2 = a2  b1 = b1
    Server = {s1}
    Snapshot = {a1, a2}
    ServerOf <- TwoOfOne
    Nothing = Nothing
    Updated = {}
    MaxDestroys = 2
    Faults = TRUE
PROPERTY ExpiredIsDeleted
