\* Two servers report at the same time; nothing is destroyed, nothing fails.
SPECIFICATION Spec
CONSTANTS
    s1 = s1  s2 = s2  a1 = a1  a2 = a2  b1 = b1
    Server = {s1, s2}
    Snapshot = {a1, b1}
    ServerOf <- OneEach
    Nothing = Nothing
    Updated = {}
    MaxDestroys = 0
    Faults = FALSE
INVARIANT AckedIsListed
