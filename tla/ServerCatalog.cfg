\* One server, and three requests of any kind beside its operations.
SPECIFICATION Spec
CONSTANTS
    s1 = s1
    n1 = n1
    r1 = r1
    r2 = r2
    r3 = r3
    n2 = n2
    Request = {r1, r2, r3}
    Existing = {s1}
    Name = {n1, n2}
    Named <- MCNamed
    Executors = {"local", "cloud"}
SYMMETRY MCSymmetry
CHECK_DEADLOCK FALSE
INVARIANTS IInv AcceptedIsListed NamesAreUnique DeployedIsStored
PROPERTIES RevertRestores
