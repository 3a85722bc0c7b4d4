CONSTANTS
    p1 = p1
    p2 = p2
    l1 = l1
    l2 = l2
    r1 = r1
    r2 = r2
    Listens = {l1, l2}
    Routes = {r1, r2}
    Configs <- Written
    Paths = {p1}
    Environments <- OneFile
    InitEnv <- Plain
    InitFile <- Files
    Bad = Bad
    None = None
    MaxRevision = 3
    MaxEdits = 2
    MaxFaults = 1
SPECIFICATION Spec
INVARIANT RollbackPointWasBound
