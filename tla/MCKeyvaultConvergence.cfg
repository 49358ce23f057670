CONSTANTS
    Items = {i1}
    Kind = "Keyvault"
    MaxInc = 1
    MaxEdits = 1
    MaxRV = 30
    Faults = {"arm", "kube", "crash"}
    MaxFaults = 2
SPECIFICATION FairSpec
CHECK_DEADLOCK FALSE
INVARIANTS RestsWhenDone
PROPERTIES Convergence DeletionCompletes
