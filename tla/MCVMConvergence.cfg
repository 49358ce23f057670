CONSTANTS
    Items = {i1}
    Kind = "VM"
    MaxInc = 1
    MaxEdits = 1
    MaxRV = 40
    Faults = {"arm", "kube", "crash"}
    MaxFaults = 2
SPECIFICATION FairSpec
CHECK_DEADLOCK FALSE
INVARIANTS StatusReflectsAzure
PROPERTIES Convergence CleanupHolds
