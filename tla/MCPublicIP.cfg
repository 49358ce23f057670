CONSTANTS
    Items = {i1}
    Kind = "PublicIP"
    MaxInc = 1
    MaxEdits = 1
    MaxRV = 15
    Faults = {"arm", "kube", "crash", "failedOp"}
    MaxFaults = 1
SPECIFICATION FairSpec
CHECK_DEADLOCK FALSE
INVARIANTS DoneMeansProvisioned RestsWhenDone
PROPERTIES DeletionCompletes
