CONSTANTS
    Settled = TRUE
    MaxInc = 2
    MaxEdits = 1
    Faults = {"arm", "kube", "crash"}
    MaxFaults = 3
SPECIFICATION FairSpec
CHECK_DEADLOCK FALSE
INVARIANTS SqlInv CredentialsOpen NothingLeft
PROPERTIES SuccessMeansSet TeardownCompletes
