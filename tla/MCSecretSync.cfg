CONSTANTS
    Commands = {"ensure", "delete"}
    Tasks <- SharedTasks
    KindOf <- SharedKinds
    Target <- SharedTarget
    SpecName <- SharedTarget
    Keys <- SharedKeys
    Others <- SharedOthers
    Attempts = 3
    MaxRotations = 1
    MaxTouches = 1
    Faults = {"azure", "kube"}
    MaxFaults = 2
SPECIFICATION Spec
CHECK_DEADLOCK FALSE
INVARIANTS SyncInv SuccessMeansSynced DeletedMeansGone
PROPERTIES KeepsOthers ValuesGoForward
