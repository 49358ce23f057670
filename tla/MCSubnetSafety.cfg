CONSTANTS
    Items = {i1}
    Kind = "Subnet"
    MaxInc = 2
    MaxEdits = 1
    MaxRV = 12
    Faults = {"arm", "kube", "crash", "failedOp", "drift", "gone"}
    MaxFaults = 2
SPECIFICATION Spec
CHECK_DEADLOCK FALSE
INVARIANTS IInv NothingForgotten NoOrphan NoPutAfterDelete DeletesOwn
PROPERTIES UserIntentKept ImplementsLifecycle
