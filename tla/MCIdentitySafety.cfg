CONSTANTS
    Items = {i1}
    Kind = "Identity"
    MaxInc = 2
    MaxEdits = 1
    MaxRV = 12
    Faults = {"arm", "kube", "crash", "drift", "gone"}
    MaxFaults = 2
SPECIFICATION Spec
CHECK_DEADLOCK FALSE
INVARIANTS IInv
PROPERTIES ImplementsLifecycle
