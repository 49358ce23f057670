CONSTANTS
    Items = {i1}
    Kind = "SQLFirewallRule"
    MaxInc = 1
    MaxEdits = 0
    MaxRV = 12
    Faults = {"arm"}
    MaxFaults = 1
SPECIFICATION Spec
CHECK_DEADLOCK FALSE
INVARIANTS NoOrphan
