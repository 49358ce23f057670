CONSTANTS
    Tasks <- MCTasks
    KindOf <- MCKinds
    Needs <- MCNeeds
    Files <- MCFiles
    Limit = 2
    Attempts = 3
    Faults <- MCFaults
    MaxFaults = 2
SPECIFICATION FairSpec
CHECK_DEADLOCK FALSE
INVARIANTS TinkerTypeOK 
PROPERTIES Exits
