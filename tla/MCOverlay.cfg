CONSTANTS
    Values <- MCValues
    Wants <- MCWants
    Rests = {Plain, Others}
    Plain = Plain
    Others = Others
    Nil = Nil
    Absent = Absent
    MaxEdits = 2
    MaxChanges = 2
SPECIFICATION OverlayFairSpec
INVARIANTS OverlayTypeOK
PROPERTIES CreatedAsAsked KeepsOthers PrefixesOnlyGrow PutSettles Obeyed LeftAlone
