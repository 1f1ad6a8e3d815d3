\* One Organize call: where does the moved record end up?
CONSTANTS
    Recs = {r1, r2, r3}
    Groups = {g1, g2}
    InitPositions = {1, 2, 3}
    PositionInputs <- MC_PositionInputs
    NonDigit = NonDigit
    NoGroup = NoGroup
    MaxCalls = 3
    PosFieldOptional = FALSE
SPECIFICATION Spec

PROPERTIES MovedRecordAtTarget
