\* Three Organize calls on three records in two groups.
CONSTANTS
    Recs = {r1, r2, r3}
    Groups = {g1, g2}
    InitPositions = {1, 2, 3}
    PositionInputs <- MC_PositionInputs
    NonDigit = NonDigit
    NoGroup = NoGroup
    MaxCalls = 3
    PosFieldOptional = TRUE
SPECIFICATION Spec
INVARIANTS TypeOK
PROPERTIES RelativeOrderPreserved
