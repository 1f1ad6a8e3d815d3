\* Two requests update or delete the same record; without hooks the window is
\* between the load in update/delete and the store transaction.
CONSTANTS
    Clients = {c1, c2}
    Nobody = Nobody
    NoRecord = NoRecord
    NoValue = NoValue
    UnknownField = UnknownField
    Fields = {fa, fb}
    RefFields = {fb}
    Updatable = {fa}
    Required = {fa}
    Unique = {}
    Default <- MC_Default
    Vals <- MC_Vals
    MaxID = 2
    MaxClock = 4
    EmitEvents = FALSE
    CommitFaults = {"txError"}
SPECIFICATION Spec
PROPERTIES NoStaleOverwrite
