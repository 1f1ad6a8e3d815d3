\* Two concurrent requests with before-hooks; the store transaction and label.Create may fail.
CONSTANTS
    Clients = {c1, c2}
    Nobody = Nobody
    NoRecord = NoRecord
    NoValue = NoValue
    UnknownField = UnknownField
    Fields = {fa, fb}
    RefFields = {fb}
    Updatable = {fa}
    Required = {fa}
    Unique = {}
    Default <- MC_Default
    Vals <- MC_Vals
    MaxID = 4
    MaxClock = 4
    EmitEvents = TRUE
    CommitFaults = {"txError", "labelError"}
SPECIFICATION Spec
INVARIANTS TypeOK DeniedFieldsKeepDefault StoredRecordsValid
