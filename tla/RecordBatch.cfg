\* Bulk or DeleteByID calls and Iterator calls interleaved on one store, without before-hooks.
CONSTANTS
    Clients = {b}
    BulkClient = b
    IterInvoker = b
    IterActions = {"clone", "update", "delete", "none"}
    BulkInputs <- MC_BulkInputs
    Nobody = Nobody
    NoRecord = NoRecord
    NoValue = NoValue
    UnknownField = UnknownField
    Fields = {fa, fb}
    RefFields = {fb}
    Updatable = {fa}
    Required = {fa}
    Unique = {}
    Default <- MC_Default
    Vals <- MC_Vals
    MaxID = 3
    MaxClock = 4
    MaxBatchCalls = 3
    EmitEvents = FALSE
    CommitFaults = {"txError", "labelError"}
SPECIFICATION BatchSpec
INVARIANTS BatchTypeOK BulkReport
