\* An import of five rows, two error messages, an index cap of three.
\* A finished import takes no further step, so deadlock is not checked.
CONSTANTS
    Rows = 5
    Messages = {m1, m2}
    MaxIndexCount = 3
SPECIFICATION Spec
INVARIANTS TypeOK LedgerConsistent FailLogCompressed
CHECK_DEADLOCK FALSE
