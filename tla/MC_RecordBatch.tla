--------------------------- MODULE MC_RecordBatch ---------------------------
(* Model-checking instance of RecordBatch: the values and defaults of      *)
(* MC_RecordService; Bulk receives one operation, or two with the second  *)
(* linked to the first success (the parent-then-child pattern), or an      *)
(* unknown operation first.                                                *)
EXTENDS MC_RecordService, RecordBatch

MC_Op(op, link) == [op |-> op, link |-> link]

MC_BulkInputs ==
    {<<MC_Op(o, FALSE)>> : o \in BulkOps}
    \cup {<<MC_Op(o1, FALSE), MC_Op(o2, TRUE)>> : o1 \in BulkOps, o2 \in BulkOps}
    \cup {<<MC_Op("unknown", FALSE), MC_Op("create", FALSE)>>}

=============================================================================
