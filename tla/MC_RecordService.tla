-------------------------- MODULE MC_RecordService --------------------------
(* Model-checking instance of RecordService: two fields, one of which the  *)
(* invoker may not update and which has a default; values 7 (malformed as *)
(* a reference) and 42.                                                    *)
EXTENDS RecordService

MC_Default == [f \in Fields |-> IF f \in Updatable THEN NoValue ELSE 42]
MC_Vals == {7, 42}

=============================================================================
