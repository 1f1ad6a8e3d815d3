------------------------- MODULE MC_RecordOrganize -------------------------
(* Three records in two groups at positions 1..3; positions sent as "2",  *)
(* "3", "010" (decimal 10, octal 8), "09" (not octal) and "x".             *)
EXTENDS RecordOrganize

MC_PositionInputs == {<<2>>, <<3>>, <<0, 1, 0>>, <<0, 9>>, <<NonDigit>>}

=============================================================================
