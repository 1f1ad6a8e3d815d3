---------------------------- MODULE MC_RecordRead ----------------------------
(* Model-checking instance of RecordRead over the store of                *)
(* MC_RecordService.                                                       *)
EXTENDS MC_RecordService, RecordRead

=============================================================================
