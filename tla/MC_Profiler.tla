----------------------------- MODULE MC_Profiler -----------------------------
(* ContentLength is -1 when the length is unknown.                          *)
EXTENDS Profiler

MC_Sizes == {-1, 4}

=============================================================================
