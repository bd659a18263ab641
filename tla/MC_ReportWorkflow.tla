------------------------- MODULE MC_ReportWorkflow -------------------------
(***************************************************************************)
(* Model-checking instance of ReportWorkflow: two generate() calls and one *)
(* report operation, so that the design's report files hold reports of    *)
(* other launches when the callback of a generation runs; a wait() of two  *)
(* poll intervals.                                                         *)
(***************************************************************************)
EXTENDS ReportWorkflow

MCMaxGen == 2

MCTimeout == 2
=============================================================================
