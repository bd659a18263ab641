------------------------- MODULE MC_ReportGenerate -------------------------
(***************************************************************************)
(* Model-checking instance of ReportGenerate.  Times are two ordinary       *)
(* millisecond values and None.  A caller may pass its own params in **kw.  *)
(***************************************************************************)
EXTENDS ReportGenerate

CONSTANTS NoneValue, engine1

MCTimes == {NoneValue, 1000, 2000}

MCDurations == {NoneValue, 3600}

MCSenders == {engine1}

MCCallerKw == {EmptyDict, "params" :> ("extra" :> 1)}
=============================================================================
