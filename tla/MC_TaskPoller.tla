--------------------------- MODULE MC_TaskPoller ---------------------------
(***************************************************************************)
(* Model-checking instance of TaskPoller: two callbacks, so that one can   *)
(* be registered before and one after completion, and a wait() of two     *)
(* poll intervals, so that a wait can both time out and see completion.    *)
(***************************************************************************)
EXTENDS TaskPoller

CONSTANTS c1, c2

MCCallbacks == {c1, c2}

MCTimeout == 2
=============================================================================
