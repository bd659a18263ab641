----------------------- MODULE MC_GatewayProfileScript -----------------------
(***************************************************************************)
(* Model-checking instance of GatewayProfileScript: which remote calls may *)
(* raise.  The delete of the finally clause is left reliable in the        *)
(* passing run, so that what it checks is the control flow of the script.  *)
(***************************************************************************)
EXTENDS GatewayProfileScript

CONSTANT Hash256  \* stands for the integer 256

MCTryFailures == {"login", "filter", "delete_old", "create", "update"}
=============================================================================
