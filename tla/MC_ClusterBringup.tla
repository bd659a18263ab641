------------------------- MODULE MC_ClusterBringup -------------------------
(***************************************************************************)
(* Model-checking instance of ClusterBringup.  The script creates three     *)
(* nodes; the failure sets choose which remote calls may raise.             *)
(***************************************************************************)
EXTENDS ClusterBringup

\* The three nodes of FirewallCluster.create in the script.
MCNumNodes == 3

\* Every call inside the try block may raise; the delete in the finally
\* clause raises only for the reasons the server state explains.
MCTryFailures == {"login", "create", "contact", "status", "ldap"}

\* Every remote call may raise, the cleanup's delete included.
MCAllFailures == {"login", "create", "contact", "status", "ldap", "delete"}

\* No transient failures: only the server state makes a call raise.
MCNoFailures == {}
=============================================================================
