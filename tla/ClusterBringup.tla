--------------------------- MODULE ClusterBringup ---------------------------
(***************************************************************************)
(* main() of src/smc/examples/layer3_cluster_ldap_replication.py, run      *)
(* against the management server.  The script is one sequential thread:    *)
(* parse arguments, log in, create cluster "mycluster", send initial       *)
(* contact to every node, poll every node until its monitoring state is    *)
(* READY, enable LDAP replication twice, and in the finally clause delete  *)
(* "mycluster" and log out.  The server is the environment: the cluster    *)
(* may already exist when the script starts, contacted nodes become READY  *)
(* (or fail, or drop out of READY) on their own schedule, and a remote     *)
(* call in FailingCalls may raise for reasons the model does not track     *)
(* (network, authorisation, server error).                                 *)
(***************************************************************************)
EXTENDS Naturals

CONSTANTS
  NumNodes,        \* nodes passed to FirewallCluster.create (3 in the script)
  FailingCalls,    \* remote calls that may raise a transient error
  StuckNodes,      \* TRUE: a contacted node may end in a state other than READY
  NodesMayRegress  \* TRUE: a READY node may drop out of READY again

Calls == {"login", "create", "contact", "status", "ldap", "delete"}

ASSUME NumNodes \in Nat \ {0}
ASSUME FailingCalls \subseteq Calls
ASSUME StuckNodes \in BOOLEAN /\ NodesMayRegress \in BOOLEAN

Nodes == 1 .. NumNodes

\* Monitoring states of a node.  Only "READY" is named by the code; the
\* others stand for every other string node.status().monitoring_state returns.
NodeStates == {"Declared", "Contacted", "READY", "Error"}

VARIABLES
  pc,       \* where main() is
  idx,      \* position in the current `for node in cluster.nodes` loop
  status,   \* the local `status` of the wait loop (last monitoring state read)
  rc,       \* the local return_code
  pending,  \* exception propagating through the finally clause
  session,  \* server side: the script's session is logged in
  exists,   \* server side: an element named "mycluster" exists
  created,  \* history: this run's create call made "mycluster" on the server
  node,     \* server side: monitoring state of each node
  ldap      \* server side: LDAP replication enabled on the cluster

vars == <<pc, idx, status, rc, pending, session, exists, created, node, ldap>>

Terminal == {"returned", "raised"}

TypeOK ==
  /\ pc \in {"parse", "login", "create", "contact", "wait", "ldap1", "ldap2",
             "finally", "logout"} \cup Terminal
  /\ idx \in Nodes
  /\ status \in NodeStates
  /\ rc \in {0, 1}
  /\ pending \in {"none", "exit"}
  /\ session \in BOOLEAN
  /\ exists \in BOOLEAN
  /\ created \in BOOLEAN
  /\ node \in [Nodes -> NodeStates]
  /\ ldap \in BOOLEAN

(***************************************************************************)
(* A "mycluster" may already be on the server: left by an earlier run that *)
(* was killed before its finally clause, or made by another administrator. *)
(***************************************************************************)
Init ==
  /\ pc = "parse"
  /\ idx = 1
  /\ status = "Declared"
  /\ rc = 0
  /\ pending = "none"
  /\ session = FALSE
  /\ exists \in BOOLEAN
  /\ created = FALSE
  /\ node = [n \in Nodes |-> "Declared"]
  /\ ldap = FALSE


\* Mutant: the except clause logs the exception but keeps return_code.
CaughtExceptionNoCode ==
  /\ pc' = "finally"
  /\ UNCHANGED rc

\* An Exception raised inside the try block: `except Exception` logs it and
\* sets return_code = 1, then the finally clause runs.
CaughtException ==
  /\ pc' = "finally"
  /\ rc' = 1

(***************************************************************************)
(* Script actions                                                          *)
(***************************************************************************)

\* parse_command_line_arguments() calls sys.exit(1) for --help or a missing
\* --api-url.  SystemExit is not an Exception: it skips the except clause,
\* runs the finally clause, and then propagates.
ParseArguments ==
  /\ pc = "parse"
  /\ \/ pc' = "login" /\ UNCHANGED pending
     \/ pc' = "finally" /\ pending' = "exit"
  /\ UNCHANGED <<idx, status, rc, session, exists, created, node, ldap>>

Login ==
  /\ pc = "login"
  /\ session' = TRUE /\ pc' = "create"
  /\ UNCHANGED <<idx, status, rc, pending, exists, created, node, ldap>>

\* FirewallCluster.create fails when the name is taken.
CreateCluster ==
  /\ pc = "create"
  /\ \/ /\ ~exists
        /\ exists' = TRUE /\ created' = TRUE
        /\ pc' = "contact" /\ idx' = 1 /\ UNCHANGED rc
     \/ /\ exists
        /\ CaughtException /\ UNCHANGED <<exists, created, idx>>
  /\ node' = [n \in Nodes |-> "Declared"]
  /\ UNCHANGED <<status, pending, session, ldap>>

\* Mutant: the loop bound tested one past the last node.
NextNodePastEnd(next) ==
  IF idx > NumNodes THEN pc' = next /\ idx' = 1
                    ELSE idx' = idx + 1 /\ UNCHANGED pc

\* Advance a `for node in cluster.nodes` loop, or leave it for `next`.
NextNode(next) ==
  IF idx = NumNodes THEN pc' = next /\ idx' = 1
                    ELSE idx' = idx + 1 /\ UNCHANGED pc

\* node.initial_contact() for the node at idx.
ContactNode ==
  /\ pc = "contact"
  /\ node' = [node EXCEPT ![idx] = IF @ = "Declared" THEN "Contacted" ELSE @]
  /\ NextNode("wait")
  /\ UNCHANGED <<status, rc, pending, session, exists, created, ldap>>

\* Mutant: a single status check instead of the while loop.
WaitReadyOnce ==
  /\ pc = "wait"
  /\ status' = node[idx]
  /\ NextNode("ldap1")
  /\ UNCHANGED <<rc, pending, session, exists, created, node, ldap>>

\* Mutant: the loop waits for a state name the server never reports.
WaitReadyWrongName ==
  /\ pc = "wait"
  /\ status' = node[idx]
  /\ IF node[idx] = "ONLINE" THEN NextNode("ldap1") ELSE UNCHANGED <<pc, idx>>
  /\ UNCHANGED <<rc, pending, session, exists, created, node, ldap>>

\* One read of node.status().monitoring_state; the while loop moves on to the
\* next node only when it reads "READY", and otherwise sleeps and reads again.
WaitReady ==
  /\ pc = "wait"
  /\ status' = node[idx]
  /\ IF node[idx] = "READY" THEN NextNode("ldap1") ELSE UNCHANGED <<pc, idx>>
  /\ UNCHANGED <<rc, pending, session, exists, created, node, ldap>>

\* cluster.ldap_replication(True), then time.sleep(2).
EnableLdap ==
  /\ pc = "ldap1"
  /\ ldap' = TRUE /\ pc' = "ldap2"
  /\ UNCHANGED <<idx, status, rc, pending, session, exists, created, node>>

\* The second cluster.ldap_replication(True); the comment expects the server
\* to reject it as already enabled, the server may also accept it.
EnableLdapAgain ==
  /\ pc = "ldap2"
  /\ \/ pc' = "finally" /\ UNCHANGED rc
     \/ CaughtException
  /\ UNCHANGED <<idx, status, pending, session, exists, created, node, ldap>>

\* Mutant: the cleanup runs only when no exception was caught.
FinallyDeleteOnSuccess ==
  /\ pc = "finally"
  /\ \/ /\ rc = 0 /\ session /\ exists
        /\ exists' = FALSE /\ pc' = "logout"
     \/ /\ rc = 1 /\ pc' = "logout" /\ UNCHANGED exists
     \/ /\ rc = 0 /\ (~session \/ ~exists)
        /\ pc' = "raised" /\ UNCHANGED exists
  /\ UNCHANGED <<idx, status, rc, pending, session, created, node, ldap>>

\* finally: FirewallCluster("mycluster").delete().  The delete looks the
\* element up by name; it raises when there is no session or no such element,
\* and that exception escapes main() and skips logout.
FinallyDelete ==
  /\ pc = "finally"
  /\ \/ /\ session /\ exists
        /\ exists' = FALSE /\ pc' = "logout"
     \/ /\ ~session \/ ~exists
        /\ pc' = "raised" /\ UNCHANGED exists
  /\ UNCHANGED <<idx, status, rc, pending, session, created, node, ldap>>

\* finally: session.logout(); then return return_code, or re-raise SystemExit.
FinallyLogout ==
  /\ pc = "logout"
  /\ session' = FALSE
  /\ pc' = IF pending = "exit" THEN "raised" ELSE "returned"
  /\ UNCHANGED <<idx, status, rc, pending, exists, created, node, ldap>>

\* The statement at which main() makes each remote call.
CallAt == [login |-> "login", create |-> "create", contact |-> "contact",
           status |-> "wait", ldap |-> "ldap1", delete |-> "finally"]

(***************************************************************************)
(* The remote call the script is making raises a transient error, whatever *)
(* the server state.  Inside the try block it is caught; in the finally    *)
(* clause it escapes main().  A create may fail after the server committed *)
(* the new element (the response was lost).                                *)
(***************************************************************************)
RemoteCallFails ==
  \E call \in FailingCalls :
    /\ pc = CallAt[call]
    /\ IF call = "delete" THEN pc' = "raised" /\ UNCHANGED rc ELSE CaughtException
    /\ \E committed \in BOOLEAN :
         LET made == call = "create" /\ committed /\ ~exists
         IN  /\ exists' = (exists \/ made)
             /\ created' = (created \/ made)
    /\ UNCHANGED <<idx, status, pending, session, node, ldap>>

(***************************************************************************)
(* Server actions on the nodes of an existing cluster                      *)
(***************************************************************************)

NodeReady(n) ==
  /\ exists /\ node[n] = "Contacted"
  /\ node' = [node EXCEPT ![n] = "READY"]
  /\ UNCHANGED <<pc, idx, status, rc, pending, session, exists, created, ldap>>

NodeFails(n) ==
  /\ StuckNodes
  /\ exists /\ node[n] = "Contacted"
  /\ node' = [node EXCEPT ![n] = "Error"]
  /\ UNCHANGED <<pc, idx, status, rc, pending, session, exists, created, ldap>>

NodeRegress(n) ==
  /\ NodesMayRegress
  /\ exists /\ node[n] = "READY"
  /\ node' = [node EXCEPT ![n] = "Contacted"]
  /\ UNCHANGED <<pc, idx, status, rc, pending, session, exists, created, ldap>>

Terminated == pc \in Terminal

\* sys.exit(main()): the process exits with main()'s return code, or with
\* status 1 when main() raised (SystemExit(1) or an uncaught exception).
ExitStatus == IF pc = "returned" THEN rc ELSE 1

\* main() has returned or raised: nothing more happens.
Done == Terminated /\ UNCHANGED vars

Normal ==
  \/ ParseArguments \/ Login \/ CreateCluster \/ ContactNode
  \/ WaitReady \/ EnableLdap \/ EnableLdapAgain
  \/ FinallyDelete \/ FinallyLogout

Script == Normal \/ RemoteCallFails

Server == \E n \in Nodes : NodeReady(n) \/ NodeFails(n) \/ NodeRegress(n)

Next == Script \/ Server \/ Done

(***************************************************************************)
(* The script's thread always runs its next statement; the server brings   *)
(* every contacted node to READY unless it fails it.  Transient failures   *)
(* are possible, never forced.                                             *)
(***************************************************************************)
Fairness ==
  /\ WF_vars(Normal)
  /\ \A n \in Nodes : WF_vars(NodeReady(n))

Spec == Init /\ [][Next]_vars /\ Fairness

(***************************************************************************)
(* Properties                                                              *)
(***************************************************************************)

\* LDAP replication is switched on only when every node of the cluster is
\* READY: the contact loop and the wait loop together must cover each node.
LdapOnlyWhenAllReady ==
  [][~ldap /\ ldap' => \A n \in Nodes : node[n] = "READY"]_vars

\* When main() ends, by return or by exception, a cluster this run created
\* on the server has been deleted by the finally clause.
NoOrphanCluster == Terminated /\ created => ~exists

\* Whatever failed, main() never returns a status code while "mycluster"
\* is still on the server: a failed cleanup always surfaces as an exception.
NoOrphanOnReturn == pc = "returned" => ~exists

\* The process exits 0 only for a run that created "mycluster" and switched
\* LDAP replication on: every exception of the try block, whichever call
\* raised it and whatever the server did, turns into return_code 1.
ZeroExitMeansLdapEnabled == Terminated /\ ExitStatus = 0 => created /\ ldap

\* main() always ends: the wait loop leaves once every node is READY.
EventuallyTerminates == <>Terminated

\* The finally clause deletes only a "mycluster" that this run created.
DeletesOnlyOwnCluster == [][exists /\ ~exists' => created]_vars

\* Every way out of main() passes through session.logout().
LogoutOnEveryExit == Terminated => ~session

=============================================================================
