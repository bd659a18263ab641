------------------------- MODULE GatewayProfileScript -------------------------
(***************************************************************************)
(* src/smc/examples/gateway_profile.py.  The script logs in only when run  *)
(* as __main__, but its try block runs at import as well.  It deletes a    *)
(* leftover profile, creates test_gateway_profile, turns aes128_for_ike on *)
(* with update(), asserts, turns every boolean capability off except       *)
(* external_for_ipsec with update(), asserts again; except prints and      *)
(* calls exit(1); finally deletes the profile by name and logs out.        *)
(* The capability dict is abstracted to four entries: the one the script   *)
(* toggles, one standing for the other booleans, the skipped one and the   *)
(* integer hash length (type(value) is bool leaves it alone).              *)
(* The server stores what update() sends or, when ServerNormalises, one    *)
(* boolean differently.  Whether gateway_profile.capabilities is re-read from   *)
(* the server after update() is decided in smc.base, outside the sources,  *)
(* so each read after update is either the local dict or the server's.     *)
(***************************************************************************)
EXTENDS Naturals

CONSTANTS
  HashLength,       \* the int 256 of sha2_ike_hash_length: only its type and truth matter
  FailingCalls,     \* remote calls that may raise: subset of Calls
  ServerNormalises  \* TRUE: the server may store one boolean other than sent

Calls == {"login", "filter", "delete_old", "create", "update", "delete"}

ASSUME FailingCalls \subseteq Calls /\ ServerNormalises \in BOOLEAN

Attr     == "aes128_for_ike"
Skipped  == "external_for_ipsec"
BoolAttrs == {Attr, "ike_v2", Skipped}
IntAttrs  == {"sha2_ike_hash_length"}
Names     == BoolAttrs \cup IntAttrs

\* Python truthiness of a capability value; the hash length is non-zero.
Truthy(v) == IF v \in BOOLEAN THEN v ELSE TRUE

\* type(value) is bool
IsBool(v) == v \in BOOLEAN

\* The module-level capabilities literal (lines 24-90), abstracted.
Capabilities == [a \in Names |-> IF a \in IntAttrs THEN HashLength ELSE a # Attr]

\* Well-typed capability dicts: booleans stay booleans, the int stays an int.
Caps == {c \in [Names -> BOOLEAN \cup {HashLength}] :
           \A a \in Names : IsBool(c[a]) <=> a \in BoolAttrs}

VARIABLES
  pc,       \* where the script is
  session,  \* server side: logged in
  exists,   \* server side: a profile named test_gateway_profile exists
  server,   \* server side: its stored capabilities
  local,    \* gateway_profile.capabilities as the script holds it
  pending,  \* "exit" once exit(1) has raised SystemExit in the except clause
  created   \* history: this run's create committed

vars == <<pc, session, exists, server, local, pending, created>>

Terminal == {"completed", "exited", "raised"}

TypeOK ==
  /\ pc \in {"login", "check", "create", "assert_created", "enable", "assert_enabled",
             "disable", "assert_disabled", "finally", "logout"} \cup Terminal
  /\ session \in BOOLEAN /\ exists \in BOOLEAN /\ created \in BOOLEAN
  /\ server \in Caps /\ local \in Caps
  /\ pending \in {"none", "exit"}

\* Run as __main__ (login first) or imported (the try block runs at once,
\* on the process-wide smc.session, which the importer may have logged in
\* already); a profile of that name, with any capabilities, may be left on
\* the server by an earlier run.
Init ==
  /\ pc \in {"login", "check"}
  /\ session \in IF pc = "check" THEN BOOLEAN ELSE {FALSE}
  /\ exists \in BOOLEAN
  /\ server \in IF exists THEN Caps ELSE {Capabilities}
  /\ local = Capabilities
  /\ pending = "none" /\ created = FALSE

\* What the server may store for a request: a server enforcing its own
\* constraints on the profile may store one boolean other than it was sent.
Stored(req) ==
  {req} \cup (IF ServerNormalises
                THEN {[req EXCEPT ![a] = ~req[a]] : a \in BoolAttrs}
                ELSE {})

\* An exception in the try block: print it, exit(1) raises SystemExit.
Except == pc' = "finally" /\ pending' = "exit"

\* session.login(...) under __main__, outside the try.
Login ==
  /\ pc = "login"
  /\ session' = TRUE /\ pc' = "check"
  /\ UNCHANGED <<exists, server, local, pending, created>>

\* Lines 98-100: filter by name, delete a leftover profile.
CheckAndDelete ==
  /\ pc = "check"
  /\ \/ session /\ exists' = FALSE /\ pc' = "create" /\ UNCHANGED pending
     \/ ~session /\ Except /\ UNCHANGED exists
  /\ UNCHANGED <<session, server, local, created>>

\* Lines 102-104: create; the element's data is what the server stored.
Create ==
  /\ pc = "create"
  /\ exists' = TRUE /\ created' = TRUE
  /\ server' \in Stored(Capabilities) /\ local' = server'
  /\ pc' = "assert_created"
  /\ UNCHANGED <<session, pending>>

\* An assert: AssertionError is an Exception, caught by the except clause.
Assert(cond, next) ==
  /\ \/ cond /\ pc' = next /\ UNCHANGED pending
     \/ ~cond /\ Except
  /\ UNCHANGED <<session, exists, server, local, created>>

\* Lines 105-106.
AssertCreated == pc = "assert_created" /\ Assert(~local[Attr], "enable")

\* gateway_profile.update(capabilities=req): the server stores req (or its
\* normalised form); the dict read afterwards is req or the stored copy.
Update(req, next) ==
  /\ server' \in Stored(req)
  /\ local' \in {req, server'}
  /\ pc' = next
  /\ UNCHANGED <<session, exists, pending, created>>

\* Lines 107-108.
Enable == pc = "enable" /\ Update([local EXCEPT ![Attr] = TRUE], "assert_enabled")

\* Lines 109-113: the toggled capability is on, every other value truthy.
AssertEnabled ==
  /\ pc = "assert_enabled"
  /\ Assert(local[Attr] /\ \A a \in Names \ {Skipped} : Truthy(local[a]), "disable")

\* Mutant: the type(value) is bool test dropped.
DisableAllIgnoringType(caps) ==
  [a \in DOMAIN caps |-> IF a # Skipped THEN FALSE ELSE caps[a]]

\* Lines 115-121: every bool capability but external_for_ipsec set False.
DisableAll(caps) ==
  [a \in DOMAIN caps |-> IF a # Skipped /\ IsBool(caps[a]) THEN FALSE ELSE caps[a]]

\* Lines 115-123.
Disable == pc = "disable" /\ Update(DisableAll(local), "assert_disabled")

\* Lines 124-129.
AssertDisabled ==
  /\ pc = "assert_disabled"
  /\ Assert(\A a \in Names \ {Skipped} : IsBool(local[a]) => ~local[a], "finally")

\* A remote call of the try block raises; a create may have committed.
RemoteCallFails ==
  /\ \E call \in FailingCalls \ {"login", "delete"} :
       pc = CASE call = "filter"     -> "check"
              [] call = "delete_old" -> "check"
              [] call = "create"     -> "create"
              [] call = "update"     -> IF pc = "enable" THEN "enable" ELSE "disable"
  /\ session
  /\ \E made \in BOOLEAN :
       IF pc = "create" /\ made /\ ~exists
         THEN exists' = TRUE /\ created' = TRUE /\ server' \in Stored(Capabilities)
         ELSE UNCHANGED <<exists, created, server>>
  /\ Except
  /\ UNCHANGED <<session, local>>

\* session.login raises: outside the try, the script ends there.
LoginFails ==
  /\ pc = "login" /\ "login" \in FailingCalls
  /\ pc' = "raised"
  /\ UNCHANGED <<session, exists, server, local, pending, created>>

\* Mutant: the profile is deleted only when the try block succeeded.
FinallyDeleteOnSuccess ==
  /\ pc = "finally"
  /\ \/ session /\ exists /\ pending = "none" /\ exists' = FALSE /\ pc' = "logout"
     \/ pending = "exit" /\ pc' = "logout" /\ UNCHANGED exists
     \/ (~session \/ ~exists \/ "delete" \in FailingCalls)
        /\ pc' = "raised" /\ UNCHANGED exists
  /\ UNCHANGED <<session, server, local, pending, created>>

\* Lines 134-136: GatewayProfile(name).delete() raises when there is no
\* such profile or no session, replacing any pending exception.
FinallyDelete ==
  /\ pc = "finally"
  /\ \/ session /\ exists /\ exists' = FALSE /\ pc' = "logout"
     \/ (~session \/ ~exists \/ "delete" \in FailingCalls)
        /\ pc' = "raised" /\ UNCHANGED exists
  /\ UNCHANGED <<session, server, local, pending, created>>

\* Line 137, then the pending SystemExit (status 1) or the end of the module.
Logout ==
  /\ pc = "logout"
  /\ session' = FALSE
  /\ pc' = IF pending = "exit" THEN "exited" ELSE "completed"
  /\ UNCHANGED <<exists, server, local, pending, created>>

Done == pc \in Terminal /\ UNCHANGED vars

Next ==
  \/ Login \/ LoginFails \/ CheckAndDelete \/ Create \/ AssertCreated
  \/ Enable \/ AssertEnabled \/ Disable \/ AssertDisabled
  \/ RemoteCallFails \/ FinallyDelete \/ Logout \/ Done

Spec == Init /\ [][Next]_vars

(***************************************************************************)
(* Properties                                                              *)
(***************************************************************************)

\* When the script reaches its finally clause with every assert passed, the
\* profile on the server really has every boolean capability but
\* external_for_ipsec off: the asserts of lines 124-128 checked the server.
ValidatedMeansServerUpdated ==
  pc = "finally" /\ pending = "none" =>
    \A a \in BoolAttrs \ {Skipped} : server[a] = FALSE

\* A profile this run created is not left on the server when it ends.
NoProfileLeft == pc \in Terminal /\ created => ~exists

=============================================================================
