----------------------------- MODULE TaskResult -----------------------------
(***************************************************************************)
(* What an asynchronous server operation promises its caller (spec.md 3,   *)
(* 4.2, 7, 8).  The server runs the operation to one outcome.  The caller's *)
(* PollResult is Pending until it resolves, exactly once, to that outcome.  *)
(* A completion callback fires once: when the result resolves, or at       *)
(* registration if the result is already terminal.                         *)
(***************************************************************************)
CONSTANT Callbacks

VARIABLES
  outcome,  \* what the server operation ended with, "none" while it runs
  result,   \* the PollResult the caller sees
  cb        \* per callback: "none", "registered" or "fired"

PollResults == {"Pending", "Succeeded", "Failed"}
Outcomes == {"Succeeded", "Failed"}

TypeOK ==
  /\ outcome \in Outcomes \cup {"none"}
  /\ result \in PollResults
  /\ cb \in [Callbacks -> {"none", "registered", "fired"}]

Init ==
  /\ outcome = "none"
  /\ result = "Pending"
  /\ cb = [c \in Callbacks |-> "none"]

\* The server finishes the operation.
Complete ==
  /\ outcome = "none"
  /\ outcome' \in Outcomes
  /\ UNCHANGED <<result, cb>>

\* The caller learns the outcome; every registered callback fires with it.
Resolve ==
  /\ result = "Pending" /\ outcome # "none"
  /\ result' = outcome
  /\ cb' = [c \in Callbacks |-> IF cb[c] = "registered" THEN "fired" ELSE cb[c]]
  /\ UNCHANGED outcome

\* on_complete(c): fires at once on a terminal result, else waits for it.
Register(c) ==
  /\ cb[c] = "none"
  /\ cb' = [cb EXCEPT ![c] = IF result = "Pending" THEN "registered" ELSE "fired"]
  /\ UNCHANGED <<outcome, result>>

Next == Complete \/ Resolve \/ \E c \in Callbacks : Register(c)

Spec == Init /\ [][Next]_<<outcome, result, cb>>

=============================================================================
