----------------------------- MODULE TaskPoller -----------------------------
(***************************************************************************)
(* The asynchronous operation poller that ReportDesign.generate returns    *)
(* (Task.execute -> TaskOperationPoller, spec.md 4.2).  Its code, in        *)
(* smc.administration.tasks, is not among the sources, so every definition *)
(* here follows spec.md.  One handle, one caller thread (spec.md 5): the    *)
(* caller either calls poll_once, or runs a wait loop of poll_once calls    *)
(* bounded by a timeout, or registers a callback with on_complete.  The     *)
(* server runs the task concurrently and reports a status string, which     *)
(* may be one the poller does not recognise; each status request may fail  *)
(* with a PollError.                                                        *)
(***************************************************************************)
EXTENDS Naturals

CONSTANTS
  Callbacks,  \* callbacks the caller may register, one registration each
  Timeout     \* wait() timeout, in poll intervals

ASSUME Timeout \in Nat \ {0}

\* Server status vocabulary: only "success" and "failure" are terminal.
ServerStatuses == {"in_progress", "unrecognized", "success", "failure"}

\* Poller states; Created and Polling both read as a Pending PollResult.
States == {"Created", "Polling", "Succeeded", "Failed"}

\* A double firing is already a fault: the count stops there.
FiredCap == 2

VARIABLES
  task,        \* server side: the task's status
  state,       \* the poller's cached last PollResult
  pendingCbs,  \* callbacks registered and not yet fired
  fired,       \* how often each callback has fired
  mode,        \* the caller: "idle" or inside wait()
  elapsed,     \* poll intervals spent in the current wait()
  returned     \* what the caller's last poll_once or wait returned

vars == <<task, state, pendingCbs, fired, mode, elapsed, returned>>

TypeOK ==
  /\ task \in ServerStatuses
  /\ state \in States
  /\ pendingCbs \subseteq Callbacks
  /\ fired \in [Callbacks -> 0 .. FiredCap]
  /\ mode \in {"idle", "waiting"}
  /\ elapsed \in 0 .. Timeout
  /\ returned \in {"none", "Pending", "Succeeded", "Failed", "PollError"}

Terminal(s) == s \in {"Succeeded", "Failed"}

ResultOf(s) == IF Terminal(s) THEN s ELSE "Pending"

Init ==
  /\ task = "in_progress"
  /\ state = "Created"
  /\ pendingCbs = {}
  /\ fired = [c \in Callbacks |-> 0]
  /\ mode = "idle"
  /\ elapsed = 0
  /\ returned = "none"

\* Mutant: every status other than failure and in_progress reads as success.
MapStatusLenient(st) ==
  CASE st = "failure"     -> "Failed"
    [] st = "in_progress" -> "Pending"
    [] OTHER              -> "Succeeded"

\* Mutant: the terminal status names compared in the wrong case.
MapStatusUpperCase(st) ==
  CASE st = "SUCCESS" -> "Succeeded"
    [] st = "failure" -> "Failed"
    [] OTHER          -> "Pending"

\* Server status -> PollResult.  An unrecognised status maps to Pending
\* (the conservative policy spec.md 8 asks the implementation to pick).
MapStatus(st) ==
  CASE st = "success" -> "Succeeded"
    [] st = "failure" -> "Failed"
    [] OTHER          -> "Pending"

Bump(n) == IF n < FiredCap THEN n + 1 ELSE n

(***************************************************************************)
(* One successful status request: a terminal cached result is returned    *)
(* as it is; otherwise the server status is mapped and cached, and on the  *)
(* first terminal result every registered callback fires, synchronously.   *)
(* Observe leaves mode, elapsed and returned to the caller.                *)
(***************************************************************************)
Observe ==
  LET r == IF Terminal(state) THEN state ELSE MapStatus(task)
      completes == ~Terminal(state) /\ Terminal(r)
  IN  /\ state' = IF r = "Pending" THEN "Polling" ELSE r
      /\ fired' = IF completes
                    THEN [c \in Callbacks |-> IF c \in pendingCbs THEN Bump(fired[c]) ELSE fired[c]]
                    ELSE fired
      /\ pendingCbs' = IF completes THEN {} ELSE pendingCbs

\* The server advances the task; a terminal status never changes.
ServerStep ==
  /\ task \in {"in_progress", "unrecognized"}
  /\ task' \in ServerStatuses \ {task}
  /\ UNCHANGED <<state, pendingCbs, fired, mode, elapsed, returned>>

\* poll_once(): one status request, or a PollError that changes nothing.
PollOnce ==
  /\ mode = "idle"
  /\ \/ Observe /\ returned' = ResultOf(state')
     \/ returned' = "PollError" /\ UNCHANGED <<state, pendingCbs, fired>>
  /\ UNCHANGED <<task, mode, elapsed>>

\* wait(interval, timeout) is entered.
WaitBegin ==
  /\ mode = "idle"
  /\ mode' = "waiting" /\ elapsed' = 0
  /\ UNCHANGED <<task, state, pendingCbs, fired, returned>>

\* Mutant: the wait loop never checks its timeout.
WaitPollNoTimeout ==
  /\ mode = "waiting"
  /\ \/ /\ Observe
        /\ IF Terminal(state')
             THEN mode' = "idle" /\ returned' = ResultOf(state') /\ elapsed' = 0
             ELSE elapsed' = elapsed + 1 /\ UNCHANGED <<mode, returned>>
     \/ /\ mode' = "idle" /\ returned' = "PollError" /\ elapsed' = 0
        /\ UNCHANGED <<state, pendingCbs, fired>>
  /\ UNCHANGED task

(***************************************************************************)
(* One poll_once of the wait loop.  A terminal result ends the wait; a     *)
(* PollError propagates out of it; otherwise the loop sleeps one interval  *)
(* and returns the last Pending once the timeout is used up.               *)
(***************************************************************************)
WaitPoll ==
  /\ mode = "waiting"
  /\ \/ /\ Observe
        /\ IF Terminal(state') \/ elapsed + 1 = Timeout
             THEN mode' = "idle" /\ returned' = ResultOf(state') /\ elapsed' = 0
             ELSE elapsed' = elapsed + 1 /\ UNCHANGED <<mode, returned>>
     \/ /\ mode' = "idle" /\ returned' = "PollError" /\ elapsed' = 0
        /\ UNCHANGED <<state, pendingCbs, fired>>
  /\ UNCHANGED task

\* Mutant: a callback registered on a resolved handle is only queued.
OnCompleteQueueOnly(c) ==
  /\ mode = "idle"
  /\ c \notin pendingCbs /\ fired[c] = 0
  /\ pendingCbs' = pendingCbs \cup {c}
  /\ UNCHANGED <<task, state, fired, mode, elapsed, returned>>

\* on_complete(c): on a terminal handle c fires before on_complete returns.
OnComplete(c) ==
  /\ mode = "idle"
  /\ c \notin pendingCbs /\ fired[c] = 0
  /\ IF Terminal(state)
       THEN fired' = [fired EXCEPT ![c] = 1] /\ UNCHANGED pendingCbs
       ELSE pendingCbs' = pendingCbs \cup {c} /\ UNCHANGED fired
  /\ UNCHANGED <<task, state, mode, elapsed, returned>>

Next ==
  \/ ServerStep \/ PollOnce \/ WaitBegin \/ WaitPoll
  \/ \E c \in Callbacks : OnComplete(c)

Spec == Init /\ [][Next]_vars

(***************************************************************************)
(* The caller of the module docstring of reports.py: `while not            *)
(* poller.done(): poller.wait(3)`.  It keeps waiting, and a status request *)
(* that is retried again and again succeeds at last (strong fairness, as   *)
(* the request is enabled only while a wait runs); the server finishes.   *)
(***************************************************************************)
LoopingCaller ==
  /\ WF_vars(WaitBegin)
  /\ SF_vars(WaitPoll /\ returned' # "PollError")
  /\ WF_vars(ServerStep /\ task' \in {"success", "failure"})

LiveSpec == Spec /\ LoopingCaller

(***************************************************************************)
(* Properties                                                              *)
(***************************************************************************)

OutcomeOf(st) ==
  CASE st = "success" -> "Succeeded"
    [] st = "failure" -> "Failed"
    [] OTHER          -> "none"

CbView ==
  [c \in Callbacks |-> IF fired[c] > 0 THEN "fired"
                       ELSE IF c \in pendingCbs THEN "registered" ELSE "none"]

Abstract == INSTANCE TaskResult
              WITH outcome <- OutcomeOf(task), result <- ResultOf(state), cb <- CbView

\* The poller implements TaskResult: its PollResult is Pending until it
\* becomes the server's own outcome, never changes after that, and
\* callbacks fire when it resolves or, once resolved, on registration.
ImplementsTaskResult == Abstract!Spec

\* Each callback fires at most once, and none is left waiting on a handle
\* that has already resolved, in every order of on_complete, poll_once,
\* wait and server progress.
CallbacksExactlyOnce ==
  /\ \A c \in Callbacks : fired[c] <= 1
  /\ Terminal(state) => pendingCbs = {}

\* The looping caller of the docstring eventually sees a terminal result,
\* and every callback registered while the task ran is eventually called.
EventuallyResolved ==
  /\ <>Terminal(state)
  /\ \A c \in Callbacks : (c \in pendingCbs) ~> (fired[c] = 1)

=============================================================================
