---------------------------- MODULE ReportWorkflow ----------------------------
(***************************************************************************)
(* The report workflow of src/smc/administration/reports.py, as its module *)
(* and class docstrings use it: a design is created from a template, each  *)
(* generate() returns a TaskOperationPoller (the TaskPoller module, as an  *)
(* INSTANCE sharing this module's poller variables) on which the caller    *)
(* registers the docstring's export_my_report callback and loops on        *)
(* wait(); report_files lists the design's reports, which can be exported  *)
(* as PDF or text; a ReportOperation launches a report of the same design. *)
(* The server finishes tasks and operations by itself: a successful task   *)
(* adds a report file, named by the task's resource link.  Report ids are  *)
(* numbered in the order the server made them.                             *)
(***************************************************************************)
EXTENDS Naturals, FiniteSets

CONSTANTS
  MaxGen,   \* generate() calls the caller makes
  Timeout   \* wait() timeout, in poll intervals

ASSUME MaxGen \in Nat \ {0}

\* ReportTemplate.typeof, the tag create_design gives the design it returns.
TemplateTypeof == "report_template"

ExportCb == "export_my_report"

Gens == 1 .. MaxGen
Ids  == 1 .. MaxGen + 1   \* one report per generation, one per operation

VARIABLES
  task, state, pendingCbs, fired, mode, elapsed, returned,  \* the current poller
  design,     \* server: "none" or "created" (the design made from the template)
  handle,     \* type tag of the ReportDesign create_design returned
  gen,        \* generate() calls so far; the poller belongs to the last one
  reports,    \* server: report files of the design
  genReport,  \* server: the report each generation's task produced, 0 if none
  op,         \* server: the ReportOperation, "none", "created" or "done"
  opStatus,   \* what the last ReportOperation.status returned
  listing,    \* what the last report_files returned
  files,      \* files written by export_pdf/export_text: <<report, format>>
  textOut,    \* what the last export_text returned
  cbExports   \* reports exported by the callback: <<generation, report>>

pollerVars == <<task, state, pendingCbs, fired, mode, elapsed, returned>>
flowVars == <<design, handle, gen, reports, genReport, op, opStatus, listing,
              files, textOut, cbExports>>
vars == <<pollerVars, flowVars>>

Poller == INSTANCE TaskPoller WITH Callbacks <- {ExportCb}

TypeOK ==
  /\ Poller!TypeOK
  /\ design \in {"none", "created"} /\ handle \in {"none", TemplateTypeof}
  /\ gen \in 0 .. MaxGen
  /\ reports \subseteq Ids /\ genReport \in [Gens -> Ids \cup {0}]
  /\ op \in {"none", "created", "done"} /\ opStatus \in {"none", "created", "done"}
  /\ listing \subseteq Ids
  /\ files \subseteq Ids \X {"pdf", "txt"} /\ textOut \in {"none", "content"}
  /\ cbExports \subseteq Gens \X Ids

Init ==
  /\ Poller!Init
  /\ design = "none" /\ handle = "none" /\ gen = 0
  /\ reports = {} /\ genReport = [g \in Gens |-> 0]
  /\ op = "none" /\ opStatus = "none"
  /\ listing = {} /\ files = {} /\ textOut = "none" /\ cbExports = {}

\* task.resource: the report a succeeded task links to.
Resource == IF task = "success" THEN {genReport[gen]} ELSE {}

\* Mutant: the `if task.resource` guard dropped.
ExportMyReportUnguarded ==
  IF fired'[ExportCb] > fired[ExportCb]
    THEN cbExports' = cbExports \cup {<<gen, genReport[gen]>>}
    ELSE UNCHANGED cbExports

\* Mutant: the resource judged by the PollResult cached before this poll.
ExportMyReportStale ==
  IF fired'[ExportCb] > fired[ExportCb] /\ Poller!Terminal(state) /\ Resource # {}
    THEN cbExports' = cbExports \cup {<<gen, genReport[gen]>>}
    ELSE UNCHANGED cbExports

\* export_my_report(task), run by the poller as it fires its callbacks:
\* if task.resource: task.resource[0].export_pdf(...).
ExportMyReport ==
  IF fired'[ExportCb] > fired[ExportCb] /\ Resource # {}
    THEN cbExports' = cbExports \cup {<<gen, CHOOSE r \in Resource : TRUE>>}
    ELSE UNCHANGED cbExports

\* A call on the current poller: poll_once, wait, add_done_callback.
PollerCall(A) ==
  /\ gen > 0 /\ A /\ ExportMyReport
  /\ UNCHANGED <<design, handle, gen, reports, genReport, op, opStatus,
                 listing, files, textOut>>

\* ReportTemplate.create_design(name): the server makes the design; the
\* ReportDesign returned carries type=self.typeof, the template's tag.
CreateDesign ==
  /\ design = "none"
  /\ design' = "created" /\ handle' = TemplateTypeof
  /\ UNCHANGED <<pollerVars, gen, reports, genReport, op, opStatus, listing,
                 files, textOut, cbExports>>

\* ReportDesign.generate(): Task.execute starts a task and returns a new
\* poller; the caller holds one poller and generates again once it resolved.
Generate ==
  /\ design = "created" /\ gen < MaxGen
  /\ gen = 0 \/ Poller!Terminal(state)
  /\ gen' = gen + 1
  /\ task' = "in_progress" /\ state' = "Created" /\ pendingCbs' = {}
  /\ fired' = [c \in {ExportCb} |-> 0] /\ mode' = "idle" /\ elapsed' = 0
  /\ returned' = "none"
  /\ UNCHANGED <<design, handle, reports, genReport, op, opStatus, listing,
                 files, textOut, cbExports>>

\* ReportDesign.report_files: one request, a fresh list of the design's reports.
ReportFiles ==
  /\ design = "created"
  /\ listing' = reports
  /\ UNCHANGED <<pollerVars, design, handle, gen, reports, genReport, op,
                 opStatus, files, textOut, cbExports>>

\* Report.export_pdf(filename): the file is written.
ExportPdf(r) ==
  /\ r \in listing
  /\ files' = files \cup {<<r, "pdf">>}
  /\ UNCHANGED <<pollerVars, design, handle, gen, reports, genReport, op,
                 opStatus, listing, textOut, cbExports>>

\* Report.export_text(filename=None): written to the file when a filename
\* is given, otherwise the content is returned.
ExportText(r, filename) ==
  /\ r \in listing
  /\ IF filename
       THEN files' = files \cup {<<r, "txt">>} /\ textOut' = "none"
       ELSE textOut' = "content" /\ UNCHANGED files
  /\ UNCHANGED <<pollerVars, design, handle, gen, reports, genReport, op,
                 opStatus, listing, cbExports>>

\* ReportOperation.create(..., report_design=design): ElementCreator posts
\* the json naming the design.
CreateOperation ==
  /\ design = "created" /\ op = "none"
  /\ op' = "created"
  /\ UNCHANGED <<pollerVars, design, handle, gen, reports, genReport, opStatus,
                 listing, files, textOut, cbExports>>

\* ReportOperation.status: the server's view of the operation.
OperationStatus ==
  /\ op # "none"
  /\ opStatus' = op
  /\ UNCHANGED <<pollerVars, design, handle, gen, reports, genReport, op,
                 listing, files, textOut, cbExports>>

NewId == Cardinality(reports) + 1

\* The server advances the task; on success it stores the report file.
ServerStep ==
  /\ gen > 0 /\ Poller!ServerStep
  /\ IF task' = "success"
       THEN reports' = reports \cup {NewId} /\ genReport' = [genReport EXCEPT ![gen] = NewId]
       ELSE UNCHANGED <<reports, genReport>>
  /\ UNCHANGED <<design, handle, gen, op, opStatus, listing, files, textOut, cbExports>>

\* The server runs the operation at its launch time: another report file.
OperationRuns ==
  /\ op = "created"
  /\ op' = "done" /\ reports' = reports \cup {NewId}
  /\ UNCHANGED <<pollerVars, design, handle, gen, genReport, opStatus, listing,
                 files, textOut, cbExports>>

WaitBegin == PollerCall(Poller!WaitBegin)
WaitPoll  == PollerCall(Poller!WaitPoll)

Next ==
  \/ CreateDesign \/ Generate \/ ReportFiles \/ CreateOperation \/ OperationStatus
  \/ \E r \in Ids : ExportPdf(r) \/ \E f \in BOOLEAN : ExportText(r, f)
  \/ PollerCall(Poller!PollOnce) \/ WaitBegin \/ WaitPoll
  \/ PollerCall(Poller!OnComplete(ExportCb))
  \/ ServerStep \/ OperationRuns

\* The docstring caller keeps waiting on its poller; a status request retried
\* again and again succeeds at last; the server finishes its tasks.
Fairness ==
  /\ WF_vars(WaitBegin)
  /\ SF_vars(WaitPoll /\ returned' # "PollError")
  /\ WF_vars(ServerStep /\ task' \in {"success", "failure"})

Spec == Init /\ [][Next]_vars /\ Fairness

(***************************************************************************)
(* Properties                                                              *)
(***************************************************************************)

\* Once a task with the callback registered has succeeded on the server, the
\* looping caller eventually has its report exported by the callback.
ExportFollowsSuccess ==
  \A g \in Gens :
    (gen = g /\ ExportCb \in pendingCbs /\ task = "success")
      ~> (<<g, genReport[g]>> \in cbExports)

=============================================================================
