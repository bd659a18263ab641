# TLA+ models of Forcepoint-NGFW-python (smc-python reports and example scripts)

These modules model the parts of the repository's code that have control
worth checking. The repository is a thin client SDK for the SMC management
server's REST API. `src/smc/administration/reports.py` holds the report
element wrappers. Three example scripts drive the server through long
sequences of remote calls, with polling loops and `finally` cleanup. All
real state lives on the server, so every model treats the server as the
environment. Remote calls change the server's state. They may fail, and the
server moves on by itself: nodes become READY, tasks finish.

## Inventory

| Component | Source | State | Operations | Hard part |
|---|---|---|---|---|
| ReportDesign.generate | `reports.py:91-127` | the request built from `**kw` | one call | Python truthiness on ints; merging into a caller's `params`; conditional options |
| Task poller (`Task.execute` → `TaskOperationPoller`) | not in `src/` (`smc.administration.tasks`); modelled from spec.md 4.2 | cached last PollResult, pending callbacks, wait timeout | `poll_once`, `wait`, `done`, `on_complete` | server progress interleaved with polls; PollError; an unrecognised status; callbacks before or after completion |
| Report workflow: ReportTemplate.create_design, the docstring's `export_my_report` callback, ReportDesign.report_files, Report.export_*, ReportOperation | `reports.py:72-83, 129-301` | server: design, report files, the report of each generation, the operation; caller: the current poller, the last listing, written files, callback exports | create_design, generate + callback + wait, report_files, export_pdf/export_text, ReportOperation.create/status | the callback reads `task.resource` while other generations and operations add reports; the callback must still run after the task finished |
| Report times | `reports.py:188-213` | — | — | pure conversions of `self.data`, not modelled |
| Cluster bring-up script | `examples/layer3_cluster_ldap_replication.py:38-147` | script pc, return_code; server: session, cluster, node monitoring states, LDAP flag | parse, login, create, initial contact per node, wait READY per node, enable LDAP twice, finally delete + logout | a `finally` that can raise; a pre-existing cluster; an unbounded wait; READY read before it is used |
| Route migration script | `examples/add_sidewinder_routes.py:76-161` | script pc, line index, log; server: routes | parse, login, load engine, open file, per line: mask_convertor + add_route, finally logout | a failed add_route aborts the rest; a commit whose response is lost; the mask → prefix conversion |
| Gateway profile script | `examples/gateway_profile.py:24-137` | server: profile and its capabilities; local cached capabilities | delete-if-present, create, update, assert, update all, assert, finally delete + logout | the try block runs at import without a login; the finally delete raises when nothing was created; asserts read the local copy |
| Session, transport, element CRUD, CLI, logging | `smc.session`, `smc.base` (not in `src/`) | — | — | external collaborators: represented only by the outcomes of the calls above |

How the parts interact. `ReportDesign.generate` builds a request and hands it
to `Task.execute`. That call returns the poller. The caller loops on
`done()`/`wait()` or registers a callback (the docstrings of `reports.py`). A
finished task names the new `Report`, which `report_files` lists and
`export_*` downloads. Each example script is one sequential thread over the
shared session, with no threads of its own. The concurrency in the models is
the server acting between the script's calls.

What makes each part correct:
- generate: a filter pair is sent exactly when the caller supplied both of
  its values (spec.md 4.1). The caller's own params survive. Every option
  the caller asked for reaches the request.
- poller: the PollResult is Pending until it becomes the server's outcome,
  and never changes after that. Each callback fires exactly once. `wait`
  stops at its timeout. A caller that keeps polling eventually sees the end.
- scripts: cleanup removes what the run created, and only that. Every exit
  passes through `logout`. A loop that waits for the server ends. A success
  status means the work was done. The log says what happened on the server.

## Modules

| Module | Models | Notes |
|---|---|---|
| `ClusterBringup` | `main()` of the cluster script, with the server as environment | `pc` follows the statements of `main()`; `idx` is the `for node in cluster.nodes` index; `status` and `rc` are the script's locals; `pending` carries a SystemExit through `finally`; `session`, `exists`, `node` and `ldap` are server state; `created` is a history variable (this run made the cluster) |
| `TaskResult` | abstract: what an async operation promises (spec.md 3, 4.2, 8) | outcome, PollResult, callback states |
| `TaskPoller` | the poller, from spec.md (its code is not in `src/`) | implements `TaskResult` via `INSTANCE ... WITH` |
| `ReportGenerate` | `ReportDesign.generate` request assembly | dicts are functions; `SetdefaultUpdate` is `kw.setdefault(k, {}).update(d)`; `held` is the params dict object the caller passed, as `generate` left it, and with `ReuseParams` the caller may pass it again (`Reused`) |
| `RouteMigration` | `main()` and `mask_convertor` of the route script | a line is `other` (no regex match), `badmask` (int() raises), or a route record |
| `GatewayProfileScript` | the module-level code of the gateway profile script, run as `__main__` or imported | `pc` follows its statements; `server`/`exists` are the profile on the server, `local` is `gateway_profile.capabilities`; `Init` starts it at `login` (run as `__main__`) or at `check` (imported, on the process-wide session, logged in by the importer or not); the capability dict is cut to the toggled `aes128_for_ike`, one other boolean, the skipped `external_for_ipsec` and the int hash length (a model value: only its type and truth are used) |
| `ReportWorkflow` | the docstring workflow of `reports.py`, composing the poller | `Poller == INSTANCE TaskPoller WITH Callbacks <- {ExportCb}` shares the poller variables; `PollerCall(A)` runs a poller action and the callback body `ExportMyReport` in one step; `Generate` resets the poller (a new `TaskOperationPoller`); the server's `ServerStep` and `OperationRuns` add report files, numbered in order; `genReport` records the report each generation produced |
| `MC_*` | model-checking instances | constants for TLC |

Each script action keeps the whole statement it models: its guard is where
`main()` is plus the server condition that makes the call succeed. Each
failure outcome is a disjunct of its own. In `ClusterBringup`, the transient
failures of remote calls form one action, `RemoteCallFails`, which has no
fairness: a failure may happen but is never forced.

## Runs

| Run | Expect | What it shows |
|---|---|---|
| `cluster_safety` | pass | With transient failures in every call of the try block, the script enables LDAP only on all-READY nodes. A cluster it created is gone when `main()` ends. `main()` always ends when nodes do become READY. |
| `cluster_faults` | pass | With every call failing, nodes failing or leaving READY: `main()` never *returns* a status while the cluster is still on the server. Cleanup failures always surface as exceptions. The process exits 0 (`ExitStatus`, the `sys.exit(main())` entry point) only for a run that created the cluster and enabled LDAP on it. |
| `cluster_foreign_delete` | violation | A pre-existing "mycluster" makes create fail. The finally clause then deletes that foreign cluster. |
| `cluster_logout` | violation | When create fails before the server commits, `delete()` in `finally` raises and `session.logout()` never runs. |
| `cluster_stuck_node` | violation | A node that never reaches READY keeps `main()` in the wait loop forever. |
| `poller` | pass | Under the looping caller: the poller refines `TaskResult`, fires each callback exactly once in every order of register, poll, wait and server progress, keeps `wait` within its timeout, and resolves with every pending callback fired. |
| `generate_safety` | pass | Over None and ordinary times, both filter styles, senders and caller params (a fresh dict or one passed to an earlier call), the request holds exactly the supplied filters over the params dict as passed. The caller's own entries and the senders reach the request. |
| `generate_elasticsearch` | violation | `use_elasticsearch=True` is silently dropped unless the new filter is also given. |
| `generate_params_reuse` | violation | `setdefault(...).update(...)` changes the caller's params dict in place. After `generate(launch_time=1000, overriding_duration=3600, params=p)`, a later `generate(params=p)` without filters still sends that filter (spec.md 4.1: only supplied pairs; spec.md 3: nothing mutated in place). |
| `gateway_safety` | pass | With any call of the try block failing, a leftover profile and a server that may store a capability other than sent, the test profile is always removed and the int capability keeps its type. This holds whether the module is run as `__main__` or imported, with or without a session already open. |
| `reports_workflow` | pass | Over two generations and one report operation of a design, under the looping caller, a generation whose task succeeded with the callback registered eventually has the report that task produced exported by `export_my_report`. The callback reads `task.resource`, which is not in `src/`; it is modelled from spec.md as the link to the generation's report, so the run shows that the callback is fired and acts on the current result, not which report the server links. The export, listing and operation state is modelled so that those actions interleave with the poller; no property reads it. |
| `routes_safety` | pass | `mask_convertor` yields the prefix of each of the 33 contiguous masks. Process exit status 0 means every line was handled. The log agrees with the routes on the engine. |

Bounds. The cluster has the script's three nodes. Every server-side state
of a node and every failure point is reachable. The poller has two
callbacks (one registered before completion, one after) and a timeout of
two intervals (a wait can both time out and see the end). The generate
inputs contain None and two ordinary values for each argument (adding 0
to `MCTimes` makes `RequestMatchesReference` fail: a 0 value drops its
pair, which the runs leave out as an unrealistic report period). A caller makes any number of calls and may pass its params dict again, so the second call over a dict the first one changed is reached; the aliasing needs two calls and nothing more. The route files are every sequence of up to three lines drawn
from the docstring's example routes, a non-matching line and a line with
an unparsable mask. The gateway profile starts with or without a leftover
profile holding any of the capability combinations. The report workflow makes two generations (one may fail) and one operation, so the listing holds reports that are not the callback's. These bounds reach every branch of every action. The
behaviours the properties are about take at most three lines, three nodes
or two callbacks, or two generate calls.

Fairness. In `ClusterBringup` the script's thread always runs its next
statement (`WF` on the normal steps). The server is assumed to bring each
contacted node to READY (`WF` on `NodeReady`) unless `StuckNodes` allows it to
fail the node. In `TaskPoller`, `LiveSpec` is the caller from the
`reports.py` docstring, who keeps calling `wait`. Strong fairness is assumed
for a successful status request: a request retried again and again does not
fail forever. The server is assumed to finish the task. `ReportWorkflow` uses the same
caller and server assumptions as `TaskPoller`. The other runs check
safety only.

## Not modelled (yet), and why

- `smc.session`, `smc.base` and `smc.administration.tasks` are not in `src/`.
  The poller is modelled from spec.md. The session is represented by a
  logged-in flag and by call outcomes.
- The route-file regular expression and the string formatting are out of
  scope. A line is abstracted to its kind and its fields. The behaviour of
  `mask_convertor` on a route without `/mask` is also left out.
- Report timestamps (`datetime_from_ms`) are pure conversions with no state.
- The gateway script's asserts after `update()` read the local capability
  dict. `GatewayProfileScript` has the case (`ServerNormalises`, and
  `Update`'s choice of the dict read back), and TLC finds
  `ValidatedMeansServerUpdated` violated there. No run keeps that
  counterexample: it rests on what the server stores and on whether
  `smc.base` re-reads the profile, and neither is in the sources.
- The exit status 1 of a run whose second `ldap_replication(True)` raised
  "already enabled", as the comment at line 91 expects, is modelled.
  Neither the code nor spec.md says which status such a run should have,
  so no property states one.
- Whether an export leaves a partial file is decided in `smc.base`, so it is
  not modelled. The same holds for what reads a design's type tag.
- A node that leaves READY after its check (layer3 script, line 84) is in
  `ClusterBringup` (`NodesMayRegress`). No run keeps that counterexample:
  it rests on an assumption about the server, not on the code.

## Plan

1. (done) `ClusterBringup`: the script with the richest control flow and
   real server interleaving.
2. (done) `TaskResult` + `TaskPoller`, with a refinement check. These are the
   core contract of spec.md.
3. (done) `ReportGenerate` and `RouteMigration` (with `mask_convertor`
   checked against the prefix reference).
4. (done) `ReportWorkflow`: `create_design`, `generate` with the docstring
   callback on an instanced `TaskPoller`, `report_files`, the exports and
   `ReportOperation`. Property: the callback's export eventually happens.
5. (done) `GatewayProfileScript`: the try block at import without a
   login, the finally delete of a profile that was never created (the same
   logout defect as the cluster script; no second run), and asserts over the
   local capability dict against the server's copy.
6. (dropped) A two-caller variant of `TaskPoller`. spec.md 5 declares
   concurrent use of one handle unsupported, and the poller's code is not in
   `src/`, so a model of it would only restate that declaration. Distinct
   handles share no state in the code the sources show, so two of them
   would be two independent copies of `TaskPoller`.
