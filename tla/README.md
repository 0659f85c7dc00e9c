# Petragentic: TLA+ models and proofs

Petragentic is four Python services in front of IBM's cloud: a gateway, two
agents (integration design, security compliance) and Orchestrate, a chat agent
that drives the two by way of a ReAct loop. They share clients for Presto
(watsonx.data), COS, watsonx.ai and watsonx.governance. This directory holds
TLA+ modules of their control flow, TLC configurations that check them on small
instances, and proofs that TLAPS checks for every value of the constants.

`PROJECT.json` is the index: components, runs, mutants (a plausible bug for
every property, which makes the property fail), the map from definitions to
source lines, findings, hazards and theorems.

    tlc -workers 2 -config MCGateway.cfg MCGateway      # check a run
    tlapm GatewayProofs.tla                             # check the proofs

## 1. The system

| Component | State | Operations | Talks to |
|---|---|---|---|
| Gateway, `auth.py` | JWKS cache (keys, time stamp) per process, without a lock | verify a token, refresh the cache | App ID |
| Gateway, `proxy.py` | one httpx client with a pool of 100 connections | forward a request, 502 / 504 | the three services |
| Gateway, `main.py`, routes | rate limiter (never applied) | route, scope check, correlation id | |
| Orchestrate, `react_engine.py`, `memory.py` | `MemoryStore._sessions` per process: the last 20 turns of each session | chat, delete or inspect a session | Granite, tools |
| Orchestrate, `tools.py` | none | four tools, each one HTTP call | Agents 1 and 2 |
| Agent 1, `routes/design.py`, `design_generator.py`, `recommender.py` | none of their own | rank tools, generate, check, upload, answer; in the background store and count | Presto, governance registry, Granite, COS |
| Agent 1, `catalogue_store.py` | table `integration_catalogue` | insert, increment, statistics | Presto |
| Agent 2, `routes/validate.py`, collector, comparator | none of their own | load Gold Image, audit servers, upload reports, answer | Presto, WinRM, Granite, COS |
| Agent 2, `audit_store.py` | tables `audit_scans`, `drift_findings` | in the background: look up titles, insert rows | Presto |
| Agent 2, `routes/report.py` | none | read a report | COS |
| `shared/wxdata_client.py` | none | run a statement: POST, then poll up to 120 times | Presto |
| `infra/seeds/run_seeds.py` | none | run the seed statements in order | Presto |
| Agents' `main.py`: lifespan, `/health`, `/ready` | ready flag and reason per process | probe once at the start, answer probes | Presto, Granite |
| Deployment: pods, uvicorn workers, probes | pods that are restarted or taken out of service | liveness and readiness probes | all services |
| `.github/workflows/scheduled-audit.yml` | none | post a scan, poll for its report | gateway |

What is hard here:

* **Interleaving.** Gateway, agents and Orchestrate each run two uvicorn workers
  per pod. `async` handlers with blocking calls hold the event loop of their
  worker; Orchestrate releases it only while a tool's HTTP call runs. FastAPI
  runs synchronous dependencies (the token check) and synchronous background
  tasks (the stores) in threads. Two scans, two designs or two chats of a
  session therefore overlap, and all shared data is either in one process
  without a lock or in tables without transactions.
* **Failure.** Every call to another system may fail, also after it had its
  effect. Stores swallow errors; handlers let them out.
* **Late effects.** A Presto statement whose caller gave up goes on. A handler
  whose client got a 504 goes on. Background tasks die with their process.
* **Held loops.** A scan may hold the event loop of its process for minutes; a pod
  all of whose processes are held answers no probe, and is taken out of service
  or restarted under its work.
* **Limits.** 20 turns, 8 iterations, 120 polls, 500 rows of history, 300 s of
  key cache, 100 connections.

What makes each component correct: a prompt contains the message it is for and
the answer belongs to the question (Orchestrate); reports, audit history and
recurring marks agree although they are written apart (Agent 2); a rejected
tool is not recommended, and catalogue, artefacts and counters agree (Agent 1);
a statement that returns took effect and gave all its rows, and always returns
or raises (Presto client); a request runs at most once, at a pod that reached
its database, and a pod gets into service (agents' pods); tokens are judged by
recent keys and a refusal has no effect (gateway).

## 2. Modules

| Module | Models | Composed with |
|---|---|---|
| `ReActEngine` | `run_turn`, `MemoryStore`, chat and delete routes | |
| `Deviations` | abstract: which resources an audit names, given what it could read | |
| `ServerAudit` | `_audit_one_server`: `collect_server_state`, `compare_snapshot`, `classify_diffs`, `generate_all_remediations` | is checked against `Deviations` |
| `ComplianceScan` | `POST /validate`, `store_scan_result`; an audit is one step | names what `Deviations` says; calls Presto as `StatementCall` allows |
| `DesignService` | `POST /design`, `get_ranked_tools`, `generate_design`, `store_design`, `increment_usage_count` | calls Presto as `StatementCall` allows |
| `StatementCall` | abstract: what a call to `execute_query` promises | |
| `PrestoQuery` | `execute_query` and the seed runner against Presto's REST protocol | implements `StatementCall` |
| `HandlerCall` | abstract: what the sender of a request to an agent may rely on | |
| `AgentPods` | lifespan, `/health`, `/ready` of both agents; processes, probes and restarts; the requests of the gateway and of Orchestrate's tools | implements `HandlerCall` |
| `Gateway` | `_get_jwks`, `_decode_token`, `proxy_request` | |
| `MC...` | constants and symmetry sets of the runs | |
| `ReActEngineProofs`, `ComplianceScanProofs`, `ServerAuditProofs`, `DesignServiceProofs`, `PrestoQueryProofs`, `AgentPodsProofs`, `GatewayProofs` | theorems about the module of that name | |
| `PositionLemmas` | lemmas about positions in a sequence, sums over finite sets, induction | used by three of them |

An operator named `X_Something` is a mutant of the operator `X`: a plausible bug
at that place. No specification uses it.

### ReActEngine

A turn is `[role, req, step]`: who wrote it, for which chat, in which iteration.
`mem[<<worker, session>>]` is the window. `loop[w]` is the chat that holds the
event loop of a worker: Granite is called synchronously, so from its resumption
a chat runs alone until it awaits a tool, returns or raises. `Chat` is the
handler up to the first prompt; `Conclude`, `CallTool`, `CallUnknownTool` and
`GraniteRaises` are the outcomes of a Granite call; `ToolReturns` resumes a
chat. A session has one user, who sends a message when no earlier one is
pending as far as that user can tell: `GiveUp` is a client timeout, after which
the handler goes on and the next chat overlaps with it. `ClearSession` and
`Crash` may come at any time the code allows.

`foreign`, `wiped`, `erased` and `lastAnswer` are history variables that no
guard reads.

### ComplianceScan

One `stage` per scan walks through the handler and then its background tasks.
`results` are the server results, `cos` the stored reports, `scanRows` and
`rows` the two tables, `late` the INSERTs that raised and that Presto may still
carry out. An audit of a server is one step: `Reported` (of `Deviations`) is
collection and comparison together, what is named as deviating if only the
resources in `read` were listed. `Listed` holds no folders and no groups, because the
code never really collects them (finding 2). Every call may fail (`Spoil`),
with or without effect; `Crash` ends a scan or its tasks.

A collection fails in two ways. A command that exits with another status than 0
is an error of the audit, and the server is PARTIAL. A cmdlet that fails inside a
script (`Get-SmbShare`, `Get-SmbShareAccess`, `Get-WmiObject`; nothing sets
`$ErrorActionPreference`) only prints less: the script exits with 0, `_run_ps` is
content, and no error is recorded. `Audit` has both, the second with any part of
`Listed` unread or some shares (`bare`) listed without their rights. What
is overlooked in this way without a recorded error is in the result's `missed`,
and `CompliantMeansClean` says that nothing else is. `unstored` are the rows whose own INSERT
raised, the only ones `HistoryIsComplete` lets a finished task miss.

### ServerAudit

What a server is like is a set of facts: permission on folder, right on share,
member of group, account of service. `Collect` and `CollectFails` run the five
commands, between which `Change` may put the server in another state; a command
that fails may leave a part of its output in the snapshot, and one whose cmdlets
fail lists less without any error: whole resources are skipped, or shares are
collected with an empty list of rights (`bare`). `DiffsOf` is the
comparator for one resource, `Severity` the rules of `drift_detector.py` on the
words a value mentions, `Remediate` and `RemediationFails` the loop over the
findings. `argsFirst` says whether the folder and group scripts get their
arguments before they use them: `ArgsFirst = {FALSE}` is the code, and TRUE shows
the comparator for folders and groups once the scripts are repaired.

`NamesWhatIsReported` is the link to `ComplianceScan`: the resources named in the
findings are `Reported`, where each kind of resource was read at a moment of its
own, and a bare share is noticed only if it is not approved. If the server
changes between two commands, there need not be one moment
for all kinds: the snapshot is not, as `BaselineSnapshot` calls it, a
point-in-time one.

A detail the model shows and no run pursues: the rules search the printed list of
all rights of an unapproved share, so that `Everyone:Read` beside
`Admins:Full` makes it critical, where the module's comment says high.

### DesignService

The ranking asks the registry for one tool per step, Granite chooses any tool,
the second lookup refuses it only if it is rejected. `late` holds catalogue
writes as above. `Rule` changes the registry at any time. `uncertain` are the
designs whose second lookup failed, which let a rejected tool through as
"Unknown". `UsageAddsUp` sums the `usage` column of a tool's rows and compares the
sum with the number of the rows and of the increments that met a row (`counted`),
whosever row it was: the readers of the table see sums per tool. A design itself
has its row and its increment unless one of its writes failed (`untracked`).

### PrestoQuery and StatementCall

The server side (`Run`, `ComputePage`, `Finish`, `Fail`) is external: a
statement is queued, computes its pages and finishes or fails, at any speed.
`Reply` is its answer to a GET. `QueryOutcome` and `SeedOutcome` are what the two
clients do with an answer. `SeedsArriveInOrder` is about the
runner's order: as long as polls do not run out, no seed is sent while Presto still
works on an earlier one, and OK means applied. `KeepsContract` is the refinement: `returned` maps to
`returned`, a client between POST and end to `running`, and only statements of
`execute_query` are mapped, since the seed runner does not keep the contract.

`ComplianceScan` and `DesignService` call Presto in one step that succeeds,
fails without effect, or fails with an effect now or later. That is what
`StatementCall` allows a call that is not interrupted.

### AgentPods and HandlerCall

The two agents start alike: `ProbeWatsonx` and `ProbeWxdata` are the two probes of
the lifespan, each made once; the second alone sets `_ready["status"]`, but a
failure of the first stays visible in `_ready["reason"]` unless the second
succeeds. `ready` and `reason` are per process, since each uvicorn worker imports
the module for itself, while OpenShift's probe goes to the pod and is answered by
any of its processes. A handler holds the event loop (`job`) of its process from
`Accept` to `Finish`, because everything it calls is synchronous; while it does,
the process answers no probe.

External are the kubelet and the service: `HealthMissed` counts up to
`FailureThreshold` and restarts the pod, `ReadyMissed` takes it out of the
endpoints, `ReadyAnswered` puts it back. Senders keep connections alive, so `Send`
may reach a pod that is "out", not one that was never "in" since it was started.
`GiveUp` is the read timeout of the gateway or a tool: the handler goes on, or
begins only afterwards. `Restart` kills what runs, and nothing repeats it.

A start may outlast the liveness probes (`SlowStart`): the kubelet kills a pod
after about a minute, while the lifespan calls watsonx.ai without a timeout and
then polls Presto up to 120 times before it serves. Nothing in the model bounds
how often that happens: a pod may be restarted for ever, and `InServiceInTheEnd`
says under which premises it is not.

`KeepsCallContract` is the refinement of `HandlerCall`: `fate` maps to `handler`, a
queued or lost request to one whose handler did nothing. It is what the other
modules take for granted where a request is one process that walks through its
stages at most once.

### Gateway

Each statement of `_get_jwks` is a step, because its threads share the cache
without a lock. Key sets are numbered in the order of publication; 0 is the
empty list taken from an answer without `keys`. Time is a clock that advances
while no thread has been inside `_get_jwks` for longer than `Slack` (the 10 s
timeout of the fetch plus scheduling). A connection is held from `Connect` to
the end of the exchange; the service's handler ends on its own
(`UpstreamEnds`). Requests without a bearer token (403 by FastAPI) and the 503
of an uninitialised client are left out.

## 3. Runs

| Run | Shows | Bounds |
|---|---|---|
| `react_patient` | with patient users: prompts are complete, answers are the chat's own, an observation follows its action, the next chat shows the last answer, erased turns stay erased | 1 worker, 2 sessions, 3 chats, window 5, 3 iterations, 1 deletion, 1 restart |
| `react_overlap` | overlap after a client timeout: prompts and answers as far as the spare room of the window allows; every chat ends | 1 session, 3 chats, window 6, 2 iterations, 1 timeout, 1 deletion |
| `react_two_workers` | finding 1 | 2 workers, 1 session |
| `compliance_scan` | reports, history, recurring marks and status agree | 2 scans, 2 servers, 3 resources of different kinds, 3 Gold Images, history of 2 rows, 1 change, 1 failure (of a call or a cmdlet) or crash |
| `server_audit` | an audit names what `ComplianceScan` takes it to name, finds what persists, invents nothing, rates open shares as critical | 6 resources, 8 values, 5 states of the server, 2 Gold Images, scripts as they are and repaired, 2 changes, 1 failure (of a command, a cmdlet or a script) |
| `audit_groups`, `scan_serialiser`, `scan_recurring` | findings 2, 3, 4 | as small as shows them |
| `presto` | complete rows, seeds in their order, the contract, every call ends | 1 query of 2 pages, 2 seed statements, 4 polls |
| `design` | rejected tools, ranking, catalogue, counters | 2 designs, 2 tools, threshold 1, 1 ruling, 1 failure, 1 crash |
| `gateway` | recent keys in spite of the race, refusals without effect | 3 requests, TTL 1, slack 1, pool of 1, 1 rotation, clock to 5 |
| `pods` | work stays behind readiness, stuck pods stay stuck, the contract of a request, a pod gets into service if calls of watsonx.ai end and starts become fast enough | 1 pod of 2 processes, 2 requests, threshold 2, 1 outage, 1 crash, any number of slow starts |

Why these bounds are enough to show the interesting cases:

* *React.* A full-length chat stores `2 * MaxIter` turns and reads the window for
  the last time with `2 * MaxIter - 1`. In `react_patient` these are the five of
  the window: any turn left over from an earlier chat is trimmed before the
  chat ends, so every boundary of the sliding window is met; with a smaller
  window `PromptHasUserMessage` would fail without any overlap. In
  `react_overlap` three turns of other chats fit beside a full-length one and a
  fourth is too much; and, as with the default limits (20 and 8, which leave
  room for five), the answer of an earlier chat may still be in the window when
  a full-length chat ends without a Final Answer.
* *Scans.* Two scans are enough for one to precede or overlap the other, the
  list that names a server twice gives two tasks with one scan id, and a Gold
  Image with a folder always gives findings, so that INSERTs of two scans
  interleave. With a history of two rows a lookup may or may not reach what an
  earlier scan stored. One failure at any place shows what survives it. A change between
  two scans makes findings differ. Three scans appear in `scan_recurring`.
* *Audits.* The five states of the server differ in every kind of resource, so two
  changes may fall between any commands and undo each other; an approved hidden
  share, a service of the local system and an unapproved share are among them.
* *Presto.* A query of two pages can be through after two of the four polls, so
  calls end before, at and after the limit; the second seed statement needs the
  first.
* *Design.* Two tools give an order to change; the ruling comes before, between
  and after the two lookups.
* *Gateway.* One thread fetches before the rotation and stores its older keys
  between another one's store and stamp; a third uses what is left. With
  `TTL + Slack` instead of `TTL + 2 * Slack` TLC finds this race.
* *Pods.* Two processes are enough for one to be ready and the other not, and for
  both to be held; with a threshold of two a missed probe may be made up for. The
  two requests are served, queued at a held pod, given up and killed by a
  restart.

History sizes and fault budgets are `CONSTANTS` (`MaxFaults`, `MaxDrifts`,
`MaxChanges`, `MaxCrashes`, `MaxClears`, `MaxGiveUps`, `MaxRulings`, `MaxTime`,
`MaxRotations`, `MaxOutages`) and the only caps in the guards.
Symmetry is used over chats, scans, designs and requests, only in runs without liveness. Each module has a
step for the state in which everything has ended, except `AgentPods`, whose pods
are probed for ever, so deadlock is checked everywhere.

### Fairness

* `ReActEngine!Fairness`: weak fairness of the Granite call of a chat that holds
  the loop (a premise about watsonx.ai and its client: `generate_text` sets no
  timeout of its own), and strong fairness of resuming a chat
  whose tool call ended (httpx has a timeout on each phase, and asyncio's ready
  queue is first-in first-out, so a chat that finds the loop free again and
  again is not passed over). Nothing is assumed of users, deletions and
  restarts.
* `PrestoQuery!Fairness`: a client takes its next step (requests has a timeout,
  `time.sleep` ends). Nothing is assumed of Presto: `EveryCallEnds` holds even if
  a statement is never run.
* `AgentPods!Fairness`: the second probe of the lifespan ends (polls are counted
  and its HTTP calls have timeouts), and OpenShift goes on asking `/ready` and
  sometimes meets a process that can answer. That is all the code and the
  deployment give. `InServiceInTheEnd` therefore has three premises, each of which
  it needs (TLC finds a counterexample without it): calls of watsonx.ai end
  (`WatsonxReturns`); from some time on no start outlasts the liveness probes and
  nothing else kills the pod (`StartsInTime`); and watsonx.data is in reach all the
  time. If a call of watsonx.ai hangs during the lifespan, the first two fail
  together: the probes restart the pod, the next start hangs again. Without the
  third a pod may be stuck, which is what `StuckForGood` says.

`ComplianceScan`, `ServerAudit`, `DesignService` and `Gateway` have no loops that could go on
for ever; only safety is stated of them.

## 4. Findings

1. Conversations are kept per process, but two workers serve each pod
   (`react_two_workers`). What would repair it is proved: with a router that sends
   all calls of a session to one worker, conversations continue
   (`StickySessionsContinue`) and deletions are final (`StickyErasureIsFinal`).
2. Local groups and folders are never collected, because the scripts assign
   `$Groups` and `$Paths` after the loops that use them (`audit_groups`). With the
   assignments moved before the loops, no unapproved member goes unnamed
   (`RepairedGroupsAreAudited`).
3. `model_dump_json(mode="json")` is no call of pydantic 2: no scan can be
   answered (`scan_serialiser`). The other scan runs set `JsonModeAccepted` to
   TRUE, to say what holds once that line is repaired.
4. Recurring findings are compared with all scans, not the last (`scan_recurring`).

Seen while modelling, but not made a run, because one look at the lines settles
them or because they are about data the models leave out:

* The seed runner takes a statement for done when its 120 polls run out
  (`run_seeds.py:71`), so that it may print OK for all and exit with 0 although a
  table does not exist, and the next statement is sent beside it.
  `SeedsArriveInOrder` holds up to that limit.
* `winrm_collector.py:21` says that errors of collections are recorded, but the
  share and service scripts (lines 94-108, 131-147) exit with 0 when their cmdlets
  fail with a non-terminating error, and `_run_ps` (150-156) looks at the status
  only. A server with an unapproved share may so be called COMPLIANT without any
  error in its report. `CompliantMeansClean` has to exempt what is `missed`.
* A pod whose watsonx.ai call hangs at the start is killed by its liveness probes
  (`deployment.yaml:44-50`, about a minute) and started again, for ever, since the
  probes of the lifespan (`agent2/app/main.py:39-47`) precede its serving.
* `agent1/Dockerfile` and `agent2/Dockerfile` copy the package to `./app` and start
  `app.main:app`, while the code imports `agent1.app` and `agent2.app`. The models
  start from a process that runs.
* Deleting a session does not stop a chat that awaits a tool: it goes on in a new
  window, which `ErasedStaysErased` leaves out.
* The response of a design says Approved whatever the lookup gave
  (`agent1/app/routes/design.py:104`; the comment at line 47 promises more).
* A pod is ready without watsonx.ai, while `agent1/app/main.py:8`,
  `docs/runbook.md:77` and `docs/api-reference.md:234` say that both services are
  needed. Readiness is never probed again, while
  `petragentic-architecture-plan.md:2221` expects it to fail "until resolved", and
  the other two describe `/ready` as the present state of the dependencies. What
  happens instead is checked and proved: `StuckForGood`, that a pod started without
  watsonx.data never gets into service by itself, passes.
* The scheduled workflow posts to `/api/v1/compliance/validate`, which the gateway
  does not serve.
* The stored JSON report has empty COS URIs, since `agent2/app/routes/validate.py:194`
  sets them after the upload.
* The response model of the catalogue statistics wants `timestamp`, the rows have
  `created_at`: the route fails as soon as the catalogue has a row.

## 5. Proofs

All theorems hold for every value of the constants that satisfies the named
assumptions of the modules; the bounds of the runs are constants too and may be
arbitrarily large. Every module's `TypeCorrect` is `Spec => []TypeOK`; where types
alone are not inductive, a small invariant (`Fresh`) says that what has not
begun has left no trace.

**ReActEngineProofs.** Why a user message is still in the window is a matter of
places: as long as its session was not deleted, the user turn of a running chat
is exactly `Age = 2 * iter + foreign` turns (one more while it awaits a tool) behind
the newest one, or trimmed if the window is shorter than that; the action of an
undisturbed chat that awaits its tool is the newest turn; and after a deletion
the window of an undisturbed chat holds its own turns only. From that invariant
(`ChatInv`) follow `PromptsAreComplete` and `AnswersAreOwn`, for windows of more than
one turn: with one, the observation pushes out the action. Lemmas about
`AddTurn` (one step deeper for every turn added) carry the steps.
`ObservationsFollow` assumes patient users, on any number of workers: then a
session has one chat at a time (`Alone`), and the window of a chat that awaits its
tool ends with its action or was deleted (`Orderly`).

Finding 1 is why the other two properties are false of `Spec` with two workers.
`Sticky(home)` is the specification with a router that sends every chat and every
deletion of a session to `home` of the session, a worker of the router's choice;
the steps of chats, clients and restarts are unchanged (`StickyStep`). Of it they
are proved, for any number of workers: `StickyErasureIsFinal`, since every turn is
in the window of its chat at the session's home (`Homed`, `Filed`) and an erased
chat writes no more; and, for patient users and at least three turns,
`StickySessionsContinue`, since the last answer is among the two newest turns at
home while the session is idle, and one deeper when the first prompt is built
(`Shown`). `Spec` with a single worker is sticky anyway (`OneWorkerIsHome`), which
gives `ErasedIsGone` and `ConversationsContinue`.

Liveness of chats is out of reach, but what it rests on is not. `ChatsCanMove`: a
loop is held by a chat that thinks, and a chat that thinks holds its loop
(`LoopInv`), so an active chat always has somebody to move it, itself or the
holder of its loop. `ChatsTerminate`: `Left`, the steps a chat has left, goes down
with each step of the chat and up with nobody's. What remains of `EveryChatEnds` is
the scheduling, which is its fairness assumption.

**ComplianceScanProofs.** `StepKinds` says once what a step can do to the tables
and reports of a scan (nothing, another result, an answer, a lookup, a row, a
late write); each invariant is then kept by these six kinds. `TracesAreReadable`
needs that a scan past its upload has both reports (`Backed`);
`HistoryIsTruthful` that every row a task may still write, or that Presto may
still carry out, is a row of the report (`Agreement`); `RecurringIsPreceded` that
titles are marked, and late rows called recurring, only with a row of another
scan (`Precedents`);
`KnownStaysKnown` that a row which is `InReach`, with no more than `HistoryLimit` rows
of other scans from it on (`Since`, which only grows), is among the titles of every
later lookup (`Known`) and of every row written with them (`NotNew`), with a lemma
about the newest rows of a sequence;
`HistoryHoldsAll` that the results before the current one are on record, and of the
current one what is not left to its task, which a crash does not undo (`Stage`,
`Progress`): a row is on record if it is in its table or its own INSERT raised.
`ErrorsHaveACause` assumes `JsonModeAccepted`, see finding 3. `CompliantIsClean` goes
back to `Deviations`, for any set of resources a command or a cmdlet did not list:
a clean result with no error names everything of `truth` that is not `missed`.

**ServerAuditProofs.** The snapshot is torn, but not within a kind: there is a
moment for each kind of resource such that the snapshot says of a resource what
the server was like at its kind's moment, when the shares listed without rights
were there too (`Torn`); and the findings are the
differences of all resources (`FoundAll`). From these two, `NamesAreReported` is a
comparison of the differences by kind with `Reported` (`DifferentIsReported`), which makes
`ComplianceScan`'s one-step audit an abstraction of this one; `ExcessIsFound`,
`FindingsAreReal` and `OpenIsCritical` use the same moment. For
`RepairedGroupsAreAudited`, which is about the repaired scripts only, a group is
`read` once its command was carried out without a failure (`GroupsAreRead`).

**DesignServiceProofs.** `PromptIsRanked`: the insertion of a tool keeps the list
sorted by count and original place (`Ranked`, with the lemma `InsertBehind`).
`CatalogueIsBacked`: a row is written once its design was uploaded and answered,
and a late INSERT is the only one of its design (`Rows`). `RejectedStaysOut`: a
pending request has seen every tool the registry does not reject now, and a
checked tool is one of those unless its lookup failed (`Permitted`). `CountersAddUp`:
the increment of a design is counted once, at once or late, after its background
task asked for it; a design none of whose writes failed has its row before, so
that its increment meets one (`Tally`, which TLC passed on the `design` run's
instance first). Each write then adds as much to the table as to the rows and
counts (`Sums`): 1 with a new row, 1 to the newest row of the tool, or nothing
where there is none.
The sums are over sets, taken one element at a time, and that any order gives
the same sum is proved in `PositionLemmas` by induction on the size of the set:
the induction is over a set of numbers without a least counterexample
(`InductionOnNat`), for the library's theorems with an operator parameter are not
usable; `SumExists` builds the graph of the sum, `SumAdds`, `SumRemoves` and
`SumChanges` are what the proofs cite.

**PrestoQueryProofs.** The invariant relates the client's rows to the server's
counters: the rows of a query are the pages `1, ..., fetched`, a statement is
FINISHED exactly when it is applied, a client that returned before its polls
ran out returned from a FINISHED statement, and a seed that was given up without
ending the runner will never be applied (`Served`). With `InTurn`, that the runner
has dealt with what it sent before, `SeedsStayInOrder` follows. `RowsStayComplete` needs that an
answer without `nextUri` is FAILED or hands out the last page. For the
refinement `ImplementsContract`, each step is shown to be a step of
`StatementCall` or a stutter: `Finish` maps to `Apply`, the last `Poll` to
`ReturnRows` or `RaiseError`. `ReturnedMeansApplied` is then proved of the contract
alone and carried over: a call that returned had its effect.

**AgentPodsProofs.** The invariant: a pod that ever took connections since it was
started has a process that is ready, and only such pods have work (`Gated`); a
process holds its loop for one running request of its pod and no two hold it for
the same (`Working`); a request nobody sent is unknown (`Unsent`). `StuckStaysStuck`
is an action property: a stuck pod has no work, so it misses no `/health`, so only
a crash starts it again. `OnlyWorkTakesPodsOut` is about the behaviours in which
watsonx.data stays in reach, whatever becomes of watsonx.ai: then every process
that serves is ready (`ServingIsReady`), and a pod in service is never one that is
still starting, so only a held loop makes it miss a probe: a safety fact behind
`InServiceInTheEnd`, not a proof of it. For `ImplementsContract`, a restart is
`Kill`, and `Accept` is `Start`; `AnsweredMeansDone` and `HandlersRunOnce` are proved of the contract and
carried over.

**GatewayProofs.** The invariant dates everything: what a thread holds was current
when the thread started or later, a thread inside `_get_jwks` started at most
`Slack` ago, and the cached keys were current at `fetchedAt - Slack` or later. The
latter is where the second `Slack` comes from, because the key set and the time
stamp may be of different threads. `RefusalsHaveNoEffect` has a small invariant of
its own: a request reaches a service only from the pool and is answered last.

**Model-checked only.** Liveness (`EveryChatEnds`, `EveryCallEnds`,
`InServiceInTheEnd`), since fairness and ENABLED are out of the prover's reach;
`PrestoQuery!EveryCallEnds` rests on the count of the polls, which `TypeCorrect`
bounds, and for the other two safety facts they rest on are proved, see above. The
properties that findings refute are false of the code, and proved, where a
repair is at hand, of the repaired system.

## 6. Not modelled

* Prompt texts and the parsing of Granite's output, report layout, control
  mappings, logging, correlation ids, headers, configuration, Terraform and
  OpenShift manifests beyond the probes.
* Reads without effect (statistics, reports, session info) appear only through
  properties about what they would find.
* The scheduled workflow: its first request meets no route (see section 4), so what
  it would do afterwards does not happen.
* The gateway's rate limiter: it is created and applied to no route.
* That Presto converts the quoted values of `insert_row` to the columns' types is
  taken for granted; if it does not, every INSERT is one that fails.
* The counts in the summary of a scan, and the order of its findings.
* The death of one uvicorn worker in `AgentPods`: `Crash` and `Restart` end all
  processes of a pod. Where uvicorn's parent replaces a dead worker, the pod
  mixes an old process with a new one; processes that started apart and answer
  `/ready` differently are modelled, but not work that is killed beside a process
  that goes on.

## 7. Plan

1. `Platform`: a tool call of `ReActEngine` over `AgentPods`, with the gateway's
   timeout above it and the retries of users: which of the three timeouts ends a
   chat, and what an abandoned scan still does to the history.
2. Rolling updates and scaling in `AgentPods`: connections that are drained while a
   handler runs, background tasks that die with their process.
3. Proofs for what these two add, along the lines of section 5.
