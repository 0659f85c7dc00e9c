--------------------------- MODULE ComplianceScan ---------------------------
(***************************************************************************)
(* Agent 2: POST /validate and what it leaves behind.                      *)
(*                                                                         *)
(* The handler of a scan loads the baseline, audits the servers one after  *)
(* the other, uploads the JSON and then the HTML report and answers; after *)
(* the answer its background tasks write one server after the other to the *)
(* audit history.  Handlers run in several worker processes and background *)
(* tasks in threads, so the steps of different scans interleave freely.    *)
(* Every call to watsonx.data or COS may raise, with or without having     *)
(* taken effect; an INSERT that timed out may even take effect later (see  *)
(* StatementCall).  A client that stops waiting, because the gateway timed *)
(* out for instance, changes nothing here; a retry is another scan.        *)
(*                                                                         *)
(* A resource is one folder, share, local group or service of a server; it *)
(* stands for the finding title its deviation is given, and the findings   *)
(* of a server are the set of their titles.  To deviate means what the     *)
(* comparator looks for: a missing approved folder, share or service, an   *)
(* unapproved share, one permission, right or member too many, another     *)
(* service account.  Hidden shares, shares with a right too few and the    *)
(* services of the local system account, which the collector filters out   *)
(* and the comparator reports as not found, are left out.                  *)
(***************************************************************************)
EXTENDS Deviations, Naturals, Sequences, FiniteSets

CONSTANTS
  Servers,
  Baselines,        \* possible Gold Images: sets of approved resources
  Scans,            \* scan ids
  ServerLists,      \* possible request.servers; may name a server twice
  HistoryLimit,     \* LIMIT 500 of the history query
  JsonModeAccepted, \* pydantic's model_dump_json takes a mode argument
  MaxDrifts,        \* bound: changes made on the servers
  MaxFaults         \* bound: failed calls to a server, watsonx.data or COS, and
                    \* scans killed by a restart

ASSUME ConstantsAssumption ==
  /\ Baselines \subseteq (SUBSET Resources) \ {{}}
  /\ ServerLists \subseteq Seq(Servers) \ {<<>>}
  /\ HistoryLimit \in Nat \ {0}
  /\ JsonModeAccepted \in BOOLEAN
  /\ MaxDrifts \in Nat /\ MaxFaults \in Nat

(* An operator named X_Something is a mutant of the X that follows it.      *)

VARIABLES
  baseline,  \* approved resources of the one server_class in use
  drifted,   \* resources of each server that deviate from the baseline
  drifts,    \* changes so far
  stage,     \* progress of each scan
  order,     \* request.servers of each scan
  results,   \* server_results of each scan
  cos,       \* reports in COS: <<scan, "json">>, <<scan, "html">>
  told,      \* what the client of each scan was told
  position,  \* background tasks of a scan that are finished
  marked,    \* findings of the current task marked is_new = False
  pending,   \* findings of the current task not written yet
  scanRows,  \* audit_scans: <<scan, position, server, status>>
  rows,      \* drift_findings of each server in the order they took effect
  late,      \* rows of failed INSERTs that Presto still works on
  faults,    \* failures so far
  spoilt,    \* history: scans with a failed call to watsonx.data or COS
  unstored,  \* history: INSERTs that raised
  older      \* history: scans completely stored when a scan was requested

vars == <<baseline, drifted, drifts, stage, order, results, cos, told, position,
          marked, pending, scanRows, rows, late, faults, spoilt, unstored, older>>

world == <<baseline, drifted, drifts>>
task == <<position, marked, pending>>
tables == <<scanRows, rows, late>>
history == <<faults, spoilt, unstored, older>>

Statuses == {"compliant", "non_compliant", "partial", "scan_failed"}

Init ==
  /\ baseline \in Baselines
  /\ drifted = [v \in Servers |-> {}]
  /\ drifts = 0
  /\ stage = [s \in Scans |-> "unsent"]
  /\ order = [s \in Scans |-> <<>>]
  /\ results = [s \in Scans |-> <<>>]
  /\ cos = {}
  /\ told = [s \in Scans |-> "nothing"]
  /\ position = [s \in Scans |-> 0]
  /\ marked = [s \in Scans |-> {}]
  /\ pending = [s \in Scans |-> {}]
  /\ scanRows = {}
  /\ rows = [v \in Servers |-> <<>>]
  /\ late = {}
  /\ faults = 0
  /\ spoilt = {}
  /\ unstored = {}
  /\ older = [s \in Scans |-> {}]

Running(s) == stage[s] \in {"baseline", "audit", "json", "html", "answer"}
Storing(s) == stage[s] \in {"lookup", "scanrow", "findings"}
Ended(s) == stage[s] \in {"done", "error", "crashed"}

Goto(s, st) == stage' = [stage EXCEPT ![s] = st]

Fault == faults < MaxFaults /\ faults' = faults + 1

\* A call the handler or a background task of the scan makes fails.
Spoil(s) == Fault /\ spoilt' = spoilt \union {s}

-----------------------------------------------------------------------------
(* Audit of one server *)

\* The resources the collector lists.  The folder and group scripts read $Paths
\* and $Groups before the lines appended to them assign these, so they list
\* nothing and succeed.
Listed == {x \in Resources : Kind[x] \in {"share", "service"}}

Status_IgnoresErrors(found, errors) ==
  IF found = {} THEN "compliant" ELSE "non_compliant"

\* _determine_compliance_status
Status(found, errors) ==
  IF errors THEN "partial" ELSE IF found = {} THEN "compliant" ELSE "non_compliant"

\* truth and missed are history: how the server deviated when it was audited,
\* and what the scripts left out although they succeeded.
Result(v, status, found, missed) ==
  [server |-> v, status |-> status, findings |-> found, truth |-> drifted[v],
   missed |-> missed]

-----------------------------------------------------------------------------
(* The handler *)

\* POST /validate is accepted.
Post(s, list) ==
  /\ stage[s] = "unsent"
  /\ Goto(s, "baseline")
  /\ order' = [order EXCEPT ![s] = list]
  /\ older' = [older EXCEPT ![s] = {q \in Scans : stage[q] = "done"}]
  /\ UNCHANGED <<results, cos, told, faults, spoilt, unstored, world, task, tables>>

\* An exception leaves the handler: an error response, no background tasks.
Raise(s) ==
  /\ Goto(s, "error")
  /\ told' = [told EXCEPT ![s] = "error"]

FetchBaseline(s) ==
  /\ stage[s] = "baseline"
  /\ Goto(s, "audit")
  /\ UNCHANGED <<order, results, cos, told, world, task, tables, history>>

\* The query fails, or no row is found for the server class.
NoBaseline(s) ==
  /\ stage[s] = "baseline"
  /\ Raise(s)
  /\ Spoil(s)
  /\ UNCHANGED <<order, results, cos, unstored, older, world, task, tables>>

AddResult_CountsTooLate(s, result) ==
  /\ stage[s] = "audit"
  /\ results' = [results EXCEPT ![s] = Append(@, result)]
  /\ Goto(s, IF Len(results[s]) = Len(order[s]) THEN "json" ELSE "audit")
  /\ UNCHANGED <<order, cos, told, spoilt, unstored, older, world, task, tables>>

\* The next server of the request gets its result; after the last one the
\* report is written.
AddResult(s, result) ==
  /\ stage[s] = "audit"
  /\ results' = [results EXCEPT ![s] = Append(@, result)]
  /\ Goto(s, IF Len(results[s]) + 1 = Len(order[s]) THEN "json" ELSE "audit")
  /\ UNCHANGED <<order, cos, told, spoilt, unstored, older, world, task, tables>>

NextServer(s) == order[s][Len(results[s]) + 1]

ApprovedShares == {x \in baseline : Kind[x] = "share"}

\* _audit_one_server, in one step: ServerAudit has its commands one by one.  A
\* failed command is recorded, and what it listed up to then is kept, nothing
\* if the server cannot be reached; the collection goes on.  But a script only
\* fails as a whole: if a cmdlet in it does, it prints the shorter list it has,
\* lists the bare shares without their rights, and no error is recorded.
Audit(s, errors, read, bare) ==
  /\ stage[s] = "audit"
  /\ bare \subseteq read
  /\ IF errors \/ read # Listed \/ bare # {} THEN Fault ELSE UNCHANGED faults
  /\ LET v == NextServer(s)
         found == Reported(baseline, drifted[v] \ bare, read)
         missed == IF errors THEN {} ELSE (Listed \ read) \union bare
     IN  AddResult(s, Result(v, Status(found, errors), found, missed))

AuditRaises_Propagates(s) ==
  /\ stage[s] = "audit"
  /\ Fault
  /\ Raise(s)
  /\ UNCHANGED <<order, results, cos, spoilt, unstored, older, world, task, tables>>

\* Anything raised for one server, by a baseline value of an unexpected shape
\* for instance, becomes its SCAN_FAILED result.
AuditRaises(s) ==
  /\ stage[s] = "audit"
  /\ Fault
  /\ AddResult(s, Result(NextServer(s), "scan_failed", {}, {}))

\* model_dump_json rejects its argument with a TypeError.
SerialiserRaises(s) == stage[s] = "json" /\ ~JsonModeAccepted

\* The JSON report is serialised and uploaded.
UploadJson(s) ==
  /\ stage[s] = "json"
  /\ ~SerialiserRaises(s)
  /\ cos' = cos \union {<<s, "json">>}
  /\ Goto(s, "html")
  /\ UNCHANGED <<order, results, told, world, task, tables, history>>

UploadHtml_Unawaited(s) ==
  /\ stage[s] = "html"
  /\ cos' \in {cos, cos \union {<<s, "html">>}}
  /\ Goto(s, "answer")
  /\ UNCHANGED <<order, results, told, world, task, tables, history>>

\* The HTML report is rendered and uploaded.
UploadHtml(s) ==
  /\ stage[s] = "html"
  /\ cos' = cos \union {<<s, "html">>}
  /\ Goto(s, "answer")
  /\ UNCHANGED <<order, results, told, world, task, tables, history>>

\* The serialiser, the template or a put raises; a put that raises may have
\* been carried out.
UploadFails(s) ==
  /\ stage[s] \in {"json", "html"}
  /\ Raise(s)
  /\ IF SerialiserRaises(s)
       THEN UNCHANGED <<cos, faults, spoilt>>
       ELSE /\ Spoil(s)
            /\ cos' \in {cos, cos \union {<<s, stage[s]>>}}
  /\ UNCHANGED <<order, results, unstored, older, world, task, tables>>

NextTask_StoresFailed(s, k) == k

\* The first result from position k on that is stored: a SCAN_FAILED result
\* gets no background task.
NextTask(s, k) ==
  CHOOSE i \in k..Len(results[s]) + 1 :
    /\ i \in DOMAIN results[s] => results[s][i].status # "scan_failed"
    /\ \A j \in k..i - 1 : results[s][j].status = "scan_failed"

\* Position i is the next one to be stored, if there is one.
StartTask(s, i) ==
  /\ position' = [position EXCEPT ![s] = i]
  /\ Goto(s, IF i <= Len(results[s]) THEN "lookup" ELSE "done")

\* The response is sent, with the report in it; then the background tasks run.
Answer(s) ==
  /\ stage[s] = "answer"
  /\ told' = [told EXCEPT ![s] = "report"]
  /\ StartTask(s, NextTask(s, 1))
  /\ UNCHANGED <<order, results, cos, marked, pending, world, tables, history>>

-----------------------------------------------------------------------------
(* Background: store_scan_result *)

Current(s) == results[s][position[s]]

\* The newest HistoryLimit rows other scans wrote for a server.  The query
\* orders by created_at, the caller's clock, which may disagree with the order
\* of rows written at the same time or late.
Newest(s, v) ==
  LET others == {i \in DOMAIN rows[v] : rows[v][i].scan # s}
  IN  {rows[v][i] : i \in {k \in others : Cardinality({j \in others : j > k}) < HistoryLimit}}

PreviousTitles_OfAnyScan(s) ==
  {rows[Current(s).server][i].title : i \in DOMAIN rows[Current(s).server]}

PreviousTitles_OfSameScan(s) ==
  {row.title : row \in {r \in Newest(s, Current(s).server) : r.scan = s}}

\* _check_previous_findings
PreviousTitles(s) == {r.title : r \in Newest(s, Current(s).server)}

\* The previous titles are looked up, nothing if that fails, and the findings
\* with one of these titles are marked as recurring.
Lookup(s) ==
  /\ stage[s] = "lookup"
  /\ \/ /\ marked' = [marked EXCEPT ![s] = Current(s).findings \intersect PreviousTitles(s)]
        /\ UNCHANGED <<faults, spoilt>>
     \/ /\ marked' = [marked EXCEPT ![s] = {}]
        /\ Spoil(s)
  /\ pending' = [pending EXCEPT ![s] = Current(s).findings]
  /\ Goto(s, "scanrow")
  /\ UNCHANGED <<order, results, cos, told, position, unstored, older, world, tables>>

\* The findings of the current task are written one by one; without any left
\* the next task starts.
AfterWrite(s, left) ==
  /\ pending' = [pending EXCEPT ![s] = left]
  /\ \/ /\ left # {}
        /\ Goto(s, "findings")
        /\ UNCHANGED position
     \/ /\ left = {}
        /\ StartTask(s, NextTask(s, position[s] + 1))

Write(w) ==
  \/ /\ w.table = "audit_scans"
     /\ scanRows' = scanRows \union {w.row}
     /\ UNCHANGED rows
  \/ /\ w.table = "drift_findings"
     /\ rows' = [rows EXCEPT ![w.server] = Append(@, w.row)]
     /\ UNCHANGED scanRows

\* insert_row: the row is written, or an error is raised and it is written
\* later or never; an error does not stop the task.
Insert(s, w) ==
  \/ Write(w) /\ UNCHANGED <<late, faults, spoilt, unstored>>
  \/ /\ Spoil(s)
     /\ unstored' = unstored \union {w}
     /\ late' \in {late, late \union {w}}
     /\ UNCHANGED <<scanRows, rows>>

InsertScan(s) ==
  /\ stage[s] = "scanrow"
  /\ Insert(s, [table |-> "audit_scans", server |-> Current(s).server,
                row |-> <<s, position[s], Current(s).server, Current(s).status>>])
  /\ AfterWrite(s, pending[s])
  /\ UNCHANGED <<order, results, cos, told, marked, older, world>>

\* The row of the finding titled x.
FindingRow(s, x) ==
  [table |-> "drift_findings", server |-> Current(s).server,
   row |-> [scan |-> s, title |-> x, isNew |-> x \notin marked[s]]]

InsertFinding_StopsAtFailure(s, x) ==
  /\ stage[s] = "findings"
  /\ x \in pending[s]
  /\ Insert(s, FindingRow(s, x))
  /\ AfterWrite(s, IF UNCHANGED faults THEN pending[s] \ {x} ELSE {})
  /\ UNCHANGED <<order, results, cos, told, marked, older, world>>

InsertFinding(s, x) ==
  /\ stage[s] = "findings"
  /\ x \in pending[s]
  /\ Insert(s, FindingRow(s, x))
  /\ AfterWrite(s, pending[s] \ {x})
  /\ UNCHANGED <<order, results, cos, told, marked, older, world>>

-----------------------------------------------------------------------------
(* Environment *)

\* Somebody changes a server: a resource starts or stops to deviate.  Removing
\* a share that was never approved, or adding it, is such a change too.
Drift(v, x) ==
  /\ drifts < MaxDrifts
  /\ drifts' = drifts + 1
  /\ drifted' = [drifted EXCEPT ![v] = IF x \in @ THEN @ \ {x} ELSE @ \union {x}]
  /\ UNCHANGED <<baseline, stage, order, results, cos, told, task, tables, history>>

\* The process that runs the scan, or its background tasks, is killed.
Crash(s) ==
  /\ Running(s) \/ Storing(s)
  /\ Fault
  /\ Goto(s, "crashed")
  /\ told' = [told EXCEPT ![s] = IF @ = "nothing" THEN "error" ELSE @]
  /\ UNCHANGED <<order, results, cos, spoilt, unstored, older, world, task, tables>>

\* Presto ends an INSERT whose caller has given up.
LateWrite(w) ==
  /\ w \in late
  /\ late' = late \ {w}
  /\ Write(w)
  /\ UNCHANGED <<stage, order, results, cos, told, world, task, history>>

Handler(s) ==
  \/ FetchBaseline(s) \/ NoBaseline(s)
  \/ \E errors \in BOOLEAN, read \in SUBSET Listed, bare \in SUBSET ApprovedShares :
       Audit(s, errors, read, bare)
  \/ AuditRaises(s)
  \/ UploadJson(s) \/ UploadHtml(s) \/ UploadFails(s)
  \/ Answer(s)

Background(s) ==
  Lookup(s) \/ InsertScan(s) \/ \E x \in Resources : InsertFinding(s, x)

AllEnded == (\A s \in Scans : Ended(s)) /\ late = {} /\ UNCHANGED vars

Next ==
  \/ \E s \in Scans : \/ \E list \in ServerLists : Post(s, list)
                      \/ Handler(s)
                      \/ Background(s)
                      \/ Crash(s)
  \/ \E w \in late : LateWrite(w)
  \/ \E v \in Servers, x \in Resources : Drift(v, x)
  \/ AllEnded

Spec == Init /\ [][Next]_vars

-----------------------------------------------------------------------------
(* Properties *)

ResultType == [server : Servers, status : Statuses,
               findings : SUBSET Resources, truth : SUBSET Resources,
               missed : SUBSET Resources]

RowType == [scan : Scans, title : Resources, isNew : BOOLEAN]

TypeOK ==
  /\ baseline \in SUBSET Resources
  /\ drifted \in [Servers -> SUBSET Resources]
  /\ drifts \in Nat
  /\ stage \in [Scans -> {"unsent", "baseline", "audit", "json", "html", "answer",
                          "lookup", "scanrow", "findings", "done", "error", "crashed"}]
  /\ order \in [Scans -> ServerLists \union {<<>>}]
  /\ results \in [Scans -> Seq(ResultType)]
  /\ \A s \in Scans : /\ Len(results[s]) <= Len(order[s])
                      /\ stage[s] = "audit" => Len(results[s]) < Len(order[s])
                      /\ Storing(s) => position[s] \in DOMAIN results[s]
                      /\ stage[s] = "findings" => pending[s] # {}
  /\ cos \subseteq Scans \X {"json", "html"}
  /\ told \in [Scans -> {"nothing", "report", "error"}]
  /\ position \in [Scans -> Nat]
  /\ marked \in [Scans -> SUBSET Resources]
  /\ pending \in [Scans -> SUBSET Resources]
  /\ scanRows \subseteq Scans \X Nat \X Servers \X Statuses
  /\ rows \in [Servers -> Seq(RowType)]
  /\ late \subseteq unstored
  /\ \A w \in unstored :
       \/ w.table = "audit_scans" /\ w.row \in Scans \X Nat \X Servers \X Statuses
       \/ w.table = "drift_findings" /\ w.row \in RowType /\ w.server \in Servers
  /\ faults \in Nat
  /\ spoilt \in SUBSET Scans
  /\ older \in [Scans -> SUBSET Scans]

RowsOf(v) == {rows[v][i] : i \in DOMAIN rows[v]}

\* A scan leaves a trace in the audit history, or a report with its client,
\* only if GET /report/{scan_id} and its html variant find both reports.
TracesHaveReports ==
  \A s \in Scans :
    (\/ told[s] = "report"
     \/ \E row \in scanRows : row[1] = s
     \/ \E v \in Servers : \E row \in RowsOf(v) : row.scan = s)
    => {<<s, "json">>, <<s, "html">>} \subseteq cos

\* The history says of a server what the report of that scan says of it, and
\* nothing about a server whose audit failed.
HistoryAgreesWithReport ==
  /\ \A row \in scanRows :
       LET result == results[row[1]][row[2]]
       IN  result.server = row[3] /\ result.status = row[4] /\ row[4] # "scan_failed"
  /\ \A v \in Servers : \A row \in RowsOf(v) :
       \E i \in DOMAIN results[row.scan] :
         /\ results[row.scan][i].server = v
         /\ row.title \in results[row.scan][i].findings

\* Every result whose background task is over is in the history with all its
\* findings, though other INSERTs failed and though the process died in a later
\* task: only a row whose own INSERT raised may be missing.
HistoryIsComplete ==
  \A s \in Scans : \A i \in DOMAIN results[s] :
    LET result == results[s][i]
        failed(table) == {w \in unstored : w.table = table /\ w.server = result.server}
    IN  i < position[s] /\ result.status # "scan_failed" =>
          /\ <<s, i, result.server, result.status>>
               \in scanRows \union {w.row : w \in failed("audit_scans")}
          /\ \A x \in result.findings :
               \E row \in RowsOf(result.server) \union {w.row : w \in failed("drift_findings")} :
                 row.scan = s /\ row.title = x

\* A finding is stored as recurring only if another scan stored it for the
\* same server, even when a request names a server twice.
RecurringHasPrecedent ==
  \A v \in Servers : \A row \in RowsOf(v) :
    ~row.isNew => \E other \in RowsOf(v) : other.scan # row.scan /\ other.title = row.title

\* A finding that an earlier scan had stored when the scan was requested is
\* never stored as new, unless a call failed for one of the two or so many rows
\* of other scans follow the earlier one that one look does not reach it.
KnownFindingsAreNotNew ==
  \A v \in Servers : \A i, j \in DOMAIN rows[v] :
    LET row == rows[v][i]
        earlier == rows[v][j]
        since == {k \in DOMAIN rows[v] : k >= j /\ rows[v][k].scan # row.scan}
    IN  /\ earlier.scan \in older[row.scan] /\ earlier.title = row.title
        /\ {row.scan, earlier.scan} \intersect spoilt = {}
        /\ Cardinality(since) <= HistoryLimit
        => ~row.isNew

\* A server is called compliant only if, when it was audited, no approved folder
\* or service deviated, whatever failed, and no share that is not hidden, but
\* for those a cmdlet failed to list, or to list the rights of, without failing
\* its script: nothing is recorded of them.
CompliantMeansClean ==
  \A s \in Scans : \A i \in DOMAIN results[s] :
    LET result == results[s][i]
    IN  result.status = "compliant" =>
          \A x \in result.truth :
            /\ Kind[x] = "share" => x \in result.missed
            /\ Kind[x] \in {"folder", "service"} => x \notin baseline

\* routes/validate.py: a scan produces the HTML and JSON report.  A scan ends
\* in an error only if some external call failed for it or its process died.
ErrorsAreExternal == \A s \in Scans : stage[s] = "error" => s \in spoilt

\* models/response.py: is_new says whether the finding is new since the last
\* scan.  A finding stored as recurring was found by the scan of the server
\* that was the last one stored before it was requested.
RecurringSinceLastScan ==
  \A v \in Servers : \A i \in DOMAIN rows[v] :
    LET row == rows[v][i]
        last == {q \in older[row.scan] :
                   /\ \E k \in DOMAIN order[q] : order[q][k] = v
                   /\ \A p \in older[row.scan] \ {q} : p \in older[q]}
    IN  ~row.isNew /\ older[row.scan] # {} =>
          \A q \in last : \E k \in DOMAIN results[q] :
             results[q][k].server = v /\ row.title \in results[q][k].findings
=============================================================================
