------------------------ MODULE ComplianceScanProofs ------------------------
(***************************************************************************)
(* Proofs about ComplianceScan, for any number of scans and servers, any   *)
(* lists of servers, any history limit and any number of failures.         *)
(***************************************************************************)
EXTENDS ComplianceScan, PositionLemmas, TLAPS, SequenceTheorems

-----------------------------------------------------------------------------
(* What the operators give *)

\* What a background task inserts.
ScanInsert == [table : {"audit_scans"}, server : Servers,
               row : Scans \X Nat \X Servers \X Statuses]

FindingInsert == [table : {"drift_findings"}, server : Servers, row : RowType]

\* The scan an insert is for.
For(w) == IF w.table = "audit_scans" THEN w.row[1] ELSE w.row.scan

\* The rows of the server stay where they are, and only these are appended.
Grown(v, new) ==
  /\ Len(rows[v]) \in Nat /\ Len(rows'[v]) \in Nat /\ Len(rows[v]) <= Len(rows'[v])
  /\ DOMAIN rows[v] = 1..Len(rows[v]) /\ DOMAIN rows'[v] = 1..Len(rows'[v])
  /\ \A i \in 1..Len(rows[v]) : rows'[v][i] = rows[v][i]
  /\ \A i \in 1..Len(rows'[v]) : i \in 1..Len(rows[v]) \/ rows'[v][i] \in new

\* The row w adds to those of the server.
NewRows(w, v) == {r \in {w.row} : w.table = "drift_findings" /\ w.server = v}

LEMMA Unchanged ==
  ASSUME TypeOK, rows' = rows, NEW v \in Servers, NEW new
  PROVE  Grown(v, new) /\ RowsOf(v)' = RowsOf(v)
<1>1. rows[v] \in Seq(RowType)
  BY DEF TypeOK
<1>2. DOMAIN rows[v] = 1..Len(rows[v]) /\ Len(rows[v]) \in Nat
  BY <1>1, LenProperties
<1>3. QED
  BY <1>2 DEF Grown, RowsOf

\* The next result to be stored is at k or behind, and no SCAN_FAILED one; the
\* results passed over are.
LEMMA NextTaskFacts ==
  ASSUME NEW s \in Scans, results[s] \in Seq(ResultType), NEW k \in 1..Len(results[s]) + 1
  PROVE  /\ NextTask(s, k) \in k..Len(results[s]) + 1
         /\ NextTask(s, k) \in DOMAIN results[s] => results[s][NextTask(s, k)].status # "scan_failed"
         /\ \A j \in k..NextTask(s, k) - 1 : results[s][j].status = "scan_failed"
<1> DEFINE n == Len(results[s])
           S == {i \in k..n + 1 : i \in DOMAIN results[s] => results[s][i].status # "scan_failed"}
<1>1. n \in Nat /\ DOMAIN results[s] = 1..n
  BY LenProperties
<1>2. n + 1 \in S /\ S \subseteq Nat
  BY <1>1
<1> HIDE DEF n, S
<1>3. PICK i \in S : \A j \in S : ~ (<<j, i>> \in OpToRel(<, Nat))
  BY <1>2, NatLessThanWellFounded, WFMin
<1>4. \A j \in S : ~(j < i)
  BY <1>2, <1>3 DEF OpToRel
<1>5. i \in k..n + 1 /\ (i \in DOMAIN results[s] => results[s][i].status # "scan_failed")
  BY <1>3 DEF S
<1>6. \A j \in k..i - 1 : results[s][j].status = "scan_failed"
  <2>1. ASSUME NEW j \in k..i - 1, results[s][j].status # "scan_failed" PROVE FALSE
    <3>1. j \in k..n + 1 /\ j < i
      BY <1>1, <1>5 DEF n
    <3>2. j \in S
      BY <2>1, <3>1 DEF S
    <3>3. QED
      BY <1>4, <3>1, <3>2
  <2>2. QED
    BY <2>1
<1>7. QED
  BY <1>5, <1>6 DEF NextTask, n

\* An insert that takes effect adds its row and nothing else.
LEMMA WriteRows ==
  ASSUME TypeOK, NEW w \in ScanInsert \union FindingInsert, Write(w)
  PROVE  /\ scanRows' \subseteq Scans \X Nat \X Servers \X Statuses
         /\ rows' \in [Servers -> Seq(RowType)]
         /\ scanRows' = scanRows \union {r \in {w.row} : w.table = "audit_scans"}
         /\ \A v \in Servers : RowsOf(v)' = RowsOf(v) \union NewRows(w, v) /\ Grown(v, NewRows(w, v))
<1>0. rows \in [Servers -> Seq(RowType)] /\ \A v \in Servers : Len(rows[v]) \in Nat
  BY LenProperties DEF TypeOK
<1>1. CASE w.table = "audit_scans"
  <2>1. w.row \in Scans \X Nat \X Servers \X Statuses
    BY <1>1 DEF ScanInsert, FindingInsert
  <2>2. scanRows' = scanRows \union {w.row} /\ rows' = rows
    BY <1>1 DEF Write
  <2>3. QED
    <3>1. \A v \in Servers : NewRows(w, v) = {}
      BY <1>1 DEF NewRows
    <3>2. QED
      BY <1>1, <2>1, <2>2, <3>1, Unchanged DEF TypeOK
<1>2. CASE w.table = "drift_findings"
  <2>1. w.row \in RowType /\ w.server \in Servers
    BY <1>2 DEF ScanInsert, FindingInsert
  <2>2. rows' = [rows EXCEPT ![w.server] = Append(@, w.row)] /\ scanRows' = scanRows
    BY <1>2 DEF Write
  <2> DEFINE old == rows[w.server]
             new == Append(old, w.row)
             n == Len(old)
  <2>3. /\ n \in Nat /\ DOMAIN old = 1..n
        /\ new \in Seq(RowType) /\ DOMAIN new = 1..Len(new) /\ Len(new) = n + 1
        /\ new[n + 1] = w.row /\ \A i \in 1..n : new[i] = old[i]
    BY <1>0, <2>1, LenProperties, AppendProperties
  <2>4. rows' \in [Servers -> Seq(RowType)] /\ rows'[w.server] = new
    BY <1>0, <2>1, <2>2, <2>3
  <2>5. \A v \in Servers : v # w.server => rows'[v] = rows[v]
    BY <1>0, <2>2
  <2> HIDE DEF n, new
  <2>6. {new[i] : i \in DOMAIN new} = {old[i] : i \in DOMAIN old} \union {w.row}
    <3>1. \A i \in 1..n + 1 : i \in 1..n \/ i = n + 1
      BY <2>3
    <3>2. 1..n \subseteq 1..n + 1 /\ n + 1 \in 1..n + 1
      BY <2>3
    <3>3. QED
      BY <2>3, <3>1, <3>2
  <2>7. RowsOf(w.server)' = RowsOf(w.server) \union {w.row}
    BY <2>4, <2>6 DEF RowsOf
  <2>8. Grown(w.server, {w.row})
    <3>1. \A i \in 1..n + 1 : i \in 1..n \/ i = n + 1
      BY <2>3
    <3>2. n <= Len(new) /\ Len(new) \in Nat
      BY <2>3
    <3>3. QED
      BY <2>3, <2>4, <3>1, <3>2 DEF Grown, n
  <2>9. ASSUME NEW v \in Servers
        PROVE  RowsOf(v)' = RowsOf(v) \union NewRows(w, v) /\ Grown(v, NewRows(w, v))
    <3>1. CASE v = w.server
      <4>1. NewRows(w, v) = {w.row}
        BY <1>2, <3>1 DEF NewRows
      <4>2. QED
        BY <2>7, <2>8, <3>1, <4>1
    <3>2. CASE v # w.server
      <4>1. rows'[v] = rows[v] /\ rows[v] \in Seq(RowType)
        BY <1>0, <2>5, <3>2
      <4>2. DOMAIN rows[v] = 1..Len(rows[v]) /\ Len(rows[v]) \in Nat
        BY <4>1, LenProperties
      <4>3. RowsOf(v)' = RowsOf(v) /\ Grown(v, {})
        BY <4>1, <4>2 DEF RowsOf, Grown
      <4>4. NewRows(w, v) = {}
        BY <3>2 DEF NewRows
      <4>5. QED
        BY <4>3, <4>4
    <3>3. QED
      BY <3>1, <3>2
  <2>10. QED
    BY <1>2, <2>2, <2>4, <2>9 DEF TypeOK
<1>3. QED
  BY <1>1, <1>2 DEF ScanInsert, FindingInsert

-----------------------------------------------------------------------------
(* Types *)

\* Before the audit begins a scan has no results, and then servers to audit.
Fresh ==
  \A s \in Scans : /\ stage[s] \in {"unsent", "baseline"} => results[s] = <<>>
                   /\ stage[s] = "baseline" => order[s] \in ServerLists

Typed == TypeOK /\ Fresh /\ unstored \subseteq ScanInsert \union FindingInsert

LEMMA InitTyped == Init => Typed
<1>1. \A S : <<>> \in Seq(S) /\ Len(<<>>) = 0
  BY EmptySeq
<1>2. <<>> \in Seq(RowType) /\ <<>> \in Seq(ResultType)
  BY <1>1
<1>3. QED
  BY <1>1, <1>2, ConstantsAssumption DEF Init, Typed, TypeOK, Fresh, Storing

\* The lengths and positions the types speak of.
LEMMA Lengths ==
  ASSUME Typed, NEW s \in Scans
  PROVE  /\ order[s] \in Seq(Servers) /\ Len(order[s]) \in Nat
         /\ results[s] \in Seq(ResultType) /\ Len(results[s]) \in Nat
         /\ DOMAIN results[s] = 1..Len(results[s])
         /\ \A i \in 1..Len(results[s]) : results[s][i] \in ResultType
         /\ Storing(s) => position[s] \in 1..Len(results[s]) /\ Current(s) \in ResultType
<1>1. order[s] \in Seq(Servers) /\ results[s] \in Seq(ResultType)
  <2>1. ServerLists \subseteq Seq(Servers) /\ <<>> \in Seq(Servers)
    BY ConstantsAssumption, EmptySeq
  <2>2. QED
    BY <2>1 DEF Typed, TypeOK
<1>2. /\ Len(order[s]) \in Nat /\ Len(results[s]) \in Nat
      /\ DOMAIN results[s] = 1..Len(results[s])
  BY <1>1, LenProperties
<1>3. \A i \in 1..Len(results[s]) : results[s][i] \in ResultType
  BY <1>1, ElementOfSeq
<1>4. Storing(s) => position[s] \in 1..Len(results[s])
  BY <1>2 DEF Typed, TypeOK
<1>5. QED
  BY <1>1, <1>2, <1>3, <1>4 DEF Current

\* After a task, or the answer, the first stored result from position k on is
\* the next one.
LEMMA StartTaskEffect ==
  ASSUME Typed, NEW s \in Scans, NEW k \in 1..Len(results[s]) + 1,
         StartTask(s, NextTask(s, k))
  PROVE  /\ position' = [position EXCEPT ![s] = NextTask(s, k)]
         /\ \/ /\ stage' = [stage EXCEPT ![s] = "lookup"]
               /\ NextTask(s, k) \in 1..Len(results[s])
            \/ /\ stage' = [stage EXCEPT ![s] = "done"]
               /\ NextTask(s, k) = Len(results[s]) + 1
         /\ position' \in [Scans -> Nat]
<1>1. Len(results[s]) \in Nat /\ NextTask(s, k) \in k..Len(results[s]) + 1
  BY Lengths, NextTaskFacts
<1>2. NextTask(s, k) \in 1..Len(results[s]) + 1
  BY <1>1
<1>3. position' = [position EXCEPT ![s] = NextTask(s, k)] /\ position' \in [Scans -> Nat]
  BY <1>2 DEF StartTask, Typed, TypeOK
<1>4. CASE NextTask(s, k) <= Len(results[s])
  BY <1>1, <1>2, <1>3, <1>4 DEF StartTask, Goto
<1>5. CASE ~(NextTask(s, k) <= Len(results[s]))
  <2>1. stage' = [stage EXCEPT ![s] = "done"]
    BY <1>5 DEF StartTask, Goto
  <2>2. NextTask(s, k) = Len(results[s]) + 1
    BY <1>1, <1>2, <1>5
  <2>3. QED
    BY <1>3, <2>1, <2>2
<1>6. QED
  BY <1>4, <1>5

\* After an insert the task goes on with the findings left, if any.
LEMMA AfterWriteEffect ==
  ASSUME Typed, NEW s \in Scans, Storing(s), NEW left, AfterWrite(s, left)
  PROVE  /\ pending' = [pending EXCEPT ![s] = left]
         /\ position' \in [Scans -> Nat]
         /\ \/ /\ left # {} /\ position' = position
               /\ stage' = [stage EXCEPT ![s] = "findings"]
            \/ /\ left = {}
               /\ position' = [position EXCEPT ![s] = NextTask(s, position[s] + 1)]
               /\ \/ /\ stage' = [stage EXCEPT ![s] = "lookup"]
                     /\ NextTask(s, position[s] + 1) \in 1..Len(results[s])
                  \/ /\ stage' = [stage EXCEPT ![s] = "done"]
                     /\ NextTask(s, position[s] + 1) = Len(results[s]) + 1
<1>1. position[s] + 1 \in 1..Len(results[s]) + 1
  BY Lengths
<1>2. CASE left # {}
  BY <1>2 DEF AfterWrite, Goto, Typed, TypeOK
<1>3. CASE left = {}
  <2>1. StartTask(s, NextTask(s, position[s] + 1)) /\ pending' = [pending EXCEPT ![s] = left]
    BY <1>3 DEF AfterWrite
  <2>2. QED
    BY <1>1, <1>3, <2>1, StartTaskEffect
<1>4. QED
  BY <1>2, <1>3

\* An insert that raised has no effect yet, and is remembered as a failure.
LEMMA InsertEffect ==
  ASSUME Typed, NEW s \in Scans, NEW w \in ScanInsert \union FindingInsert, Insert(s, w)
  PROVE  /\ scanRows' \subseteq Scans \X Nat \X Servers \X Statuses
         /\ rows' \in [Servers -> Seq(RowType)]
         /\ faults' \in Nat
         /\ late' \subseteq late \union {w} /\ late' \subseteq unstored'
         /\ unstored \subseteq unstored' /\ unstored' \subseteq unstored \union {w}
         /\ spoilt' \in SUBSET Scans /\ spoilt \subseteq spoilt'
         /\ \/ Write(w) /\ late' = late /\ spoilt' = spoilt
            \/ UNCHANGED <<scanRows, rows>> /\ s \in spoilt' /\ w \in unstored'
         /\ scanRows \subseteq scanRows'
         /\ scanRows' \subseteq scanRows \union {r \in {w.row} : w.table = "audit_scans"}
         /\ \A v \in Servers :
              /\ RowsOf(v) \subseteq RowsOf(v)'
              /\ RowsOf(v)' \subseteq RowsOf(v) \union NewRows(w, v)
              /\ Grown(v, NewRows(w, v))
<1>1. CASE Write(w) /\ UNCHANGED <<late, faults, spoilt, unstored>>
  <2>1. /\ faults' \in Nat /\ spoilt' \in SUBSET Scans /\ late' \subseteq unstored'
    BY <1>1 DEF Typed, TypeOK
  <2>2. QED
    BY <1>1, <2>1, WriteRows DEF Typed
<1>2. CASE /\ Spoil(s) /\ unstored' = unstored \union {w}
           /\ late' \in {late, late \union {w}} /\ UNCHANGED <<scanRows, rows>>
  <2>1. /\ faults' \in Nat /\ s \in spoilt' /\ spoilt' \in SUBSET Scans /\ spoilt \subseteq spoilt'
    BY <1>2 DEF Spoil, Fault, Typed, TypeOK
  <2>2. \A v \in Servers : \A new : RowsOf(v)' = RowsOf(v) /\ Grown(v, new)
    BY <1>2, Unchanged DEF Typed
  <2>3. late' \subseteq late \union {w} /\ late' \subseteq unstored'
    BY <1>2 DEF Typed, TypeOK
  <2>4. QED
    BY <1>2, <2>1, <2>2, <2>3 DEF Typed, TypeOK
<1>3. QED
  BY <1>1, <1>2 DEF Insert

\* The inserts of a task are for the server of the result it stores.
LEMMA TaskInserts ==
  ASSUME Typed, NEW s \in Scans, Storing(s)
  PROVE  /\ [table |-> "audit_scans", server |-> Current(s).server,
             row |-> <<s, position[s], Current(s).server, Current(s).status>>] \in ScanInsert
         /\ \A x \in Resources : FindingRow(s, x) \in FindingInsert
<1>1. Current(s) \in ResultType /\ position[s] \in Nat
  BY Lengths DEF Typed, TypeOK
<1>2. Current(s).server \in Servers /\ Current(s).status \in Statuses
  BY <1>1 DEF ResultType
<1>3. \A x \in Resources : (x \notin marked[s]) \in BOOLEAN
  OBVIOUS
<1>4. \A x \in Resources : [scan |-> s, title |-> x, isNew |-> x \notin marked[s]] \in RowType
  BY <1>3 DEF RowType
<1>5. QED
  BY <1>1, <1>2, <1>4 DEF ScanInsert, FindingInsert, FindingRow

\* The status an audit ends with is one of the report's.
LEMMA AuditedResult ==
  ASSUME Typed, NEW s \in Scans, stage[s] = "audit"
  PROVE  /\ NextServer(s) \in Servers
         /\ \A errors \in BOOLEAN, found \in SUBSET Resources, missed \in SUBSET Resources :
              Result(NextServer(s), Status(found, errors), found, missed) \in ResultType
         /\ Result(NextServer(s), "scan_failed", {}, {}) \in ResultType
<1>1. Len(results[s]) \in Nat /\ Len(order[s]) \in Nat /\ Len(results[s]) < Len(order[s])
  BY Lengths DEF Typed, TypeOK
<1>2. NextServer(s) \in Servers
  <2>1. Len(results[s]) + 1 \in 1..Len(order[s])
    BY <1>1
  <2>2. QED
    BY <2>1, Lengths, ElementOfSeq DEF NextServer
<1>3. drifted[NextServer(s)] \in SUBSET Resources
  BY <1>2 DEF Typed, TypeOK
<1>4. \A errors \in BOOLEAN, found \in SUBSET Resources : Status(found, errors) \in Statuses
  BY DEF Status, Statuses
<1>5. QED
  BY <1>2, <1>3, <1>4 DEF Result, ResultType, Statuses

LEMMA AddResultTypes ==
  ASSUME Typed, NEW s \in Scans, NEW r \in ResultType, AddResult(s, r), faults' \in Nat
  PROVE  Typed'
<1> DEFINE n == Len(results[s])
<1>1. /\ n \in Nat /\ Len(order[s]) \in Nat /\ n < Len(order[s]) /\ stage[s] = "audit"
  BY Lengths DEF AddResult, Typed, TypeOK
<1>2. /\ Append(results[s], r) \in Seq(ResultType) /\ Len(Append(results[s], r)) = n + 1
  BY Lengths, AppendProperties
<1>3. results' = [results EXCEPT ![s] = Append(@, r)]
  BY DEF AddResult
<1>4. /\ results' \in [Scans -> Seq(ResultType)] /\ results'[s] = Append(results[s], r)
      /\ \A e \in Scans : e # s => results'[e] = results[e]
  BY <1>2, <1>3 DEF Typed, TypeOK
<1>5. PICK st \in {"json", "audit"} : /\ stage' = [stage EXCEPT ![s] = st]
                                      /\ st = "audit" => n + 1 # Len(order[s])
  BY DEF AddResult, Goto
<1>6. UNCHANGED <<order, cos, told, spoilt, unstored, older, world, task, tables>>
  BY DEF AddResult
<1>7. /\ stage'[s] = st /\ \A e \in Scans : e # s => stage'[e] = stage[e]
      /\ stage' \in [Scans -> {"unsent", "baseline", "audit", "json", "html", "answer",
                               "lookup", "scanrow", "findings", "done", "error", "crashed"}]
  BY <1>5 DEF Typed, TypeOK
<1>8. n + 1 <= Len(order[s]) /\ (st = "audit" => n + 1 < Len(order[s]))
  BY <1>1, <1>5
<1> HIDE DEF n
<1>9. ASSUME NEW e \in Scans
      PROVE  /\ Len(results'[e]) <= Len(order'[e])
             /\ stage'[e] = "audit" => Len(results'[e]) < Len(order'[e])
             /\ Storing(e)' => position'[e] \in DOMAIN results'[e]
             /\ stage'[e] = "findings" => pending'[e] # {}
             /\ stage'[e] \in {"unsent", "baseline"} => results'[e] = <<>>
             /\ stage'[e] = "baseline" => order'[e] \in ServerLists
  <2>1. CASE e = s
    BY <1>2, <1>4, <1>6, <1>7, <1>8, <2>1 DEF Storing
  <2>2. CASE e # s
    <3>1. /\ results'[e] = results[e] /\ stage'[e] = stage[e] /\ order'[e] = order[e]
          /\ position'[e] = position[e] /\ pending'[e] = pending[e]
      BY <1>4, <1>6, <1>7, <2>2 DEF task
    <3>2. QED
      BY <3>1 DEF Storing, Typed, TypeOK, Fresh
  <2>3. QED
    BY <2>1, <2>2
<1>10. Fresh'
  BY <1>9 DEF Fresh
<1>11. TypeOK'
  BY <1>4, <1>6, <1>7, <1>9 DEF Typed, TypeOK, world, task, tables
<1>12. QED
  BY <1>6, <1>10, <1>11 DEF Typed

\* An insert of a task keeps the types.
LEMMA StoreTypes ==
  ASSUME Typed, NEW s \in Scans, Storing(s), NEW w \in ScanInsert \union FindingInsert,
         NEW left \in SUBSET Resources, Insert(s, w), AfterWrite(s, left),
         UNCHANGED <<order, results, cos, told, marked, older, world>>
  PROVE  Typed'
<1>1. /\ pending' = [pending EXCEPT ![s] = left]
      /\ position' \in [Scans -> Nat]
      /\ \A e \in Scans : e # s => position'[e] = position[e]
      /\ \E st : /\ stage' = [stage EXCEPT ![s] = st]
                 /\ \/ st = "findings" /\ left # {} /\ position'[s] = position[s]
                    \/ st = "lookup" /\ position'[s] \in 1..Len(results[s])
                    \/ st = "done"
  <2>1. \A k \in Nat : \A e \in Scans :
          position' = [position EXCEPT ![s] = k] => (e # s => position'[e] = position[e])
                                                    /\ position'[s] = k
    BY DEF Typed, TypeOK
  <2>2. NextTask(s, position[s] + 1) \in Nat
    <3>1. position[s] + 1 \in 1..Len(results[s]) + 1 /\ Len(results[s]) \in Nat
      BY Lengths
    <3>2. QED
      BY <3>1, Lengths, NextTaskFacts
  <2>3. QED
    BY <2>1, <2>2, AfterWriteEffect
<1>2. PICK st : /\ stage' = [stage EXCEPT ![s] = st]
                /\ \/ st = "findings" /\ left # {} /\ position'[s] = position[s]
                   \/ st = "lookup" /\ position'[s] \in 1..Len(results[s])
                   \/ st = "done"
  BY <1>1
<1>3. /\ stage'[s] = st /\ \A e \in Scans : e # s => stage'[e] = stage[e]
      /\ stage' \in [Scans -> {"unsent", "baseline", "audit", "json", "html", "answer",
                               "lookup", "scanrow", "findings", "done", "error", "crashed"}]
  BY <1>2 DEF Typed, TypeOK
<1>4. /\ pending'[s] = left /\ \A e \in Scans : e # s => pending'[e] = pending[e]
      /\ pending' \in [Scans -> SUBSET Resources]
  BY <1>1 DEF Typed, TypeOK
<1>5. ASSUME NEW e \in Scans
      PROVE  /\ stage'[e] = "audit" => stage[e] = "audit"
             /\ Storing(e)' => position'[e] \in DOMAIN results'[e]
             /\ stage'[e] = "findings" => pending'[e] # {}
             /\ stage'[e] \in {"unsent", "baseline"} => stage'[e] = stage[e]
  <2>1. CASE e = s
    BY <1>2, <1>3, <1>4, <2>1, Lengths DEF Storing
  <2>2. CASE e # s
    BY <1>1, <1>3, <1>4, <2>2 DEF Storing, Typed, TypeOK
  <2>3. QED
    BY <2>1, <2>2
<1>6. Fresh'
  BY <1>5 DEF Fresh, Typed
<1>7. /\ scanRows' \subseteq Scans \X Nat \X Servers \X Statuses
      /\ rows' \in [Servers -> Seq(RowType)]
      /\ faults' \in Nat /\ spoilt' \in SUBSET Scans
      /\ late' \subseteq unstored' /\ unstored' \subseteq ScanInsert \union FindingInsert
  <2>1. unstored \subseteq ScanInsert \union FindingInsert
    BY DEF Typed
  <2>2. /\ late' \subseteq unstored' /\ unstored' \subseteq unstored \union {w}
        /\ scanRows' \subseteq Scans \X Nat \X Servers \X Statuses
        /\ rows' \in [Servers -> Seq(RowType)]
        /\ faults' \in Nat /\ spoilt' \in SUBSET Scans
    BY InsertEffect
  <2>3. QED
    BY <2>1, <2>2
<1>8. \A v \in ScanInsert \union FindingInsert :
        \/ v.table = "audit_scans" /\ v.row \in Scans \X Nat \X Servers \X Statuses
        \/ v.table = "drift_findings" /\ v.row \in RowType /\ v.server \in Servers
  BY DEF ScanInsert, FindingInsert
<1>9. TypeOK'
  BY <1>1, <1>3, <1>4, <1>5, <1>7, <1>8 DEF Typed, TypeOK, world
<1>10. QED
  BY <1>6, <1>7, <1>9 DEF Typed

LEMMA StepTyped == Typed /\ [Next]_vars => Typed'
<1> SUFFICES ASSUME Typed, [Next]_vars PROVE Typed'
  OBVIOUS
<1> USE DEF Goto, Raise, Spoil, Fault, Storing
<1>1. ASSUME NEW s \in Scans, NEW list \in ServerLists, Post(s, list) PROVE Typed'
  <2>1. list \in Seq(Servers) /\ Len(list) \in Nat /\ Len(<<>>) = 0
    BY ConstantsAssumption, LenProperties, EmptySeq
  <2>2. results[s] = <<>> /\ Len(results[s]) = 0 /\ 0 <= Len(list)
    BY <1>1, <2>1 DEF Post, Typed, Fresh
  <2>3. Fresh'
    BY <1>1, <2>2 DEF Post, Typed, TypeOK, Fresh
  <2>4. TypeOK'
    BY <1>1, <2>2 DEF Post, Typed, TypeOK, world, task, tables
  <2>5. QED
    BY <1>1, <2>3, <2>4 DEF Post, Typed
<1>2. ASSUME NEW s \in Scans, FetchBaseline(s) PROVE Typed'
  <2>1. results[s] = <<>> /\ order[s] \in ServerLists /\ Len(<<>>) = 0
    BY <1>2, EmptySeq DEF FetchBaseline, Typed, Fresh
  <2>2. Len(results[s]) < Len(order[s])
    BY <2>1, ConstantsAssumption, EmptySeq
  <2>3. Fresh'
    BY <1>2 DEF FetchBaseline, Typed, TypeOK, Fresh
  <2>4. TypeOK'
    BY <1>2, <2>2 DEF FetchBaseline, Typed, TypeOK, world, task, tables, history
  <2>5. QED
    BY <1>2, <2>3, <2>4 DEF FetchBaseline, Typed, history
<1>3. ASSUME NEW s \in Scans, NoBaseline(s) PROVE Typed'
  <2>1. /\ stage' = [stage EXCEPT ![s] = "error"] /\ told' = [told EXCEPT ![s] = "error"]
        /\ faults' = faults + 1 /\ spoilt' = spoilt \union {s}
        /\ UNCHANGED <<order, results, cos, unstored, older, world, task, tables>>
    BY <1>3 DEF NoBaseline
  <2>2. Fresh'
    BY <2>1 DEF Typed, TypeOK, Fresh
  <2>3. TypeOK'
    BY <2>1 DEF Typed, TypeOK, world, task, tables
  <2>4. QED
    BY <2>1, <2>2, <2>3 DEF Typed
<1>4. ASSUME NEW s \in Scans, NEW errors \in BOOLEAN, NEW read \in SUBSET Listed,
             NEW bare \in SUBSET ApprovedShares, Audit(s, errors, read, bare)
      PROVE  Typed'
  <2> DEFINE found == Reported(baseline, drifted[NextServer(s)] \ bare, read)
             missed == IF errors THEN {} ELSE (Listed \ read) \union bare
  <2>1. found \in SUBSET Resources /\ missed \in SUBSET Resources /\ stage[s] = "audit"
    BY <1>4 DEF Reported, Audit, Listed
  <2>2. AddResult(s, Result(NextServer(s), Status(found, errors), found, missed)) /\ faults' \in Nat
    BY <1>4 DEF Audit, Typed, TypeOK
  <2> HIDE DEF found, missed
  <2>3. Result(NextServer(s), Status(found, errors), found, missed) \in ResultType
    BY <2>1, AuditedResult
  <2>4. QED
    BY <2>2, <2>3, AddResultTypes
<1>5. ASSUME NEW s \in Scans, AuditRaises(s) PROVE Typed'
  <2>1. /\ stage[s] = "audit" /\ AddResult(s, Result(NextServer(s), "scan_failed", {}, {}))
        /\ faults' \in Nat
    BY <1>5 DEF AuditRaises, Typed, TypeOK
  <2>2. QED
    BY <2>1, AuditedResult, AddResultTypes
<1>6. ASSUME NEW s \in Scans, UploadJson(s) PROVE Typed'
  BY <1>6 DEF UploadJson, Typed, TypeOK, Fresh, world, task, tables, history
<1>7. ASSUME NEW s \in Scans, UploadHtml(s) PROVE Typed'
  BY <1>7 DEF UploadHtml, Typed, TypeOK, Fresh, world, task, tables, history
<1>8. ASSUME NEW s \in Scans, UploadFails(s) PROVE Typed'
  <2>1. /\ cos' \subseteq Scans \X {"json", "html"} /\ faults' \in Nat /\ spoilt' \in SUBSET Scans
    <3>1. <<s, stage[s]>> \in Scans \X {"json", "html"}
      BY <1>8 DEF UploadFails
    <3>2. cos \subseteq Scans \X {"json", "html"} /\ faults \in Nat /\ spoilt \in SUBSET Scans
      BY DEF Typed, TypeOK
    <3>3. cos' \in {cos, cos \union {<<s, stage[s]>>}}
      BY <1>8 DEF UploadFails
    <3>4. faults' \in {faults, faults + 1} /\ spoilt' \in {spoilt, spoilt \union {s}}
      BY <1>8 DEF UploadFails
    <3>5. QED
      BY <3>1, <3>2, <3>3, <3>4
  <2>2. /\ stage' = [stage EXCEPT ![s] = "error"] /\ told' = [told EXCEPT ![s] = "error"]
        /\ UNCHANGED <<order, results, unstored, older, world, task, tables>>
    BY <1>8 DEF UploadFails
  <2>3. QED
    BY <2>1, <2>2 DEF Typed, TypeOK, Fresh, world, task, tables
<1>9. ASSUME NEW s \in Scans, Answer(s) PROVE Typed'
  <2>1. 1 \in 1..Len(results[s]) + 1
    BY Lengths
  <2>2. StartTask(s, NextTask(s, 1)) /\ told' = [told EXCEPT ![s] = "report"] /\ stage[s] = "answer"
        /\ UNCHANGED <<order, results, cos, marked, pending, world, tables, history>>
    BY <1>9 DEF Answer
  <2>3. /\ position' = [position EXCEPT ![s] = NextTask(s, 1)]
        /\ \/ /\ stage' = [stage EXCEPT ![s] = "lookup"]
              /\ NextTask(s, 1) \in 1..Len(results[s])
           \/ stage' = [stage EXCEPT ![s] = "done"]
        /\ position' \in [Scans -> Nat]
    BY <2>1, <2>2, StartTaskEffect
  <2>4. position'[s] = NextTask(s, 1) /\ \A e \in Scans : e # s => position'[e] = position[e]
    BY <2>3 DEF Typed, TypeOK
  <2>5. \A e \in Scans : Storing(e)' => position'[e] \in DOMAIN results'[e]
    <3>1. ASSUME NEW e \in Scans, e # s, Storing(e)' PROVE position'[e] \in DOMAIN results'[e]
      BY <2>2, <2>3, <2>4, <3>1 DEF Typed, TypeOK
    <3>2. ASSUME stage'[s] = "lookup" PROVE position'[s] \in DOMAIN results'[s]
      BY <2>2, <2>3, <2>4, <3>2, Lengths DEF Typed, TypeOK
    <3>3. stage'[s] \in {"lookup", "done"}
      BY <2>3 DEF Typed, TypeOK
    <3>4. QED
      BY <3>1, <3>2, <3>3
  <2>6. Fresh'
    BY <2>2, <2>3 DEF Typed, TypeOK, Fresh
  <2>7. TypeOK'
    BY <2>2, <2>3, <2>5 DEF Typed, TypeOK, world, tables, history
  <2>8. QED
    BY <2>2, <2>6, <2>7 DEF Typed, history
<1>10. ASSUME NEW s \in Scans, Lookup(s) PROVE Typed'
  <2>1. /\ stage[s] = "lookup" /\ stage' = [stage EXCEPT ![s] = "scanrow"]
        /\ pending' = [pending EXCEPT ![s] = Current(s).findings]
        /\ UNCHANGED <<order, results, cos, told, position, unstored, older, world, tables>>
    BY <1>10 DEF Lookup
  <2>2. Current(s).findings \in SUBSET Resources
    BY <2>1, Lengths DEF ResultType
  <2>3. \E m \in SUBSET Resources : marked' = [marked EXCEPT ![s] = m]
    BY <1>10, <2>2 DEF Lookup
  <2>4. faults' \in Nat /\ spoilt' \in SUBSET Scans
    BY <1>10 DEF Lookup, Typed, TypeOK
  <2>5. Fresh'
    BY <2>1 DEF Typed, TypeOK, Fresh
  <2>6. TypeOK'
    BY <2>1, <2>2, <2>3, <2>4 DEF Typed, TypeOK, world, tables
  <2>7. QED
    BY <2>1, <2>5, <2>6 DEF Typed
<1>11. ASSUME NEW s \in Scans, InsertScan(s) PROVE Typed'
  <2>1. Storing(s) /\ pending[s] \in SUBSET Resources
    BY <1>11 DEF InsertScan, Typed, TypeOK
  <2>2. QED
    BY <1>11, <2>1, TaskInserts, StoreTypes DEF InsertScan
<1>12. ASSUME NEW s \in Scans, NEW x \in Resources, InsertFinding(s, x) PROVE Typed'
  <2>1. Storing(s) /\ pending[s] \ {x} \in SUBSET Resources
    BY <1>12 DEF InsertFinding, Typed, TypeOK
  <2>2. QED
    BY <1>12, <2>1, TaskInserts, StoreTypes DEF InsertFinding
<1>13. ASSUME NEW s \in Scans, Crash(s) PROVE Typed'
  BY <1>13 DEF Crash, Typed, TypeOK, Fresh, world, task, tables
<1>14. ASSUME NEW w \in late, LateWrite(w) PROVE Typed'
  <2>1. w \in ScanInsert \union FindingInsert /\ Write(w) /\ late' = late \ {w}
    BY <1>14 DEF LateWrite, Typed, TypeOK
  <2>2. /\ scanRows' \subseteq Scans \X Nat \X Servers \X Statuses
        /\ rows' \in [Servers -> Seq(RowType)]
    BY <2>1, WriteRows DEF Typed
  <2>3. UNCHANGED <<stage, order, results, cos, told, world, task, history>>
    BY <1>14 DEF LateWrite
  <2>4. QED
    BY <2>1, <2>2, <2>3 DEF Typed, TypeOK, Fresh, world, task, history
<1>15. ASSUME NEW v \in Servers, NEW x \in Resources, Drift(v, x) PROVE Typed'
  BY <1>15 DEF Drift, Typed, TypeOK, Fresh, task, tables, history
<1>16. CASE UNCHANGED vars
  BY <1>16 DEF vars, Typed, TypeOK, Fresh
<1>17. QED
  BY <1>1, <1>2, <1>3, <1>4, <1>5, <1>6, <1>7, <1>8, <1>9, <1>10, <1>11, <1>12, <1>13, <1>14,
     <1>15, <1>16 DEF Next, Handler, Background, AllEnded

\* Every variable keeps its type; in particular a background task always has
\* a result to store, and the list of servers is not overrun.
THEOREM TypeCorrect == Spec => []TypeOK
<1>1. Typed => TypeOK
  BY DEF Typed
<1>2. QED
  BY <1>1, InitTyped, StepTyped, PTL DEF Spec

-----------------------------------------------------------------------------
(* The kinds of steps *)

\* A result calls a server compliant only if nothing that must be there
\* deviates, and no share that was read; a SCAN_FAILED result has no findings.
Truthful(r) ==
  /\ r.status = "compliant" =>
       \A x \in r.truth : /\ Kind[x] = "share" => x \in r.missed
                          /\ Kind[x] \in {"folder", "service"} => x \notin baseline
  /\ r.status = "scan_failed" => r.findings = {}

Uploaded(s) == {<<s, "json">>, <<s, "html">>} \subseteq cos

\* No background task of the scan has started.
Auditing(s) == stage[s] \in {"unsent", "baseline", "audit", "json", "html", "answer"}

\* A step that neither adds a result nor touches the audit history or a task.
Quiet ==
  /\ UNCHANGED <<baseline, results, position, marked, pending, scanRows, rows, late>>
  /\ spoilt \subseteq spoilt' /\ unstored' = unstored /\ cos \subseteq cos'
  /\ \A s \in Scans :
       /\ stage'[s] \in {"lookup", "scanrow", "findings", "done"} => stage'[s] = stage[s]
       /\ stage[s] = "done" => stage'[s] = "done"
       /\ stage'[s] = "unsent" => stage[s] = "unsent"
       /\ Auditing(s)' => Auditing(s)
       /\ stage'[s] = "html" => stage[s] = "html" \/ <<s, "json">> \in cos'
       /\ stage'[s] = "answer" => stage[s] = "answer" \/ (stage[s] = "html" /\ <<s, "html">> \in cos')
       /\ stage'[s] = "error" => stage[s] = "error" \/ s \in spoilt' \/ ~JsonModeAccepted
       /\ told'[s] = "report" => told[s] = "report"
       /\ \/ older'[s] = older[s]
          \/ stage[s] = "unsent" /\ older'[s] = {q \in Scans : stage[q] = "done"}

\* The background task of a scan inserts w, with these findings left.
Stores(s, w, left) ==
  /\ Storing(s)
  /\ Insert(s, w)
  /\ AfterWrite(s, left)
  /\ UNCHANGED <<order, results, cos, told, marked, older, world>>
  /\ \/ /\ stage[s] = "scanrow" /\ left = pending[s]
        /\ w = [table |-> "audit_scans", server |-> Current(s).server,
                row |-> <<s, position[s], Current(s).server, Current(s).status>>]
     \/ /\ stage[s] = "findings"
        /\ \E x \in pending[s] : w = FindingRow(s, x) /\ left = pending[s] \ {x}

LEMMA QuietSteps ==
  ASSUME Typed, NEW s \in Scans,
         \/ \E list \in ServerLists : Post(s, list)
         \/ FetchBaseline(s) \/ NoBaseline(s) \/ UploadJson(s) \/ UploadHtml(s)
         \/ UploadFails(s) \/ Crash(s)
  PROVE  Quiet
<1> USE DEF Goto, Raise, Spoil, Fault, world, task, tables, history
<1>0. /\ stage \in [Scans -> {"unsent", "baseline", "audit", "json", "html", "answer",
                              "lookup", "scanrow", "findings", "done", "error", "crashed"}]
      /\ told \in [Scans -> {"nothing", "report", "error"}] /\ older \in [Scans -> SUBSET Scans]
  BY DEF Typed, TypeOK
<1>1. ASSUME NEW st, NEW tell,
             stage' = [stage EXCEPT ![s] = st], told' = [told EXCEPT ![s] = tell],
             UNCHANGED <<unstored, older, baseline, results, position, marked, pending,
                         scanRows, rows, late>>,
             spoilt \subseteq spoilt', cos \subseteq cos',
             stage[s] \notin {"unsent", "done"},
             st \in {"audit", "html", "answer", "error", "crashed"},
             st \in {"audit", "html", "answer"} => stage[s] \in {"baseline", "json", "html"},
             st = "html" => <<s, "json">> \in cos',
             st = "answer" => stage[s] = "html" /\ <<s, "html">> \in cos',
             st = "error" => s \in spoilt' \/ ~JsonModeAccepted,
             tell = "report" => told[s] = "report"
      PROVE  Quiet
  <2>1. /\ stage'[s] = st /\ told'[s] = tell
        /\ \A e \in Scans : e # s => stage'[e] = stage[e] /\ told'[e] = told[e]
    BY <1>0, <1>1
  <2>2. QED
    BY <1>0, <1>1, <2>1 DEF Quiet, Auditing
<1>2. told = [told EXCEPT ![s] = told[s]]
  BY <1>0
<1>3. ASSUME NEW list \in ServerLists, Post(s, list) PROVE Quiet
  BY <1>0, <1>3 DEF Post, Quiet, Auditing
<1>4. ASSUME FetchBaseline(s) PROVE Quiet
  BY <1>1, <1>2, <1>4 DEF FetchBaseline
<1>5. ASSUME NoBaseline(s) PROVE Quiet
  BY <1>1, <1>5 DEF NoBaseline
<1>6. ASSUME UploadJson(s) PROVE Quiet
  BY <1>1, <1>2, <1>6 DEF UploadJson
<1>7. ASSUME UploadHtml(s) PROVE Quiet
  BY <1>1, <1>2, <1>7 DEF UploadHtml
<1>8. ASSUME UploadFails(s) PROVE Quiet
  <2>1. cos \subseteq cos' /\ spoilt \subseteq spoilt' /\ stage[s] \in {"json", "html"}
        /\ (s \in spoilt' \/ ~JsonModeAccepted)
    BY <1>8 DEF UploadFails, SerialiserRaises
  <2>2. QED
    BY <1>1, <1>8, <2>1 DEF UploadFails
<1>9. ASSUME Crash(s) PROVE Quiet
  <2>1. stage[s] \notin {"unsent", "done"}
    BY <1>9 DEF Crash, Running, Storing
  <2>2. PICK tell \in {"error", told[s]} : told' = [told EXCEPT ![s] = tell]
    BY <1>9 DEF Crash
  <2>3. /\ stage' = [stage EXCEPT ![s] = "crashed"]
        /\ UNCHANGED <<cos, spoilt, unstored, older, baseline, results, position, marked,
                       pending, scanRows, rows, late>>
    BY <1>9 DEF Crash
  <2>4. QED
    BY <1>1, <2>1, <2>2, <2>3
<1>10. QED
  BY <1>3, <1>4, <1>5, <1>6, <1>7, <1>8, <1>9

\* Who is called compliant had no finding: a folder or service of the baseline
\* that deviates is reported whether it was read or not, a share if it was read.
LEMMA AuditIsTruthful ==
  ASSUME Typed, NEW s \in Scans, stage[s] = "audit", NEW errors \in BOOLEAN,
         NEW read \in SUBSET Listed, NEW bare \in SUBSET ApprovedShares
  PROVE  LET v == NextServer(s)
             found == Reported(baseline, drifted[v] \ bare, read)
             missed == IF errors THEN {} ELSE (Listed \ read) \union bare
         IN  Truthful(Result(v, Status(found, errors), found, missed))
<1> DEFINE v == NextServer(s)
           found == Reported(baseline, drifted[v] \ bare, read)
           missed == IF errors THEN {} ELSE (Listed \ read) \union bare
           r == Result(v, Status(found, errors), found, missed)
<1>1. /\ r.status = Status(found, errors) /\ r.truth = drifted[v] /\ r.findings = found
      /\ r.missed = missed
  BY DEF Result
<1>2. drifted[v] \subseteq Resources
  BY AuditedResult DEF Typed, TypeOK
<1>3. r.status # "scan_failed"
  BY <1>1 DEF Status
<1>4. ASSUME r.status = "compliant", NEW x \in drifted[v]
      PROVE  /\ Kind[x] = "share" => x \in r.missed
             /\ Kind[x] \in {"folder", "service"} => x \notin baseline
  <2>1. ~errors /\ found = {} /\ x \in Resources
    BY <1>1, <1>2, <1>4 DEF Status
  <2>2. x \notin found /\ r.missed = (Listed \ read) \union bare
    BY <1>1, <2>1
  <2>3. /\ Kind[x] = "share" => x \in Listed
        /\ x \in bare => Kind[x] = "share"
    BY <2>1 DEF Listed, ApprovedShares
  <2>4. QED
    BY <1>4, <2>1, <2>2, <2>3 DEF Reported
<1> HIDE DEF r
<1>5. Truthful(r)
  BY <1>1, <1>3, <1>4 DEF Truthful
<1>6. QED
  BY <1>5 DEF r

LEMMA StepKinds ==
  ASSUME Typed, [Next]_vars
  PROVE  \/ Quiet
         \/ \E s \in Scans, r \in ResultType : AddResult(s, r) /\ Truthful(r)
         \/ \E s \in Scans : Answer(s)
         \/ \E s \in Scans : Lookup(s)
         \/ \E s \in Scans, w \in ScanInsert \union FindingInsert, left \in SUBSET Resources :
              Stores(s, w, left)
         \/ \E w \in late : LateWrite(w)
<1>1. ASSUME NEW s \in Scans, NEW errors \in BOOLEAN, NEW read \in SUBSET Listed,
             NEW bare \in SUBSET ApprovedShares, Audit(s, errors, read, bare)
      PROVE  \E r \in ResultType : AddResult(s, r) /\ Truthful(r)
  <2> DEFINE found == Reported(baseline, drifted[NextServer(s)] \ bare, read)
             missed == IF errors THEN {} ELSE (Listed \ read) \union bare
             r == Result(NextServer(s), Status(found, errors), found, missed)
  <2>1. found \in SUBSET Resources /\ missed \in SUBSET Resources /\ stage[s] = "audit"
    BY <1>1 DEF Reported, Audit, Listed
  <2>2. Truthful(r)
    BY <2>1, AuditIsTruthful
  <2>3. AddResult(s, r)
    BY <1>1 DEF Audit
  <2> HIDE DEF found, missed
  <2>4. r \in ResultType
    BY <2>1, AuditedResult
  <2> HIDE DEF r
  <2>5. QED
    BY <2>2, <2>3, <2>4
<1>2. ASSUME NEW s \in Scans, AuditRaises(s)
      PROVE  \E r \in ResultType : AddResult(s, r) /\ Truthful(r)
  <2>1. stage[s] = "audit" /\ AddResult(s, Result(NextServer(s), "scan_failed", {}, {}))
    BY <1>2 DEF AuditRaises
  <2>2. Truthful(Result(NextServer(s), "scan_failed", {}, {}))
    BY DEF Truthful, Result
  <2>3. QED
    BY <2>1, <2>2, AuditedResult
<1>3. ASSUME NEW s \in Scans, InsertScan(s)
      PROVE  \E w \in ScanInsert \union FindingInsert, left \in SUBSET Resources : Stores(s, w, left)
  <2> DEFINE w == [table |-> "audit_scans", server |-> Current(s).server,
                   row |-> <<s, position[s], Current(s).server, Current(s).status>>]
  <2>1. Storing(s) /\ pending[s] \in SUBSET Resources /\ stage[s] = "scanrow"
    BY <1>3 DEF InsertScan, Storing, Typed, TypeOK
  <2>2. w \in ScanInsert
    BY <2>1, TaskInserts
  <2>3. Stores(s, w, pending[s])
    BY <1>3, <2>1 DEF InsertScan, Stores
  <2> HIDE DEF w
  <2>4. QED
    BY <2>1, <2>2, <2>3
<1>4. ASSUME NEW s \in Scans, NEW x \in Resources, InsertFinding(s, x)
      PROVE  \E w \in ScanInsert \union FindingInsert, left \in SUBSET Resources : Stores(s, w, left)
  <2>1. Storing(s) /\ pending[s] \ {x} \in SUBSET Resources /\ x \in pending[s]
    BY <1>4 DEF InsertFinding, Storing, Typed, TypeOK
  <2>2. FindingRow(s, x) \in FindingInsert
    BY <2>1, TaskInserts
  <2>3. Stores(s, FindingRow(s, x), pending[s] \ {x})
    BY <1>4, <2>1 DEF InsertFinding, Stores
  <2>4. QED
    BY <2>1, <2>2, <2>3
<1>5. ASSUME NEW v \in Servers, NEW x \in Resources, Drift(v, x) PROVE Quiet
  BY <1>5 DEF Drift, Quiet, Auditing, task, tables, history
<1>6. CASE UNCHANGED vars
  BY <1>6 DEF vars, Quiet, Auditing
<1>7. QED
  BY <1>1, <1>2, <1>3, <1>4, <1>5, <1>6, QuietSteps DEF Next, Handler, Background, AllEnded

\* What the other kinds of steps leave alone or do to the stages.
LEMMA OtherSteps ==
  ASSUME Typed, NEW s \in Scans
  PROVE  /\ \A r : AddResult(s, r) =>
              /\ stage[s] = "audit"
              /\ results' = [results EXCEPT ![s] = Append(@, r)]
              /\ \E st \in {"json", "audit"} : stage' = [stage EXCEPT ![s] = st]
              /\ UNCHANGED <<baseline, cos, told, spoilt, unstored, older, position, marked,
                             pending, scanRows, rows, late>>
         /\ Answer(s) =>
              /\ stage[s] = "answer"
              /\ told' = [told EXCEPT ![s] = "report"]
              /\ position' = [position EXCEPT ![s] = NextTask(s, 1)]
              /\ NextTask(s, 1) \in Nat
              /\ \/ /\ stage' = [stage EXCEPT ![s] = "lookup"]
                    /\ NextTask(s, 1) \in 1..Len(results[s])
                 \/ /\ stage' = [stage EXCEPT ![s] = "done"]
                    /\ NextTask(s, 1) = Len(results[s]) + 1
              /\ UNCHANGED <<baseline, results, cos, spoilt, unstored, older, marked, pending,
                             scanRows, rows, late>>
         /\ Lookup(s) =>
              /\ stage[s] = "lookup" /\ stage' = [stage EXCEPT ![s] = "scanrow"]
              /\ \/ /\ marked' = [marked EXCEPT ![s] = Current(s).findings \intersect PreviousTitles(s)]
                    /\ spoilt' = spoilt
                 \/ /\ marked' = [marked EXCEPT ![s] = {}]
                    /\ spoilt' = spoilt \union {s}
              /\ pending' = [pending EXCEPT ![s] = Current(s).findings]
              /\ UNCHANGED <<baseline, results, cos, told, position, unstored, older,
                             scanRows, rows, late>>
<1>1. 1 \in 1..Len(results[s]) + 1
  BY Lengths
<1>2. NextTask(s, 1) \in Nat
  <2>1. Len(results[s]) \in Nat /\ NextTask(s, 1) \in 1..Len(results[s]) + 1
    BY <1>1, Lengths, NextTaskFacts
  <2>2. QED
    BY <2>1
<1>3. ASSUME NEW r, AddResult(s, r)
      PROVE  /\ stage[s] = "audit"
             /\ results' = [results EXCEPT ![s] = Append(@, r)]
             /\ \E st \in {"json", "audit"} : stage' = [stage EXCEPT ![s] = st]
             /\ UNCHANGED <<baseline, cos, told, spoilt, unstored, older, position, marked,
                            pending, scanRows, rows, late>>
  BY <1>3 DEF AddResult, Goto, world, task, tables
<1>4. ASSUME Answer(s)
      PROVE  /\ stage[s] = "answer" /\ StartTask(s, NextTask(s, 1))
             /\ told' = [told EXCEPT ![s] = "report"]
             /\ UNCHANGED <<baseline, results, cos, spoilt, unstored, older, marked, pending,
                            scanRows, rows, late>>
  BY <1>4 DEF Answer, world, tables, history
<1>5. ASSUME Lookup(s)
      PROVE  /\ stage[s] = "lookup" /\ stage' = [stage EXCEPT ![s] = "scanrow"]
             /\ \/ /\ marked' = [marked EXCEPT ![s] = Current(s).findings \intersect PreviousTitles(s)]
                   /\ spoilt' = spoilt
                \/ /\ marked' = [marked EXCEPT ![s] = {}]
                   /\ spoilt' = spoilt \union {s}
             /\ pending' = [pending EXCEPT ![s] = Current(s).findings]
             /\ UNCHANGED <<baseline, results, cos, told, position, unstored, older,
                             scanRows, rows, late>>
  BY <1>5 DEF Lookup, Goto, Spoil, world, tables
<1>6. QED
  BY <1>1, <1>2, <1>3, <1>4, <1>5, StartTaskEffect

\* What an insert of a task does to the stages.
LEMMA StoreSteps ==
  ASSUME Typed, NEW s \in Scans, NEW w \in ScanInsert \union FindingInsert,
         NEW left \in SUBSET Resources, Stores(s, w, left)
  PROVE  /\ stage[s] \in {"scanrow", "findings"} /\ For(w) = s /\ Insert(s, w)
         /\ w.server = Current(s).server
         /\ pending' = [pending EXCEPT ![s] = left]
         /\ UNCHANGED <<baseline, results, cos, told, marked, older>>
         /\ \/ /\ left # {} /\ position' = position
               /\ stage' = [stage EXCEPT ![s] = "findings"]
            \/ /\ left = {} /\ NextTask(s, position[s] + 1) \in Nat
               /\ position' = [position EXCEPT ![s] = NextTask(s, position[s] + 1)]
               /\ \/ /\ stage' = [stage EXCEPT ![s] = "lookup"]
                     /\ NextTask(s, position[s] + 1) \in 1..Len(results[s])
                  \/ /\ stage' = [stage EXCEPT ![s] = "done"]
                     /\ NextTask(s, position[s] + 1) = Len(results[s]) + 1
<1>1. Storing(s) /\ AfterWrite(s, left) /\ Insert(s, w)
  BY DEF Stores
<1>2. UNCHANGED <<baseline, results, cos, told, marked, older>>
  BY DEF Stores, world
<1>3. stage[s] \in {"scanrow", "findings"} /\ For(w) = s /\ w.server = Current(s).server
  BY DEF Stores, For, FindingRow
<1>4. NextTask(s, position[s] + 1) \in Nat
  <2>1. Len(results[s]) \in Nat /\ position[s] + 1 \in 1..Len(results[s]) + 1
    BY <1>1, Lengths
  <2>2. NextTask(s, position[s] + 1) \in position[s] + 1..Len(results[s]) + 1
    BY <2>1, Lengths, NextTaskFacts
  <2>3. QED
    BY <2>1, <2>2
<1>5. QED
  BY <1>1, <1>2, <1>3, <1>4, AfterWriteEffect

-----------------------------------------------------------------------------
(* Answers and reports *)

\* With a serialiser that takes its argument, a scan ends in an error only
\* because a call to another service failed for it.
THEOREM ErrorsHaveACause ==
  JsonModeAccepted => (Spec => []ErrorsAreExternal)
<1> SUFFICES ASSUME JsonModeAccepted PROVE Spec => []ErrorsAreExternal
  OBVIOUS
<1>1. Init => ErrorsAreExternal
  BY DEF Init, ErrorsAreExternal
<1>2. Typed /\ ErrorsAreExternal /\ [Next]_vars => ErrorsAreExternal'
  <2> SUFFICES ASSUME Typed, ErrorsAreExternal, [Next]_vars PROVE ErrorsAreExternal'
    OBVIOUS
  <2>0. ASSUME NEW s \in Scans, NEW st \in {"json", "audit", "lookup", "scanrow", "findings", "done"},
               stage' = [stage EXCEPT ![s] = st], spoilt \subseteq spoilt'
        PROVE  ErrorsAreExternal'
    BY <2>0 DEF ErrorsAreExternal, Typed, TypeOK
  <2>1. CASE Quiet
    BY <2>1 DEF Quiet, ErrorsAreExternal
  <2>2. ASSUME NEW s \in Scans, NEW r \in ResultType, AddResult(s, r) PROVE ErrorsAreExternal'
    BY <2>0, <2>2, OtherSteps
  <2>3. ASSUME NEW s \in Scans, Answer(s) PROVE ErrorsAreExternal'
    BY <2>0, <2>3, OtherSteps
  <2>4. ASSUME NEW s \in Scans, Lookup(s) PROVE ErrorsAreExternal'
    BY <2>0, <2>4, OtherSteps
  <2>5. ASSUME NEW s \in Scans, NEW w \in ScanInsert \union FindingInsert,
               NEW left \in SUBSET Resources, Stores(s, w, left)
        PROVE  ErrorsAreExternal'
    <3>1. spoilt \subseteq spoilt'
      BY <2>5, InsertEffect, StoreSteps
    <3>2. PICK st \in {"lookup", "findings", "done"} : stage' = [stage EXCEPT ![s] = st]
      BY <2>5, StoreSteps
    <3>3. QED
      BY <2>0, <3>1, <3>2
  <2>6. ASSUME NEW w \in late, LateWrite(w) PROVE ErrorsAreExternal'
    BY <2>6 DEF LateWrite, history, ErrorsAreExternal
  <2>7. QED
    BY <2>1, <2>2, <2>3, <2>4, <2>5, <2>6, StepKinds
<1>3. QED
  BY <1>1, <1>2, InitTyped, StepTyped, PTL DEF Spec

\* A server is called compliant only if no folder or service of the baseline
\* deviated and no share that is not hidden, whatever failed, but for shares a
\* cmdlet left out, or listed bare, while its script succeeded.
THEOREM CompliantIsClean == Spec => []CompliantMeansClean
<1> DEFINE Clean == \A s \in Scans : \A i \in DOMAIN results[s] : Truthful(results[s][i])
<1>1. Init => Clean
  BY EmptySeq DEF Init
<1>2. Typed /\ Clean /\ [Next]_vars => Clean'
  <2> SUFFICES ASSUME Typed, Clean, [Next]_vars PROVE Clean'
    OBVIOUS
  <2>1. ASSUME UNCHANGED <<baseline, results>> PROVE Clean'
    BY <2>1 DEF Truthful
  <2>2. ASSUME NEW s \in Scans, NEW r \in ResultType, AddResult(s, r), Truthful(r) PROVE Clean'
    <3>1. results' = [results EXCEPT ![s] = Append(@, r)] /\ baseline' = baseline
      BY <2>2, OtherSteps
    <3>2. /\ DOMAIN Append(results[s], r) = 1..Len(results[s]) + 1 /\ Len(results[s]) \in Nat
          /\ \A i \in 1..Len(results[s]) : Append(results[s], r)[i] = results[s][i]
          /\ Append(results[s], r)[Len(results[s]) + 1] = r
      BY Lengths, AppendProperties, LenProperties
    <3>3. \A i \in DOMAIN Append(results[s], r) : Truthful(Append(results[s], r)[i])
      <4>1. \A i \in 1..Len(results[s]) + 1 : i \in 1..Len(results[s]) \/ i = Len(results[s]) + 1
        BY <3>2
      <4>2. QED
        BY <2>2, <3>2, <4>1, Lengths
    <3>4. \A e \in Scans : results'[e] = IF e = s THEN Append(results[s], r) ELSE results[e]
      BY <3>1 DEF Typed, TypeOK
    <3>5. \A e \in Scans : \A i \in DOMAIN results'[e] : Truthful(results'[e][i])
      BY <3>3, <3>4
    <3>6. QED
      BY <3>1, <3>5 DEF Truthful
  <2>3. ASSUME NEW w \in late, LateWrite(w) PROVE UNCHANGED <<baseline, results>>
    BY <2>3 DEF LateWrite, world
  <2>4. QED
    BY <2>1, <2>2, <2>3, StepKinds, OtherSteps, StoreSteps DEF Quiet
<1>3. Clean => CompliantMeansClean
  BY DEF Truthful, CompliantMeansClean
<1>4. QED
  BY <1>1, <1>2, <1>3, InitTyped, StepTyped, PTL DEF Spec

\* What is late is an insert of a task.
LEMMA LateInserts ==
  ASSUME Typed
  PROVE  late \subseteq ScanInsert \union FindingInsert /\ TypeOK
BY DEF Typed, TypeOK

\* A scan that was answered, or has inserts behind or before it, has both its
\* reports in COS.
Backed ==
  /\ \A s \in Scans :
       /\ stage[s] = "html" => <<s, "json">> \in cos
       /\ stage[s] \in {"answer", "lookup", "scanrow", "findings", "done"} \/ told[s] = "report"
            => Uploaded(s)
  /\ \A row \in scanRows : Uploaded(row[1])
  /\ \A v \in Servers : \A row \in RowsOf(v) : Uploaded(row.scan)
  /\ \A w \in late : Uploaded(For(w))

\* Whoever is answered, and whoever reads the audit history, can get at the
\* reports, whatever fails or is carried out late.
THEOREM TracesAreReadable == Spec => []TracesHaveReports
<1>1. Init => Backed
  BY EmptySeq DEF Init, Backed, RowsOf
<1>2. Typed /\ Backed /\ [Next]_vars => Backed'
  <2> SUFFICES ASSUME Typed, Backed, [Next]_vars PROVE Backed'
    OBVIOUS
  <2>1. CASE Quiet
    <3>1. \A v \in Servers : RowsOf(v)' = RowsOf(v)
      BY <2>1 DEF Quiet, RowsOf
    <3>2. ASSUME NEW s \in Scans
          PROVE  /\ stage'[s] = "html" => <<s, "json">> \in cos'
                 /\ stage'[s] \in {"answer", "lookup", "scanrow", "findings", "done"}
                      \/ told'[s] = "report" => Uploaded(s)'
      BY <2>1 DEF Quiet, Backed, Uploaded
    <3>3. /\ \A row \in scanRows : Uploaded(row[1])'
          /\ \A v \in Servers : \A row \in RowsOf(v) : Uploaded(row.scan)'
          /\ \A w \in late : Uploaded(For(w))'
      BY <2>1 DEF Quiet, Backed, Uploaded
    <3>4. QED
      BY <2>1, <3>1, <3>2, <3>3 DEF Quiet, Backed, For
  <2>2. ASSUME NEW s \in Scans, NEW st, stage' = [stage EXCEPT ![s] = st], cos' = cos,
               st # "html", st \in {"answer", "lookup", "scanrow", "findings", "done"} => Uploaded(s),
               \A e \in Scans : told'[e] = "report" => told[e] = "report" \/ Uploaded(e)
        PROVE  \A e \in Scans :
                 /\ stage'[e] = "html" => <<e, "json">> \in cos'
                 /\ stage'[e] \in {"answer", "lookup", "scanrow", "findings", "done"}
                      \/ told'[e] = "report" => Uploaded(e)'
    BY <2>2 DEF Backed, Uploaded, Typed, TypeOK
  <2>3. ASSUME UNCHANGED <<scanRows, rows, late, cos>>,
               \A e \in Scans :
                 /\ stage'[e] = "html" => <<e, "json">> \in cos'
                 /\ stage'[e] \in {"answer", "lookup", "scanrow", "findings", "done"}
                      \/ told'[e] = "report" => Uploaded(e)'
        PROVE  Backed'
    BY <2>3 DEF Backed, Uploaded, RowsOf, For
  <2>4. ASSUME NEW s \in Scans, NEW r \in ResultType, AddResult(s, r) PROVE Backed'
    <3>1. PICK st \in {"json", "audit"} : stage' = [stage EXCEPT ![s] = st]
      BY <2>4, OtherSteps
    <3>2. UNCHANGED <<cos, told, scanRows, rows, late>>
      BY <2>4, OtherSteps
    <3>3. QED
      BY <2>2, <2>3, <3>1, <3>2
  <2>5. ASSUME NEW s \in Scans, Answer(s) PROVE Backed'
    <3>1. Uploaded(s)
      <4>1. stage[s] = "answer"
        BY <2>5, OtherSteps
      <4>2. QED
        BY <4>1 DEF Backed
    <3>2. \A e \in Scans : told'[e] = "report" => told[e] = "report" \/ Uploaded(e)
      <4>1. told' = [told EXCEPT ![s] = "report"]
        BY <2>5, OtherSteps
      <4>2. QED
        BY <3>1, <4>1 DEF Typed, TypeOK
    <3>3. QED
      BY <2>2, <2>3, <2>5, <3>1, <3>2, OtherSteps
  <2>6. ASSUME NEW s \in Scans, Lookup(s) PROVE Backed'
    <3>1. Uploaded(s)
      <4>1. stage[s] = "lookup"
        BY <2>6, OtherSteps
      <4>2. QED
        BY <4>1 DEF Backed
    <3>2. /\ stage' = [stage EXCEPT ![s] = "scanrow"]
          /\ UNCHANGED <<cos, told, scanRows, rows, late>>
      BY <2>6, OtherSteps
    <3>3. QED
      BY <2>2, <2>3, <3>1, <3>2
  <2>7. ASSUME NEW s \in Scans, NEW w \in ScanInsert \union FindingInsert,
               NEW left \in SUBSET Resources, Stores(s, w, left)
        PROVE  Backed'
    <3>1. Uploaded(s) /\ For(w) = s /\ cos' = cos /\ told' = told
      BY <2>7, StoreSteps DEF Backed
    <3>2. PICK st \in {"lookup", "findings", "done"} : stage' = [stage EXCEPT ![s] = st]
      BY <2>7, StoreSteps
    <3>3. /\ late' \subseteq late \union {w}
          /\ scanRows' \subseteq scanRows \union {r \in {w.row} : w.table = "audit_scans"}
          /\ \A v \in Servers : RowsOf(v)' \subseteq RowsOf(v) \union NewRows(w, v)
      BY <2>7, StoreSteps, InsertEffect
    <3>4. /\ \A row \in scanRows' : Uploaded(row[1])
          /\ \A v \in Servers : \A row \in RowsOf(v)' : Uploaded(row.scan)
          /\ \A v \in late' : Uploaded(For(v))
      BY <3>1, <3>3 DEF Backed, For, NewRows
    <3>5. \A e \in Scans :
            /\ stage'[e] = "html" => <<e, "json">> \in cos'
            /\ stage'[e] \in {"answer", "lookup", "scanrow", "findings", "done"}
                 \/ told'[e] = "report" => Uploaded(e)'
      BY <2>2, <3>1, <3>2
    <3>6. QED
      BY <3>1, <3>4, <3>5 DEF Backed, Uploaded, For
  <2>8. ASSUME NEW w \in late, LateWrite(w) PROVE Backed'
    <3>1. Write(w) /\ late' = late \ {w} /\ UNCHANGED <<stage, cos, told>> /\ Uploaded(For(w))
      BY <2>8 DEF LateWrite, Backed
    <3>2. /\ scanRows' = scanRows \union {r \in {w.row} : w.table = "audit_scans"}
          /\ \A v \in Servers : RowsOf(v)' = RowsOf(v) \union NewRows(w, v)
      BY <3>1, LateInserts, WriteRows
    <3>3. /\ \A row \in scanRows' : Uploaded(row[1])
          /\ \A v \in Servers : \A row \in RowsOf(v)' : Uploaded(row.scan)
          /\ \A v \in late' : Uploaded(For(v))
      BY <3>1, <3>2 DEF Backed, For, NewRows
    <3>4. QED
      BY <3>1, <3>3 DEF Backed, Uploaded, For
  <2>9. QED
    BY <2>1, <2>4, <2>5, <2>6, <2>7, <2>8, StepKinds
<1>3. Backed => TracesHaveReports
  BY DEF Backed, TracesHaveReports, Uploaded
<1>4. QED
  BY <1>1, <1>2, <1>3, InitTyped, StepTyped, PTL DEF Spec

-----------------------------------------------------------------------------
(* The audit history agrees with the reports *)

\* The row of audit_scans says what the result at its position says.
ScanAgrees(row) ==
  /\ row[2] \in DOMAIN results[row[1]]
  /\ LET result == results[row[1]][row[2]]
     IN  result.server = row[3] /\ result.status = row[4] /\ row[4] # "scan_failed"

\* The finding is one the scan of the row reported for the server.
FindingAgrees(v, row) ==
  \E i \in DOMAIN results[row.scan] :
    results[row.scan][i].server = v /\ row.title \in results[row.scan][i].findings

Agrees(w) ==
  /\ w.table = "audit_scans" => ScanAgrees(w.row)
  /\ w.table = "drift_findings" => FindingAgrees(w.server, w.row)

\* A background task has a result that was not SCAN_FAILED, and only findings
\* of that result are left to it; what it has written, or may still write, is
\* what the result says.
Agreement ==
  /\ \A s \in Scans : Storing(s) => Current(s).status # "scan_failed"
  /\ \A s \in Scans : stage[s] \in {"scanrow", "findings"} => pending[s] \subseteq Current(s).findings
  /\ \A row \in scanRows : ScanAgrees(row)
  /\ \A v \in Servers : \A row \in RowsOf(v) : FindingAgrees(v, row)
  /\ \A w \in late : Agrees(w)

\* Results are only ever added, so what agrees goes on to agree.
LEMMA GrownResults ==
  ASSUME Typed, NEW s \in Scans, NEW r, results' = [results EXCEPT ![s] = Append(@, r)]
  PROVE  \A e \in Scans :
           /\ DOMAIN results[e] \subseteq DOMAIN results'[e]
           /\ \A i \in DOMAIN results[e] : results'[e][i] = results[e][i]
           /\ e # s => results'[e] = results[e]
<1>1. results'[s] = Append(results[s], r) /\ \A e \in Scans : e # s => results'[e] = results[e]
  BY DEF Typed, TypeOK
<1>2. results[s] \in Seq(ResultType \union {r})
  <2>1. results[s] \in Seq(ResultType)
    BY Lengths
  <2>2. QED
    BY <2>1
<1>3. /\ DOMAIN results[s] = 1..Len(results[s]) /\ Len(results[s]) \in Nat
      /\ DOMAIN Append(results[s], r) = 1..Len(results[s]) + 1
      /\ \A i \in 1..Len(results[s]) : Append(results[s], r)[i] = results[s][i]
  BY <1>2, AppendProperties, LenProperties
<1>4. QED
  BY <1>1, <1>3

LEMMA StillAgrees ==
  ASSUME Typed,
         \A e \in Scans : /\ DOMAIN results[e] \subseteq DOMAIN results'[e]
                          /\ \A i \in DOMAIN results[e] : results'[e][i] = results[e][i]
  PROVE  /\ \A row \in Scans \X Nat \X Servers \X Statuses : ScanAgrees(row) => ScanAgrees(row)'
         /\ \A v \in Servers, row \in RowType : FindingAgrees(v, row) => FindingAgrees(v, row)'
         /\ \A w \in ScanInsert \union FindingInsert : Agrees(w) => Agrees(w)'
<1>1. \A row \in Scans \X Nat \X Servers \X Statuses : ScanAgrees(row) => ScanAgrees(row)'
  <2>1. ASSUME NEW row \in Scans \X Nat \X Servers \X Statuses, ScanAgrees(row)
        PROVE  ScanAgrees(row)'
    <3>1. row[1] \in Scans
      OBVIOUS
    <3>2. QED
      BY <2>1, <3>1 DEF ScanAgrees
  <2>2. QED
    BY <2>1
<1>2. \A v \in Servers, row \in RowType : FindingAgrees(v, row) => FindingAgrees(v, row)'
  BY DEF FindingAgrees, RowType
<1>3. \A w \in ScanInsert \union FindingInsert :
        /\ w.table = "audit_scans" => w.row \in Scans \X Nat \X Servers \X Statuses
        /\ w.table = "drift_findings" => w.row \in RowType /\ w.server \in Servers
  BY DEF ScanInsert, FindingInsert
<1>4. ASSUME NEW w \in ScanInsert \union FindingInsert, Agrees(w) PROVE Agrees(w)'
  BY <1>1, <1>2, <1>3, <1>4 DEF Agrees
<1>5. QED
  BY <1>1, <1>2, <1>4

LEMMA RowTypes ==
  ASSUME Typed
  PROVE  /\ \A row \in scanRows : row \in Scans \X Nat \X Servers \X Statuses
         /\ \A v \in Servers : \A row \in RowsOf(v) : row \in RowType
<1>1. ASSUME NEW v \in Servers, NEW row \in RowsOf(v) PROVE row \in RowType
  <2>1. rows[v] \in Seq(RowType)
    BY DEF Typed, TypeOK
  <2>2. DOMAIN rows[v] = 1..Len(rows[v]) /\ \A i \in 1..Len(rows[v]) : rows[v][i] \in RowType
    BY <2>1, LenProperties, ElementOfSeq
  <2>3. QED
    BY <2>2 DEF RowsOf
<1>2. QED
  BY <1>1 DEF Typed, TypeOK

\* What is written is what the current result says.
LEMMA StoredAgrees ==
  ASSUME Typed, Agreement, NEW s \in Scans, NEW w \in ScanInsert \union FindingInsert,
         NEW left \in SUBSET Resources, Stores(s, w, left)
  PROVE  Agrees(w)
<1>1. Storing(s) /\ position[s] \in DOMAIN results[s] /\ Current(s).status # "scan_failed"
  BY Lengths DEF Stores, Agreement
<1>2. CASE /\ stage[s] = "scanrow"
           /\ w = [table |-> "audit_scans", server |-> Current(s).server,
                   row |-> <<s, position[s], Current(s).server, Current(s).status>>]
  BY <1>1, <1>2 DEF Agrees, ScanAgrees, Current
<1>3. ASSUME stage[s] = "findings", NEW x \in pending[s], w = FindingRow(s, x)
      PROVE  Agrees(w)
  <2>1. x \in Current(s).findings
    BY <1>3 DEF Agreement
  <2>2. w.table = "drift_findings" /\ w.server = Current(s).server /\ w.row.scan = s /\ w.row.title = x
    BY <1>3 DEF FindingRow
  <2>3. QED
    BY <1>1, <2>1, <2>2 DEF Agrees, FindingAgrees, Current
<1>4. QED
  BY <1>2, <1>3 DEF Stores

\* The audit history never says of a server what no report says, and nothing
\* about a server that could not be audited, in any interleaving of scans.
THEOREM HistoryIsTruthful == Spec => []HistoryAgreesWithReport
<1>1. Init => Agreement
  BY EmptySeq DEF Init, Agreement, RowsOf, Storing
<1>2. Typed /\ Agreement /\ [Next]_vars => Agreement'
  <2> SUFFICES ASSUME Typed, Agreement, [Next]_vars PROVE Agreement'
    OBVIOUS
  <2>1. CASE Quiet
    <3>1. \A s \in Scans : (Storing(s)' => Storing(s)) /\ Current(s)' = Current(s)
      BY <2>1 DEF Quiet, Storing, Current
    <3>2. \A v \in Servers : RowsOf(v)' = RowsOf(v)
      BY <2>1 DEF Quiet, RowsOf
    <3>3. \A row : ScanAgrees(row)' <=> ScanAgrees(row)
      BY <2>1 DEF Quiet, ScanAgrees
    <3>4. \A v, row : FindingAgrees(v, row)' <=> FindingAgrees(v, row)
      BY <2>1 DEF Quiet, FindingAgrees
    <3>5. QED
      BY <2>1, <3>1, <3>2, <3>3, <3>4 DEF Quiet, Agreement, Agrees
  <2>2. ASSUME NEW s \in Scans, NEW r \in ResultType, AddResult(s, r) PROVE Agreement'
    <3>1. /\ stage[s] = "audit" /\ results' = [results EXCEPT ![s] = Append(@, r)]
          /\ UNCHANGED <<position, pending, scanRows, rows, late>>
      BY <2>2, OtherSteps
    <3>2. PICK st \in {"json", "audit"} : stage' = [stage EXCEPT ![s] = st]
      BY <2>2, OtherSteps
    <3>3. \A e \in Scans : Storing(e)' => Storing(e) /\ e # s
      BY <3>1, <3>2 DEF Storing, Typed, TypeOK
    <3>4. \A e \in Scans : e # s => Current(e)' = Current(e) /\ stage'[e] = stage[e]
      BY <3>1, <3>2 DEF Current, Typed, TypeOK
    <3>5. /\ \A e \in Scans : Storing(e)' => Current(e)'.status # "scan_failed"
          /\ \A e \in Scans : stage'[e] \in {"scanrow", "findings"} =>
                                pending'[e] \subseteq Current(e)'.findings
      BY <3>1, <3>3, <3>4 DEF Agreement, Storing
    <3>6. /\ \A row \in scanRows : ScanAgrees(row)'
          /\ \A v \in Servers : \A row \in RowsOf(v) : FindingAgrees(v, row)'
          /\ \A w \in late : Agrees(w)'
      BY <3>1, GrownResults, StillAgrees, RowTypes, LateInserts DEF Agreement
    <3>7. \A v \in Servers : RowsOf(v)' = RowsOf(v)
      BY <3>1 DEF RowsOf
    <3>8. QED
      BY <3>1, <3>5, <3>6, <3>7 DEF Agreement
  <2>3. ASSUME NEW s \in Scans, NEW k \in Nat, position' = [position EXCEPT ![s] = k], results' = results,
               \/ stage' = [stage EXCEPT ![s] = "lookup"] /\ results[s][k].status # "scan_failed"
               \/ stage' = [stage EXCEPT ![s] = "done"],
               \A e \in Scans : e # s => pending'[e] = pending[e]
        PROVE  /\ \A e \in Scans : Storing(e)' => Current(e)'.status # "scan_failed"
               /\ \A e \in Scans : stage'[e] \in {"scanrow", "findings"} =>
                                     pending'[e] \subseteq Current(e)'.findings
    <3>1. position'[s] = k /\ \A e \in Scans : e # s => position'[e] = position[e] /\ stage'[e] = stage[e]
      BY <2>3 DEF Typed, TypeOK
    <3>2. /\ stage'[s] = "lookup" => Current(s)'.status # "scan_failed"
          /\ stage'[s] \in {"lookup", "done"}
      BY <2>3, <3>1 DEF Current, Typed, TypeOK
    <3>3. \A e \in Scans : e # s => Current(e)' = Current(e) /\ (Storing(e)' <=> Storing(e))
      BY <2>3, <3>1 DEF Current, Storing
    <3>4. QED
      BY <2>3, <3>1, <3>2, <3>3 DEF Agreement, Storing
  <2>4. ASSUME NEW s \in Scans, Answer(s) PROVE Agreement'
    <3>1. /\ position' = [position EXCEPT ![s] = NextTask(s, 1)] /\ NextTask(s, 1) \in Nat
          /\ UNCHANGED <<results, pending, scanRows, rows, late>>
      BY <2>4, OtherSteps
    <3>2. NextTask(s, 1) \in DOMAIN results[s] => results[s][NextTask(s, 1)].status # "scan_failed"
      BY Lengths, NextTaskFacts
    <3>3. \/ stage' = [stage EXCEPT ![s] = "lookup"] /\ results[s][NextTask(s, 1)].status # "scan_failed"
          \/ stage' = [stage EXCEPT ![s] = "done"]
      BY <2>4, <3>2, OtherSteps, Lengths
    <3>4. /\ \A e \in Scans : Storing(e)' => Current(e)'.status # "scan_failed"
          /\ \A e \in Scans : stage'[e] \in {"scanrow", "findings"} =>
                                pending'[e] \subseteq Current(e)'.findings
      BY <2>3, <3>1, <3>3
    <3>5. QED
      BY <3>1, <3>4 DEF Agreement, Agrees, ScanAgrees, FindingAgrees, RowsOf
  <2>5. ASSUME NEW s \in Scans, Lookup(s) PROVE Agreement'
    <3>1. /\ stage[s] = "lookup" /\ stage' = [stage EXCEPT ![s] = "scanrow"]
          /\ pending' = [pending EXCEPT ![s] = Current(s).findings]
          /\ UNCHANGED <<results, position, scanRows, rows, late>>
      BY <2>5, OtherSteps
    <3>2. \A e \in Scans : Current(e)' = Current(e) /\ (Storing(e)' <=> Storing(e))
      BY <3>1 DEF Current, Storing, Typed, TypeOK
    <3>3. \A e \in Scans : stage'[e] \in {"scanrow", "findings"} => pending'[e] \subseteq Current(e).findings
      BY <3>1 DEF Agreement, Typed, TypeOK
    <3>4. QED
      BY <3>1, <3>2, <3>3 DEF Agreement, Agrees, ScanAgrees, FindingAgrees, RowsOf
  <2>6. ASSUME NEW s \in Scans, NEW w \in ScanInsert \union FindingInsert,
               NEW left \in SUBSET Resources, Stores(s, w, left)
        PROVE  Agreement'
    <3>1. /\ stage[s] \in {"scanrow", "findings"} /\ results' = results
          /\ pending' = [pending EXCEPT ![s] = left]
          /\ Storing(s) /\ left \subseteq pending[s]
      BY <2>6, StoreSteps DEF Stores
    <3>2. /\ \A e \in Scans : Storing(e)' => Current(e)'.status # "scan_failed"
          /\ \A e \in Scans : stage'[e] \in {"scanrow", "findings"} =>
                                pending'[e] \subseteq Current(e)'.findings
      <4>1. CASE position' = position /\ stage' = [stage EXCEPT ![s] = "findings"]
        <5>1. \A e \in Scans : Current(e)' = Current(e) /\ (Storing(e)' <=> Storing(e))
          BY <3>1, <4>1 DEF Current, Storing, Typed, TypeOK
        <5>2. \A e \in Scans : stage'[e] \in {"scanrow", "findings"} =>
                                 pending'[e] \subseteq Current(e).findings
          BY <3>1, <4>1 DEF Agreement, Typed, TypeOK
        <5>3. QED
          BY <5>1, <5>2 DEF Agreement
      <4>2. CASE /\ position' = [position EXCEPT ![s] = NextTask(s, position[s] + 1)]
                 /\ NextTask(s, position[s] + 1) \in Nat
                 /\ \/ /\ stage' = [stage EXCEPT ![s] = "lookup"]
                       /\ NextTask(s, position[s] + 1) \in 1..Len(results[s])
                    \/ stage' = [stage EXCEPT ![s] = "done"]
        <5>1. position[s] + 1 \in 1..Len(results[s]) + 1
          BY <3>1, Lengths
        <5>2. NextTask(s, position[s] + 1) \in DOMAIN results[s] =>
                results[s][NextTask(s, position[s] + 1)].status # "scan_failed"
          BY <5>1, Lengths, NextTaskFacts
        <5>3. DOMAIN results[s] = 1..Len(results[s])
          BY Lengths
        <5>4. \A e \in Scans : e # s => pending'[e] = pending[e]
          BY <3>1 DEF Typed, TypeOK
        <5>5. QED
          BY <2>3, <3>1, <4>2, <5>2, <5>3, <5>4
      <4>3. QED
        BY <2>6, <4>1, <4>2, StoreSteps
    <3>3. /\ late' \subseteq late \union {w}
          /\ scanRows' \subseteq scanRows \union {r \in {w.row} : w.table = "audit_scans"}
          /\ \A v \in Servers : RowsOf(v)' \subseteq RowsOf(v) \union NewRows(w, v)
      BY <2>6, StoreSteps, InsertEffect
    <3>4. Agrees(w)
      BY <2>6, StoredAgrees
    <3>5. /\ \A row \in scanRows' : ScanAgrees(row)
          /\ \A v \in Servers : \A row \in RowsOf(v)' : FindingAgrees(v, row)
          /\ \A v \in late' : Agrees(v)
      BY <3>3, <3>4 DEF Agreement, Agrees, NewRows
    <3>6. QED
      BY <3>1, <3>2, <3>5 DEF Agreement, Agrees, ScanAgrees, FindingAgrees
  <2>7. ASSUME NEW w \in late, LateWrite(w) PROVE Agreement'
    <3>1. /\ Write(w) /\ late' = late \ {w} /\ UNCHANGED <<stage, results, position, pending>>
          /\ Agrees(w)
      BY <2>7 DEF LateWrite, Agreement, task
    <3>2. /\ scanRows' = scanRows \union {r \in {w.row} : w.table = "audit_scans"}
          /\ \A v \in Servers : RowsOf(v)' = RowsOf(v) \union NewRows(w, v)
      BY <3>1, LateInserts, WriteRows
    <3>3. /\ \A row \in scanRows' : ScanAgrees(row)
          /\ \A v \in Servers : \A row \in RowsOf(v)' : FindingAgrees(v, row)
          /\ \A v \in late' : Agrees(v)
      BY <3>1, <3>2 DEF Agreement, Agrees, NewRows
    <3>4. QED
      BY <3>1, <3>3 DEF Agreement, Agrees, ScanAgrees, FindingAgrees, Storing, Current
  <2>8. QED
    BY <2>1, <2>2, <2>4, <2>5, <2>6, <2>7, StepKinds
<1>3. Agreement => HistoryAgreesWithReport
  BY DEF Agreement, HistoryAgreesWithReport, ScanAgrees, FindingAgrees
<1>4. QED
  BY <1>1, <1>2, <1>3, InitTyped, StepTyped, PTL DEF Spec

-----------------------------------------------------------------------------
(* Recurring findings *)

\* The insert of a finding that is left to the task of scan s.
IsInsertOf(s, w) == stage[s] = "findings" /\ \E x \in pending[s] : w = FindingRow(s, x)

\* The rows that may be appended for the server.
Inserted(v) ==
  {w.row : w \in {u \in FindingInsert :
                    u.server = v /\ (u \in late \/ \E s \in Scans : IsInsertOf(s, u))}}

\* What a step may do to the audit history and to the tasks that read it.
LEMMA Frame ==
  ASSUME Typed, [Next]_vars
  PROVE  /\ \A v \in Servers :
              /\ RowsOf(v) \subseteq RowsOf(v)' /\ RowsOf(v)' \ RowsOf(v) \subseteq Inserted(v)
              /\ Grown(v, Inserted(v))
         /\ scanRows \subseteq scanRows' /\ unstored \subseteq unstored' /\ spoilt \subseteq spoilt'
         /\ \A w \in late' \ late :
              \E s \in Scans : /\ For(w) = s /\ s \in spoilt' /\ stage[s] # "unsent"
                               /\ w.table = "drift_findings" => IsInsertOf(s, w)
         /\ \A s \in Scans :
              /\ stage'[s] \in {"scanrow", "findings"} =>
                   /\ Current(s)' = Current(s)
                   /\ \/ Lookup(s) /\ UNCHANGED <<rows, older>>
                      \/ /\ stage[s] \in {"scanrow", "findings"}
                         /\ marked'[s] = marked[s] /\ pending'[s] \subseteq pending[s]
              /\ stage[s] = "done" => stage'[s] = "done"
              /\ stage'[s] = "unsent" => stage[s] = "unsent"
              /\ \/ older'[s] = older[s]
                 \/ stage[s] = "unsent" /\ older'[s] = {q \in Scans : stage[q] = "done"}
<1> DEFINE HistoryPart ==
             /\ \A v \in Servers :
                  /\ RowsOf(v) \subseteq RowsOf(v)' /\ RowsOf(v)' \ RowsOf(v) \subseteq Inserted(v)
                  /\ Grown(v, Inserted(v))
             /\ scanRows \subseteq scanRows' /\ unstored \subseteq unstored' /\ spoilt \subseteq spoilt'
             /\ \A w \in late' \ late :
                  \E s \in Scans : /\ For(w) = s /\ s \in spoilt' /\ stage[s] # "unsent"
                                   /\ w.table = "drift_findings" => IsInsertOf(s, w)
           TaskPart(s) ==
             /\ stage'[s] \in {"scanrow", "findings"} =>
                  /\ Current(s)' = Current(s)
                  /\ \/ Lookup(s) /\ UNCHANGED <<rows, older>>
                     \/ /\ stage[s] \in {"scanrow", "findings"}
                        /\ marked'[s] = marked[s] /\ pending'[s] \subseteq pending[s]
             /\ stage[s] = "done" => stage'[s] = "done"
             /\ stage'[s] = "unsent" => stage[s] = "unsent"
             /\ \/ older'[s] = older[s]
                \/ stage[s] = "unsent" /\ older'[s] = {q \in Scans : stage[q] = "done"}
<1>1. ASSUME UNCHANGED <<scanRows, rows, late, unstored>>, spoilt \subseteq spoilt' PROVE HistoryPart
  <2>1. \A v \in Servers : Grown(v, Inserted(v)) /\ RowsOf(v)' = RowsOf(v)
    BY <1>1, Unchanged DEF Typed
  <2>2. QED
    BY <1>1, <2>1
<1>2. ASSUME NEW s \in Scans, NEW e \in Scans, e # s, UNCHANGED <<marked, older>>,
             stage'[e] = stage[e], position'[e] = position[e], pending'[e] = pending[e],
             results'[e] = results[e]
      PROVE  TaskPart(e)
  BY <1>2 DEF Current
<1>3. CASE Quiet
  <2>1. ASSUME NEW s \in Scans PROVE TaskPart(s)
    BY <1>3 DEF Quiet, Current
  <2>2. HistoryPart
    BY <1>1, <1>3 DEF Quiet
  <2>3. QED
    BY <2>1, <2>2
<1>4. ASSUME NEW s \in Scans, NEW r \in ResultType, AddResult(s, r)
      PROVE  HistoryPart /\ \A e \in Scans : TaskPart(e)
  <2>1. /\ stage[s] = "audit" /\ results' = [results EXCEPT ![s] = Append(@, r)]
        /\ UNCHANGED <<spoilt, unstored, older, position, marked, pending, scanRows, rows, late>>
    BY <1>4, OtherSteps
  <2>2. PICK st \in {"json", "audit"} : stage' = [stage EXCEPT ![s] = st]
    BY <1>4, OtherSteps
  <2>3. HistoryPart
    BY <1>1, <2>1
  <2>4. \A e \in Scans : e # s => stage'[e] = stage[e] /\ results'[e] = results[e]
    BY <2>1, <2>2 DEF Typed, TypeOK
  <2>5. \A e \in Scans : e # s => TaskPart(e)
    BY <1>2, <2>1, <2>4
  <2>6. TaskPart(s)
    BY <2>1, <2>2 DEF Typed, TypeOK
  <2>7. QED
    BY <2>3, <2>5, <2>6
<1>5. ASSUME NEW s \in Scans, Answer(s)
      PROVE  HistoryPart /\ \A e \in Scans : TaskPart(e)
  <2>1. /\ stage[s] = "answer"
        /\ UNCHANGED <<results, spoilt, unstored, older, marked, pending, scanRows, rows, late>>
        /\ \E st \in {"lookup", "done"} : stage' = [stage EXCEPT ![s] = st]
        /\ \E k \in Nat : position' = [position EXCEPT ![s] = k]
    BY <1>5, OtherSteps
  <2>2. HistoryPart
    BY <1>1, <2>1
  <2>3. /\ \A e \in Scans : e # s => stage'[e] = stage[e] /\ position'[e] = position[e]
        /\ stage'[s] \in {"lookup", "done"}
    BY <2>1 DEF Typed, TypeOK
  <2>4. \A e \in Scans : e # s => TaskPart(e)
    BY <1>2, <2>1, <2>3
  <2>5. TaskPart(s)
    BY <2>1, <2>3
  <2>6. QED
    BY <2>2, <2>4, <2>5
<1>6. ASSUME NEW s \in Scans, Lookup(s)
      PROVE  HistoryPart /\ \A e \in Scans : TaskPart(e)
  <2>1. /\ stage[s] = "lookup" /\ stage' = [stage EXCEPT ![s] = "scanrow"]
        /\ pending' = [pending EXCEPT ![s] = Current(s).findings]
        /\ UNCHANGED <<results, position, unstored, older, scanRows, rows, late>>
        /\ spoilt \subseteq spoilt'
    BY <1>6, OtherSteps
  <2>2. \E m : marked' = [marked EXCEPT ![s] = m]
    BY <1>6, OtherSteps
  <2>3. HistoryPart
    BY <1>1, <2>1
  <2>4. \A e \in Scans : e # s => /\ stage'[e] = stage[e] /\ pending'[e] = pending[e]
                                  /\ marked'[e] = marked[e]
    BY <2>1, <2>2 DEF Typed, TypeOK
  <2>5. \A e \in Scans : e # s => TaskPart(e)
    BY <2>1, <2>4 DEF Current
  <2>6. TaskPart(s)
    BY <1>6, <2>1 DEF Current, Typed, TypeOK
  <2>7. QED
    BY <2>3, <2>5, <2>6
<1>7. ASSUME NEW s \in Scans, NEW w \in ScanInsert \union FindingInsert,
             NEW left \in SUBSET Resources, Stores(s, w, left)
      PROVE  HistoryPart /\ \A e \in Scans : TaskPart(e)
  <2>1. /\ stage[s] \in {"scanrow", "findings"} /\ For(w) = s
        /\ pending' = [pending EXCEPT ![s] = left] /\ left \subseteq pending[s]
        /\ UNCHANGED <<results, marked, older>>
        /\ w.table = "drift_findings" => IsInsertOf(s, w)
    BY <1>7, StoreSteps DEF Stores, IsInsertOf
  <2>2. /\ late' \subseteq late \union {w} /\ spoilt \subseteq spoilt'
        /\ scanRows \subseteq scanRows' /\ unstored \subseteq unstored'
        /\ late' = late \/ s \in spoilt'
        /\ \A v \in Servers :
             /\ RowsOf(v) \subseteq RowsOf(v)'
             /\ RowsOf(v)' \subseteq RowsOf(v) \union NewRows(w, v)
             /\ Grown(v, NewRows(w, v))
    BY <1>7, InsertEffect, StoreSteps
  <2>3. \A v \in Servers : NewRows(w, v) \subseteq Inserted(v)
    <3>1. w.table = "drift_findings" => w \in FindingInsert
      BY DEF ScanInsert, FindingInsert
    <3>2. QED
      BY <2>1, <3>1 DEF NewRows, Inserted
  <2>4. HistoryPart
    <3>1. \A v \in Servers : Grown(v, Inserted(v))
      BY <2>2, <2>3 DEF Grown
    <3>2. QED
      BY <2>1, <2>2, <2>3, <3>1
  <2>5. \/ position' = position /\ stage' = [stage EXCEPT ![s] = "findings"]
        \/ /\ \E k \in Nat : position' = [position EXCEPT ![s] = k]
           /\ \E st \in {"lookup", "done"} : stage' = [stage EXCEPT ![s] = st]
    BY <1>7, StoreSteps
  <2>6. /\ \A e \in Scans : e # s => /\ stage'[e] = stage[e] /\ position'[e] = position[e]
                                     /\ pending'[e] = pending[e]
        /\ pending'[s] = left
        /\ \/ stage'[s] = "findings" /\ position'[s] = position[s]
           \/ stage'[s] \in {"lookup", "done"}
    BY <2>1, <2>5 DEF Typed, TypeOK
  <2>7. \A e \in Scans : e # s => TaskPart(e)
    BY <1>2, <2>1, <2>6
  <2>8. TaskPart(s)
    BY <2>1, <2>6 DEF Current
  <2>9. QED
    BY <2>4, <2>7, <2>8
<1>8. ASSUME NEW w \in late, LateWrite(w)
      PROVE  HistoryPart /\ \A e \in Scans : TaskPart(e)
  <2>1. /\ Write(w) /\ late' = late \ {w} /\ w \in ScanInsert \union FindingInsert
        /\ UNCHANGED <<stage, results, position, marked, pending, spoilt, unstored, older>>
    BY <1>8, LateInserts DEF LateWrite, task, history
  <2>2. /\ scanRows \subseteq scanRows'
        /\ \A v \in Servers : RowsOf(v)' = RowsOf(v) \union NewRows(w, v) /\ Grown(v, NewRows(w, v))
    BY <2>1, LateInserts, WriteRows
  <2>3. \A v \in Servers : NewRows(w, v) \subseteq Inserted(v)
    <3>1. w.table = "drift_findings" => w \in FindingInsert
      BY <2>1 DEF ScanInsert, FindingInsert
    <3>2. QED
      BY <3>1 DEF NewRows, Inserted
  <2>4. HistoryPart
    <3>1. \A v \in Servers : Grown(v, Inserted(v))
      BY <2>2, <2>3 DEF Grown
    <3>2. QED
      BY <2>1, <2>2, <2>3, <3>1
  <2>5. \A e \in Scans : TaskPart(e)
    BY <2>1 DEF Current
  <2>6. QED
    BY <2>4, <2>5
<1> HIDE DEF HistoryPart, TaskPart
<1>9. HistoryPart /\ \A e \in Scans : TaskPart(e)
  <2>1. CASE Quiet
    BY <1>3, <2>1 DEF HistoryPart, TaskPart
  <2>2. QED
    BY <1>4, <1>5, <1>6, <1>7, <1>8, <2>1, StepKinds
<1>10. QED
  BY <1>9 DEF HistoryPart, TaskPart

\* The rows of other scans than s from the j-th row of the server on.
Since(v, j, s) == {k \in DOMAIN rows[v] : k >= j /\ rows[v][k].scan # s}

\* They are only ever more.
LEMMA SinceGrows ==
  ASSUME NEW v, NEW new, Grown(v, new), NEW j \in 1..Len(rows[v]), NEW s
  PROVE  /\ IsFiniteSet(Since(v, j, s)) /\ Cardinality(Since(v, j, s)) \in Nat
         /\ Cardinality(Since(v, j, s)') \in Nat
         /\ Cardinality(Since(v, j, s)) <= Cardinality(Since(v, j, s)')
<1>1. Since(v, j, s) \in SUBSET (1..Len(rows[v])) /\ Since(v, j, s)' \in SUBSET (1..Len(rows'[v]))
  BY DEF Since, Grown
<1>2. /\ IsFiniteSet(Since(v, j, s)) /\ Cardinality(Since(v, j, s)) \in Nat
      /\ IsFiniteSet(Since(v, j, s)') /\ Cardinality(Since(v, j, s)') \in Nat
  BY <1>1, CountOfPositions DEF Grown
<1>3. Since(v, j, s) \subseteq Since(v, j, s)'
  BY DEF Since, Grown
<1>4. QED
  BY <1>2, <1>3, FS_Subset

\* What the lookup of a task finds are titles other scans stored for its
\* server, and all of them that so few rows of other scans follow.
LEMMA PreviousFacts ==
  ASSUME Typed, NEW s \in Scans, stage[s] = "lookup"
  PROVE  LET v == Current(s).server
         IN  /\ v \in Servers
             /\ \A x \in PreviousTitles(s) :
                  \E other \in RowsOf(v) : other.scan # s /\ other.title = x
             /\ \A j \in DOMAIN rows[v] :
                  rows[v][j].scan # s /\ Cardinality(Since(v, j, s)) <= HistoryLimit =>
                    rows[v][j].title \in PreviousTitles(s)
<1> DEFINE v == Current(s).server
           others == {i \in DOMAIN rows[v] : rows[v][i].scan # s}
<1>1. v \in Servers
  BY Lengths DEF Storing, ResultType
<1>2. /\ DOMAIN rows[v] = 1..Len(rows[v]) /\ Len(rows[v]) \in Nat
  BY <1>1, LenProperties DEF Typed, TypeOK
<1> HIDE DEF v
<1>3. PreviousTitles(s) =
        {rows[v][i].title : i \in {k \in others : Cardinality({j \in others : j > k}) < HistoryLimit}}
  BY DEF PreviousTitles, Newest, v
<1>4. \A x \in PreviousTitles(s) : \E other \in RowsOf(v) : other.scan # s /\ other.title = x
  BY <1>3 DEF RowsOf
<1>5. ASSUME NEW j \in others, Cardinality(Since(v, j, s)) <= HistoryLimit
      PROVE  rows[v][j].title \in PreviousTitles(s)
  <2> DEFINE after == {k \in others : k > j}
  <2>1. after = Since(v, j, s) \ {j} /\ j \in Since(v, j, s)
    BY <1>2 DEF Since
  <2>2. Since(v, j, s) \in SUBSET (1..Len(rows[v]))
    BY <1>2 DEF Since
  <2>3. IsFiniteSet(Since(v, j, s)) /\ Cardinality(Since(v, j, s)) \in Nat
    BY <1>2, <2>2, CountOfPositions
  <2>4. Cardinality(after) = Cardinality(Since(v, j, s)) - 1
    BY <2>1, <2>3, FS_RemoveElement
  <2>5. HistoryLimit \in Nat
    BY ConstantsAssumption
  <2> HIDE DEF after
  <2>6. Cardinality(after) < HistoryLimit
    BY <1>5, <2>3, <2>4, <2>5
  <2>7. QED
    BY <1>3, <2>6 DEF after
<1>6. QED
  BY <1>1, <1>4, <1>5 DEF v

\* Another scan than s stored the title for the server.
Precedent(v, s, x) == \E other \in RowsOf(v) : other.scan # s /\ other.title = x

\* Titles are marked, and findings written as recurring, only with a precedent.
Precedents ==
  /\ \A s \in Scans : stage[s] \in {"scanrow", "findings"} =>
       \A x \in marked[s] : Precedent(Current(s).server, s, x)
  /\ \A v \in Servers : \A row \in RowsOf(v) : ~row.isNew => Precedent(v, row.scan, row.title)
  /\ \A w \in late : w.table = "drift_findings" /\ ~w.row.isNew =>
       Precedent(w.server, w.row.scan, w.row.title)

\* A scan never takes its own rows for the history of a server, not even if
\* the request names the server twice or rows are written late.
THEOREM RecurringIsPreceded == Spec => []RecurringHasPrecedent
<1>1. Init => Precedents
  BY EmptySeq DEF Init, Precedents, RowsOf
<1>2. Typed /\ Precedents /\ [Next]_vars => Precedents'
  <2> SUFFICES ASSUME Typed, Precedents, [Next]_vars PROVE Precedents'
    OBVIOUS
  <2>1. \A v \in Servers : \A s, x : Precedent(v, s, x) => Precedent(v, s, x)'
    BY Frame DEF Precedent
  <2>2. ASSUME NEW s \in Scans, stage'[s] \in {"scanrow", "findings"}, NEW x \in marked'[s]
        PROVE  Precedent(Current(s).server, s, x)'
    <3>1. CASE Lookup(s)
      <4>1. stage[s] = "lookup" /\ Current(s)' = Current(s)
        BY <2>2, <3>1, Frame, OtherSteps
      <4>2. x \in PreviousTitles(s)
        <5>1. \/ marked' = [marked EXCEPT ![s] = Current(s).findings \intersect PreviousTitles(s)]
              \/ marked' = [marked EXCEPT ![s] = {}]
          BY <3>1, OtherSteps
        <5>2. QED
          BY <2>2, <5>1 DEF Typed, TypeOK
      <4>3. Current(s).server \in Servers /\ Precedent(Current(s).server, s, x)
        BY <4>1, <4>2, PreviousFacts DEF Precedent
      <4>4. QED
        BY <2>1, <4>1, <4>3
    <3>2. CASE stage[s] \in {"scanrow", "findings"} /\ marked'[s] = marked[s]
      <4>1. Precedent(Current(s).server, s, x) /\ Current(s)' = Current(s)
        BY <2>2, <3>2, Frame DEF Precedents
      <4>2. Current(s).server \in Servers
        BY <3>2, Lengths DEF Storing, ResultType
      <4>3. QED
        BY <2>1, <4>1, <4>2
    <3>3. QED
      BY <2>2, <3>1, <3>2, Frame
  <2>3. ASSUME NEW w \in FindingInsert, w \in late \/ \E s \in Scans : IsInsertOf(s, w), ~w.row.isNew
        PROVE  Precedent(w.server, w.row.scan, w.row.title)
    <3>1. CASE w \in late
      BY <2>3, <3>1 DEF Precedents, FindingInsert
    <3>2. ASSUME NEW s \in Scans, IsInsertOf(s, w)
          PROVE  Precedent(w.server, w.row.scan, w.row.title)
      <4>1. /\ stage[s] = "findings" /\ w.server = Current(s).server
            /\ w.row.scan = s /\ w.row.title \in marked[s]
        <5>1. PICK x \in pending[s] : stage[s] = "findings" /\ w = FindingRow(s, x)
          BY <3>2 DEF IsInsertOf
        <5>2. /\ w.server = Current(s).server /\ w.row.scan = s /\ w.row.title = x
              /\ w.row.isNew = (x \notin marked[s])
          BY <5>1 DEF FindingRow
        <5>3. ~(x \notin marked[s])
          BY <2>3, <5>2
        <5>4. QED
          BY <5>1, <5>2, <5>3
      <4>2. QED
        BY <4>1 DEF Precedents
    <3>3. QED
      BY <2>3, <3>1, <3>2
  <2>4. ASSUME NEW v \in Servers, NEW row \in RowsOf(v)', ~row.isNew
        PROVE  Precedent(v, row.scan, row.title)'
    <3>1. CASE row \in RowsOf(v)
      BY <2>1, <2>4, <3>1 DEF Precedents
    <3>2. CASE row \notin RowsOf(v)
      <4>1. PICK w \in FindingInsert :
              /\ w.server = v /\ w.row = row
              /\ w \in late \/ \E s \in Scans : IsInsertOf(s, w)
        BY <2>4, <3>2, Frame DEF Inserted
      <4>2. QED
        BY <2>1, <2>3, <2>4, <4>1
    <3>3. QED
      BY <3>1, <3>2
  <2>5. ASSUME NEW w \in late', w.table = "drift_findings", ~w.row.isNew
        PROVE  Precedent(w.server, w.row.scan, w.row.title)'
    <3>1. w \in FindingInsert
      <4>1. w \in (ScanInsert \union FindingInsert)
        BY <2>5, StepTyped DEF Typed, TypeOK, ScanInsert, FindingInsert
      <4>2. QED
        BY <2>5, <4>1 DEF ScanInsert, FindingInsert
    <3>2. w \in late \/ \E s \in Scans : IsInsertOf(s, w)
      BY <2>5, Frame
    <3>3. w.server \in Servers
      BY <3>1 DEF FindingInsert
    <3>4. QED
      BY <2>1, <2>3, <2>5, <3>1, <3>2, <3>3
  <2>6. QED
    BY <2>2, <2>4, <2>5 DEF Precedents
<1>3. Precedents => RecurringHasPrecedent
  BY DEF Precedents, Precedent, RecurringHasPrecedent
<1>4. QED
  BY <1>1, <1>2, <1>3, InitTyped, StepTyped, PTL DEF Spec

\* The rows at i and j of the server: the j-th was stored by a scan that was
\* completely stored when s was requested, has the title x and is within reach.
InReach(v, j, s, x) ==
  /\ rows[v][j].scan \in older[s] \ spoilt /\ rows[v][j].title = x
  /\ Cardinality(Since(v, j, s)) <= HistoryLimit

\* What scans stored before a request is there to be found by its lookups:
\* such scans are done, only failed inserts are late, and a task that looked
\* has marked what it found.
Known ==
  /\ \A s \in Scans : older[s] \subseteq {q \in Scans : stage[q] = "done"}
  /\ \A w \in late : For(w) \in spoilt /\ stage[For(w)] # "unsent"
  /\ \A v \in Servers : \A row \in RowsOf(v) : stage[row.scan] # "unsent"
  /\ \A s \in Scans \ spoilt : stage[s] \in {"scanrow", "findings"} =>
       \A j \in DOMAIN rows[Current(s).server], x \in pending[s] :
         InReach(Current(s).server, j, s, x) => x \in marked[s]

\* The same for the rows that are written.
NotNew ==
  \A v \in Servers : \A i, j \in DOMAIN rows[v] : \A s \in Scans \ spoilt, x \in Resources :
    rows[v][i].scan = s /\ rows[v][i].title = x /\ InReach(v, j, s, x) => ~rows[v][i].isNew

\* Drift that earlier scans had on record when the scan was requested, within
\* reach of one look, is never stored as new, whatever other scans do meanwhile.
THEOREM KnownStaysKnown == Spec => []KnownFindingsAreNotNew
<1>1. Init => Known /\ NotNew
  <2>1. DOMAIN <<>> = {} /\ <<>> \in Seq(RowType)
    BY EmptySeq, LenProperties
  <2>2. QED
    BY <2>1 DEF Init, Known, NotNew, RowsOf
<1>2. Typed /\ Known /\ NotNew /\ [Next]_vars => Known' /\ NotNew'
  <2> SUFFICES ASSUME Typed, Known, NotNew, [Next]_vars PROVE Known' /\ NotNew'
    OBVIOUS
  <2>1. \A s \in Scans : older'[s] \subseteq {q \in Scans : stage'[q] = "done"}
    BY Frame DEF Known
  <2>2. \A w \in late' : For(w) \in spoilt' /\ stage'[For(w)] # "unsent"
    <3>1. ASSUME NEW w \in late' PROVE For(w) \in spoilt' /\ stage'[For(w)] # "unsent"
      <4>1. CASE w \in late
        <5>1. For(w) \in spoilt /\ stage[For(w)] # "unsent" /\ spoilt \subseteq Scans
          BY <4>1 DEF Known, Typed, TypeOK
        <5>2. QED
          BY <5>1, Frame
      <4>2. CASE w \notin late
        BY <4>2, Frame
      <4>3. QED
        BY <4>1, <4>2
    <3>2. QED
      BY <3>1
  <2>3. ASSUME NEW v \in Servers, NEW row \in Inserted(v)
        PROVE  \/ row.scan \in spoilt /\ stage[row.scan] # "unsent"
               \/ \E s \in Scans : \E x \in pending[s] :
                    /\ stage[s] = "findings" /\ v = Current(s).server
                    /\ row.scan = s /\ row.title = x /\ row.isNew = (x \notin marked[s])
    <3>1. PICK w \in FindingInsert :
            /\ w.server = v /\ w.row = row
            /\ w \in late \/ \E s \in Scans : IsInsertOf(s, w)
      BY DEF Inserted
    <3>2. CASE w \in late
      BY <3>1, <3>2 DEF Known, For, FindingInsert
    <3>3. ASSUME NEW s \in Scans, IsInsertOf(s, w)
          PROVE  \E x \in pending[s] :
                   /\ stage[s] = "findings" /\ v = Current(s).server
                   /\ row.scan = s /\ row.title = x /\ row.isNew = (x \notin marked[s])
      BY <3>1, <3>3 DEF IsInsertOf, FindingRow
    <3>4. QED
      BY <3>1, <3>2, <3>3
  <2>4. \A v \in Servers : \A row \in RowsOf(v) : row \in RowType /\ row.scan \in Scans
    BY RowTypes DEF RowType
  <2>5. \A v \in Servers : \A row \in RowsOf(v)' : row.scan \in Scans /\ stage[row.scan] # "unsent"
    <3>1. ASSUME NEW v \in Servers, NEW row \in RowsOf(v)'
          PROVE  row.scan \in Scans /\ stage[row.scan] # "unsent"
      <4>1. CASE row \in RowsOf(v)
        BY <2>4, <4>1 DEF Known
      <4>2. CASE row \notin RowsOf(v)
        <5>1. row \in Inserted(v)
          BY <3>1, <4>2, Frame
        <5>2. QED
          BY <2>3, <5>1 DEF Typed, TypeOK
      <4>3. QED
        BY <4>1, <4>2
    <3>2. QED
      BY <3>1
  \* A row in reach after the step was there before, and in reach.
  <2>6. ASSUME NEW v \in Servers, NEW j \in DOMAIN rows'[v], NEW s \in Scans, NEW x,
               InReach(v, j, s, x)', older'[s] = older[s]
        PROVE  j \in DOMAIN rows[v] /\ InReach(v, j, s, x)
    <3>1. /\ Grown(v, Inserted(v)) /\ spoilt \subseteq spoilt'
          /\ rows'[v][j].scan \in older[s] \ spoilt /\ rows'[v][j].title = x
          /\ Cardinality(Since(v, j, s)') <= HistoryLimit
      BY <2>6, Frame DEF InReach
    <3>2. stage[rows'[v][j].scan] = "done"
      BY <3>1 DEF Known
    <3>3. rows'[v][j] \notin Inserted(v)
      BY <2>3, <3>1, <3>2
    <3>4. j \in 1..Len(rows[v]) /\ rows'[v][j] = rows[v][j] /\ DOMAIN rows[v] = 1..Len(rows[v])
      BY <2>6, <3>1, <3>3 DEF Grown
    <3>5. Cardinality(Since(v, j, s)) <= HistoryLimit
      <4>1. /\ Cardinality(Since(v, j, s)) \in Nat /\ Cardinality(Since(v, j, s)') \in Nat
            /\ Cardinality(Since(v, j, s)) <= Cardinality(Since(v, j, s)')
        BY <3>1, <3>4, SinceGrows
      <4>2. HistoryLimit \in Nat
        BY ConstantsAssumption
      <4>3. QED
        BY <3>1, <4>1, <4>2
    <3>6. QED
      BY <3>1, <3>4, <3>5 DEF InReach
  <2>7. ASSUME NEW s \in Scans \ spoilt', stage'[s] \in {"scanrow", "findings"},
               NEW j \in DOMAIN rows'[Current(s)'.server], NEW x \in pending'[s],
               InReach(Current(s).server, j, s, x)'
        PROVE  x \in marked'[s]
    <3>1. /\ Current(s)' = Current(s) /\ s \notin spoilt
          /\ \/ Lookup(s) /\ UNCHANGED <<rows, older>>
             \/ /\ stage[s] \in {"scanrow", "findings"}
                /\ marked'[s] = marked[s] /\ pending'[s] \subseteq pending[s]
      BY <2>7, Frame
    <3>2. stage[s] \in {"lookup", "scanrow", "findings"}
      BY <3>1, OtherSteps
    <3>3. PICK v \in Servers : v = Current(s).server
      BY <3>2, Lengths DEF Storing, ResultType
    <3>4. j \in DOMAIN rows[v] /\ InReach(v, j, s, x)
      <4>1. older'[s] = older[s] /\ j \in DOMAIN rows'[v]
        BY <2>7, <3>1, <3>2, <3>3, Frame
      <4>2. InReach(v, j, s, x)'
        BY <2>7, <3>1, <3>3 DEF InReach, Since
      <4>3. QED
        BY <2>6, <4>1, <4>2
    <3>5. CASE Lookup(s)
      <4>1. /\ stage[s] = "lookup"
            /\ pending' = [pending EXCEPT ![s] = Current(s).findings]
            /\ marked' = [marked EXCEPT ![s] = Current(s).findings \intersect PreviousTitles(s)]
        BY <2>7, <3>5, OtherSteps
      <4>2. rows[v][j].scan # s
        BY <3>4, <4>1 DEF Known, InReach
      <4>3. x \in PreviousTitles(s)
        BY <3>3, <3>4, <4>1, <4>2, PreviousFacts DEF InReach
      <4>4. QED
        BY <2>7, <4>1, <4>3 DEF Typed, TypeOK
    <3>6. CASE /\ stage[s] \in {"scanrow", "findings"}
               /\ marked'[s] = marked[s] /\ pending'[s] \subseteq pending[s]
      BY <2>7, <3>1, <3>3, <3>4, <3>6 DEF Known
    <3>7. QED
      BY <3>1, <3>5, <3>6
  <2>8. ASSUME NEW v \in Servers, NEW i \in DOMAIN rows'[v], NEW j \in DOMAIN rows'[v],
               NEW s \in Scans \ spoilt', NEW x \in Resources,
               rows'[v][i].scan = s, rows'[v][i].title = x, InReach(v, j, s, x)'
        PROVE  ~rows'[v][i].isNew
    <3>1. rows'[v][i] \in RowsOf(v)' /\ s \notin spoilt /\ Grown(v, Inserted(v))
      BY Frame DEF RowsOf
    <3>2. older'[s] = older[s]
      BY <2>5, <2>8, <3>1, Frame
    <3>3. j \in DOMAIN rows[v] /\ InReach(v, j, s, x)
      BY <2>6, <2>8, <3>2
    <3>4. CASE i \in 1..Len(rows[v])
      BY <2>8, <3>1, <3>3, <3>4 DEF NotNew, Grown
    <3>5. CASE i \notin 1..Len(rows[v])
      <4>1. rows'[v][i] \in Inserted(v)
        BY <3>1, <3>5 DEF Grown
      <4>2. /\ x \in pending[s] /\ stage[s] = "findings" /\ v = Current(s).server
            /\ rows'[v][i].isNew = (x \notin marked[s])
        BY <2>3, <2>8, <3>1, <4>1
      <4>3. x \in marked[s]
        BY <3>1, <3>3, <4>2 DEF Known
      <4>4. QED
        BY <4>2, <4>3
    <3>6. QED
      BY <3>4, <3>5
  <2>9. \A v \in Servers : \A row \in RowsOf(v)' : stage'[row.scan] # "unsent"
    BY <2>5, Frame
  <2>10. Known'
    BY <2>1, <2>2, <2>7, <2>9 DEF Known, For
  <2>11. NotNew'
    BY <2>8 DEF NotNew
  <2>12. QED
    BY <2>10, <2>11
<1>3. Typed /\ NotNew => KnownFindingsAreNotNew
  <2> SUFFICES ASSUME Typed, NotNew, NEW v \in Servers, NEW i \in DOMAIN rows[v],
                      NEW j \in DOMAIN rows[v], rows[v][j].scan \in older[rows[v][i].scan],
                      rows[v][j].title = rows[v][i].title,
                      {rows[v][i].scan, rows[v][j].scan} \intersect spoilt = {},
                      Cardinality(Since(v, j, rows[v][i].scan)) <= HistoryLimit
               PROVE  ~rows[v][i].isNew
    BY DEF KnownFindingsAreNotNew, Since
  <2>1. PICK s \in Scans, x \in Resources : rows[v][i].scan = s /\ rows[v][i].title = x
    BY RowTypes DEF RowsOf, RowType
  <2>2. InReach(v, j, s, x)
    BY <2>1 DEF InReach
  <2>3. QED
    BY <2>1, <2>2 DEF NotNew
<1>4. QED
  BY <1>1, <1>2, <1>3, InitTyped, StepTyped, PTL DEF Spec

-----------------------------------------------------------------------------
(* Nothing is left out of the audit history *)

\* Scan s stored the title for the server, or its insert failed.
OnRecord(s, v, x) ==
  \/ \E row \in RowsOf(v) : row.scan = s /\ row.title = x
  \/ \E w \in unstored : /\ w.table = "drift_findings" /\ w.server = v
                         /\ w.row.scan = s /\ w.row.title = x

\* The same for the row of audit_scans at position i.
RowOnRecord(s, i) ==
  LET result == results[s][i]
      row == <<s, i, result.server, result.status>>
  IN  \/ row \in scanRows
      \/ \E w \in unstored : w.table = "audit_scans" /\ w.server = result.server /\ w.row = row

\* The i-th result of the scan and its findings are on record, if they should.
Stored(s, i) ==
  results[s][i].status # "scan_failed" =>
    RowOnRecord(s, i) /\ \A x \in results[s][i].findings : OnRecord(s, results[s][i].server, x)

\* The results before the current one are stored, and of the current one what
\* is not left to the task; a crash leaves it at that.
Stage(s) ==
  /\ Auditing(s) => position[s] = 0
  /\ \A i \in DOMAIN results[s] : i < position[s] => Stored(s, i)
  /\ stage[s] = "findings" => RowOnRecord(s, position[s])
  /\ stage[s] \in {"scanrow", "findings"} =>
       \A x \in Current(s).findings \ pending[s] : OnRecord(s, Current(s).server, x)

Progress == \A s \in Scans : Stage(s)

\* When a background task is over, the audit history holds its result with all
\* the findings, but for rows whose own insert failed.
THEOREM HistoryHoldsAll == Spec => []HistoryIsComplete
<1>1. Init => Progress
  <2>1. DOMAIN <<>> = {}
    BY EmptySeq, LenProperties
  <2>2. QED
    BY <2>1 DEF Init, Progress, Stage
<1>2. Typed /\ Progress /\ [Next]_vars => Progress'
  <2> SUFFICES ASSUME Typed, \A s \in Scans : Stage(s), [Next]_vars
               PROVE  \A s \in Scans : Stage(s)'
    BY DEF Progress
  <2>1. \A s \in Scans : /\ DOMAIN results[s] = 1..Len(results[s]) /\ Len(results[s]) \in Nat
                         /\ \A i \in DOMAIN results[s] : results[s][i].server \in Servers
    BY Lengths DEF ResultType
  <2>2. position \in [Scans -> Nat] /\ stage \in [Scans -> {"unsent", "baseline", "audit", "json",
          "html", "answer", "lookup", "scanrow", "findings", "done", "error", "crashed"}]
    BY DEF Typed, TypeOK
  <2>3. \A s, x : \A v \in Servers : OnRecord(s, v, x) => OnRecord(s, v, x)'
    BY Frame DEF OnRecord
  <2>4. ASSUME NEW s \in Scans, results'[s] = results[s], NEW i \in DOMAIN results[s]
        PROVE  (RowOnRecord(s, i) => RowOnRecord(s, i)') /\ (Stored(s, i) => Stored(s, i)')
    <3>1. scanRows \subseteq scanRows' /\ unstored \subseteq unstored'
      BY Frame
    <3>2. RowOnRecord(s, i) => RowOnRecord(s, i)'
      BY <2>4, <3>1 DEF RowOnRecord
    <3>3. QED
      BY <2>1, <2>3, <2>4, <3>2 DEF Stored
  \* A scan that neither a task nor a result is added to.
  <2>5. ASSUME NEW s \in Scans, results'[s] = results[s], position'[s] = position[s],
               pending'[s] = pending[s], Auditing(s)' => Auditing(s),
               stage'[s] = stage[s] \/ stage'[s] \notin {"scanrow", "findings"}
        PROVE  Stage(s)'
    <3>1. Stage(s) /\ Current(s)' = Current(s)
      BY <2>5 DEF Current
    <3>2. Auditing(s)' => position'[s] = 0
      BY <2>5, <3>1 DEF Stage
    <3>3. \A i \in DOMAIN results'[s] : i < position'[s] => Stored(s, i)'
      BY <2>4, <2>5, <3>1 DEF Stage
    <3>4. ASSUME stage'[s] \in {"scanrow", "findings"}
          PROVE  /\ stage'[s] = "findings" => RowOnRecord(s, position[s])'
                 /\ \A x \in Current(s).findings \ pending[s] : OnRecord(s, Current(s).server, x)'
      <4>1. stage'[s] = stage[s] /\ position[s] \in DOMAIN results[s] /\ Current(s).server \in Servers
        BY <2>1, <2>5, <3>4, Lengths DEF Storing, Current
      <4>2. QED
        BY <2>3, <2>4, <2>5, <3>1, <3>4, <4>1 DEF Stage
    <3>5. QED
      BY <2>5, <3>1, <3>2, <3>3, <3>4 DEF Stage, RowOnRecord, OnRecord
  \* The task after the results before k, which are stored, starts.
  <2>6. ASSUME NEW s \in Scans, NEW k \in 1..Len(results[s]) + 1, results' = results,
               position' = [position EXCEPT ![s] = NextTask(s, k)],
               \E st \in {"lookup", "done"} : stage' = [stage EXCEPT ![s] = st],
               \A i \in 1..k - 1 : Stored(s, i)'
        PROVE  Stage(s)'
    <3>1. /\ NextTask(s, k) \in k..Len(results[s]) + 1
          /\ \A j \in k..NextTask(s, k) - 1 : results[s][j].status = "scan_failed"
      BY Lengths, NextTaskFacts
    <3>2. stage'[s] \in {"lookup", "done"} /\ position'[s] = NextTask(s, k)
      BY <2>2, <2>6
    <3>3. ASSUME NEW i \in DOMAIN results[s], i < NextTask(s, k) PROVE Stored(s, i)'
      <4>1. i \in 1..k - 1 \/ i \in k..NextTask(s, k) - 1
        BY <2>1, <3>1, <3>3
      <4>2. CASE i \in k..NextTask(s, k) - 1
        BY <2>6, <3>1, <4>2 DEF Stored
      <4>3. QED
        BY <2>6, <4>1, <4>2
    <3>4. QED
      BY <2>6, <3>2, <3>3 DEF Stage, Auditing
  <2>7. CASE Quiet
    BY <2>5, <2>7 DEF Quiet
  <2>8. ASSUME NEW s \in Scans, NEW r \in ResultType, AddResult(s, r)
        PROVE  \A e \in Scans : Stage(e)'
    <3>1. /\ stage[s] = "audit" /\ results' = [results EXCEPT ![s] = Append(@, r)]
          /\ UNCHANGED <<position, pending>>
          /\ \E st \in {"json", "audit"} : stage' = [stage EXCEPT ![s] = st]
      BY <2>8, OtherSteps
    <3>2. /\ stage'[s] \in {"json", "audit"}
          /\ \A e \in Scans : e # s => results'[e] = results[e] /\ stage'[e] = stage[e]
      BY <2>2, <3>1 DEF Typed, TypeOK
    <3>3. position'[s] = 0
      BY <3>1 DEF Stage, Auditing
    <3>4. DOMAIN results'[s] \subseteq Nat \ {0}
      <4>1. results'[s] = Append(results[s], r) /\ results[s] \in Seq(ResultType)
        BY <3>1 DEF Typed, TypeOK
      <4>2. DOMAIN Append(results[s], r) = 1..Len(results[s]) + 1
        BY <2>1, <4>1, AppendProperties, LenProperties
      <4>3. QED
        BY <2>1, <4>1, <4>2
    <3>5. Stage(s)'
      BY <3>2, <3>3, <3>4 DEF Stage
    <3>6. \A e \in Scans : e # s => Stage(e)'
      BY <2>5, <3>1, <3>2 DEF Auditing
    <3>7. QED
      BY <3>5, <3>6
  <2>9. ASSUME NEW s \in Scans, Answer(s) PROVE \A e \in Scans : Stage(e)'
    <3>1. /\ position' = [position EXCEPT ![s] = NextTask(s, 1)]
          /\ \E st \in {"lookup", "done"} : stage' = [stage EXCEPT ![s] = st]
          /\ UNCHANGED <<results, pending>>
      BY <2>9, OtherSteps
    <3>2. 1 \in 1..Len(results[s]) + 1 /\ \A i \in 1..1 - 1 : Stored(s, i)'
      BY <2>1
    <3>3. Stage(s)'
      BY <2>6, <3>1, <3>2
    <3>4. \A e \in Scans : e # s => Stage(e)'
      <4>1. \A e \in Scans : e # s => stage'[e] = stage[e] /\ position'[e] = position[e]
        BY <2>2, <3>1
      <4>2. QED
        BY <2>5, <3>1, <4>1 DEF Auditing
    <3>5. QED
      BY <3>3, <3>4
  <2>10. ASSUME NEW s \in Scans, Lookup(s) PROVE \A e \in Scans : Stage(e)'
    <3>1. /\ stage[s] = "lookup" /\ stage' = [stage EXCEPT ![s] = "scanrow"]
          /\ pending' = [pending EXCEPT ![s] = Current(s).findings]
          /\ UNCHANGED <<results, position>>
      BY <2>10, OtherSteps
    <3>2. /\ \A e \in Scans : e # s => stage'[e] = stage[e] /\ pending'[e] = pending[e]
          /\ stage'[s] = "scanrow" /\ pending'[s] = Current(s).findings
      BY <3>1 DEF Typed, TypeOK
    <3>3. \A e \in Scans : e # s => Stage(e)'
      BY <2>5, <3>1, <3>2 DEF Auditing
    <3>4. Stage(s)'
      <4>1. \A i \in DOMAIN results'[s] : i < position'[s] => Stored(s, i)'
        BY <2>4, <3>1 DEF Stage
      <4>2. Current(s)'.findings = pending'[s]
        BY <3>1, <3>2 DEF Current
      <4>3. QED
        BY <3>2, <4>1, <4>2 DEF Stage, Auditing
    <3>5. QED
      BY <3>3, <3>4
  <2>11. ASSUME NEW s \in Scans, NEW w \in ScanInsert \union FindingInsert,
                NEW left \in SUBSET Resources, Stores(s, w, left)
         PROVE  \A e \in Scans : Stage(e)'
    <3>1. /\ stage[s] \in {"scanrow", "findings"} /\ Storing(s)
          /\ pending' = [pending EXCEPT ![s] = left] /\ results' = results
          /\ \/ /\ position' = position /\ stage' = [stage EXCEPT ![s] = "findings"]
             \/ /\ left = {}
                /\ position' = [position EXCEPT ![s] = NextTask(s, position[s] + 1)]
                /\ \E st \in {"lookup", "done"} : stage' = [stage EXCEPT ![s] = st]
      BY <2>11, StoreSteps DEF Stores
    <3>2. /\ \A e \in Scans : e # s => /\ stage'[e] = stage[e] /\ pending'[e] = pending[e]
                                       /\ position'[e] = position[e]
          /\ pending'[s] = left
      BY <2>2, <3>1 DEF Typed, TypeOK
    <3>3. \A e \in Scans : e # s => Stage(e)'
      BY <2>5, <3>1, <3>2 DEF Auditing
    <3>4. PICK v \in Servers, k \in DOMAIN results[s] :
            /\ v = Current(s).server /\ k = position[s] /\ v = results[s][k].server
            /\ Current(s).findings = results[s][k].findings
            /\ Current(s).status = results[s][k].status
      BY <2>1, <3>1, Lengths DEF Current
    <3>5. w \in unstored' \/ Write(w)
      BY <2>11, StoreSteps, InsertEffect
    <3>6. RowOnRecord(s, k)'
      <4>1. CASE stage[s] = "findings"
        BY <2>4, <3>1, <3>4, <4>1 DEF Stage
      <4>2. CASE stage[s] = "scanrow"
        <5>1. /\ w.table = "audit_scans" /\ w.server = v
              /\ w.row = <<s, k, v, results[s][k].status>>
          BY <2>11, <3>4, <4>2 DEF Stores
        <5>2. Write(w) => w.row \in scanRows'
          BY <5>1 DEF Write
        <5>3. QED
          BY <3>1, <3>4, <3>5, <5>1, <5>2 DEF RowOnRecord
      <4>3. QED
        BY <3>1, <4>1, <4>2
    <3>7. \A x \in results[s][k].findings \ left : OnRecord(s, v, x)'
      <4>1. \A x \in results[s][k].findings \ pending[s] : OnRecord(s, v, x)
        BY <3>1, <3>4 DEF Stage
      <4>2. ASSUME NEW x \in pending[s] \ left PROVE OnRecord(s, v, x)'
        <5>1. w = FindingRow(s, x)
          BY <2>11, <4>2 DEF Stores
        <5>2. /\ w.table = "drift_findings" /\ w.server = v
              /\ w.row.scan = s /\ w.row.title = x
          BY <3>4, <5>1 DEF FindingRow
        <5>3. Write(w) => w.row \in RowsOf(v)'
          <6>1. w.row \in NewRows(w, v)
            BY <5>2 DEF NewRows
          <6>2. QED
            BY <6>1, LateInserts, WriteRows
        <5>4. QED
          BY <3>5, <5>2, <5>3 DEF OnRecord
      <4>3. QED
        BY <2>3, <4>1, <4>2
    <3>8. \A i \in DOMAIN results[s] : i < k => Stored(s, i)'
      BY <2>4, <3>1, <3>4 DEF Stage
    <3>9. CASE position' = position /\ stage' = [stage EXCEPT ![s] = "findings"]
      <4>1. Current(s)' = Current(s) /\ stage'[s] = "findings" /\ position'[s] = k
        BY <2>2, <3>1, <3>4, <3>9 DEF Current
      <4>2. \A x \in Current(s)'.findings \ pending'[s] : OnRecord(s, v, x)'
        BY <3>2, <3>4, <3>7, <4>1
      <4>3. \A i \in DOMAIN results'[s] : i < position'[s] => Stored(s, i)'
        BY <3>1, <3>8, <4>1
      <4>4. Current(s)'.server = v
        BY <3>4, <4>1
      <4>5. Stage(s)'
        BY <3>6, <4>1, <4>2, <4>3, <4>4 DEF Stage, Auditing, RowOnRecord, OnRecord
      <4>6. QED
        BY <3>3, <4>5
    <3>10. CASE /\ left = {}
                /\ position' = [position EXCEPT ![s] = NextTask(s, position[s] + 1)]
                /\ \E st \in {"lookup", "done"} : stage' = [stage EXCEPT ![s] = st]
      <4>1. Stored(s, k)'
        BY <3>1, <3>4, <3>6, <3>7, <3>10 DEF Stored
      <4>2. PICK m \in 1..Len(results[s]) + 1 : m = k + 1
        BY <2>1
      <4>3. ASSUME NEW i \in 1..m - 1 PROVE Stored(s, i)'
        <5>1. i \in DOMAIN results[s] /\ (i < k \/ i = k)
          BY <2>1, <4>2
        <5>2. QED
          BY <3>8, <4>1, <5>1
      <4>4. position' = [position EXCEPT ![s] = NextTask(s, m)]
        BY <3>4, <3>10, <4>2
      <4>5. Stage(s)'
        BY <2>6, <3>1, <3>10, <4>3, <4>4
      <4>6. QED
        BY <3>3, <4>5
    <3>11. QED
      BY <3>1, <3>9, <3>10
  <2>12. ASSUME NEW w \in late, LateWrite(w) PROVE \A e \in Scans : Stage(e)'
    <3>1. UNCHANGED <<stage, results, position, pending>>
      BY <2>12 DEF LateWrite, task
    <3>2. QED
      BY <2>5, <3>1 DEF Auditing
  <2>13. QED
    BY <2>7, <2>8, <2>9, <2>10, <2>11, <2>12, StepKinds
<1>3. Progress => HistoryIsComplete
  <2> SUFFICES ASSUME Progress, NEW s \in Scans, NEW i \in DOMAIN results[s],
                      i < position[s], results[s][i].status # "scan_failed"
               PROVE  LET result == results[s][i]
                          failed(table) == {w \in unstored : w.table = table
                                                               /\ w.server = result.server}
                      IN  /\ <<s, i, result.server, result.status>>
                               \in scanRows \union {w.row : w \in failed("audit_scans")}
                          /\ \A x \in result.findings :
                               \E row \in RowsOf(result.server)
                                           \union {w.row : w \in failed("drift_findings")} :
                                 row.scan = s /\ row.title = x
    BY DEF HistoryIsComplete
  <2>1. /\ RowOnRecord(s, i)
        /\ \A x \in results[s][i].findings : OnRecord(s, results[s][i].server, x)
    BY DEF Progress, Stage, Stored
  <2>2. QED
    BY <2>1 DEF RowOnRecord, OnRecord
<1>4. QED
  BY <1>1, <1>2, <1>3, InitTyped, StepTyped, PTL DEF Spec
=============================================================================
