------------------------- MODULE ServerAuditProofs -------------------------
(***************************************************************************)
(* Proofs about ServerAudit, for any resources, Gold Images and states of  *)
(* the server, and any number of changes and failures during an audit.     *)
(***************************************************************************)
EXTENDS ServerAudit, TLAPS

-----------------------------------------------------------------------------
(* The comparison *)

LEMMA ImageFacts ==
  ASSUME image \in Images
  PROVE  /\ DOMAIN image \subseteq Resources
         /\ \A x \in DOMAIN image : /\ image[x] \in SUBSET Values
                                    /\ image[x] = {} => Kind[x] = "group"
                                    /\ Kind[x] = "service" => \A u, v \in image[x] : u = v
         /\ \A x \in Resources : Kind[x] \in Kinds
<1>1. \A x \in Resources : Kind[x] \in Kinds
  BY KindAssumption
<1>2. DOMAIN image \subseteq Resources
  BY AuditAssumption
<1>3. \A x \in DOMAIN image : image[x] \in SUBSET Values /\ (image[x] = {} => Kind[x] = "group")
  BY AuditAssumption
<1>4. \A x \in DOMAIN image : Kind[x] = "service" => \A u, v \in image[x] : u = v
  BY <1>2, AuditAssumption
<1>5. QED
  BY <1>1, <1>2, <1>3, <1>4

\* The differences of a resource, by its kind.
LEMMA DiffsByKind ==
  ASSUME image \in Images, NEW x \in Resources
  PROVE  /\ x \in DOMAIN image /\ Kind[x] = "folder" => DiffsOf(x) = Extra(x) \union Missing(x)
         /\ x \in DOMAIN image /\ Kind[x] \in {"share", "service"} =>
              DiffsOf(x) = Extra(x) \union Gone(x)
         /\ x \in DOMAIN image /\ Kind[x] = "group" => DiffsOf(x) = Extra(x)
         /\ x \notin DOMAIN image /\ Kind[x] = "share" => DiffsOf(x) = Unapproved(x)
         /\ x \notin DOMAIN image /\ Kind[x] # "share" => DiffsOf(x) = {}
<1>1. Kind[x] \in Kinds
  BY ImageFacts
<1>2. CASE x \in DOMAIN image /\ Kind[x] = "folder"
  BY <1>2 DEF DiffsOf
<1>3. CASE x \in DOMAIN image /\ Kind[x] \in {"share", "service"}
  BY <1>3 DEF DiffsOf
<1>4. CASE x \in DOMAIN image /\ Kind[x] = "group"
  BY <1>4 DEF DiffsOf
<1>5. CASE x \notin DOMAIN image
  BY <1>5 DEF DiffsOf
<1>6. QED
  BY <1>1, <1>2, <1>3, <1>4, <1>5 DEF Kinds

\* What a difference of a resource can be.
LEMMA DiffForms ==
  ASSUME image \in Images, NEW x \in Resources, NEW diff \in DiffsOf(x)
  PROVE  /\ diff \in DiffType /\ diff.on = x
         /\ diff.actual \subseteq Has(x)
         /\ x \notin bare =>
              IF diff.actual = {} THEN ~(diff.expected \subseteq Has(x))
                                  ELSE diff.actual \intersect diff.expected = {}
<1>1. Has(x) \subseteq Values
  BY DEF Has, Of
<1>2. CASE diff \in Extra(x) /\ x \in DOMAIN image
  BY <1>1, <1>2, ImageFacts DEF Extra, Diff, DiffType
<1>3. CASE diff \in Missing(x) /\ x \in DOMAIN image
  BY <1>1, <1>3, ImageFacts DEF Missing, Diff, DiffType
<1>4. CASE diff \in Gone(x) /\ x \in DOMAIN image /\ Kind[x] # "group"
  BY <1>1, <1>4, ImageFacts DEF Gone, Listed, Diff, DiffType
<1>5. CASE diff \in Unapproved(x)
  BY <1>1, <1>5 DEF Unapproved, Listed, Diff, DiffType
<1>6. Kind[x] \in Kinds
  BY ImageFacts
<1>7. QED
  BY <1>2, <1>3, <1>4, <1>5, <1>6, DiffsByKind DEF Kinds

LEMMA SeverityType ==
  ASSUME NEW diff \in DiffType
  PROVE  Severity(diff) \in {"critical", "high", "medium"}
<1>1. Kind[diff.on] \in Kinds
  BY KindAssumption DEF DiffType
<1>2. \A said : FolderSeverity(said) \in {"critical", "high", "medium"}
  BY DEF FolderSeverity
<1>3. \A x, said : ShareSeverity(x, said) \in {"critical", "high", "medium"}
  BY DEF ShareSeverity
<1>4. \A x : GroupSeverity(x) \in {"critical", "high", "medium"}
  BY DEF GroupSeverity
<1>5. QED
  BY <1>1, <1>2, <1>3, <1>4 DEF Severity, Kinds

-----------------------------------------------------------------------------
(* Types *)

\* The kinds of resources that were listed before a step.
Before == [os |-> {}, folder |-> {}, share |-> {"folder"}, group |-> {"folder", "share"},
           service |-> {"folder", "share", "group"}, compare |-> Kinds, remediate |-> Kinds]

\* Nothing is read before its command, and nothing found before the comparison.
Fresh ==
  /\ \A x \in read \union bare : Kind[x] \in Before[step]
  /\ step # "remediate" => findings = {}

Typed == TypeOK /\ Fresh

LEMMA InitTypes == Init => Typed
BY AuditAssumption DEF Init, Typed, Fresh, Before, TypeOK, Has, Of, NextStep

\* What the collector keeps of a server it reads.
LEMMA KeptFacts ==
  ASSUME TypeOK, NEW items \in SUBSET Resources, NEW named, Keep(items, named)
  PROVE  /\ snapshot' \subseteq Facts /\ read' \subseteq Resources
         /\ \A x : Has(x)' = Has(x) \union (IF x \in items THEN Of(server, x) ELSE {})
<1>1. server \subseteq Facts /\ snapshot \subseteq Facts
  BY AuditAssumption DEF TypeOK
<1>2. snapshot' = snapshot \union {f \in server : f[1] \in items} /\ read' = read \union items
  BY DEF Keep
<1>3. \A x, v : <<x, v>> \in snapshot' <=>
                  <<x, v>> \in snapshot \/ (<<x, v>> \in server /\ x \in items)
  BY <1>2
<1>4. \A x : Has(x)' = Has(x) \union (IF x \in items THEN Of(server, x) ELSE {})
  BY <1>3 DEF Has, Of
<1>5. QED
  BY <1>1, <1>2, <1>4 DEF TypeOK

LEMMA StepTypes == Typed /\ [Next]_vars => Typed'
<1> SUFFICES ASSUME TypeOK, Fresh, [Next]_vars PROVE Typed'
  BY DEF Typed
<1>0. ASSUME NEW items \in SUBSET {x \in Resources : Kind[x] = step},
             NEW named \in SUBSET {x \in Resources : Kind[x] = step},
             step \in DOMAIN NextStep, Keep(items, named),
             faults' \in Nat, errors' \subseteq DOMAIN NextStep, UNCHANGED <<input, world, result>>
      PROVE  Typed'
  <2>1. /\ snapshot' \subseteq Facts /\ read' \subseteq Resources
        /\ \A x : Has(x)' = Has(x) \union (IF x \in items THEN Of(server, x) ELSE {})
    BY <1>0, KeptFacts
  <2>2. step' \in DOMAIN NextStep \union {"compare", "remediate"} /\ read' = read \union items
    BY <1>0 DEF Keep, NextStep
  <2>3. \A x \in Resources : Has(x)' # {} => x \in read'
    BY <2>1, <2>2 DEF TypeOK
  <2>4. /\ bare' = bare \union named
        /\ \A x \in named : Kind[x] = "share" /\ x \notin items
    BY <1>0 DEF Keep
  <2>5. Kind \in [Resources -> Kinds] /\ step \notin Before[step]
    BY <1>0, KindAssumption DEF Before, NextStep, Kinds
  <2>6. \A x \in items \union named : x \in Resources /\ Kind[x] = step
    BY <1>0
  <2>7. \A x \in read \union bare : x \notin items \union named /\ Kind[x] \in Before[step']
    BY <1>0, <2>5, <2>6 DEF Fresh, Keep, Before, NextStep, Kinds
  <2>8. bare' \subseteq {x \in Resources \ read' : Kind[x] = "share"}
    BY <2>2, <2>4, <2>6, <2>7 DEF TypeOK
  <2>9. \A x \in read' \union bare' : Kind[x] \in Before[step']
    BY <1>0, <2>2, <2>4, <2>5, <2>6, <2>7 DEF Keep, Before, NextStep, Kinds
  <2>10. step' # "remediate"
    BY <1>0 DEF Keep, NextStep
  <2>11. findings = {}
    BY <1>0 DEF Fresh, NextStep
  <2>12. QED
    BY <1>0, <2>1, <2>2, <2>3, <2>8, <2>9, <2>10, <2>11
    DEF Typed, Fresh, TypeOK, input, world, result
<1>1. ASSUME NEW items \in SUBSET {x \in Resources : Kind[x] = step},
             NEW named \in SUBSET {x \in Resources : Kind[x] = step}, Collect(items, named)
      PROVE  Typed'
  <2>1. /\ Keep({x \in Resources : Kind[x] = step /\ Listable(x)} \ items, named)
        /\ step \in DOMAIN NextStep /\ UNCHANGED <<errors, input, world, result>>
        /\ faults' \in {faults, faults + 1}
    BY <1>1 DEF Collect, Fault
  <2>2. QED
    BY <1>0, <2>1 DEF TypeOK
<1>2. ASSUME NEW items \in SUBSET {x \in Resources : Kind[x] = step},
             NEW named \in SUBSET {x \in Resources : Kind[x] = step}, CollectFails(items, named)
      PROVE  Typed'
  <2>1. /\ Keep(items, named) /\ step \in DOMAIN NextStep /\ UNCHANGED <<input, world, result>>
        /\ faults' = faults + 1 /\ errors' = errors \union {step}
    BY <1>2 DEF CollectFails, Fault
  <2>2. QED
    BY <1>0, <2>1 DEF TypeOK
<1>3. ASSUME Compare PROVE Typed'
  <2>1. \A x \in Resources : \A diff \in DiffsOf(x) : Finding(diff) \in FindingType
    BY DiffForms, SeverityType DEF Finding, FindingType, TypeOK
  <2>2. findings' \subseteq FindingType /\ todo' = findings' /\ scripts' = scripts /\ step' = "remediate"
        /\ UNCHANGED <<snapshot, bare, errors, read, faults, input, world>>
    BY <1>3, <2>1 DEF Compare
  <2>3. scripts = {}
    BY <1>3 DEF Compare, TypeOK, Fresh
  <2>4. \A x \in read \union bare : Kind[x] \in Before["remediate"]
    BY <1>3 DEF Compare, Fresh, Before
  <2>5. QED
    BY <2>2, <2>3, <2>4 DEF Typed, Fresh, TypeOK, input, world, Has
<1>4. ASSUME Remediate \/ RemediationFails PROVE Typed'
  <2>1. /\ todo # {} /\ todo' = todo \ {Current} /\ scripts' \in {scripts, scripts \union {Current}}
        /\ faults' \in {faults, faults + 1}
        /\ UNCHANGED <<step, snapshot, bare, errors, findings, read, input, world>>
    BY <1>4 DEF Remediate, RemediationFails, Fault
  <2>2. Current \in todo
    BY <2>1 DEF Current
  <2>3. QED
    BY <2>1, <2>2 DEF Typed, Fresh, TypeOK, input, world, Has
<1>5. ASSUME NEW w \in Worlds, Change(w) PROVE Typed'
  BY <1>5 DEF Change, Typed, Fresh, TypeOK, input, result, Has
<1>6. CASE UNCHANGED vars
  BY <1>6 DEF vars, Typed, Fresh, TypeOK, Has
<1>7. QED
  BY <1>1, <1>2, <1>3, <1>4, <1>5, <1>6 DEF Next

\* Every state is of its type.
THEOREM TypeCorrect == Spec => []TypeOK
<1>1. Typed => TypeOK
  BY DEF Typed
<1>2. QED
  BY InitTypes, StepTypes, <1>1, PTL DEF Spec

-----------------------------------------------------------------------------
(* What the collector read, and when *)

\* What the snapshot says of a resource that was read is what the server said
\* of it at one moment, which is the same for all resources of a kind.  A share
\* that was listed without its rights was there at that moment.
TakenAt(moment) ==
  /\ \A x \in read : Has(x) = Of(moment[Kind[x]], x)
  /\ \A x \in bare : Of(moment[Kind[x]], x) # {}

Torn == \E moment \in [Kinds -> seen] : TakenAt(moment)

LEMMA InitTorn == Init => Torn
<1> SUFFICES ASSUME Init PROVE Torn
  OBVIOUS
<1>1. [k \in Kinds |-> server] \in [Kinds -> seen]
  BY DEF Init
<1>2. TakenAt([k \in Kinds |-> server])
  BY DEF Init, TakenAt
<1>3. QED
  BY <1>1, <1>2 DEF Init, Torn

\* A command lists its kind of resources at the present moment.
LEMMA KeepTorn ==
  ASSUME Typed, Torn, step \in DOMAIN NextStep, UNCHANGED <<input, world>>,
         NEW items \in SUBSET {x \in Resources : Kind[x] = step},
         NEW named \in SUBSET {x \in Resources : Kind[x] = step}, Keep(items, named)
  PROVE  Torn'
<1>1. PICK moment \in [Kinds -> seen] : TakenAt(moment)
  BY DEF Torn
<1>2. PICK now \in [Kinds -> seen'] : now = [k \in Kinds |-> IF k = step THEN server ELSE moment[k]]
  BY <1>1 DEF world, Typed, TypeOK
<1>3. /\ read' = read \union items /\ bare' = bare \union named
      /\ \A x \in named : Of(server, x) # {}
      /\ \A x : Has(x)' = Has(x) \union (IF x \in items THEN Of(server, x) ELSE {})
  <2>1. items \in SUBSET Resources /\ TypeOK
    BY DEF Typed
  <2>2. \A x : Has(x)' = Has(x) \union (IF x \in items THEN Of(server, x) ELSE {})
    BY <2>1, KeptFacts
  <2>3. QED
    BY <2>2 DEF Keep
<1>4. \A x \in read \union bare : Kind[x] # step /\ Kind[x] \in Kinds
  BY KindAssumption DEF Typed, Fresh, Before, NextStep, TypeOK
<1>5. \A x \in items \union named : Kind[x] = step /\ x \in Resources /\ Kind[x] \in Kinds
  BY KindAssumption
<1>6. \A x \in read \union bare : now[Kind[x]] = moment[Kind[x]]
  BY <1>2, <1>4
<1>7. \A x \in items \union named : now[Kind[x]] = server
  BY <1>2, <1>5
<1>8. ASSUME NEW x \in read PROVE Has(x)' = Of(now[Kind[x]], x)
  <2>1. x \notin items
    BY <1>4, <1>5
  <2>2. QED
    BY <2>1, <1>1, <1>3, <1>6 DEF TakenAt
<1>9. ASSUME NEW x \in items PROVE Has(x)' = Of(now[Kind[x]], x)
  <2>1. Has(x) = {}
    BY <1>4, <1>5 DEF Typed, TypeOK
  <2>2. QED
    BY <2>1, <1>3, <1>7
<1>10. \A x \in bare \union named : Of(now[Kind[x]], x) # {}
  BY <1>1, <1>3, <1>6, <1>7 DEF TakenAt
<1>11. TakenAt(now)'
  BY <1>3, <1>8, <1>9, <1>10 DEF TakenAt
<1>12. QED
  BY <1>2, <1>11 DEF Torn

LEMMA StepTorn == Typed /\ Torn /\ [Next]_vars => Torn'
<1> SUFFICES ASSUME Typed, Torn, [Next]_vars PROVE Torn'
  OBVIOUS
<1>0. ASSUME UNCHANGED <<snapshot, bare, read>>, seen \subseteq seen' PROVE Torn'
  <2>1. PICK moment \in [Kinds -> seen] : TakenAt(moment)
    BY DEF Torn
  <2>2. moment \in [Kinds -> seen'] /\ TakenAt(moment)'
    BY <1>0, <2>1 DEF TakenAt, Has
  <2>3. QED
    BY <2>2 DEF Torn
<1>1. ASSUME NEW items \in SUBSET {x \in Resources : Kind[x] = step},
             NEW named \in SUBSET {x \in Resources : Kind[x] = step}, Collect(items, named)
      PROVE  Torn'
  <2>1. {x \in Resources : Kind[x] = step /\ Listable(x)} \ items \in SUBSET {x \in Resources : Kind[x] = step}
    OBVIOUS
  <2>2. QED
    BY <1>1, <2>1, KeepTorn DEF Collect
<1>2. ASSUME NEW items \in SUBSET {x \in Resources : Kind[x] = step},
             NEW named \in SUBSET {x \in Resources : Kind[x] = step}, CollectFails(items, named)
      PROVE  Torn'
  BY <1>2, KeepTorn DEF CollectFails
<1>3. CASE Compare
  BY <1>0, <1>3 DEF Compare, world
<1>4. CASE Remediate \/ RemediationFails
  BY <1>0, <1>4 DEF Remediate, RemediationFails, world
<1>5. ASSUME NEW w \in Worlds, Change(w) PROVE Torn'
  BY <1>0, <1>5 DEF Change
<1>6. CASE UNCHANGED vars
  BY <1>0, <1>6 DEF vars
<1>7. QED
  BY <1>1, <1>2, <1>3, <1>4, <1>5, <1>6 DEF Next

-----------------------------------------------------------------------------
(* What the audit found *)

\* The findings are the differences of all resources.
FoundAll ==
  step = "remediate" =>
    findings = {Finding(diff) : diff \in UNION {DiffsOf(x) : x \in Resources}}

Audited == Typed /\ Torn /\ FoundAll

LEMMA InitAudited == Init => Audited
BY InitTypes, InitTorn DEF Init, Audited, FoundAll

LEMMA StepFoundAll == TypeOK /\ FoundAll /\ [Next]_vars => FoundAll'
<1> SUFFICES ASSUME TypeOK, FoundAll, [Next]_vars PROVE FoundAll'
  OBVIOUS
<1>1. ASSUME NEW items, NEW named, Collect(items, named) \/ CollectFails(items, named)
      PROVE  FoundAll'
  BY <1>1 DEF Collect, CollectFails, Keep, NextStep, FoundAll
<1>0. ASSUME UNCHANGED <<image, snapshot, bare>>
      PROVE  {Finding(diff) : diff \in UNION {DiffsOf(x) : x \in Resources}}'
               = {Finding(diff) : diff \in UNION {DiffsOf(x) : x \in Resources}}
  BY <1>0 DEF Finding, Severity, ShareSeverity, DiffsOf, Extra, Missing, Gone, Unapproved, Listed, Has
<1>2. CASE Compare
  BY <1>0, <1>2 DEF Compare, FoundAll, input
<1>3. CASE Remediate \/ RemediationFails
  BY <1>0, <1>3 DEF Remediate, RemediationFails, FoundAll, input
<1>4. ASSUME NEW w \in Worlds, Change(w) PROVE FoundAll'
  BY <1>4 DEF Change, NextStep, FoundAll
<1>5. CASE UNCHANGED vars
  BY <1>0, <1>5 DEF vars, FoundAll
<1>6. QED
  BY <1>1, <1>2, <1>3, <1>4, <1>5 DEF Next

LEMMA AuditedHolds == Spec => []Audited
<1>1. Audited /\ [Next]_vars => Audited'
  BY StepTypes, StepTorn, StepFoundAll DEF Audited, Typed
<1>2. QED
  BY InitAudited, <1>1, PTL DEF Spec

LEMMA FoundDiffs ==
  ASSUME Audited
  PROVE  /\ step = "remediate" =>
              \A x \in Resources : \A diff \in DiffsOf(x) : Finding(diff) \in findings
         /\ \A f \in findings : /\ step = "remediate"
                                /\ f.diff.on \in Resources /\ f.diff \in DiffsOf(f.diff.on)
                                /\ f = Finding(f.diff)
<1>1. step = "remediate" => \A x \in Resources : \A diff \in DiffsOf(x) : Finding(diff) \in findings
  BY DEF Audited, FoundAll
<1>2. ASSUME NEW f \in findings
      PROVE  /\ step = "remediate"
             /\ f.diff.on \in Resources /\ f.diff \in DiffsOf(f.diff.on)
             /\ f = Finding(f.diff)
  <2>1. step = "remediate"
    BY <1>2 DEF Audited, Typed, Fresh
  <2>2. PICK x \in Resources : \E diff \in DiffsOf(x) : f = Finding(diff)
    BY <1>2, <2>1 DEF Audited, FoundAll
  <2>3. PICK diff \in DiffsOf(x) : f = Finding(diff)
    BY <2>2
  <2>4. diff.on = x /\ f.diff = diff
    BY <2>3, DiffForms DEF Finding, Audited, Typed, TypeOK
  <2>5. QED
    BY <2>1, <2>3, <2>4
<1>3. QED
  BY <1>1, <1>2

\* The difference that shows what a resource that was read has too much.
LEMMA ExcessIsDifferent ==
  ASSUME Audited, NEW x \in read, NEW v \in Values, PersistentExcess(x, v)
  PROVE  \E diff \in DiffsOf(x) : diff.on = x /\ v \in diff.actual
<1>1. image \in Images /\ x \in Resources /\ Kind[x] \in Kinds
  BY KindAssumption DEF Audited, Typed, TypeOK
<1>2. PICK moment \in [Kinds -> seen] : TakenAt(moment)
  BY DEF Audited, Torn
<1>3. v \in Has(x)
  BY <1>1, <1>2 DEF TakenAt, Of, PersistentExcess
<1>4. CASE x \in DOMAIN image
  <2>1. Diff(x, image[x], {v}) \in Extra(x)
    BY <1>3, <1>4 DEF Extra, PersistentExcess
  <2>2. Extra(x) \subseteq DiffsOf(x)
    BY <1>4 DEF DiffsOf
  <2>3. QED
    BY <2>1, <2>2 DEF Diff
<1>5. CASE x \notin DOMAIN image
  <2>1. Diff(x, {}, Has(x)) \in DiffsOf(x)
    BY <1>3, <1>5 DEF DiffsOf, Unapproved, Listed, PersistentExcess
  <2>2. QED
    BY <1>3, <2>1 DEF Diff
<1>6. QED
  BY <1>4, <1>5

\* What one holds too much from the first command to the last is found.
THEOREM ExcessIsFound == Spec => []PersistentExcessIsFound
<1>1. ASSUME Audited PROVE PersistentExcessIsFound
  <2> SUFFICES ASSUME Compared, NEW x \in read, NEW v \in Values, PersistentExcess(x, v)
               PROVE  \E f \in findings : f.diff.on = x /\ v \in f.diff.actual
    BY DEF PersistentExcessIsFound
  <2>1. PICK diff \in DiffsOf(x) : diff.on = x /\ v \in diff.actual
    BY <1>1, ExcessIsDifferent
  <2>2. Finding(diff) \in findings
    BY <1>1, FoundDiffs DEF Compared, Audited, Typed, TypeOK
  <2>3. QED
    BY <2>1, <2>2 DEF Finding
<1>2. QED
  BY AuditedHolds, <1>1, PTL

\* A finding about a resource that was read was true when it was read.
THEOREM FindingsAreReal == Spec => []FindingsWereReal
<1>1. ASSUME Audited PROVE FindingsWereReal
  <2> SUFFICES ASSUME NEW f \in findings, f.diff.on \in read
               PROVE  \E w \in seen :
                        /\ f.diff.actual \subseteq Of(w, f.diff.on)
                        /\ IF f.diff.actual = {}
                             THEN ~(f.diff.expected \subseteq Of(w, f.diff.on))
                             ELSE f.diff.actual \intersect f.diff.expected = {}
    BY DEF FindingsWereReal
  <2>1. PICK moment \in [Kinds -> seen] : TakenAt(moment)
    BY <1>1 DEF Audited, Torn
  <2>2. f.diff.on \in Resources /\ f.diff \in DiffsOf(f.diff.on) /\ image \in Images
    BY <1>1, FoundDiffs DEF Audited, Typed, TypeOK
  <2>3. Kind[f.diff.on] \in Kinds
    BY <2>2, KindAssumption
  <2>4. moment[Kind[f.diff.on]] \in seen
    BY <2>1, <2>3
  <2>5. Has(f.diff.on) = Of(moment[Kind[f.diff.on]], f.diff.on)
    BY <2>1 DEF TakenAt
  <2>6. /\ f.diff.actual \subseteq Has(f.diff.on)
        /\ IF f.diff.actual = {} THEN ~(f.diff.expected \subseteq Has(f.diff.on))
                                 ELSE f.diff.actual \intersect f.diff.expected = {}
    BY <1>1, <2>2, DiffForms DEF Audited, Typed, TypeOK
  <2>7. QED
    BY <2>4, <2>5, <2>6
<1>2. QED
  BY AuditedHolds, <1>1, PTL

\* A share that everybody may write to throughout the audit is critical.
THEOREM OpenIsCritical == Spec => []OpenSharesAreCritical
<1>1. ASSUME Audited PROVE OpenSharesAreCritical
  <2> SUFFICES ASSUME Compared, NEW x \in read, NEW v \in Values, Kind[x] = "share",
                      {"everyone", "change"} \subseteq Mentions[v], PersistentExcess(x, v)
               PROVE  \E f \in findings : /\ f.diff.on = x /\ v \in f.diff.actual
                                          /\ f.severity = "critical"
    BY DEF OpenSharesAreCritical
  <2>1. PICK diff \in DiffsOf(x) : diff.on = x /\ v \in diff.actual
    BY <1>1, ExcessIsDifferent
  <2>2. Finding(diff) \in findings
    BY <1>1, FoundDiffs DEF Compared, Audited, Typed, TypeOK
  <2>3. {"everyone", "change"} \subseteq UNION {Mentions[u] : u \in diff.actual}
    BY <2>1
  <2>4. Severity(diff) = "critical"
    BY <2>1, <2>3 DEF Severity, ShareSeverity
  <2>5. QED
    BY <2>1, <2>2, <2>4 DEF Finding
<1>2. QED
  BY AuditedHolds, <1>1, PTL

\* With its arguments a script lists every group, if it fails for none.
GroupsAreRead ==
  argsFirst = TRUE /\ faults = 0 /\ "group" \in Before[step] =>
    \A x \in Resources : Kind[x] = "group" => x \in read

LEMMA StepGroups == TypeOK /\ GroupsAreRead /\ [Next]_vars => GroupsAreRead'
<1> SUFFICES ASSUME TypeOK, GroupsAreRead, [Next]_vars, (argsFirst = TRUE)', (faults = 0)',
                    "group" \in Before[step'], NEW x \in Resources, Kind[x] = "group"
             PROVE  x \in read'
  BY DEF GroupsAreRead
<1>0. ASSUME UNCHANGED <<argsFirst, read>>, faults = 0, "group" \in Before[step]
      PROVE  x \in read'
  BY <1>0 DEF GroupsAreRead
<1>1. ASSUME NEW items, NEW named, Collect(items, named)
      PROVE  x \in read'
  <2>1. /\ items = {} /\ step \in DOMAIN NextStep /\ step' = NextStep[step]
        /\ read' = read \union {y \in Resources : Kind[y] = step /\ Listable(y)}
        /\ argsFirst' = argsFirst /\ faults' = faults
    BY <1>1 DEF Collect, Keep, Fault, input, TypeOK
  <2>2. CASE step = "group"
    BY <2>1, <2>2 DEF Listable
  <2>3. CASE step # "group"
    <3>1. "group" \in Before[step]
      BY <2>1, <2>3 DEF Before, NextStep, Kinds
    <3>2. QED
      BY <2>1, <3>1 DEF GroupsAreRead
  <2>4. QED
    BY <2>2, <2>3
<1>2. ASSUME NEW items, NEW named, CollectFails(items, named)
      PROVE  FALSE
  BY <1>2 DEF CollectFails, Fault, TypeOK
<1>3. ASSUME Compare PROVE x \in read'
  BY <1>0, <1>3 DEF Compare, input, Before, Kinds
<1>4. ASSUME Remediate \/ RemediationFails PROVE x \in read'
  <2>1. UNCHANGED <<step, read, argsFirst>> /\ faults' \in {faults, faults + 1}
    BY <1>4 DEF Remediate, RemediationFails, Fault, input
  <2>2. QED
    BY <1>0, <2>1 DEF TypeOK
<1>5. ASSUME NEW w \in Worlds, Change(w) PROVE x \in read'
  BY <1>0, <1>5 DEF Change, input
<1>6. CASE UNCHANGED vars
  BY <1>0, <1>6 DEF vars
<1>7. QED
  BY <1>1, <1>2, <1>3, <1>4, <1>5, <1>6 DEF Next

\* Once $Groups and $Paths are assigned before the loops that use them, a
\* member too many is found by every audit in which nothing failed: the
\* order of two lines is all that keeps the code from what its comment says.
THEOREM RepairedGroupsAreAudited ==
  ASSUME ArgsFirst = {TRUE} PROVE Spec => [](faults = 0 => GroupMembersAreAudited)
<1> DEFINE Inv == Audited /\ GroupsAreRead /\ argsFirst = TRUE
<1>1. Init => Inv
  BY InitAudited DEF Init, GroupsAreRead, Before
<1>2. Inv /\ [Next]_vars => Inv'
  <2>1. argsFirst = TRUE /\ [Next]_vars => (argsFirst = TRUE)'
    BY DEF Next, Collect, CollectFails, Compare, Remediate, RemediationFails, Change, input, vars
  <2>2. QED
    BY <2>1, StepTypes, StepTorn, StepFoundAll, StepGroups DEF Audited, Typed
<1>3. Inv => (faults = 0 => GroupMembersAreAudited)
  <2> SUFFICES ASSUME Inv, faults = 0, Compared, NEW x \in DOMAIN image, NEW v \in Values,
                      Kind[x] = "group", PersistentExcess(x, v)
               PROVE  \E f \in findings : f.diff.on = x /\ v \in f.diff.actual
    BY DEF GroupMembersAreAudited
  <2>1. x \in read
    BY AuditAssumption DEF GroupsAreRead, Compared, Before, Kinds, Audited, Typed, TypeOK
  <2>2. PICK diff \in DiffsOf(x) : diff.on = x /\ v \in diff.actual
    BY <2>1, ExcessIsDifferent
  <2>3. x \in Resources /\ Finding(diff) \in findings
    BY <2>1, <2>2, FoundDiffs DEF Compared, Audited, Typed, TypeOK
  <2>4. QED
    BY <2>2, <2>3 DEF Finding
<1>4. QED
  BY <1>1, <1>2, <1>3, PTL DEF Spec

-----------------------------------------------------------------------------
(* The audit names what ComplianceScan takes it to name *)

\* Whether a resource has differences, by its kind.
LEMMA WhenDifferent ==
  ASSUME image \in Images, NEW x \in Resources
  PROVE  /\ x \in DOMAIN image /\ Kind[x] = "folder" =>
              (DiffsOf(x) # {} <=> Has(x) # image[x])
         /\ x \in DOMAIN image /\ Kind[x] \in {"share", "service"} =>
              (DiffsOf(x) # {} <=> ~(Has(x) \subseteq image[x]) \/ ~Listed(x))
         /\ x \in DOMAIN image /\ Kind[x] = "group" =>
              (DiffsOf(x) # {} <=> ~(Has(x) \subseteq image[x]))
         /\ x \notin DOMAIN image /\ Kind[x] = "share" => (DiffsOf(x) # {} <=> Listed(x))
         /\ x \notin DOMAIN image /\ Kind[x] # "share" => DiffsOf(x) = {}
<1>1. Extra(x) # {} <=> ~(Has(x) \subseteq image[x])
  BY DEF Extra
<1>2. Missing(x) # {} <=> ~(image[x] \subseteq Has(x))
  BY DEF Missing
<1>3. Gone(x) # {} <=> ~Listed(x)
  BY DEF Gone
<1>4. Unapproved(x) # {} <=> Listed(x)
  BY DEF Unapproved
<1>5. CASE x \in DOMAIN image /\ Kind[x] = "folder"
  <2>1. DiffsOf(x) # {} <=> Extra(x) # {} \/ Missing(x) # {}
    BY <1>5, DiffsByKind
  <2>2. Has(x) \subseteq Values /\ image[x] \subseteq Values
    BY <1>5, ImageFacts DEF Has, Of
  <2>3. Has(x) # image[x] <=> ~(Has(x) \subseteq image[x]) \/ ~(image[x] \subseteq Has(x))
    BY <2>2
  <2>4. QED
    BY <1>5, <1>1, <1>2, <2>1, <2>3
<1>6. CASE x \in DOMAIN image /\ Kind[x] \in {"share", "service"}
  <2>1. DiffsOf(x) # {} <=> Extra(x) # {} \/ Gone(x) # {}
    BY <1>6, DiffsByKind
  <2>2. QED
    BY <1>6, <1>1, <1>3, <2>1
<1>7. CASE x \in DOMAIN image /\ Kind[x] = "group"
  BY <1>7, <1>1, DiffsByKind
<1>8. CASE x \notin DOMAIN image
  BY <1>8, <1>4, DiffsByKind
<1>9. QED
  BY <1>5, <1>6, <1>7, <1>8, ImageFacts DEF Kinds

\* The resources the audit notices to deviate, given what they were like when
\* their kinds were listed: the approved shares without rights are not among them.
Noticed(moment) ==
  {x \in Resources : Deviates(x, moment[Kind[x]])} \ (bare \intersect DOMAIN image)

\* A resource is different exactly when it is reported.
LEMMA DifferentIsReported ==
  ASSUME Audited, NEW moment \in [Kinds -> seen], TakenAt(moment), NEW x \in Resources
  PROVE  DiffsOf(x) # {} <=>
           x \in Reported(DOMAIN image, Noticed(moment), read \union bare)
<1> DEFINE w == moment[Kind[x]]
           dev == Deviates(x, w)
           reported == x \in Reported(DOMAIN image, Noticed(moment), read \union bare)
<1>1. image \in Images /\ Kind[x] \in Kinds /\ w \in Worlds
  BY KindAssumption DEF Audited, Typed, TypeOK
<1>2. x \in read => Has(x) = Of(w, x)
  BY DEF TakenAt
<1>3. x \notin read => Has(x) = {}
  BY DEF Audited, Typed, TypeOK
<1>4. x \in DOMAIN image => image[x] \subseteq Values /\ (Kind[x] # "group" => image[x] # {})
  BY <1>1, ImageFacts
<1>5. x \in bare => x \notin read /\ Kind[x] = "share" /\ Of(w, x) # {}
  BY DEF TakenAt, Audited, Typed, TypeOK
<1>6. reported <=>
        \/ /\ Kind[x] = "share"
           /\ IF x \in read \union bare THEN dev /\ ~(x \in bare /\ x \in DOMAIN image)
                                      ELSE x \in DOMAIN image
        \/ Kind[x] \in {"folder", "service"} /\ x \in DOMAIN image /\ (x \in read => dev)
        \/ Kind[x] = "group" /\ x \in DOMAIN image /\ x \in read /\ dev
  BY <1>5 DEF Reported, Noticed
<1>7. Listed(x) <=> Has(x) # {} \/ x \in bare
  BY DEF Listed
<1> HIDE DEF reported
<1>8. CASE Kind[x] = "folder"
  <2>1. dev <=> x \in DOMAIN image /\ Of(w, x) # image[x]
    BY <1>8 DEF Deviates
  <2> HIDE DEF dev, w
  <2>2. DiffsOf(x) # {} <=> reported
    BY <1>1, <1>2, <1>3, <1>4, <1>5, <1>6, <1>8, <2>1, WhenDifferent
  <2>3. QED
    BY <2>2 DEF reported
<1>9. CASE Kind[x] = "service"
  <2>1. dev <=> x \in DOMAIN image /\ Of(w, x) # image[x]
    BY <1>9 DEF Deviates
  <2>2. /\ \A u, v \in Of(w, x) : u = v
        /\ x \in DOMAIN image => \A u, v \in image[x] : u = v
    BY <1>1, <1>9, AuditAssumption
  <2>3. x \in DOMAIN image =>
          (Of(w, x) # image[x] <=> ~(Of(w, x) \subseteq image[x]) \/ Of(w, x) = {})
    BY <1>4, <1>9, <2>2
  <2> HIDE DEF dev, w
  <2>4. DiffsOf(x) # {} <=> reported
    BY <1>1, <1>2, <1>3, <1>4, <1>5, <1>6, <1>7, <1>9, <2>1, <2>3, WhenDifferent
  <2>5. QED
    BY <2>4 DEF reported
<1>10. CASE Kind[x] = "share"
  <2>1. dev <=> \/ x \in DOMAIN image /\ ~(Of(w, x) \subseteq image[x])
                \/ (x \in DOMAIN image <=> Of(w, x) = {})
    BY <1>10 DEF Deviates
  <2> HIDE DEF dev, w
  <2>2. DiffsOf(x) # {} <=> reported
    BY <1>1, <1>2, <1>3, <1>4, <1>5, <1>6, <1>7, <1>10, <2>1, WhenDifferent
  <2>3. QED
    BY <2>2 DEF reported
<1>11. CASE Kind[x] = "group"
  <2>1. dev <=> x \in DOMAIN image /\ ~(Of(w, x) \subseteq image[x])
    BY <1>11 DEF Deviates
  <2> HIDE DEF dev, w
  <2>2. DiffsOf(x) # {} <=> reported
    BY <1>1, <1>2, <1>3, <1>5, <1>6, <1>11, <2>1, WhenDifferent
  <2>3. QED
    BY <2>2 DEF reported
<1>12. QED
  BY <1>1, <1>8, <1>9, <1>10, <1>11 DEF Kinds

\* What ComplianceScan does in one step is what the commands, the comparison and
\* the changes in between come to: the findings name the reported resources.
THEOREM NamesAreReported == Spec => []NamesWhatIsReported
<1>1. ASSUME Audited PROVE NamesWhatIsReported
  <2> SUFFICES ASSUME Compared
               PROVE  \E moment \in [Kinds -> seen] :
                        {f.diff.on : f \in findings} =
                          Reported(DOMAIN image, Noticed(moment), read \union bare)
    BY DEF NamesWhatIsReported, Noticed
  <2>1. PICK moment \in [Kinds -> seen] : TakenAt(moment)
    BY <1>1 DEF Audited, Torn
  <2> DEFINE reported == Reported(DOMAIN image, Noticed(moment), read \union bare)
  <2>2. reported \subseteq Resources
    BY DEF Reported
  <2>3. \A x \in Resources : DiffsOf(x) # {} <=> x \in reported
    BY <1>1, <2>1, DifferentIsReported
  <2>4. \A f \in findings : f.diff.on \in Resources /\ f.diff \in DiffsOf(f.diff.on)
    BY <1>1, FoundDiffs
  <2> HIDE DEF reported
  <2>5. ASSUME NEW x \in reported PROVE \E f \in findings : f.diff.on = x
    <3>1. PICK diff \in DiffsOf(x) : TRUE
      BY <2>2, <2>3
    <3>2. diff.on = x
      BY <1>1, <2>2, <3>1, DiffForms DEF Audited, Typed, TypeOK
    <3>3. Finding(diff) \in findings
      BY <1>1, <2>2, <3>1, FoundDiffs DEF Compared
    <3>4. QED
      BY <3>2, <3>3 DEF Finding
  <2>6. {f.diff.on : f \in findings} = reported
    BY <2>3, <2>4, <2>5
  <2>7. QED
    BY <2>1, <2>6 DEF reported
<1>2. QED
  BY AuditedHolds, <1>1, PTL
=============================================================================
