---------------------------- MODULE ServerAudit ----------------------------
(***************************************************************************)
(* Agent 2: _audit_one_server for one server and one Gold Image.           *)
(*                                                                         *)
(* The collector runs five commands over WinRM, one after the other, while *)
(* the server goes on living.  A command that fails costs its kind of      *)
(* resource and an entry in collection_errors; a command whose script      *)
(* meets an error and exits with 0 all the same lists less, and nothing    *)
(* records it.  The snapshot is compared with the Gold Image, every        *)
(* difference becomes a finding with a severity and Granite is asked for a *)
(* script for each of them.                                                *)
(*                                                                         *)
(* The state of a server is a set of facts <<resource, value>>: a          *)
(* permission on a folder, a right on a share, a member of a group, the    *)
(* account of a service.  A share has at least one right.                  *)
(***************************************************************************)
EXTENDS Deviations, Naturals

CONSTANTS
  Values,
  Mentions,         \* the words the severity rules find in a value
  Hidden,           \* shares the collector leaves out, like ADMIN$
  LocalSystem,      \* the account whose services the collector leaves out
  AdminGroups,      \* groups with ADMINISTRATORS in their names
  OperatorGroups,   \* BACKUP OPERATORS and NETWORK CONFIGURATION OPERATORS
  Images,           \* possible Gold Images: approved values of resources
  Worlds,           \* possible states of the server
  ArgsFirst,        \* {FALSE}: $Paths and $Groups are assigned after the loops
                    \* that use them, as in the code; TRUE: before
  MaxChanges,       \* bound: changes of the server during the audit
  MaxFaults         \* bound: commands that fail or list less, failed scripts

Words == {"everyone", "change", "write", "read", "admin"}

Facts == Resources \X Values

\* The values facts give x.
Of(facts, x) == {v \in Values : <<x, v>> \in facts}

ASSUME AuditAssumption ==
  /\ Mentions \in [Values -> SUBSET Words]
  /\ Hidden \subseteq Resources /\ \A x \in Hidden : Kind[x] = "share"
  /\ \A image \in Images :
       /\ DOMAIN image \subseteq Resources
       /\ \A x \in DOMAIN image : /\ image[x] \in SUBSET Values
                                  /\ image[x] = {} => Kind[x] = "group"
  /\ Worlds \subseteq SUBSET Facts
  /\ \A x \in Resources : Kind[x] = "service" =>
       /\ \A w \in Worlds : \A u, v \in Of(w, x) : u = v
       /\ \A image \in Images :
            x \in DOMAIN image => \A u, v \in image[x] : u = v
  /\ ArgsFirst \subseteq BOOLEAN
  /\ MaxChanges \in Nat /\ MaxFaults \in Nat

(* An operator named X_Something is a mutant of the X that follows it.      *)

VARIABLES
  image,      \* the Gold Image: {attribute_key: expected_value}
  argsFirst,  \* whether the folder and group scripts get their arguments
  server,     \* the facts that hold now
  step,       \* the next command, then "compare", then "remediate"
  snapshot,   \* the facts collected so far
  bare,       \* shares collected with an empty list of rights
  errors,     \* commands that failed (collection_errors)
  findings,   \* the findings of the server
  todo,       \* findings no script was asked for yet
  scripts,    \* findings with a remediation
  read,       \* history: resources that were listed, or found absent
  seen,       \* history: states of the server since the audit began
  changes,    \* changes so far
  faults      \* failures so far

vars == <<image, argsFirst, server, step, snapshot, bare, errors, findings,
          todo, scripts, read, seen, changes, faults>>

input == <<image, argsFirst>>
world == <<server, seen, changes>>
result == <<findings, todo, scripts>>

Init ==
  /\ image \in Images
  /\ argsFirst \in ArgsFirst
  /\ server \in Worlds
  /\ step = "os"
  /\ snapshot = {} /\ bare = {} /\ errors = {} /\ read = {}
  /\ findings = {} /\ todo = {} /\ scripts = {}
  /\ seen = {server}
  /\ changes = 0 /\ faults = 0

Fault == faults < MaxFaults /\ faults' = faults + 1

-----------------------------------------------------------------------------
(* collect_server_state *)

NextStep == [os |-> "folder", folder |-> "share", share |-> "group",
             group |-> "service", service |-> "compare"]

\* Whether the script of x's kind lists x if it is there: the loops of the
\* folder and group scripts run over nothing unless they have their arguments.
Listable(x) ==
  \/ Kind[x] = "share" /\ x \notin Hidden
  \/ Kind[x] = "service" /\ LocalSystem \notin Of(server, x)
  \/ Kind[x] \in {"folder", "group"} /\ argsFirst

\* Items are listed, and the named shares without their rights.
Keep(items, named) ==
  /\ \A x \in named : /\ Kind[x] = "share" /\ Listable(x) /\ x \notin items
                      /\ Of(server, x) # {}
  /\ snapshot' = snapshot \union {f \in server : f[1] \in items}
  /\ bare' = bare \union named
  /\ read' = read \union items
  /\ step' = NextStep[step]

\* The script lists everything, but for what a cmdlet in it fails to read: a
\* group (caught in the script), the entries of a folder, shares or their
\* rights, services.  It exits with 0 then as well, and no error is recorded.
Collect(skip, named) ==
  /\ step \in DOMAIN NextStep
  /\ IF skip = {} THEN UNCHANGED faults ELSE Fault
  /\ Keep({x \in Resources : Kind[x] = step /\ Listable(x)} \ skip, named)
  /\ UNCHANGED <<errors, input, world, result>>

\* The command fails, or an item of its output does not fit the model; the
\* items before it stay in the snapshot.
CollectFails(items, named) ==
  /\ step \in DOMAIN NextStep
  /\ \A x \in items : Listable(x)
  /\ Fault
  /\ Keep(items, named)
  /\ errors' = errors \union {step}
  /\ UNCHANGED <<input, world, result>>

-----------------------------------------------------------------------------
(* compare_snapshot *)

Has(x) == Of(snapshot, x)

Diff(x, expected, actual) == [on |-> x, expected |-> expected, actual |-> actual]

Extra_AllOrNothing(x) ==
  IF Has(x) \intersect image[x] = {} THEN {Diff(x, image[x], {v}) : v \in Has(x)}
                                     ELSE {}

Extra_WithoutDifference(x) == {Diff(x, image[x], {v}) : v \in Has(x)}

Extra(x) == {Diff(x, image[x], {v}) : v \in Has(x) \ image[x]}

Missing(x) == {Diff(x, {v}, {}) : v \in image[x] \ Has(x)}

Listed(x) == Has(x) # {} \/ x \in bare

\* "<share not found>" or "<service not found>"
Gone(x) == IF Listed(x) THEN {} ELSE {Diff(x, image[x], {})}

Unapproved(x) == IF Listed(x) THEN {Diff(x, {}, Has(x))} ELSE {}

DiffsOf_SkipsGone(x) ==
  IF x \in DOMAIN image
    THEN Extra(x) \union (IF Kind[x] = "folder" THEN Missing(x) ELSE {})
    ELSE IF Kind[x] = "share" THEN Unapproved(x) ELSE {}

DiffsOf(x) ==
  IF x \in DOMAIN image
    THEN Extra(x) \union CASE Kind[x] = "folder" -> Missing(x)
                           [] Kind[x] \in {"share", "service"} -> Gone(x)
                           [] Kind[x] = "group" -> {}
    ELSE IF Kind[x] = "share" THEN Unapproved(x) ELSE {}

-----------------------------------------------------------------------------
(* classify_diffs *)

FolderSeverity(said) ==
  IF "write" \in said THEN "critical" ELSE IF "read" \in said THEN "high" ELSE "medium"

ShareSeverity_NewIsHigh(x, said) ==
  IF x \notin DOMAIN image THEN "high"
  ELSE IF {"everyone", "change"} \subseteq said THEN "critical" ELSE "medium"

ShareSeverity(x, said) ==
  IF {"everyone", "change"} \subseteq said THEN "critical"
  ELSE IF x \notin DOMAIN image THEN "high" ELSE "medium"

GroupSeverity_FallsThrough(x) ==
  IF x \in AdminGroups THEN "critical"
  ELSE IF x \in OperatorGroups THEN "high" ELSE "low"

GroupSeverity(x) ==
  IF x \in AdminGroups THEN "critical"
  ELSE IF x \in OperatorGroups THEN "high" ELSE "medium"

\* _classify_severity: the words are looked for in the printed actual value,
\* which for an unapproved share is the list of all its rights.
Severity(diff) ==
  LET said == UNION {Mentions[v] : v \in diff.actual}
      x == diff.on
  IN  CASE Kind[x] = "folder" -> FolderSeverity(said)
        [] Kind[x] = "share" -> ShareSeverity(x, said)
        [] Kind[x] = "group" -> GroupSeverity(x)
        [] Kind[x] = "service" -> IF "admin" \in said THEN "critical" ELSE "high"

Finding(diff) == [diff |-> diff, severity |-> Severity(diff)]

Compare ==
  /\ step = "compare"
  /\ step' = "remediate"
  /\ findings' = {Finding(diff) : diff \in UNION {DiffsOf(x) : x \in Resources}}
  /\ todo' = findings'
  /\ UNCHANGED <<snapshot, bare, errors, scripts, read, faults, input, world>>

-----------------------------------------------------------------------------
(* generate_all_remediations *)

\* The loop takes the findings in the order of the comparison.
Current == CHOOSE finding \in todo : TRUE

Remediate ==
  /\ todo # {}
  /\ todo' = todo \ {Current}
  /\ scripts' = scripts \union {Current}
  /\ UNCHANGED <<step, snapshot, bare, errors, findings, read, faults, input, world>>

\* Granite or the syntax check raises: this finding gets no script.
RemediationFails ==
  /\ todo # {}
  /\ Fault
  /\ todo' = todo \ {Current}
  /\ UNCHANGED <<step, snapshot, bare, errors, findings, scripts, read, input, world>>

-----------------------------------------------------------------------------
(* Environment *)

\* Somebody changes the server while it is audited.
Change(w) ==
  /\ step \in DOMAIN NextStep
  /\ changes < MaxChanges
  /\ changes' = changes + 1
  /\ server' = w
  /\ seen' = seen \union {w}
  /\ UNCHANGED <<step, snapshot, bare, errors, read, faults, input, result>>

Ended == step = "remediate" /\ todo = {}

Next ==
  \/ \E items \in SUBSET {x \in Resources : Kind[x] = step} :
       \E named \in SUBSET {x \in Resources : Kind[x] = step} :
         Collect(items, named) \/ CollectFails(items, named)
  \/ Compare
  \/ Remediate
  \/ RemediationFails
  \/ \E w \in Worlds : Change(w)
  \/ Ended /\ UNCHANGED vars

Spec == Init /\ [][Next]_vars

-----------------------------------------------------------------------------
(* Properties *)

DiffType == [on : Resources, expected : SUBSET Values, actual : SUBSET Values]

FindingType == [diff : DiffType, severity : {"critical", "high", "medium"}]

TypeOK ==
  /\ image \in Images
  /\ argsFirst \in BOOLEAN
  /\ server \in Worlds /\ seen \subseteq Worlds /\ server \in seen
  /\ step \in DOMAIN NextStep \union {"compare", "remediate"}
  /\ snapshot \subseteq Facts
  /\ \A x \in Resources : Has(x) # {} => x \in read
  /\ bare \subseteq {x \in Resources \ read : Kind[x] = "share"}
  /\ errors \subseteq DOMAIN NextStep
  /\ findings \subseteq FindingType
  /\ todo \subseteq findings /\ scripts \subseteq findings
  /\ read \subseteq Resources
  /\ changes \in Nat /\ faults \in Nat

Compared == step = "remediate"

\* x deviates from the Gold Image in a state of the server.
Deviates(x, facts) ==
  \/ /\ x \in DOMAIN image /\ Kind[x] \in {"folder", "service"}
     /\ Of(facts, x) # image[x]
  \/ /\ x \in DOMAIN image /\ Kind[x] \in {"share", "group"}
     /\ ~(Of(facts, x) \subseteq image[x])
  \/ Kind[x] = "share" /\ (x \in DOMAIN image <=> Of(facts, x) = {})

\* The audit names the resources ComplianceScan says it names, if every kind
\* of resource may have been read at another moment of the audit: a change in
\* between tears the snapshot, but never within a kind.  A share listed without
\* its rights is named if it is not approved, and passes for one without
\* deviation if it is.
NamesWhatIsReported ==
  Compared =>
    \E moment \in [Kinds -> seen] :
      LET deviating == {x \in Resources : Deviates(x, moment[Kind[x]])}
          unnoticed == bare \intersect DOMAIN image
      IN  {f.diff.on : f \in findings} =
            Reported(DOMAIN image, deviating \ unnoticed, read \union bare)

\* x gives v throughout the audit, and the Gold Image does not approve it.
PersistentExcess(x, v) ==
  /\ \A w \in seen : <<x, v>> \in w
  /\ IF x \in DOMAIN image THEN v \notin image[x] ELSE Kind[x] = "share"

\* What one holds too much from the first command to the last is found,
\* whatever else changes or fails meanwhile, unless its resource was not read:
\* its command or cmdlet failed, or the collector leaves it out.
PersistentExcessIsFound ==
  Compared =>
    \A x \in read, v \in Values :
      PersistentExcess(x, v) => \E f \in findings : f.diff.on = x /\ v \in f.diff.actual

\* A finding about a resource that was read was true at some moment of the
\* audit: what it names was there and not approved, or what it misses was
\* approved and not there.
FindingsWereReal ==
  \A f \in findings : f.diff.on \in read =>
    \E w \in seen :
      /\ f.diff.actual \subseteq Of(w, f.diff.on)
      /\ IF f.diff.actual = {} THEN ~(f.diff.expected \subseteq Of(w, f.diff.on))
                               ELSE f.diff.actual \intersect f.diff.expected = {}

\* A share that was listed with its rights and that everybody may write to
\* throughout the audit is a critical finding, be it an approved share or not,
\* unless that right is approved.  Nothing is said of the shares the collector
\* leaves out, nor of those a failed command or cmdlet did not list.
OpenSharesAreCritical ==
  Compared =>
    \A x \in read, v \in Values :
      /\ Kind[x] = "share" /\ {"everyone", "change"} \subseteq Mentions[v]
      /\ PersistentExcess(x, v)
      => \E f \in findings : f.diff.on = x /\ v \in f.diff.actual /\ f.severity = "critical"

\* winrm_collector.py: "Local group memberships" are collected.  A member too
\* many throughout an audit without errors is found.
GroupMembersAreAudited ==
  Compared /\ errors = {} =>
    \A x \in DOMAIN image, v \in Values :
      Kind[x] = "group" /\ PersistentExcess(x, v) =>
        \E f \in findings : f.diff.on = x /\ v \in f.diff.actual
=============================================================================
