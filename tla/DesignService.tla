---------------------------- MODULE DesignService ----------------------------
(***************************************************************************)
(* Agent 1: POST /design, the governance registry it consults twice, the   *)
(* design artefacts in COS and the learnable catalogue in watsonx.data.    *)
(*                                                                         *)
(* A handler ranks the tools, lets Granite write the design, checks the    *)
(* tool Granite chose, uploads the design and answers; then its background *)
(* tasks store the design in the catalogue and count its tool.  Handlers   *)
(* run in several worker processes and background tasks in threads, so     *)
(* each call to another service is a step of its own, and the registry may *)
(* change between any two of them.                                         *)
(***************************************************************************)
EXTENDS Naturals, Sequences, FiniteSets, FiniteSetsExt, Functions

CONSTANTS
  StaticOrder,  \* _APPROVED_TOOLS_ORDER
  Designs,      \* identities of POST /design calls
  MinUsage,     \* settings.catalogue_min_usage_for_ranking
  MaxRulings,   \* bound: changes in the governance registry
  MaxFaults,    \* bound: calls to other services that fail
  MaxCrashes,   \* bound: designs whose process dies
  NoTool

Tools == {StaticOrder[i] : i \in DOMAIN StaticOrder}

GovernanceStatus == {"Approved", "Pending", "Rejected"}

ASSUME DesignAssumption ==
  /\ StaticOrder \in Seq(Tools) /\ StaticOrder # <<>>
  /\ \A i, j \in DOMAIN StaticOrder : StaticOrder[i] = StaticOrder[j] => i = j
  /\ MinUsage \in Nat
  /\ MaxRulings \in Nat /\ MaxFaults \in Nat /\ MaxCrashes \in Nat
  /\ NoTool \notin Tools

(* An operator named X_Something is a mutant of the X that follows it.     *)

VARIABLES
  registry,   \* governance status of each tool
  catalogue,  \* integration_catalogue: its rows in the order they took effect
  late,       \* failed writes of the catalogue that Presto still works on
  cos,        \* designs uploaded
  stage,      \* progress of each design
  counts,     \* usage counts the handler fetched; 0 if that failed
  looked,     \* tools the handler has looked up in the registry
  ranked,     \* the ranked list the prompt is built from
  chosen,     \* primary_tool of Granite's answer
  status,     \* what the last registry lookup for the chosen tool gave
  rulings,
  faults,
  crashes,
  uncertain,  \* history: designs whose second registry lookup failed
  untracked,  \* history: designs a catalogue write failed for
  allowed,    \* history: tools not rejected at some time since the request
  counted     \* history: designs whose increment found a row

vars == <<registry, catalogue, late, cos, stage, counts, looked, ranked, chosen, status,
          rulings, faults, crashes, uncertain, untracked, allowed, counted>>

handler == <<counts, looked, ranked, chosen, status>>
store == <<catalogue, late, cos>>
external == <<registry, rulings>>
history == <<uncertain, untracked, allowed, counted>>

Init ==
  /\ registry \in [Tools -> GovernanceStatus]
  /\ catalogue = <<>>
  /\ late = {}
  /\ cos = {}
  /\ stage = [d \in Designs |-> "unsent"]
  /\ counts = [d \in Designs |-> [t \in Tools |-> 0]]
  /\ looked = [d \in Designs |-> 0]
  /\ ranked = [d \in Designs |-> <<>>]
  /\ chosen = [d \in Designs |-> NoTool]
  /\ status = [d \in Designs |-> "Unknown"]
  /\ rulings = 0
  /\ faults = 0
  /\ crashes = 0
  /\ uncertain = {}
  /\ untracked = {}
  /\ allowed = [d \in Designs |-> {}]
  /\ counted = {}

Open(d) == stage[d] \in {"counts", "rank", "generate", "check", "upload", "answer"}
Ended(d) == stage[d] \in {"done", "error", "rejected", "crashed"}
Answered(d) == stage[d] \in {"store", "count", "done"}

Goto(d, st) == stage' = [stage EXCEPT ![d] = st]
Fault == faults < MaxFaults /\ faults' = faults + 1

-----------------------------------------------------------------------------
(* The catalogue *)

RowsOf(t) == {i \in DOMAIN catalogue : catalogue[i].tool = t}

\* SELECT tool_chosen, COUNT( * ) ... GROUP BY tool_chosen
UsageCounts == [t \in Tools |-> Cardinality(RowsOf(t))]

Counted_EveryRow(t) ==
  [i \in DOMAIN catalogue |->
     IF i \in RowsOf(t) THEN [catalogue[i] EXCEPT !.usage = @ + 1] ELSE catalogue[i]]

\* The UPDATE of increment_usage_count: the newest row of the tool, if any,
\* whichever design wrote it.  (Rows written at the same time or late may have
\* a created_at of another order; then another row is counted.)
Counted(t) ==
  IF RowsOf(t) = {} THEN catalogue
                    ELSE [catalogue EXCEPT ![Max(RowsOf(t))].usage = @ + 1]

-----------------------------------------------------------------------------
(* The ranking *)

\* A tool is placed behind those used at least as often: sort is stable.
InsertByCount(list, t, c) ==
  LET before == {i \in DOMAIN list : c[list[i]] >= c[t]}
      k == Cardinality(before)
  IN  SubSeq(list, 1, k) \o <<t>> \o SubSeq(list, k + 1, Len(list))

UsesFrequency(c) == MapThenSumSet(LAMBDA t : c[t], Tools) >= MinUsage

Place_StaticOnly(list, t, c) == Append(list, t)

\* The list after tool t was found acceptable, given the usage counts c.
Place(list, t, c) ==
  IF UsesFrequency(c) THEN InsertByCount(list, t, c) ELSE Append(list, t)

-----------------------------------------------------------------------------
(* The handler *)

Post(d) ==
  /\ stage[d] = "unsent"
  /\ Goto(d, "counts")
  /\ allowed' = [allowed EXCEPT ![d] = {t \in Tools : registry[t] # "Rejected"}]
  /\ UNCHANGED <<faults, crashes, uncertain, untracked, counted, handler, store, external>>

\* _fetch_usage_counts; a failed query counts as an empty catalogue.
FetchCounts(d) ==
  /\ stage[d] = "counts"
  /\ \/ /\ counts' = [counts EXCEPT ![d] = UsageCounts]
        /\ UNCHANGED faults
     \/ /\ Fault
        /\ UNCHANGED counts
  /\ Goto(d, "rank")
  /\ UNCHANGED <<crashes, looked, ranked, chosen, status, store, external, history>>

\* check_tool_approval: never raises, "Unknown" if the registry cannot be asked.
Lookup(t, s) ==
  \/ s = registry[t] /\ UNCHANGED faults
  \/ s = "Unknown" /\ Fault

\* get_ranked_tools looks the tools up one by one in the static order; a
\* rejected tool is left out.
RankTool(d) ==
  /\ stage[d] = "rank"
  /\ \E s \in GovernanceStatus \union {"Unknown"} :
       LET t == StaticOrder[looked[d] + 1]
       IN  /\ Lookup(t, s)
           /\ ranked' = [ranked EXCEPT ![d] =
                           IF s = "Rejected" THEN @ ELSE Place(@, t, counts[d])]
  /\ looked' = [looked EXCEPT ![d] = @ + 1]
  /\ Goto(d, IF looked[d] + 1 = Len(StaticOrder) THEN "generate" ELSE "rank")
  /\ UNCHANGED <<crashes, counts, chosen, status, store, external, history>>

\* Granite answers with a design.  It may choose any tool, ranked or not.
Generate(d, t) ==
  /\ stage[d] = "generate"
  /\ chosen' = [chosen EXCEPT ![d] = t]
  /\ Goto(d, "check")
  /\ UNCHANGED <<faults, crashes, counts, looked, ranked, status, store, external, history>>

CheckPrimary_Skipped(d) ==
  /\ stage[d] = "check"
  /\ Goto(d, "upload")
  /\ UNCHANGED <<faults, crashes, handler, store, external, history>>

\* The second lookup, for the tool Granite chose.
CheckPrimary(d) ==
  /\ stage[d] = "check"
  /\ \E s \in GovernanceStatus \union {"Unknown"} :
       /\ Lookup(chosen[d], s)
       /\ status' = [status EXCEPT ![d] = s]
       /\ uncertain' = IF s = registry[chosen[d]] THEN uncertain ELSE uncertain \union {d}
       /\ Goto(d, IF s = "Rejected" THEN "rejected" ELSE "upload")
  /\ UNCHANGED <<crashes, counts, looked, ranked, chosen, untracked, allowed, counted,
                 store, external>>

Upload_BestEffort(d) ==
  /\ stage[d] = "upload"
  /\ cos' \in {cos, cos \union {d}}
  /\ Goto(d, "answer")
  /\ UNCHANGED <<catalogue, late, faults, crashes, handler, external, history>>

Upload(d) ==
  /\ stage[d] = "upload"
  /\ cos' = cos \union {d}
  /\ Goto(d, "answer")
  /\ UNCHANGED <<catalogue, late, faults, crashes, handler, external, history>>

\* Granite raises or writes something that is no design, before or after the
\* second lookup; or the upload raises, with or without effect.
HandlerFails(d) ==
  /\ stage[d] \in {"generate", "check", "upload"}
  /\ Fault
  /\ cos' \in {cos, IF stage[d] = "upload" THEN cos \union {d} ELSE cos}
  /\ Goto(d, "error")
  /\ UNCHANGED <<catalogue, late, crashes, handler, external, history>>

\* The response says governance_status = Approved, whatever was looked up.
Answer(d) ==
  /\ stage[d] = "answer"
  /\ Goto(d, "store")
  /\ UNCHANGED <<faults, crashes, handler, store, external, history>>

-----------------------------------------------------------------------------
(* Background tasks *)

Row_StartsAtZero(d) == [design |-> d, tool |-> chosen[d], usage |-> 0]

Row(d) == [design |-> d, tool |-> chosen[d], usage |-> 1]

\* The statement of a write takes effect: the INSERT of store_design or the
\* UPDATE of increment_usage_count.
Apply(w) ==
  \/ /\ w.part = "row"
     /\ catalogue' = Append(catalogue, Row(w.design))
     /\ UNCHANGED counted
  \/ /\ w.part = "usage"
     /\ catalogue' = Counted(chosen[w.design])
     /\ counted' = IF RowsOf(chosen[w.design]) = {} THEN counted
                                                    ELSE counted \union {w.design}

\* The statement is carried out, or an error is raised and it is carried out
\* later or never; the error is only logged.
Write(w) ==
  \/ Apply(w) /\ UNCHANGED <<late, faults, untracked>>
  \/ /\ Fault
     /\ untracked' = untracked \union {w.design}
     /\ late' \in {late, late \union {w}}
     /\ UNCHANGED <<catalogue, counted>>

\* store_design
StoreDesign(d) ==
  /\ stage[d] = "store"
  /\ Write([part |-> "row", design |-> d])
  /\ Goto(d, "count")
  /\ UNCHANGED <<cos, crashes, uncertain, allowed, handler, external>>

\* increment_usage_count
CountUsage(d) ==
  /\ stage[d] = "count"
  /\ Write([part |-> "usage", design |-> d])
  /\ Goto(d, "done")
  /\ UNCHANGED <<cos, crashes, uncertain, allowed, handler, external>>

-----------------------------------------------------------------------------
(* Environment *)

\* The governance board rules on a tool.
Rule(t, s) ==
  /\ rulings < MaxRulings
  /\ registry[t] # s
  /\ rulings' = rulings + 1
  /\ registry' = [registry EXCEPT ![t] = s]
  /\ allowed' = [d \in Designs |-> IF Open(d) /\ s # "Rejected" THEN allowed[d] \union {t}
                                                              ELSE allowed[d]]
  /\ UNCHANGED <<faults, crashes, stage, uncertain, untracked, counted, handler, store>>

\* The process that runs the design, or its background tasks, is killed.
Crash(d) ==
  /\ Open(d) \/ stage[d] \in {"store", "count"}
  /\ crashes < MaxCrashes
  /\ crashes' = crashes + 1
  /\ Goto(d, "crashed")
  /\ UNCHANGED <<faults, handler, store, external, history>>

\* Presto ends a statement whose caller has given up.
LateWrite(w) ==
  /\ w \in late
  /\ late' = late \ {w}
  /\ Apply(w)
  /\ UNCHANGED <<stage, cos, faults, crashes, uncertain, untracked, allowed, handler, external>>

AllEnded == (\A d \in Designs : Ended(d)) /\ late = {} /\ UNCHANGED vars

Next ==
  \/ \E d \in Designs :
       \/ Post(d) \/ FetchCounts(d) \/ RankTool(d)
       \/ \E t \in Tools : Generate(d, t)
       \/ CheckPrimary(d) \/ Upload(d) \/ HandlerFails(d) \/ Answer(d)
       \/ StoreDesign(d) \/ CountUsage(d)
       \/ Crash(d)
  \/ \E w \in late : LateWrite(w)
  \/ \E t \in Tools, s \in GovernanceStatus : Rule(t, s)
  \/ AllEnded

Spec == Init /\ [][Next]_vars

-----------------------------------------------------------------------------
(* Properties *)

RowType == [design : Designs, tool : Tools, usage : Nat \ {0}]

TypeOK ==
  /\ registry \in [Tools -> GovernanceStatus]
  /\ catalogue \in Seq(RowType)
  /\ late \subseteq [part : {"row", "usage"}, design : Designs]
  /\ cos \in SUBSET Designs
  /\ stage \in [Designs -> {"unsent", "counts", "rank", "generate", "check", "upload",
                            "answer", "store", "count", "done", "error", "rejected",
                            "crashed"}]
  /\ counts \in [Designs -> [Tools -> Nat]]
  /\ looked \in [Designs -> 0..Len(StaticOrder)]
  /\ \A d \in Designs : stage[d] = "rank" => looked[d] < Len(StaticOrder)
  /\ ranked \in [Designs -> Seq(Tools)]
  /\ chosen \in [Designs -> Tools \union {NoTool}]
  /\ \A d \in Designs : stage[d] \in {"check", "upload", "answer", "store", "count", "done"}
                          => chosen[d] # NoTool
  /\ status \in [Designs -> GovernanceStatus \union {"Unknown"}]
  /\ rulings \in Nat /\ faults \in Nat /\ crashes \in Nat
  /\ uncertain \in SUBSET Designs /\ untracked \in SUBSET Designs
  /\ allowed \in [Designs -> SUBSET Tools]
  /\ counted \in SUBSET Designs

\* A tool that was rejected all the time since the request is not recommended
\* to its client, whatever the lookups of the ranking gave and Granite made of
\* the list; only a second lookup that failed lets it through, as "Unknown".
RejectedIsNotRecommended ==
  \A d \in Designs : Answered(d) /\ d \notin uncertain => chosen[d] \in allowed[d]

StaticPosition(t) == CHOOSE i \in DOMAIN StaticOrder : StaticOrder[i] = t

\* The prompt lists each tool at most once; of two tools the one used more
\* often comes first once the catalogue is large enough, and the static order
\* decides otherwise.
RankingIsByUsage ==
  \A d \in Designs : \A i, j \in DOMAIN ranked[d] : i < j =>
    LET t == ranked[d][i]
        u == ranked[d][j]
        more(x, y) == UsesFrequency(counts[d]) /\ counts[d][x] > counts[d][y]
    IN  more(t, u) \/ (~more(u, t) /\ StaticPosition(t) < StaticPosition(u))

\* A row of the catalogue belongs to a design that is in COS, and no design
\* has two rows.
CatalogueHasArtefacts ==
  /\ \A i \in DOMAIN catalogue : catalogue[i].design \in cos
  /\ \A i, j \in DOMAIN catalogue : catalogue[i].design = catalogue[j].design => i = j

Usage == [i \in DOMAIN catalogue |-> catalogue[i].usage]

\* The usage counters of a tool are its designs in the catalogue and the
\* increments made for it, added up, whatever failed, came late or went to the
\* row of another design: no increment is made twice or for another tool.  And
\* a design whose background tasks are through has its row and its increment,
\* unless a write of this very design failed.
UsageAddsUp ==
  /\ \A t \in Tools :
       SumFunctionOnSet(Usage, RowsOf(t))
         = Cardinality(RowsOf(t)) + Cardinality({d \in counted : chosen[d] = t})
  /\ \A d \in Designs \ untracked : stage[d] = "done" =>
       d \in counted /\ \E i \in DOMAIN catalogue : catalogue[i].design = d
=============================================================================
