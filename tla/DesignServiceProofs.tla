------------------------- MODULE DesignServiceProofs -------------------------
(***************************************************************************)
(* Proofs about DesignService, for any static order of tools, any number   *)
(* of designs, and any number of rulings, failures and crashes.            *)
(***************************************************************************)
EXTENDS DesignService, PositionLemmas, TLAPS, SequenceTheorems

-----------------------------------------------------------------------------
(* The ranking *)

\* t belongs before u in a list ranked by the usage counts c.
Precedes(c, t, u) ==
  LET more(x, y) == UsesFrequency(c) /\ c[x] > c[y]
  IN  more(t, u) \/ (~more(u, t) /\ StaticPosition(t) < StaticPosition(u))

Sorted(list, c) ==
  \A i, j \in DOMAIN list : i < j => Precedes(c, list[i], list[j])

\* The list holds tools of the first k positions of the static order.
UpTo(list, k) == \A i \in DOMAIN list : StaticPosition(list[i]) <= k

LEMMA StaticOrderFacts ==
  /\ StaticOrder \in Seq(Tools) /\ Len(StaticOrder) \in Nat \ {0}
  /\ DOMAIN StaticOrder = 1..Len(StaticOrder)
  /\ \A i \in 1..Len(StaticOrder) : StaticOrder[i] \in Tools /\ StaticPosition(StaticOrder[i]) = i
  /\ \A t \in Tools : StaticPosition(t) \in 1..Len(StaticOrder)
<1>1. /\ StaticOrder \in Seq(Tools) /\ Len(StaticOrder) \in Nat \ {0}
      /\ DOMAIN StaticOrder = 1..Len(StaticOrder)
  BY DesignAssumption, EmptySeq, LenProperties
<1>2. \A i \in 1..Len(StaticOrder) : StaticOrder[i] \in Tools
  BY <1>1 DEF Tools
<1>3. \A i \in 1..Len(StaticOrder) : StaticPosition(StaticOrder[i]) = i
  BY <1>1, DesignAssumption DEF StaticPosition
<1>4. \A t \in Tools : StaticPosition(t) \in 1..Len(StaticOrder)
  BY <1>1, <1>3 DEF Tools
<1>5. QED
  BY <1>1, <1>2, <1>3, <1>4

\* The number of listed tools used at least as often as t.
UsedAsOften(list, t, c) == Cardinality({i \in DOMAIN list : c[list[i]] >= c[t]})

\* InsertByCount puts a tool behind those used at least as often.
LEMMA InsertProperties ==
  ASSUME NEW list \in Seq(Tools), NEW t \in Tools, NEW c
  PROVE  /\ UsedAsOften(list, t, c) \in 0..Len(list)
         /\ InsertByCount(list, t, c) \in Seq(Tools)
         /\ Len(InsertByCount(list, t, c)) = Len(list) + 1
         /\ \A i \in 1..Len(list) + 1 :
              InsertByCount(list, t, c)[i] = IF i <= UsedAsOften(list, t, c) THEN list[i]
                                             ELSE IF i = UsedAsOften(list, t, c) + 1 THEN t
                                             ELSE list[i - 1]
<1> DEFINE k == Cardinality({i \in DOMAIN list : c[list[i]] >= c[t]})
           new == SubSeq(list, 1, k) \o <<t>> \o SubSeq(list, k + 1, Len(list))
<1>1. Len(list) \in Nat /\ DOMAIN list = 1..Len(list)
  BY LenProperties
<1>2. k \in 0..Len(list)
  BY <1>1, CountOfPositions
<1>3. new = InsertByCount(list, t, c)
  BY DEF InsertByCount
<1> HIDE DEF k
<1>4. /\ new \in Seq(Tools) /\ Len(new) = Len(list) + 1
      /\ \A i \in 1..Len(list) + 1 :
           new[i] = IF i <= k THEN list[i] ELSE IF i = k + 1 THEN t ELSE list[i - 1]
  BY <1>2, InsertBehind
<1> HIDE DEF new
<1>5. QED
  BY <1>2, <1>3, <1>4 DEF k, UsedAsOften

LEMMA PlaceType ==
  ASSUME NEW list \in Seq(Tools), NEW t \in Tools, NEW c
  PROVE  Place(list, t, c) \in Seq(Tools)
BY InsertProperties, AppendProperties DEF Place

\* RankTool keeps the list sorted: the tools used at least as often as the new
\* one are a front part of a sorted list.
LEMMA PlaceSorted ==
  ASSUME NEW list \in Seq(Tools), NEW c \in [Tools -> Nat], NEW k \in 0..Len(StaticOrder) - 1,
         Sorted(list, c), UpTo(list, k)
  PROVE  LET new == Place(list, StaticOrder[k + 1], c)
         IN  Sorted(new, c) /\ UpTo(new, k + 1)
<1> DEFINE t == StaticOrder[k + 1]
           n == Len(list)
<1>1. k + 1 \in 1..Len(StaticOrder) /\ t \in Tools /\ StaticPosition(t) = k + 1
  BY StaticOrderFacts
<1>2. /\ n \in Nat /\ DOMAIN list = 1..n
      /\ \A i \in 1..n : list[i] \in Tools /\ StaticPosition(list[i]) \in 1..k
  <2>1. n \in Nat /\ DOMAIN list = 1..n /\ \A i \in 1..n : list[i] \in Tools
    BY LenProperties, ElementOfSeq
  <2>2. \A i \in 1..n : StaticPosition(list[i]) \in 1..Len(StaticOrder)
    BY <2>1, StaticOrderFacts
  <2>3. \A i \in 1..n : StaticPosition(list[i]) <= k
    BY <2>1 DEF UpTo
  <2>4. k \in Nat /\ Len(StaticOrder) \in Nat
    BY StaticOrderFacts
  <2> HIDE DEF n
  <2>5. QED
    BY <2>1, <2>2, <2>3, <2>4
<1>3. \A i \in 1..n : StaticPosition(list[i]) < StaticPosition(t)
  BY <1>1, <1>2
<1> HIDE DEF t, n
<1>4. CASE ~UsesFrequency(c)
  <2> DEFINE new == Append(list, t)
  <2>1. /\ new \in Seq(Tools) /\ Len(new) = n + 1 /\ new[n + 1] = t
        /\ \A i \in 1..n : new[i] = list[i]
    BY <1>1, AppendProperties DEF n
  <2>2. DOMAIN new = 1..n + 1
    BY <2>1, LenProperties
  <2> HIDE DEF new
  <2>3. ASSUME NEW i \in 1..n + 1, NEW j \in 1..n + 1, i < j
        PROVE  Precedes(c, new[i], new[j])
    <3>1. i \in 1..n /\ new[i] = list[i]
      BY <1>2, <2>1, <2>3
    <3>2. CASE j = n + 1
      BY <1>3, <1>4, <2>1, <3>1, <3>2 DEF Precedes
    <3>3. CASE j # n + 1
      <4>1. j \in 1..n /\ new[j] = list[j]
        BY <1>2, <2>1, <2>3, <3>3
      <4>2. QED
        BY <1>2, <2>3, <3>1, <4>1 DEF Sorted
    <3>4. QED
      BY <3>2, <3>3
  <2>4. \A i \in 1..n + 1 : StaticPosition(new[i]) <= k + 1
    <3>1. \A i \in 1..n + 1 : i = n + 1 \/ i \in 1..n
      BY <1>2
    <3>2. QED
      BY <1>1, <1>2, <2>1, <3>1
  <2>5. QED
    BY <1>4, <2>2, <2>3, <2>4 DEF Place, Sorted, UpTo, new, t
<1>5. CASE UsesFrequency(c)
  <2> DEFINE before == {i \in DOMAIN list : c[list[i]] >= c[t]}
             m == UsedAsOften(list, t, c)
             new == InsertByCount(list, t, c)
  <2>1. \A i, j \in 1..n : i < j => c[list[i]] >= c[list[j]]
    <3>1. \A i \in 1..n : c[list[i]] \in Nat
      BY <1>2
    <3>2. ASSUME NEW i \in 1..n, NEW j \in 1..n, i < j
          PROVE  c[list[i]] >= c[list[j]]
      <4>1. Precedes(c, list[i], list[j])
        BY <1>2, <3>2 DEF Sorted
      <4>2. c[list[i]] > c[list[j]] \/ ~(c[list[j]] > c[list[i]])
        BY <1>5, <4>1 DEF Precedes
      <4>3. QED
        BY <3>1, <4>2
    <3>3. QED
      BY <3>2
  <2>2. m \in 0..n /\ before = 1..m
    <3>1. \A i \in before : 1..i \subseteq before
      <4>1. ASSUME NEW i \in before, NEW j \in 1..i
            PROVE  j \in before
        <5>1. i \in 1..n /\ j \in 1..n /\ (j < i \/ j = i)
          BY <1>2, <4>1
        <5>2. c[list[i]] \in Nat /\ c[list[j]] \in Nat /\ c[t] \in Nat
          BY <1>1, <1>2, <5>1
        <5>3. QED
          BY <1>2, <2>1, <5>1, <5>2
      <4>2. QED
        BY <4>1
    <3>2. before \in SUBSET (1..n)
      BY <1>2
    <3>3. m = Cardinality(before)
      BY DEF UsedAsOften
    <3> HIDE DEF before, m
    <3>4. QED
      BY <1>2, <3>1, <3>2, <3>3, InitialSegment
  <2>3. /\ new \in Seq(Tools) /\ Len(new) = n + 1
        /\ \A i \in 1..n + 1 :
             new[i] = IF i <= m THEN list[i] ELSE IF i = m + 1 THEN t ELSE list[i - 1]
    BY <1>1, InsertProperties DEF n
  <2>4. DOMAIN new = 1..n + 1
    BY <2>3, LenProperties
  <2>5. /\ \A i \in 1..n : i <= m => ~(c[t] > c[list[i]])
        /\ \A i \in 1..n : i > m => c[t] > c[list[i]]
    <3>1. \A i \in 1..n : c[list[i]] \in Nat /\ c[t] \in Nat
      BY <1>1, <1>2
    <3>2. \A i \in 1..n : i \in before <=> c[list[i]] >= c[t]
      BY <1>2
    <3> HIDE DEF before, m
    <3>3. \A i \in 1..n : i \in before <=> i <= m
      BY <1>2, <2>2
    <3>4. ASSUME NEW i \in 1..n
          PROVE  (i <= m => ~(c[t] > c[list[i]])) /\ (i > m => c[t] > c[list[i]])
      <4>1. i <= m <=> c[list[i]] >= c[t]
        BY <3>2, <3>3
      <4>2. m \in Nat /\ i \in Nat /\ c[list[i]] \in Nat /\ c[t] \in Nat
        BY <1>2, <2>2, <3>1
      <4>3. QED
        BY <4>1, <4>2
    <3>5. QED
      BY <3>4
  <2> HIDE DEF new, m, before
  <2>6. ASSUME NEW i \in 1..n + 1, NEW j \in 1..n + 1, i < j
        PROVE  Precedes(c, new[i], new[j])
    <3>1. CASE j <= m
      <4>0. i \in 1..n /\ j \in 1..n /\ i <= m
        BY <1>2, <2>2, <2>6, <3>1
      <4>1. new[i] = list[i] /\ new[j] = list[j]
        BY <2>3, <3>1, <4>0
      <4>2. QED
        BY <1>2, <2>6, <4>0, <4>1 DEF Sorted
    <3>2. CASE j = m + 1
      <4>1. i \in 1..n /\ i <= m /\ new[i] = list[i] /\ new[j] = t
        BY <1>2, <2>2, <2>3, <2>6, <3>2
      <4>2. QED
        BY <1>3, <2>5, <4>1 DEF Precedes
    <3>3. CASE j > m + 1 /\ i = m + 1
      <4>1. j - 1 \in 1..n /\ j - 1 > m /\ new[i] = t /\ new[j] = list[j - 1]
        BY <1>2, <2>2, <2>3, <2>6, <3>3
      <4>2. QED
        BY <1>5, <2>5, <4>1 DEF Precedes
    <3>4. CASE j > m + 1 /\ i <= m
      <4>1. /\ i \in 1..n /\ j - 1 \in 1..n /\ i < j - 1
            /\ new[i] = list[i] /\ new[j] = list[j - 1]
        BY <1>2, <2>2, <2>3, <2>6, <3>4
      <4>2. QED
        BY <1>2, <4>1 DEF Sorted
    <3>5. CASE j > m + 1 /\ i > m + 1
      <4>1. i - 1 \in 1..n /\ j - 1 \in 1..n /\ i - 1 < j - 1
        BY <1>2, <2>2, <2>6, <3>5
      <4>2. ~(i <= m) /\ i # m + 1 /\ ~(j <= m) /\ j # m + 1
        BY <1>2, <2>2, <3>5
      <4>3. new[i] = list[i - 1] /\ new[j] = list[j - 1]
        BY <2>3, <4>2
      <4>4. QED
        BY <1>2, <4>1, <4>3 DEF Sorted
    <3>6. QED
      BY <1>2, <2>2, <3>1, <3>2, <3>3, <3>4, <3>5
  <2>7. \A i \in 1..n + 1 : StaticPosition(new[i]) <= k + 1
    <3>1. \A i \in 1..n + 1 :
            (i <= m /\ i \in 1..n) \/ i = m + 1 \/ (i > m + 1 /\ i - 1 \in 1..n)
      BY <1>2, <2>2
    <3>2. \A i \in 1..n : StaticPosition(list[i]) <= k + 1
      BY <1>2
    <3>3. ASSUME NEW i \in 1..n + 1
          PROVE  new[i] = t \/ \E j \in 1..n : new[i] = list[j]
      BY <2>2, <2>3, <3>1
    <3>4. QED
      BY <1>1, <3>2, <3>3
  <2>8. QED
    BY <1>5, <2>4, <2>6, <2>7 DEF Place, Sorted, UpTo, new, t
<1>6. QED
  BY <1>4, <1>5

-----------------------------------------------------------------------------
(* Types *)

\* Before the usage counts are fetched nothing is ranked.
Fresh ==
  \A d \in Designs : stage[d] \in {"unsent", "counts"} => looked[d] = 0 /\ ranked[d] = <<>>

\* The stages in which a design may have a row, or a write under way.
Written(d) == stage[d] \in {"count", "done", "crashed"}

\* Only a background task leaves a late write behind, for a tool Granite chose.
LateWrites == \A w \in late : Written(w.design) /\ chosen[w.design] \in Tools

Typed == TypeOK /\ Fresh /\ LateWrites

\* An increment keeps the rows, and whose rows they are.
LEMMA CountedRows ==
  ASSUME NEW t, catalogue \in Seq(RowType)
  PROVE  /\ Counted(t) \in Seq(RowType) /\ Len(Counted(t)) = Len(catalogue)
         /\ \A i \in 1..Len(catalogue) : /\ Counted(t)[i].design = catalogue[i].design
                                         /\ Counted(t)[i].tool = catalogue[i].tool
<1>1. /\ Len(catalogue) \in Nat /\ DOMAIN catalogue = 1..Len(catalogue)
      /\ \A i \in 1..Len(catalogue) : catalogue[i] \in RowType
  BY LenProperties, ElementOfSeq
<1>2. CASE RowsOf(t) = {}
  BY <1>1, <1>2 DEF Counted
<1>3. CASE RowsOf(t) # {}
  <2> DEFINE m == Max(RowsOf(t))
             row == [catalogue[m] EXCEPT !.usage = @ + 1]
  <2>1. RowsOf(t) \in SUBSET (1..Len(catalogue))
    BY <1>1 DEF RowsOf
  <2>2. m \in 1..Len(catalogue)
    BY <1>1, <1>3, <2>1, MaxOfPositions
  <2> HIDE DEF m
  <2>3. row \in RowType /\ row.design = catalogue[m].design /\ row.tool = catalogue[m].tool
    BY <1>1, <2>2 DEF RowType
  <2>4. Counted(t) = [catalogue EXCEPT ![m] = row]
    BY <1>3 DEF Counted, m
  <2> HIDE DEF row
  <2>5. /\ Counted(t) \in Seq(RowType) /\ Len(Counted(t)) = Len(catalogue)
        /\ \A i \in 1..Len(catalogue) : Counted(t)[i] = IF i = m THEN row ELSE catalogue[i]
    BY <2>2, <2>3, <2>4, ExceptSeq
  <2>6. QED
    BY <2>3, <2>5
<1>4. QED
  BY <1>2, <1>3

\* What a write that takes effect does to the catalogue.
LEMMA ApplyRows ==
  ASSUME TypeOK, NEW w \in [part : {"row", "usage"}, design : Designs],
         chosen[w.design] \in Tools, Apply(w)
  PROVE  /\ catalogue' \in Seq(RowType) /\ counted' \in SUBSET Designs
         /\ \/ /\ w.part = "usage"
               /\ Len(catalogue') = Len(catalogue)
               /\ \A i \in 1..Len(catalogue) : /\ catalogue'[i].design = catalogue[i].design
                                               /\ catalogue'[i].tool = catalogue[i].tool
            \/ /\ w.part = "row"
               /\ Len(catalogue') = Len(catalogue) + 1
               /\ catalogue'[Len(catalogue) + 1].design = w.design
               /\ catalogue'[Len(catalogue) + 1].tool = chosen[w.design]
               /\ \A i \in 1..Len(catalogue) : catalogue'[i] = catalogue[i]
<1>1. catalogue \in Seq(RowType) /\ counted \in SUBSET Designs /\ w.design \in Designs
  BY DEF TypeOK
<1>2. CASE w.part = "row"
  <2>1. /\ Row(w.design) \in RowType /\ Row(w.design).design = w.design
        /\ Row(w.design).tool = chosen[w.design]
    BY <1>1 DEF Row, RowType
  <2>2. catalogue' = Append(catalogue, Row(w.design)) /\ counted' = counted
    BY <1>2 DEF Apply
  <2>3. QED
    BY <1>1, <1>2, <2>1, <2>2, AppendProperties
<1>3. CASE w.part = "usage"
  <2>1. /\ catalogue' = Counted(chosen[w.design])
        /\ counted' \in {counted, counted \union {w.design}}
    BY <1>3 DEF Apply
  <2>2. QED
    BY <1>1, <1>3, <2>1, CountedRows
<1>4. QED
  BY <1>2, <1>3

LEMMA InitTyped == Init => Typed
<1>1. <<>> \in Seq(RowType) /\ <<>> \in Seq(Tools) /\ Len(StaticOrder) \in Nat
  BY StaticOrderFacts, EmptySeq
<1>2. 0 \in 0..Len(StaticOrder)
  BY <1>1
<1>3. QED
  BY <1>1, <1>2, DesignAssumption
     DEF Init, Typed, TypeOK, Fresh, LateWrites, GovernanceStatus

\* A call for a design: the write of a background task, or what is left of it.
LEMMA WriteTypes ==
  ASSUME Typed, NEW d \in Designs, stage[d] \in {"store", "count"},
         NEW p \in {"row", "usage"}, NEW st \in {"count", "done"},
         Write([part |-> p, design |-> d]), Goto(d, st),
         UNCHANGED <<cos, crashes, uncertain, allowed, handler, external>>
  PROVE  Typed'
<1> DEFINE w == [part |-> p, design |-> d]
<1>1. chosen[d] \in Tools
  BY DEF Typed, TypeOK
<1>2. w \in [part : {"row", "usage"}, design : Designs] /\ w.design = d
  OBVIOUS
<1>3. Write(w)
  OBVIOUS
<1> HIDE DEF w
<1>4. /\ catalogue' \in Seq(RowType) /\ counted' \in SUBSET Designs
      /\ faults' \in Nat /\ untracked' \in SUBSET Designs /\ late' \subseteq late \union {w}
  <2>1. CASE Apply(w) /\ UNCHANGED <<late, faults, untracked>>
    <3>1. catalogue' \in Seq(RowType) /\ counted' \in SUBSET Designs
      BY <1>1, <1>2, <2>1, ApplyRows DEF Typed
    <3>2. QED
      BY <2>1, <3>1 DEF Typed, TypeOK
  <2>2. CASE /\ Fault
             /\ untracked' = untracked \union {w.design}
             /\ late' \in {late, late \union {w}}
             /\ UNCHANGED <<catalogue, counted>>
    BY <1>2, <2>2 DEF Typed, TypeOK, Fault
  <2>3. QED
    BY <1>3, <2>1, <2>2 DEF Write
<1>5. stage' = [stage EXCEPT ![d] = st] /\ UNCHANGED handler /\ UNCHANGED external
  BY DEF Goto
<1>6. LateWrites'
  BY <1>1, <1>2, <1>4, <1>5 DEF LateWrites, Written, Typed, TypeOK, handler
<1>7. Fresh'
  BY <1>5 DEF Fresh, Typed, TypeOK, handler
<1>8. late' \subseteq [part : {"row", "usage"}, design : Designs]
  BY <1>2, <1>4 DEF Typed, TypeOK
<1>9. QED
  BY <1>4, <1>5, <1>6, <1>7, <1>8 DEF Typed, TypeOK, handler, external

LEMMA StepTyped == Typed /\ [Next]_vars => Typed'
<1> SUFFICES ASSUME Typed, [Next]_vars PROVE Typed'
  OBVIOUS
<1> USE DEF Typed, Fresh, LateWrites, Written, Goto, handler, store, external, history
<1>0. Len(StaticOrder) \in Nat /\ StaticOrder \in Seq(Tools) /\ 0 < Len(StaticOrder)
  BY StaticOrderFacts
<1>1. ASSUME NEW d \in Designs, Post(d) PROVE Typed'
  BY <1>1 DEF Post, TypeOK
<1>2. ASSUME NEW d \in Designs, FetchCounts(d) PROVE Typed'
  <2>1. UsageCounts \in [Tools -> Nat]
    <3>1. Len(catalogue) \in Nat /\ DOMAIN catalogue = 1..Len(catalogue)
      BY LenProperties DEF TypeOK
    <3>2. \A t \in Tools : Cardinality(RowsOf(t)) \in Nat
      <4>1. ASSUME NEW t \in Tools PROVE Cardinality(RowsOf(t)) \in Nat
        <5>1. RowsOf(t) \in SUBSET (1..Len(catalogue))
          BY <3>1 DEF RowsOf
        <5>2. QED
          BY <3>1, <5>1, CountOfPositions
      <4>2. QED
        BY <4>1
    <3>3. QED
      BY <3>2 DEF UsageCounts
  <2>2. counts' \in [Designs -> [Tools -> Nat]] /\ faults' \in Nat
    <3>1. /\ \/ counts' = [counts EXCEPT ![d] = UsageCounts]
             \/ counts' = counts
          /\ \/ faults' = faults
             \/ faults' = faults + 1
      BY <1>2 DEF FetchCounts, Fault
    <3>2. counts \in [Designs -> [Tools -> Nat]] /\ faults \in Nat
      BY DEF TypeOK
    <3>3. counts' \in [Designs -> [Tools -> Nat]]
      BY <2>1, <3>1, <3>2
    <3>4. QED
      BY <3>1, <3>2, <3>3
  <2>3. /\ stage' = [stage EXCEPT ![d] = "rank"] /\ stage[d] = "counts"
        /\ UNCHANGED <<crashes, looked, ranked, chosen, status, store, external, history>>
    BY <1>2 DEF FetchCounts
  <2>4. looked[d] = 0
    BY <2>3
  <2>5. \A e \in Designs : stage'[e] = "rank" => looked'[e] < Len(StaticOrder)
    BY <1>0, <2>3, <2>4 DEF TypeOK
  <2>6. TypeOK'
    BY <2>2, <2>3, <2>5 DEF TypeOK
  <2>7. Fresh' /\ LateWrites'
    BY <2>3 DEF TypeOK
  <2>8. QED
    BY <2>6, <2>7
<1>3. ASSUME NEW d \in Designs, RankTool(d) PROVE Typed'
  <2>1. looked[d] \in 0..Len(StaticOrder) - 1 /\ stage[d] = "rank"
    BY <1>0, <1>3 DEF RankTool, TypeOK
  <2> DEFINE t == StaticOrder[looked[d] + 1]
  <2>2. t \in Tools
    BY <2>1, StaticOrderFacts
  <2> HIDE DEF t
  <2>3. PICK s \in GovernanceStatus \union {"Unknown"} :
          /\ Lookup(t, s)
          /\ ranked' = [ranked EXCEPT ![d] = IF s = "Rejected" THEN @ ELSE Place(@, t, counts[d])]
    BY <1>3 DEF RankTool, t
  <2>4. Place(ranked[d], t, counts[d]) \in Seq(Tools) /\ ranked[d] \in Seq(Tools)
    BY <2>2, PlaceType DEF TypeOK
  <2>5. ranked' \in [Designs -> Seq(Tools)]
    BY <2>3, <2>4 DEF TypeOK
  <2>6. faults' \in Nat
    BY <2>3 DEF Lookup, Fault, TypeOK
  <2>7. /\ looked' = [looked EXCEPT ![d] = @ + 1]
        /\ stage' = [stage EXCEPT ![d] = IF looked[d] + 1 = Len(StaticOrder)
                                           THEN "generate" ELSE "rank"]
        /\ UNCHANGED <<crashes, counts, chosen, status, store, external, history>>
    BY <1>3 DEF RankTool
  <2>8. looked[d] + 1 \in 0..Len(StaticOrder)
    BY <1>0, <2>1
  <2>9. looked' \in [Designs -> 0..Len(StaticOrder)]
    BY <2>7, <2>8 DEF TypeOK
  <2>10. \A e \in Designs : stage'[e] = "rank" => looked'[e] < Len(StaticOrder)
    BY <1>0, <2>1, <2>7, <2>8 DEF TypeOK
  <2>11. TypeOK'
    BY <2>5, <2>6, <2>7, <2>9, <2>10 DEF TypeOK
  <2>12. Fresh'
    <3>1. ASSUME NEW e \in Designs, stage'[e] \in {"unsent", "counts"}
          PROVE  e # d /\ stage[e] \in {"unsent", "counts"}
      BY <2>7, <3>1 DEF TypeOK
    <3>2. ASSUME NEW e \in Designs, e # d
          PROVE  looked'[e] = looked[e] /\ ranked'[e] = ranked[e]
      BY <2>3, <2>7, <3>2 DEF TypeOK
    <3>3. QED
      BY <3>1, <3>2
  <2>13. LateWrites'
    BY <2>1, <2>7 DEF TypeOK
  <2>14. QED
    BY <2>11, <2>12, <2>13
<1>4. ASSUME NEW d \in Designs, NEW t \in Tools, Generate(d, t) PROVE Typed'
  BY <1>4, DesignAssumption DEF Generate, TypeOK
<1>5. ASSUME NEW d \in Designs, CheckPrimary(d) PROVE Typed'
  <2>1. PICK s \in GovernanceStatus \union {"Unknown"} :
          /\ Lookup(chosen[d], s)
          /\ status' = [status EXCEPT ![d] = s]
          /\ stage' = [stage EXCEPT ![d] = IF s = "Rejected" THEN "rejected" ELSE "upload"]
    BY <1>5 DEF CheckPrimary
  <2>2. faults' \in Nat /\ uncertain' \in SUBSET Designs
    BY <1>5, <2>1 DEF CheckPrimary, Lookup, Fault, TypeOK
  <2>3. QED
    BY <1>5, <2>1, <2>2 DEF CheckPrimary, TypeOK
<1>6. ASSUME NEW d \in Designs, Upload(d) PROVE Typed'
  BY <1>6 DEF Upload, TypeOK
<1>7. ASSUME NEW d \in Designs, HandlerFails(d) PROVE Typed'
  BY <1>7 DEF HandlerFails, Fault, TypeOK
<1>8. ASSUME NEW d \in Designs, Answer(d) PROVE Typed'
  BY <1>8 DEF Answer, TypeOK
<1>9. ASSUME NEW d \in Designs, StoreDesign(d) PROVE Typed'
  BY <1>9, WriteTypes DEF StoreDesign
<1>10. ASSUME NEW d \in Designs, CountUsage(d) PROVE Typed'
  BY <1>10, WriteTypes DEF CountUsage
<1>11. ASSUME NEW d \in Designs, Crash(d) PROVE Typed'
  BY <1>11 DEF Crash, Open, TypeOK
<1>12. ASSUME NEW w \in late, LateWrite(w) PROVE Typed'
  <2>1. w \in [part : {"row", "usage"}, design : Designs] /\ chosen[w.design] \in Tools
    BY <1>12 DEF TypeOK
  <2>2. catalogue' \in Seq(RowType) /\ counted' \in SUBSET Designs
    BY <1>12, <2>1, ApplyRows DEF LateWrite
  <2>3. QED
    BY <1>12, <2>2 DEF LateWrite, TypeOK
<1>13. ASSUME NEW t \in Tools, NEW s \in GovernanceStatus, Rule(t, s) PROVE Typed'
  BY <1>13 DEF Rule, TypeOK
<1>14. CASE UNCHANGED vars
  BY <1>14 DEF vars, TypeOK
<1>15. QED
  BY <1>1, <1>2, <1>3, <1>4, <1>5, <1>6, <1>7, <1>8, <1>9, <1>10, <1>11, <1>12, <1>13, <1>14
     DEF Next, AllEnded

\* Every variable keeps its type; only tools Granite chose are written to the
\* catalogue.
THEOREM TypeCorrect == Spec => []TypeOK
<1>1. Init => Typed
  BY InitTyped
<1>2. Typed /\ [Next]_vars => Typed'
  BY StepTyped
<1>3. Typed => TypeOK
  BY DEF Typed
<1>4. QED
  BY <1>1, <1>2, <1>3, PTL DEF Spec

-----------------------------------------------------------------------------
(* The ranked list *)

\* What the handler has ranked so far is in order and holds only tools it has
\* looked up.
Ranked == \A d \in Designs : Sorted(ranked[d], counts[d]) /\ UpTo(ranked[d], looked[d])

\* The list of the prompt is ordered by usage and, among equals, by the static
\* order, in every interleaving with other designs and rulings.
THEOREM PromptIsRanked == Spec => []RankingIsByUsage
<1>1. Init => Ranked
  BY EmptySeq DEF Init, Ranked, Sorted, UpTo
<1>2. Typed /\ Ranked /\ [Next]_vars => Ranked'
  <2> SUFFICES ASSUME Typed, Ranked, [Next]_vars PROVE Ranked'
    OBVIOUS
  <2>1. ASSUME UNCHANGED <<counts, looked, ranked>> PROVE Ranked'
    BY <2>1 DEF Ranked, Sorted, UpTo, Precedes
  <2>2. ASSUME NEW d \in Designs, FetchCounts(d) PROVE Ranked'
    <3>1. /\ ranked[d] = <<>> /\ ranked' = ranked /\ looked' = looked
          /\ \A e \in Designs : e # d => counts'[e] = counts[e]
      BY <2>2 DEF FetchCounts, Typed, TypeOK, Fresh
    <3>2. Sorted(ranked'[d], counts'[d]) /\ UpTo(ranked'[d], looked'[d])
      BY <3>1 DEF Sorted, UpTo
    <3>3. QED
      BY <3>1, <3>2 DEF Ranked
  <2>3. ASSUME NEW d \in Designs, RankTool(d) PROVE Ranked'
    <3> DEFINE t == StaticOrder[looked[d] + 1]
    <3>1. looked[d] \in 0..Len(StaticOrder) - 1
      BY <2>3, StaticOrderFacts DEF RankTool, Typed, TypeOK
    <3>2. PICK s \in GovernanceStatus \union {"Unknown"} :
            ranked' = [ranked EXCEPT ![d] = IF s = "Rejected" THEN @ ELSE Place(@, t, counts[d])]
      BY <2>3 DEF RankTool
    <3>3. /\ counts' = counts /\ looked' = [looked EXCEPT ![d] = @ + 1]
          /\ ranked \in [Designs -> Seq(Tools)] /\ counts[d] \in [Tools -> Nat]
          /\ looked \in [Designs -> 0..Len(StaticOrder)]
      BY <2>3 DEF RankTool, Typed, TypeOK
    <3>4. Sorted(ranked[d], counts[d]) /\ UpTo(ranked[d], looked[d])
      BY DEF Ranked
    <3>5. /\ Sorted(Place(ranked[d], t, counts[d]), counts[d])
          /\ UpTo(Place(ranked[d], t, counts[d]), looked[d] + 1)
      BY <3>1, <3>3, <3>4, PlaceSorted
    <3>6. UpTo(ranked[d], looked[d] + 1)
      <4>1. \A i \in DOMAIN ranked[d] : StaticPosition(ranked[d][i]) \in 1..Len(StaticOrder)
        BY <3>3, StaticOrderFacts, LenProperties, ElementOfSeq
      <4>2. looked[d] \in Nat /\ Len(StaticOrder) \in Nat
        BY <3>1, StaticOrderFacts
      <4>3. QED
        BY <3>4, <4>1, <4>2 DEF UpTo
    <3> HIDE DEF t
    <3>7. /\ looked'[d] = looked[d] + 1 /\ counts'[d] = counts[d]
          /\ ranked'[d] = IF s = "Rejected" THEN ranked[d] ELSE Place(ranked[d], t, counts[d])
          /\ \A e \in Designs : e # d => /\ ranked'[e] = ranked[e] /\ looked'[e] = looked[e]
                                         /\ counts'[e] = counts[e]
      BY <3>2, <3>3
    <3>8. Sorted(ranked'[d], counts'[d]) /\ UpTo(ranked'[d], looked'[d])
      BY <3>4, <3>5, <3>6, <3>7
    <3>9. QED
      BY <3>7, <3>8 DEF Ranked
  <2>4. QED
    BY <2>1, <2>2, <2>3
       DEF Next, Post, Generate, CheckPrimary, Upload, HandlerFails, Answer, StoreDesign,
           CountUsage, Crash, LateWrite, Rule, AllEnded, vars, handler
<1>3. Ranked => RankingIsByUsage
  BY DEF Ranked, RankingIsByUsage, Sorted, Precedes
<1>4. QED
  BY <1>1, <1>2, <1>3, InitTyped, StepTyped, PTL DEF Spec

-----------------------------------------------------------------------------
(* The catalogue and COS *)

\* A row is written once its design has been uploaded and answered; a late one
\* is the only row of its design.
Rows ==
  /\ CatalogueHasArtefacts
  /\ \A i \in DOMAIN catalogue : Written(catalogue[i].design)
  /\ \A w \in late : w.part = "row" =>
       w.design \in cos /\ \A i \in DOMAIN catalogue : catalogue[i].design # w.design
  /\ \A d \in Designs : Answered(d) \/ stage[d] = "answer" => d \in cos

\* A row is appended only for an uploaded design that has none.
LEMMA ApplyKeepsRows ==
  ASSUME TypeOK, CatalogueHasArtefacts,
         NEW w \in [part : {"row", "usage"}, design : Designs], chosen[w.design] \in Tools,
         Apply(w), cos' = cos,
         w.part = "row" => w.design \in cos /\ \A i \in DOMAIN catalogue : catalogue[i].design # w.design
  PROVE  /\ CatalogueHasArtefacts'
         /\ \A i \in DOMAIN catalogue' :
              \/ \E j \in DOMAIN catalogue : catalogue'[i].design = catalogue[j].design
              \/ w.part = "row" /\ catalogue'[i].design = w.design
<1> DEFINE n == Len(catalogue)
<1>1. n \in Nat /\ DOMAIN catalogue = 1..n
  BY LenProperties DEF TypeOK
<1>2. /\ catalogue' \in Seq(RowType)
      /\ \/ /\ w.part = "usage"
            /\ Len(catalogue') = n
            /\ \A i \in 1..n : catalogue'[i].design = catalogue[i].design
         \/ /\ w.part = "row"
            /\ Len(catalogue') = n + 1
            /\ catalogue'[n + 1].design = w.design
            /\ \A i \in 1..n : catalogue'[i] = catalogue[i]
  BY ApplyRows
<1>3. DOMAIN catalogue' = 1..Len(catalogue')
  BY <1>2, LenProperties
<1> HIDE DEF n
<1>4. CASE w.part = "usage"
  BY <1>1, <1>2, <1>3, <1>4 DEF CatalogueHasArtefacts
<1>5. CASE w.part = "row"
  <2>1. /\ DOMAIN catalogue' = 1..n + 1 /\ catalogue'[n + 1].design = w.design
        /\ \A i \in 1..n : catalogue'[i] = catalogue[i]
    BY <1>2, <1>3, <1>5
  <2>2. \A i \in 1..n + 1 : i \in 1..n \/ i = n + 1
    BY <1>1
  <2>3. QED
    BY <1>1, <1>5, <2>1, <2>2 DEF CatalogueHasArtefacts
<1>6. QED
  BY <1>4, <1>5

\* Every row of the catalogue is about an uploaded design, and no design has
\* two rows, however late its writes take effect and whatever crashes.
THEOREM CatalogueIsBacked == Spec => []CatalogueHasArtefacts
<1>1. Init => Rows
  BY EmptySeq DEF Init, Rows, CatalogueHasArtefacts, Answered
<1>2. Typed /\ Rows /\ [Next]_vars => Rows'
  <2> SUFFICES ASSUME Typed, Rows, [Next]_vars PROVE Rows'
    OBVIOUS
  <2>0. \A i \in DOMAIN catalogue : catalogue[i] \in RowType /\ catalogue[i].design \in Designs
    <3>1. DOMAIN catalogue = 1..Len(catalogue) /\ \A i \in 1..Len(catalogue) : catalogue[i] \in RowType
      BY LenProperties, ElementOfSeq DEF Typed, TypeOK
    <3>2. QED
      BY <3>1 DEF RowType
  <2> USE DEF Written, Answered
  <2>1. ASSUME UNCHANGED <<catalogue, late>>, cos \subseteq cos',
               \A d \in Designs : Written(d) => Written(d)',
               \A d \in Designs : (Answered(d) \/ stage[d] = "answer")' =>
                                    Answered(d) \/ stage[d] = "answer" \/ d \in cos'
        PROVE  Rows'
    BY <2>0, <2>1 DEF Rows, CatalogueHasArtefacts
  <2>2. ASSUME NEW d \in Designs, NEW p \in {"row", "usage"}, NEW st \in {"count", "done"},
               Write([part |-> p, design |-> d]), Goto(d, st), cos' = cos, chosen' = chosen,
               stage[d] \in {"store", "count"}, p = "row" => stage[d] = "store"
        PROVE  Rows'
    <3> DEFINE w == [part |-> p, design |-> d]
    <3>1. w \in [part : {"row", "usage"}, design : Designs] /\ w.design = d /\ w.part = p
      OBVIOUS
    <3>2. Write(w) /\ chosen[d] \in Tools /\ d \in cos
      BY <2>2 DEF Rows, Typed, TypeOK
    <3> HIDE DEF w
    <3>3. stage' = [stage EXCEPT ![d] = st]
      BY <2>2 DEF Goto
    <3>4. /\ \A e \in Designs : Written(e) => Written(e)'
          /\ Written(d)'
          /\ \A e \in Designs : (Answered(e) \/ stage[e] = "answer")' =>
                                  Answered(e) \/ stage[e] = "answer"
      BY <2>2, <3>3 DEF Typed, TypeOK
    <3>5. p = "row" => /\ \A i \in DOMAIN catalogue : catalogue[i].design # d
                       /\ \A v \in late : v.design # d
      BY <2>2 DEF Rows, Typed, LateWrites
    <3>7. CASE Apply(w) /\ UNCHANGED <<late, faults, untracked>>
      <4>1. /\ CatalogueHasArtefacts'
            /\ \A i \in DOMAIN catalogue' :
                 \/ \E j \in DOMAIN catalogue : catalogue'[i].design = catalogue[j].design
                 \/ w.part = "row" /\ catalogue'[i].design = w.design
        BY <2>2, <3>1, <3>2, <3>5, <3>7, ApplyKeepsRows DEF Rows, Typed
      <4>2. \A i \in DOMAIN catalogue' : stage'[catalogue'[i].design] \in {"count", "done", "crashed"}
        BY <2>0, <3>1, <3>4, <4>1 DEF Rows
      <4>3. \A v \in late : v.part = "row" =>
              v.design \in cos /\ \A i \in DOMAIN catalogue' : catalogue'[i].design # v.design
        BY <3>1, <3>5, <4>1 DEF Rows
      <4>4. QED
        BY <2>2, <3>4, <3>7, <4>1, <4>2, <4>3 DEF Rows
    <3>8. CASE UNCHANGED <<catalogue, counted>> /\ late' \in {late, late \union {w}}
      BY <2>0, <2>2, <3>1, <3>2, <3>4, <3>5, <3>8 DEF Rows, CatalogueHasArtefacts
    <3>9. QED
      BY <3>2, <3>7, <3>8 DEF Write
  <2>3. ASSUME NEW d \in Designs, StoreDesign(d) PROVE Rows'
    BY <2>2, <2>3 DEF StoreDesign, handler
  <2>4. ASSUME NEW d \in Designs, CountUsage(d) PROVE Rows'
    BY <2>2, <2>4 DEF CountUsage, handler
  <2>5. ASSUME NEW w \in late, LateWrite(w) PROVE Rows'
    <3>1. /\ w \in [part : {"row", "usage"}, design : Designs] /\ chosen[w.design] \in Tools
          /\ Written(w.design)
      BY DEF Typed, TypeOK, LateWrites
    <3>2. Apply(w) /\ cos' = cos /\ stage' = stage /\ late' = late \ {w}
      BY <2>5 DEF LateWrite
    <3>3. /\ CatalogueHasArtefacts'
          /\ \A i \in DOMAIN catalogue' :
               \/ \E j \in DOMAIN catalogue : catalogue'[i].design = catalogue[j].design
               \/ w.part = "row" /\ catalogue'[i].design = w.design
      BY <3>1, <3>2, ApplyKeepsRows DEF Rows, Typed
    <3>4. \A i \in DOMAIN catalogue' : stage'[catalogue'[i].design] \in {"count", "done", "crashed"}
      BY <2>0, <3>1, <3>2, <3>3 DEF Rows
    <3>5. \A v \in late \ {w} : v.part = "row" /\ w.part = "row" => v.design # w.design
      <4>1. \A v \in [part : {"row", "usage"}, design : Designs] :
              v.part = w.part /\ v.design = w.design => v = w
        BY <3>1
      <4>2. late \subseteq [part : {"row", "usage"}, design : Designs]
        BY DEF Typed, TypeOK
      <4>3. QED
        BY <4>1, <4>2
    <3>6. \A v \in late \ {w} : v.part = "row" =>
            v.design \in cos /\ \A i \in DOMAIN catalogue' : catalogue'[i].design # v.design
      BY <3>3, <3>5 DEF Rows
    <3>7. QED
      BY <3>2, <3>3, <3>4, <3>6 DEF Rows
  <2>6. ASSUME NEW d \in Designs, NEW st, stage' = [stage EXCEPT ![d] = st],
               UNCHANGED <<catalogue, late>>, cos \subseteq cos', Written(d) => st = "crashed",
               st \in {"answer", "store", "count", "done"} => d \in cos' \/ stage[d] = "answer"
        PROVE  Rows'
    <3>1. \A e \in Designs : stage'[e] = IF e = d THEN st ELSE stage[e]
      BY <2>6 DEF Typed, TypeOK
    <3>2. QED
      BY <2>1, <2>6, <3>1
  <2>7. ASSUME NEW d \in Designs, Post(d) PROVE Rows'
    BY <2>6, <2>7 DEF Post, Goto, store
  <2>8. ASSUME NEW d \in Designs, FetchCounts(d) PROVE Rows'
    BY <2>6, <2>8 DEF FetchCounts, Goto, store
  <2>9. ASSUME NEW d \in Designs, RankTool(d) PROVE Rows'
    <3>1. PICK st \in {"generate", "rank"} : stage' = [stage EXCEPT ![d] = st]
      BY <2>9 DEF RankTool, Goto
    <3>2. stage[d] = "rank" /\ UNCHANGED <<catalogue, late, cos>>
      BY <2>9 DEF RankTool, store
    <3>3. QED
      BY <2>6, <3>1, <3>2
  <2>10. ASSUME NEW d \in Designs, NEW t \in Tools, Generate(d, t) PROVE Rows'
    BY <2>6, <2>10 DEF Generate, Goto, store
  <2>11. ASSUME NEW d \in Designs, CheckPrimary(d) PROVE Rows'
    <3>1. PICK st \in {"rejected", "upload"} : stage' = [stage EXCEPT ![d] = st]
      BY <2>11 DEF CheckPrimary, Goto
    <3>2. stage[d] = "check" /\ UNCHANGED <<catalogue, late, cos>>
      BY <2>11 DEF CheckPrimary, store
    <3>3. QED
      BY <2>6, <3>1, <3>2
  <2>12. ASSUME NEW d \in Designs, Upload(d) PROVE Rows'
    BY <2>6, <2>12 DEF Upload, Goto
  <2>13. ASSUME NEW d \in Designs, HandlerFails(d) PROVE Rows'
    <3>1. stage[d] \in {"generate", "check", "upload"} /\ UNCHANGED <<catalogue, late>>
      BY <2>13 DEF HandlerFails
    <3>2. cos \subseteq cos' /\ stage' = [stage EXCEPT ![d] = "error"]
      BY <2>13 DEF HandlerFails, Goto
    <3>3. QED
      BY <2>6, <3>1, <3>2
  <2>14. ASSUME NEW d \in Designs, Answer(d) PROVE Rows'
    BY <2>6, <2>14 DEF Answer, Goto, store
  <2>15. ASSUME NEW d \in Designs, Crash(d) PROVE Rows'
    BY <2>6, <2>15 DEF Crash, Goto, store
  <2>16. ASSUME NEW t \in Tools, NEW s \in GovernanceStatus, Rule(t, s) PROVE Rows'
    BY <2>1, <2>16 DEF Rule, store
  <2>17. CASE UNCHANGED vars
    BY <2>1, <2>17 DEF vars
  <2>18. QED
    BY <2>3, <2>4, <2>5, <2>7, <2>8, <2>9, <2>10, <2>11, <2>12, <2>13, <2>14, <2>15, <2>16,
       <2>17 DEF Next, AllEnded
<1>3. Rows => CatalogueHasArtefacts
  BY DEF Rows
<1>4. QED
  BY <1>1, <1>2, <1>3, InitTyped, StepTyped, PTL DEF Spec

-----------------------------------------------------------------------------
(* The two lookups *)

\* A pending request has seen every tool the registry does not reject now, and
\* a checked tool is one of those unless its lookup failed.
Permitted ==
  /\ \A d \in Designs : Open(d) => \A t \in Tools : registry[t] # "Rejected" => t \in allowed[d]
  /\ \A d \in Designs \ uncertain :
       Answered(d) \/ stage[d] \in {"upload", "answer"} => chosen[d] \in allowed[d]

\* No interleaving of rulings with the two lookups lets a tool through that
\* was rejected all along.
THEOREM RejectedStaysOut == Spec => []RejectedIsNotRecommended
<1>1. Init => Permitted
  BY DEF Init, Permitted, Open, Answered
<1>2. Typed /\ Permitted /\ [Next]_vars => Permitted'
  <2> SUFFICES ASSUME Typed, Permitted, [Next]_vars PROVE Permitted'
    OBVIOUS
  <2> USE DEF Open, Answered, Goto, Permitted
  <2>1. ASSUME NEW d \in Designs, Post(d) PROVE Permitted'
    BY <2>1 DEF Post, handler, external, Typed, TypeOK
  <2>2. ASSUME NEW d \in Designs, FetchCounts(d) PROVE Permitted'
    BY <2>2 DEF FetchCounts, external, history, Typed, TypeOK
  <2>3. ASSUME NEW d \in Designs, RankTool(d) PROVE Permitted'
    <3>1. /\ \E st \in {"rank", "generate"} : stage' = [stage EXCEPT ![d] = st]
          /\ stage[d] = "rank"
          /\ UNCHANGED <<registry, chosen, allowed, uncertain>>
      BY <2>3 DEF RankTool, external, history
    <3>2. QED
      BY <3>1 DEF Typed, TypeOK
  <2>4. ASSUME NEW d \in Designs, NEW t \in Tools, Generate(d, t) PROVE Permitted'
    BY <2>4 DEF Generate, external, history, Typed, TypeOK
  <2>5. ASSUME NEW d \in Designs, CheckPrimary(d) PROVE Permitted'
    <3>1. PICK s \in GovernanceStatus \union {"Unknown"} :
            /\ Lookup(chosen[d], s)
            /\ uncertain' = IF s = registry[chosen[d]] THEN uncertain ELSE uncertain \union {d}
            /\ stage' = [stage EXCEPT ![d] = IF s = "Rejected" THEN "rejected" ELSE "upload"]
      BY <2>5 DEF CheckPrimary
    <3>2. /\ stage[d] = "check" /\ UNCHANGED <<registry, chosen, allowed>>
          /\ uncertain \subseteq uncertain'
      BY <2>5, <3>1 DEF CheckPrimary, external
    <3>3. chosen[d] \in Tools
      BY <3>2 DEF Typed, TypeOK
    <3>4. s # "Rejected" => chosen[d] \in allowed[d] \/ d \in uncertain'
      BY <3>1, <3>2, <3>3 DEF Lookup
    <3>5. QED
      BY <3>1, <3>2, <3>4 DEF Typed, TypeOK
  <2>6. ASSUME NEW d \in Designs, Upload(d) \/ HandlerFails(d) \/ Answer(d) \/ Crash(d)
        PROVE  Permitted'
    BY <2>6 DEF Upload, HandlerFails, Answer, Crash, handler, external, history, Typed, TypeOK
  <2>7. ASSUME NEW d \in Designs, StoreDesign(d) \/ CountUsage(d) PROVE Permitted'
    BY <2>7 DEF StoreDesign, CountUsage, handler, external, Typed, TypeOK
  <2>8. ASSUME NEW w \in late, LateWrite(w) PROVE Permitted'
    BY <2>8 DEF LateWrite, handler, external
  <2>9. ASSUME NEW t \in Tools, NEW s \in GovernanceStatus, Rule(t, s) PROVE Permitted'
    BY <2>9 DEF Rule, handler, Typed, TypeOK
  <2>10. CASE UNCHANGED vars
    BY <2>10 DEF vars
  <2>11. QED
    BY <2>1, <2>2, <2>3, <2>4, <2>5, <2>6, <2>7, <2>8, <2>9, <2>10 DEF Next, AllEnded
<1>3. Permitted => RejectedIsNotRecommended
  BY DEF Permitted, RejectedIsNotRecommended
<1>4. QED
  BY <1>1, <1>2, <1>3, InitTyped, StepTyped, PTL DEF Spec

-----------------------------------------------------------------------------
(* The usage counters *)

Total(t) == SumFunctionOnSet(Usage, RowsOf(t))
Increments(t) == {d \in counted : chosen[d] = t}

HasRow(d) == \E i \in DOMAIN catalogue : catalogue[i].design = d

\* Each increment was carried out for a finished background task, once, and a
\* design none of whose writes failed has its row before it is counted.
Tally ==
  /\ IsFiniteSet(counted)
  /\ \A d \in counted : Written(d) /\ stage[d] # "count"
  /\ \A w \in late : w.part = "usage" => w.design \notin counted /\ stage[w.design] # "count"
  /\ \A i \in DOMAIN catalogue : Written(catalogue[i].design)
                                 /\ catalogue[i].tool = chosen[catalogue[i].design]
  /\ \A d \in Designs \ untracked :
       /\ stage[d] \in {"count", "done"} => HasRow(d)
       /\ stage[d] = "done" => d \in counted

AddsUp(t) == Total(t) = Cardinality(RowsOf(t)) + Cardinality(Increments(t))

Sums == \A t \in Tools : AddsUp(t)

LEMMA RowFacts ==
  ASSUME TypeOK, NEW t
  PROVE  /\ Len(catalogue) \in Nat /\ DOMAIN catalogue = 1..Len(catalogue)
         /\ \A i \in 1..Len(catalogue) : catalogue[i] \in RowType /\ Usage[i] = catalogue[i].usage
         /\ \A i \in 1..Len(catalogue) : Usage[i] \in Nat
         /\ RowsOf(t) \in SUBSET (1..Len(catalogue))
         /\ IsFiniteSet(RowsOf(t)) /\ Cardinality(RowsOf(t)) \in Nat /\ Total(t) \in Nat
<1>1. /\ Len(catalogue) \in Nat /\ DOMAIN catalogue = 1..Len(catalogue)
      /\ \A i \in 1..Len(catalogue) : catalogue[i] \in RowType
  BY LenProperties, ElementOfSeq DEF TypeOK
<1>2. \A i \in 1..Len(catalogue) : Usage[i] = catalogue[i].usage /\ Usage[i] \in Nat
  BY <1>1 DEF Usage, RowType
<1>3. RowsOf(t) \in SUBSET (1..Len(catalogue))
  BY <1>1 DEF RowsOf
<1>4. IsFiniteSet(RowsOf(t)) /\ Cardinality(RowsOf(t)) \in Nat
  BY <1>1, <1>3, CountOfPositions
<1>5. Total(t) \in Nat
  BY <1>2, <1>3, <1>4, SumRemoves DEF Total
<1>6. QED
  BY <1>1, <1>2, <1>3, <1>4, <1>5

\* The INSERT adds a row, and one to the counters, of the tool it is for.
LEMMA InsertAdds ==
  ASSUME TypeOK, NEW d \in Designs, chosen[d] \in Tools,
         catalogue' = Append(catalogue, Row(d)), NEW t \in Tools
  PROVE  \/ /\ t # chosen[d] /\ RowsOf(t)' = RowsOf(t) /\ Total(t)' = Total(t)
         \/ /\ t = chosen[d]
            /\ Cardinality(RowsOf(t)') = Cardinality(RowsOf(t)) + 1
            /\ Total(t)' = Total(t) + 1
<1> DEFINE n == Len(catalogue)
<1>1. /\ n \in Nat /\ DOMAIN catalogue = 1..n /\ RowsOf(t) \in SUBSET (1..n)
      /\ \A i \in 1..n : Usage[i] = catalogue[i].usage /\ Usage[i] \in Nat
      /\ IsFiniteSet(RowsOf(t)) /\ Cardinality(RowsOf(t)) \in Nat
  BY RowFacts
<1>2. Row(d) \in RowType /\ Row(d).tool = chosen[d] /\ Row(d).usage = 1
  BY DEF Row, RowType
<1>3. /\ DOMAIN catalogue' = 1..n + 1 /\ catalogue'[n + 1] = Row(d)
      /\ \A i \in 1..n : catalogue'[i] = catalogue[i]
  BY <1>1, <1>2, AppendProperties, LenProperties DEF TypeOK
<1> HIDE DEF n
<1>4. Usage'[n + 1] = 1 /\ \A i \in 1..n : Usage'[i] = Usage[i]
  <2>1. n + 1 \in 1..n + 1 /\ \A i \in 1..n : i \in 1..n + 1
    BY <1>1
  <2>2. QED
    BY <1>1, <1>2, <1>3, <2>1 DEF Usage
<1>5. n + 1 \notin RowsOf(t) /\ 1..n + 1 = (1..n) \union {n + 1}
  BY <1>1
<1>6. CASE t = chosen[d]
  <2>1. RowsOf(t)' = RowsOf(t) \union {n + 1}
    BY <1>1, <1>2, <1>3, <1>5, <1>6 DEF RowsOf
  <2>2. Cardinality(RowsOf(t) \union {n + 1}) = Cardinality(RowsOf(t)) + 1
    BY <1>1, <1>5, FS_AddElement
  <2>3. SumFunctionOnSet(Usage', RowsOf(t) \union {n + 1})
          = SumFunctionOnSet(Usage, RowsOf(t)) + Usage'[n + 1]
    BY <1>1, <1>4, <1>5, SumAdds
  <2>4. QED
    BY <1>4, <1>6, <2>1, <2>2, <2>3 DEF Total
<1>7. CASE t # chosen[d]
  <2>1. RowsOf(t)' = RowsOf(t)
    BY <1>1, <1>2, <1>3, <1>5, <1>7 DEF RowsOf
  <2>2. SumFunctionOnSet(Usage', RowsOf(t)) = SumFunctionOnSet(Usage, RowsOf(t))
    BY <1>1, <1>4, SumOfSameValues
  <2>3. QED
    BY <1>7, <2>1, <2>2 DEF Total
<1>8. QED
  BY <1>6, <1>7

\* The UPDATE adds one to the counters of the tool it is for, if that has a row.
LEMMA UpdateAdds ==
  ASSUME TypeOK, NEW u, catalogue' = Counted(u), NEW t \in Tools
  PROVE  /\ RowsOf(t)' = RowsOf(t)
         /\ Total(t)' = IF t = u /\ RowsOf(u) # {} THEN Total(t) + 1 ELSE Total(t)
<1> DEFINE n == Len(catalogue)
<1>1. /\ n \in Nat /\ DOMAIN catalogue = 1..n /\ RowsOf(t) \in SUBSET (1..n)
      /\ RowsOf(u) \in SUBSET (1..n)
      /\ \A i \in 1..n : Usage[i] = catalogue[i].usage /\ Usage[i] \in Nat
      /\ \A i \in 1..n : catalogue[i] \in RowType
      /\ IsFiniteSet(RowsOf(t))
  BY RowFacts
<1> HIDE DEF n
<1>2. CASE RowsOf(u) = {}
  BY <1>2 DEF Counted, RowsOf, Usage, Total
<1>3. CASE RowsOf(u) # {}
  <2> DEFINE m == Max(RowsOf(u))
             row == [catalogue[m] EXCEPT !.usage = @ + 1]
  <2>1. m \in RowsOf(u) /\ m \in 1..n /\ catalogue[m].tool = u
    BY <1>1, <1>3, MaxOfPositions DEF RowsOf
  <2> HIDE DEF m
  <2>2. row.tool = u /\ row.usage = Usage[m] + 1
    BY <1>1, <2>1 DEF RowType
  <2>3. catalogue' = [catalogue EXCEPT ![m] = row]
    BY <1>3 DEF Counted, m
  <2> HIDE DEF row
  <2>4. /\ DOMAIN catalogue' = 1..n
        /\ \A i \in 1..n : catalogue'[i] = IF i = m THEN row ELSE catalogue[i]
    BY <1>1, <2>1, <2>3
  <2>5. RowsOf(t)' = RowsOf(t)
    BY <1>1, <2>1, <2>2, <2>4 DEF RowsOf
  <2>6. Usage'[m] = Usage[m] + 1 /\ \A i \in 1..n : i # m => Usage'[i] = Usage[i]
    BY <1>1, <2>1, <2>2, <2>4 DEF Usage
  <2>7. CASE t = u
    <3>1. SumFunctionOnSet(Usage', RowsOf(t)) = SumFunctionOnSet(Usage, RowsOf(t)) + 1
      BY <1>1, <2>1, <2>6, <2>7, SumChanges
    <3>2. QED
      BY <1>3, <2>5, <2>7, <3>1 DEF Total
  <2>8. CASE t # u
    <3>1. \A i \in RowsOf(t) : i # m /\ i \in 1..n
      BY <1>1, <2>1, <2>8 DEF RowsOf
    <3>2. SumFunctionOnSet(Usage', RowsOf(t)) = SumFunctionOnSet(Usage, RowsOf(t))
      BY <1>1, <2>6, <3>1, SumOfSameValues
    <3>3. QED
      BY <2>5, <2>8, <3>2 DEF Total
  <2>9. QED
    BY <2>5, <2>7, <2>8
<1>4. QED
  BY <1>2, <1>3

\* A write of a design that is not counted yet keeps the counters right.
LEMMA ApplyAddsUp ==
  ASSUME TypeOK, IsFiniteSet(counted), Sums,
         NEW w \in [part : {"row", "usage"}, design : Designs], chosen[w.design] \in Tools,
         Apply(w), chosen' = chosen,
         w.part = "usage" => w.design \notin counted
  PROVE  Sums' /\ IsFiniteSet(counted')
<1> DEFINE d == w.design
           u == chosen[d]
<1>0. d \in Designs /\ u \in Tools
  OBVIOUS
<1>1. \A t \in Tools : /\ Cardinality(RowsOf(t)) \in Nat /\ Total(t) \in Nat
                       /\ IsFiniteSet(Increments(t)) /\ Cardinality(Increments(t)) \in Nat
  BY RowFacts, FS_Subset, FS_CardinalityType DEF Increments
<1>2. \A t \in Tools : AddsUp(t)
  BY DEF Sums
<1>3. CASE w.part = "row"
  <2>1. catalogue' = Append(catalogue, Row(d)) /\ counted' = counted
    BY <1>3 DEF Apply
  <2>2. SUFFICES ASSUME NEW t \in Tools PROVE AddsUp(t)'
    BY <2>1 DEF Sums
  <2>3. Increments(t)' = Increments(t)
    BY <2>1 DEF Increments
  <2>4. \/ RowsOf(t)' = RowsOf(t) /\ Total(t)' = Total(t)
        \/ /\ Cardinality(RowsOf(t)') = Cardinality(RowsOf(t)) + 1
           /\ Total(t)' = Total(t) + 1
    BY <1>0, <2>1, InsertAdds
  <2>5. QED
    BY <1>1, <1>2, <2>3, <2>4 DEF AddsUp
<1>4. CASE w.part = "usage"
  <2>1. /\ catalogue' = Counted(u) /\ d \notin counted
        /\ counted' = IF RowsOf(u) = {} THEN counted ELSE counted \union {d}
    BY <1>4 DEF Apply
  <2>2. IsFiniteSet(counted')
    BY <2>1, FS_AddElement
  <2>3. SUFFICES ASSUME NEW t \in Tools PROVE AddsUp(t)'
    BY <2>2 DEF Sums
  <2>4. /\ RowsOf(t)' = RowsOf(t)
        /\ Total(t)' = IF t = u /\ RowsOf(u) # {} THEN Total(t) + 1 ELSE Total(t)
    BY <2>1, UpdateAdds
  <2>5. Cardinality(Increments(t)')
          = Cardinality(Increments(t)) + (IF t = u /\ RowsOf(u) # {} THEN 1 ELSE 0)
    <3>1. d \notin Increments(t)
      BY <2>1 DEF Increments
    <3>2. Increments(t)' = IF t = u /\ RowsOf(u) # {} THEN Increments(t) \union {d}
                                                     ELSE Increments(t)
      BY <2>1 DEF Increments
    <3>3. Cardinality(Increments(t) \union {d}) = Cardinality(Increments(t)) + 1
      BY <1>1, <3>1, FS_AddElement
    <3>4. QED
      BY <1>1, <3>2, <3>3
  <2>6. QED
    BY <1>1, <1>2, <2>4, <2>5 DEF AddsUp
<1>5. QED
  BY <1>3, <1>4

\* What a write that takes effect leaves of the other parts of Tally.
LEMMA ApplyTally ==
  ASSUME TypeOK, Tally, NEW w \in [part : {"row", "usage"}, design : Designs],
         chosen[w.design] \in Tools, Apply(w)
  PROVE  /\ \A i \in DOMAIN catalogue' :
              /\ catalogue'[i].tool = chosen[catalogue'[i].design]
              /\ catalogue'[i].design = w.design \/ Written(catalogue'[i].design)
              /\ w.part = "usage" => Written(catalogue'[i].design)
         /\ \A e \in Designs : HasRow(e) \/ w = [part |-> "row", design |-> e] => HasRow(e)'
<1> USE DEF HasRow
<1> DEFINE n == Len(catalogue)
<1>1. n \in Nat /\ DOMAIN catalogue = 1..n
  BY RowFacts
<1>2. \A i \in 1..n : /\ catalogue[i].tool = chosen[catalogue[i].design]
                      /\ Written(catalogue[i].design)
  BY <1>1 DEF Tally
<1>3. /\ catalogue' \in Seq(RowType)
      /\ \/ /\ w.part = "usage"
            /\ Len(catalogue') = n
            /\ \A i \in 1..n : /\ catalogue'[i].design = catalogue[i].design
                               /\ catalogue'[i].tool = catalogue[i].tool
         \/ /\ w.part = "row"
            /\ Len(catalogue') = n + 1
            /\ catalogue'[n + 1].design = w.design
            /\ catalogue'[n + 1].tool = chosen[w.design]
            /\ \A i \in 1..n : catalogue'[i] = catalogue[i]
  BY ApplyRows
<1>4. DOMAIN catalogue' = 1..Len(catalogue')
  BY <1>3, LenProperties
<1> HIDE DEF n
<1>5. CASE w.part = "usage"
  BY <1>1, <1>2, <1>3, <1>4, <1>5
<1>6. CASE w.part = "row"
  <2>1. /\ DOMAIN catalogue' = 1..n + 1 /\ catalogue'[n + 1].design = w.design
        /\ catalogue'[n + 1].tool = chosen[w.design]
        /\ \A i \in 1..n : catalogue'[i] = catalogue[i]
    BY <1>3, <1>4, <1>6
  <2>2. \A i \in 1..n + 1 : i \in 1..n \/ i = n + 1
    BY <1>1
  <2>3. n + 1 \in 1..n + 1 /\ \A i \in 1..n : i \in 1..n + 1
    BY <1>1
  <2>4. QED
    BY <1>1, <1>2, <1>6, <2>1, <2>2, <2>3
<1>7. QED
  BY <1>5, <1>6

\* A step that writes nothing, starts no count and leaves the written designs
\* with their tools.
LEMMA QuietTally ==
  ASSUME Typed, Tally, Sums, UNCHANGED <<catalogue, late, counted, untracked>>,
         \A d \in Designs : Written(d) => Written(d)' /\ chosen'[d] = chosen[d],
         \A d \in Designs : stage'[d] \in {"count", "done"} => stage'[d] = stage[d]
  PROVE  Tally' /\ Sums'
<1>1. \A i \in DOMAIN catalogue : catalogue[i].design \in Designs
  <2>1. \A i \in DOMAIN catalogue : catalogue[i] \in RowType
    BY RowFacts DEF Typed
  <2>2. QED
    BY <2>1 DEF RowType
<1>2. counted \subseteq Designs /\ \A w \in late : w.design \in Designs
  BY DEF Typed, TypeOK
<1>3. Tally'
  <2>1. \A d \in counted : Written(d)' /\ stage'[d] # "count"
    BY <1>2 DEF Tally
  <2>2. \A w \in late : w.part = "usage" => w.design \notin counted /\ stage'[w.design] # "count"
    BY <1>2 DEF Tally
  <2>3. \A i \in DOMAIN catalogue :
          /\ stage'[catalogue[i].design] \in {"count", "done", "crashed"}
          /\ catalogue[i].tool = chosen'[catalogue[i].design]
    BY <1>1 DEF Tally, Written
  <2>4. \A d \in Designs \ untracked' :
          /\ stage'[d] \in {"count", "done"} => HasRow(d)'
          /\ stage'[d] = "done" => d \in counted'
    BY DEF Tally, HasRow
  <2>5. QED
    BY <2>1, <2>2, <2>3, <2>4 DEF Tally, Written
<1>4. ASSUME NEW t \in Tools PROVE AddsUp(t)'
  <2>1. RowsOf(t)' = RowsOf(t) /\ Total(t)' = Total(t)
    BY DEF RowsOf, Usage, Total
  <2>2. Increments(t)' = Increments(t)
    BY <1>2 DEF Tally, Increments
  <2>3. AddsUp(t)
    BY DEF Sums
  <2>4. QED
    BY <2>1, <2>2, <2>3 DEF AddsUp
<1>5. QED
  BY <1>3, <1>4 DEF Sums

\* A write of a background task, carried out or failed.
LEMMA WriteTally ==
  ASSUME Typed, Tally, Sums, NEW d \in Designs, NEW w, NEW st,
         \/ w = [part |-> "row", design |-> d] /\ stage[d] = "store" /\ st = "count"
         \/ w = [part |-> "usage", design |-> d] /\ stage[d] = "count" /\ st = "done",
         Write(w), Goto(d, st), chosen' = chosen
  PROVE  Tally' /\ Sums'
<1>1. /\ w \in [part : {"row", "usage"}, design : Designs] /\ w.design = d
      /\ w.part = "row" \/ w.part = "usage"
  OBVIOUS
<1>2. chosen[d] \in Tools /\ stage' = [stage EXCEPT ![d] = st]
  BY DEF Typed, TypeOK, Goto
<1>3. /\ \A e \in Designs : stage'[e] = IF e = d THEN st ELSE stage[e]
      /\ counted \subseteq Designs
      /\ \A v \in late : v.design \in Designs /\ v \in [part : {"row", "usage"}, design : Designs]
  BY <1>2 DEF Typed, TypeOK
<1>4. /\ \A e \in Designs : Written(e) => Written(e)'
      /\ Written(d)' /\ (stage'[d] = "count" => w.part = "row")
      /\ d \notin counted /\ \A v \in late : v.design # d \/ v.part = "row"
  BY <1>1, <1>3 DEF Written, Tally, Typed, LateWrites
<1>5. \A i \in DOMAIN catalogue : catalogue[i] \in RowType /\ catalogue[i].design \in Designs
  <2>1. \A i \in DOMAIN catalogue : catalogue[i] \in RowType
    BY RowFacts DEF Typed
  <2>2. QED
    BY <2>1 DEF RowType
<1>6. CASE Apply(w) /\ UNCHANGED <<late, faults, untracked>>
  <2>1. d \notin untracked /\ w.part = "usage" => RowsOf(chosen[d]) # {}
    <3>1. SUFFICES ASSUME d \notin untracked, w.part = "usage" PROVE RowsOf(chosen[d]) # {}
      OBVIOUS
    <3>2. PICK i \in DOMAIN catalogue : catalogue[i].design = d
      BY <3>1 DEF Tally, HasRow
    <3>3. i \in RowsOf(chosen[d])
      BY <3>2 DEF Tally, RowsOf
    <3>4. QED
      BY <3>3
  <2>2. Sums' /\ IsFiniteSet(counted')
    BY <1>1, <1>2, <1>4, <1>6, ApplyAddsUp DEF Typed, Tally
  <2>3. /\ \A i \in DOMAIN catalogue' :
             /\ catalogue'[i].tool = chosen[catalogue'[i].design]
             /\ catalogue'[i].design = d \/ Written(catalogue'[i].design)
        /\ \A e \in Designs : HasRow(e) \/ w = [part |-> "row", design |-> e] => HasRow(e)'
    BY <1>1, <1>2, <1>6, ApplyTally DEF Typed
  <2>4. catalogue' \in Seq(RowType)
    BY <1>1, <1>2, <1>6, ApplyRows DEF Typed
  <2>5. \A i \in DOMAIN catalogue' : catalogue'[i].design \in Designs
    <3>1. \A i \in DOMAIN catalogue' : catalogue'[i] \in RowType
      BY <2>4, LenProperties, ElementOfSeq
    <3>2. QED
      BY <3>1 DEF RowType
  <2>6. \A i \in DOMAIN catalogue' :
          /\ stage'[catalogue'[i].design] \in {"count", "done", "crashed"}
          /\ catalogue'[i].tool = chosen'[catalogue'[i].design]
    BY <1>4, <2>3, <2>5 DEF Written
  <2>7. /\ counted' = counted \/ (counted' = counted \union {d} /\ st = "done" /\ w.part = "usage")
        /\ d \notin untracked /\ w.part = "usage" => d \in counted'
    BY <1>1, <1>6, <2>1 DEF Apply
  <2>8. \A e \in counted' : Written(e)' /\ stage'[e] # "count"
    BY <1>3, <1>4, <2>7 DEF Tally
  <2>9. \A v \in late' : v.part = "usage" => v.design \notin counted' /\ stage'[v.design] # "count"
    BY <1>3, <1>4, <1>6, <2>7 DEF Tally
  <2>10. \A e \in Designs \ untracked' :
           /\ stage'[e] \in {"count", "done"} => HasRow(e)'
           /\ stage'[e] = "done" => e \in counted'
    BY <1>3, <1>6, <2>3, <2>7 DEF Tally
  <2>11. Tally'
    BY <2>2, <2>6, <2>8, <2>9, <2>10 DEF Tally, Written
  <2>12. QED
    BY <2>2, <2>11
<1>7. CASE /\ untracked' = untracked \union {w.design} /\ late' \in {late, late \union {w}}
           /\ UNCHANGED <<catalogue, counted>>
  <2>1. \A e \in counted : Written(e)' /\ stage'[e] # "count"
    BY <1>3, <1>4 DEF Tally
  <2>2. \A v \in late' : v.part = "usage" => v.design \notin counted /\ stage'[v.design] # "count"
    BY <1>1, <1>3, <1>4, <1>7 DEF Tally
  <2>3. \A i \in DOMAIN catalogue :
          /\ stage'[catalogue[i].design] \in {"count", "done", "crashed"}
          /\ catalogue[i].tool = chosen[catalogue[i].design]
    BY <1>4, <1>5 DEF Tally, Written
  <2>4. \A e \in Designs \ untracked' :
          /\ stage'[e] \in {"count", "done"} => HasRow(e)'
          /\ stage'[e] = "done" => e \in counted'
    BY <1>1, <1>3, <1>7 DEF Tally, HasRow
  <2>5. Tally'
    BY <1>7, <2>1, <2>2, <2>3, <2>4 DEF Tally, Written
  <2>6. ASSUME NEW t \in Tools PROVE AddsUp(t)'
    <3>1. RowsOf(t)' = RowsOf(t) /\ Total(t)' = Total(t) /\ Increments(t)' = Increments(t)
      BY <1>7 DEF RowsOf, Usage, Total, Increments
    <3>2. AddsUp(t)
      BY DEF Sums
    <3>3. QED
      BY <3>1, <3>2 DEF AddsUp
  <2>7. QED
    BY <2>5, <2>6 DEF Sums
<1>8. QED
  BY <1>6, <1>7 DEF Write

\* A late write counts a design once.
LEMMA LateTally ==
  ASSUME Typed, Tally, Sums, NEW w \in late, LateWrite(w)
  PROVE  Tally' /\ Sums'
<1>1. /\ w \in [part : {"row", "usage"}, design : Designs] /\ chosen[w.design] \in Tools
      /\ Written(w.design) /\ w.design \in Designs
  BY DEF Typed, TypeOK, LateWrites
<1>2. /\ Apply(w) /\ late' = late \ {w}
      /\ UNCHANGED <<stage, chosen, untracked>>
  BY DEF LateWrite, handler
<1>3. w.part = "usage" => w.design \notin counted /\ stage[w.design] # "count"
  BY DEF Tally
<1>4. Sums' /\ IsFiniteSet(counted')
  BY <1>1, <1>2, <1>3, ApplyAddsUp DEF Typed, Tally
<1>5. /\ \A i \in DOMAIN catalogue' :
           /\ catalogue'[i].tool = chosen[catalogue'[i].design]
           /\ catalogue'[i].design = w.design \/ Written(catalogue'[i].design)
      /\ \A e \in Designs : HasRow(e) => HasRow(e)'
  BY <1>1, <1>2, ApplyTally DEF Typed
<1>6. \A i \in DOMAIN catalogue' :
        /\ stage'[catalogue'[i].design] \in {"count", "done", "crashed"}
        /\ catalogue'[i].tool = chosen'[catalogue'[i].design]
  BY <1>1, <1>2, <1>5 DEF Written
<1>7. counted' = counted \/ (counted' = counted \union {w.design} /\ w.part = "usage")
  BY <1>1, <1>2 DEF Apply
<1>8. \A e \in counted' : Written(e)' /\ stage'[e] # "count"
  BY <1>1, <1>2, <1>3, <1>7 DEF Tally, Written
<1>9. \A v \in late' : v.part = "usage" => v.design \notin counted' /\ stage'[v.design] # "count"
  <2>1. \A v \in late : v \in [part : {"row", "usage"}, design : Designs]
    BY DEF Typed, TypeOK
  <2>2. \A v \in late' : v.part = w.part => v.design # w.design
    BY <1>1, <1>2, <2>1
  <2>3. QED
    BY <1>2, <1>7, <2>2 DEF Tally
<1>10. \A e \in Designs \ untracked' :
         /\ stage'[e] \in {"count", "done"} => HasRow(e)'
         /\ stage'[e] = "done" => e \in counted'
  BY <1>2, <1>5, <1>7 DEF Tally
<1>11. Tally'
  BY <1>4, <1>6, <1>8, <1>9, <1>10 DEF Tally, Written
<1>12. QED
  BY <1>4, <1>11

\* The usage counters of a tool are its rows and its increments added up,
\* whatever failed or came late, and a design that is through has both unless
\* one of its own writes failed.
THEOREM CountersAddUp == Spec => []UsageAddsUp
<1>1. Init => Tally /\ Sums
  <2> SUFFICES ASSUME Init PROVE Tally /\ Sums
    OBVIOUS
  <2>1. /\ catalogue = <<>> /\ late = {} /\ counted = {} /\ DOMAIN catalogue = {}
        /\ \A d \in Designs : stage[d] = "unsent"
    BY DEF Init
  <2>2. Tally
    BY <2>1, FS_EmptySet DEF Tally
  <2>3. ASSUME NEW t \in Tools PROVE AddsUp(t)
    <3>1. RowsOf(t) = {} /\ Increments(t) = {}
      BY <2>1 DEF RowsOf, Increments
    <3>2. Cardinality({}) = 0 /\ IsFiniteSet({})
      BY FS_EmptySet
    <3>3. SumFunctionOnSet(Usage, {}) = 0
      BY <3>2, SumUnfolds
    <3>4. QED
      BY <3>1, <3>2, <3>3 DEF AddsUp, Total
  <2>4. QED
    BY <2>2, <2>3 DEF Sums
<1>2. Typed /\ Tally /\ Sums /\ [Next]_vars => Tally' /\ Sums'
  <2> SUFFICES ASSUME Typed, Tally, Sums, [Next]_vars PROVE Tally' /\ Sums'
    OBVIOUS
  <2>1. ASSUME NEW d \in Designs, StoreDesign(d) PROVE Tally' /\ Sums'
    <3>1. /\ stage[d] = "store" /\ Write([part |-> "row", design |-> d])
          /\ Goto(d, "count") /\ chosen' = chosen
      BY <2>1 DEF StoreDesign, handler
    <3>2. QED
      BY <3>1, WriteTally
  <2>2. ASSUME NEW d \in Designs, CountUsage(d) PROVE Tally' /\ Sums'
    <3>1. /\ stage[d] = "count" /\ Write([part |-> "usage", design |-> d])
          /\ Goto(d, "done") /\ chosen' = chosen
      BY <2>2 DEF CountUsage, handler
    <3>2. QED
      BY <3>1, WriteTally
  <2>3. ASSUME NEW w \in late, LateWrite(w) PROVE Tally' /\ Sums'
    BY <2>3, LateTally
  <2>4. ASSUME NEW d \in Designs, NEW st \in {"counts", "rank", "generate", "check", "upload",
                                              "answer", "store", "error", "rejected", "crashed"},
               stage' = [stage EXCEPT ![d] = st], Written(d) => st = "crashed",
               UNCHANGED <<catalogue, late, counted, untracked>>,
               \A e \in Designs : e # d \/ Written(d) => chosen'[e] = chosen[e]
        PROVE  Tally' /\ Sums'
    <3>1. \A e \in Designs : stage'[e] = IF e = d THEN st ELSE stage[e]
      BY <2>4 DEF Typed, TypeOK
    <3>2. \A e \in Designs : Written(e) => Written(e)' /\ chosen'[e] = chosen[e]
      BY <2>4, <3>1 DEF Written
    <3>3. \A e \in Designs : stage'[e] \in {"count", "done"} => stage'[e] = stage[e]
      BY <2>4, <3>1
    <3>4. QED
      BY <2>4, <3>2, <3>3, QuietTally
  <2>5. ASSUME NEW d \in Designs, Post(d) PROVE Tally' /\ Sums'
    BY <2>4, <2>5 DEF Post, Goto, store, handler, Written
  <2>6. ASSUME NEW d \in Designs, FetchCounts(d) PROVE Tally' /\ Sums'
    BY <2>4, <2>6 DEF FetchCounts, Goto, store, history, Written
  <2>7. ASSUME NEW d \in Designs, RankTool(d) PROVE Tally' /\ Sums'
    <3>1. PICK st \in {"generate", "rank"} : stage' = [stage EXCEPT ![d] = st]
      BY <2>7 DEF RankTool, Goto
    <3>2. /\ stage[d] = "rank" /\ UNCHANGED <<catalogue, late, counted, untracked>>
          /\ chosen' = chosen
      BY <2>7 DEF RankTool, store, history
    <3>3. QED
      BY <2>4, <3>1, <3>2 DEF Written
  <2>8. ASSUME NEW d \in Designs, NEW t \in Tools, Generate(d, t) PROVE Tally' /\ Sums'
    <3>1. /\ stage[d] = "generate" /\ stage' = [stage EXCEPT ![d] = "check"]
          /\ UNCHANGED <<catalogue, late, counted, untracked>>
          /\ \A e \in Designs : e # d => chosen'[e] = chosen[e]
      BY <2>8 DEF Generate, Goto, store, history, Typed, TypeOK
    <3>2. QED
      BY <2>4, <3>1 DEF Written
  <2>9. ASSUME NEW d \in Designs, CheckPrimary(d) PROVE Tally' /\ Sums'
    <3>1. PICK st \in {"rejected", "upload"} : stage' = [stage EXCEPT ![d] = st]
      BY <2>9 DEF CheckPrimary, Goto
    <3>2. /\ stage[d] = "check" /\ UNCHANGED <<catalogue, late, counted, untracked>>
          /\ chosen' = chosen
      BY <2>9 DEF CheckPrimary, store
    <3>3. QED
      BY <2>4, <3>1, <3>2 DEF Written
  <2>10. ASSUME NEW d \in Designs, Upload(d) PROVE Tally' /\ Sums'
    BY <2>4, <2>10 DEF Upload, Goto, handler, history, Written
  <2>11. ASSUME NEW d \in Designs, HandlerFails(d) PROVE Tally' /\ Sums'
    BY <2>4, <2>11 DEF HandlerFails, Goto, handler, history, Written
  <2>12. ASSUME NEW d \in Designs, Answer(d) PROVE Tally' /\ Sums'
    BY <2>4, <2>12 DEF Answer, Goto, store, handler, history, Written
  <2>13. ASSUME NEW d \in Designs, Crash(d) PROVE Tally' /\ Sums'
    BY <2>4, <2>13 DEF Crash, Goto, store, handler, history
  <2>14. ASSUME UNCHANGED <<catalogue, late, counted, untracked, stage, chosen>>
         PROVE  Tally' /\ Sums'
    <3>1. \A d \in Designs : Written(d) => Written(d)' /\ chosen'[d] = chosen[d]
      BY <2>14 DEF Written
    <3>2. QED
      BY <2>14, <3>1, QuietTally
  <2>15. ASSUME NEW t \in Tools, NEW s \in GovernanceStatus, Rule(t, s)
         PROVE  Tally' /\ Sums'
    BY <2>14, <2>15 DEF Rule, store, handler
  <2>16. CASE UNCHANGED vars
    BY <2>14, <2>16 DEF vars
  <2>17. QED
    BY <2>1, <2>2, <2>3, <2>5, <2>6, <2>7, <2>8, <2>9, <2>10, <2>11, <2>12, <2>13, <2>15,
       <2>16 DEF Next, AllEnded
<1>3. Tally /\ Sums => UsageAddsUp
  BY DEF Tally, Sums, AddsUp, Total, Increments, HasRow, UsageAddsUp
<1>4. QED
  BY <1>1, <1>2, <1>3, InitTyped, StepTyped, PTL DEF Spec
=============================================================================
