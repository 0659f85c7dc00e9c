--------------------------- MODULE PositionLemmas ---------------------------
(***************************************************************************)
(* Facts about the positions of a sequence and about sums over finite      *)
(* sets, for the proofs.  The sums are the SumFunctionOnSet of Functions,  *)
(* a recursion that takes an arbitrary element out of the set first.       *)
(***************************************************************************)
EXTENDS Integers, Sequences, FiniteSets, FiniteSetsExt, Functions, TLAPS, FiniteSetTheorems,
        SequenceTheorems, WellFoundedInduction

-----------------------------------------------------------------------------
(* Positions *)

\* A non-empty set of positions of a sequence has a last one (needed because
\* Max is a CHOOSE).
LEMMA MaxOfPositions ==
  ASSUME NEW n \in Nat, NEW S \in SUBSET (1..n), S # {}
  PROVE  Max(S) \in S /\ \A j \in S : j <= Max(S)
<1> DEFINE T == {n - i : i \in S}
<1>1. T \subseteq Nat /\ T # {}
  <2>1. \A i \in S : i \in Int /\ 1 <= i /\ i <= n
    OBVIOUS
  <2>2. \A i \in S : n - i \in Nat
    BY <2>1
  <2>3. QED
    BY <2>2
<1>2. PICK x \in T : \A y \in T : ~ (<<y, x>> \in OpToRel(<, Nat))
  BY <1>1, NatLessThanWellFounded, WFMin
<1>3. \A y \in T : x <= y
  <2>1. SUFFICES ASSUME NEW y \in T PROVE x <= y
    OBVIOUS
  <2>2. x \in Nat /\ y \in Nat
    BY <1>1
  <2>3. ~ (y < x)
    BY <1>2, <2>2 DEF OpToRel
  <2>4. QED
    BY <2>2, <2>3
<1>4. PICK m \in S : x = n - m
  OBVIOUS
<1>5. \A j \in S : m >= j
  <2>1. SUFFICES ASSUME NEW j \in S PROVE m >= j
    OBVIOUS
  <2>2. j \in Int /\ m \in Int
    OBVIOUS
  <2>3. n - m <= n - j
    BY <1>3, <1>4
  <2>4. QED
    BY <2>2, <2>3
<1>6. QED
  BY <1>5 DEF Max

\* Positions up to some position are as many as the last of them says.
LEMMA InitialSegment ==
  ASSUME NEW n \in Nat, NEW S \in SUBSET (1..n), \A i \in S : 1..i \subseteq S
  PROVE  Cardinality(S) \in 0..n /\ S = 1..Cardinality(S)
<1>1. CASE S = {}
  BY <1>1, FS_EmptySet
<1>2. CASE S # {}
  <2>1. PICK m \in S : \A j \in S : j <= m
    BY <1>2, MaxOfPositions
  <2>2. m \in 1..n
    OBVIOUS
  <2>3. S = 1..m
    <3>1. S \subseteq 1..m
      BY <2>1, <2>2
    <3>2. QED
      BY <3>1
  <2>4. Cardinality(S) = m
    BY <2>2, <2>3, FS_Interval
  <2>5. QED
    BY <2>2, <2>3, <2>4
<1>3. QED
  BY <1>1, <1>2

LEMMA CountOfPositions ==
  ASSUME NEW n \in Nat, NEW S \in SUBSET (1..n)
  PROVE  IsFiniteSet(S) /\ Cardinality(S) \in 0..n
<1>1. IsFiniteSet(1..n) /\ Cardinality(1..n) = n
  <2>1. 1 \in Int /\ n \in Int
    OBVIOUS
  <2>2. /\ IsFiniteSet(1..n)
        /\ Cardinality(1..n) = IF 1 > n THEN 0 ELSE n - 1 + 1
    BY <2>1, FS_Interval
  <2>3. QED
    BY <2>2
<1>2. IsFiniteSet(S) /\ Cardinality(S) <= n
  BY <1>1, FS_Subset
<1>3. Cardinality(S) \in Nat
  BY <1>2, FS_CardinalityType
<1>4. QED
  BY <1>2, <1>3

\* An element put in behind the first k moves the others one place back.
LEMMA InsertBehind ==
  ASSUME NEW T, NEW s \in Seq(T), NEW e \in T, NEW k \in 0..Len(s)
  PROVE  LET new == SubSeq(s, 1, k) \o <<e>> \o SubSeq(s, k + 1, Len(s))
         IN  /\ new \in Seq(T) /\ Len(new) = Len(s) + 1
             /\ \A i \in 1..Len(s) + 1 :
                  new[i] = IF i <= k THEN s[i] ELSE IF i = k + 1 THEN e ELSE s[i - 1]
<1> DEFINE front == SubSeq(s, 1, k)
           back == SubSeq(s, k + 1, Len(s))
<1>1. Len(s) \in Nat /\ \A i \in 1..Len(s) : s[i] \in T
  BY LenProperties, ElementOfSeq
<1>2. /\ front \in Seq(T) /\ Len(front) = k /\ \A i \in 1..k : front[i] = s[i]
  BY <1>1, SubSeqProperties
<1>3. /\ back \in Seq(T) /\ Len(back) = Len(s) - k
      /\ \A i \in 1..Len(s) - k : back[i] = s[k + i]
  <2>1. k + 1 \in Int /\ Len(s) \in Int /\ \A i \in k + 1..Len(s) : s[i] \in T
    BY <1>1
  <2>2. /\ back \in Seq(T)
        /\ Len(back) = IF k + 1 <= Len(s) THEN Len(s) - (k + 1) + 1 ELSE 0
        /\ \A i \in 1..Len(s) - (k + 1) + 1 : back[i] = s[k + 1 + i - 1]
    BY <2>1, SubSeqProperties
  <2>3. QED
    BY <1>1, <2>2
<1> HIDE DEF front, back
<1>4. <<e>> \in Seq(T) /\ Len(<<e>>) = 1 /\ <<e>>[1] = e
  OBVIOUS
<1> DEFINE head == front \o <<e>>
<1>5. /\ head \in Seq(T) /\ Len(head) = k + 1
      /\ \A i \in 1..k + 1 : head[i] = IF i <= k THEN s[i] ELSE e
  <2>1. /\ head \in Seq(T) /\ Len(head) = k + 1
        /\ \A i \in 1..k + 1 : head[i] = IF i <= k THEN front[i] ELSE <<e>>[i - k]
    BY <1>2, <1>4, ConcatProperties
  <2>2. \A i \in 1..k + 1 : i <= k \/ i - k = 1
    OBVIOUS
  <2>3. QED
    BY <1>2, <1>4, <2>1, <2>2
<1> HIDE DEF head
<1>6. /\ head \o back \in Seq(T) /\ Len(head \o back) = Len(s) + 1
      /\ \A i \in 1..Len(s) + 1 :
           (head \o back)[i] = IF i <= k + 1 THEN head[i] ELSE back[i - (k + 1)]
  <2>1. /\ head \o back \in Seq(T) /\ Len(head \o back) = Len(head) + Len(back)
        /\ \A i \in 1..Len(head) + Len(back) :
             (head \o back)[i] = IF i <= Len(head) THEN head[i] ELSE back[i - Len(head)]
    BY <1>3, <1>5, ConcatProperties
  <2>2. Len(head) = k + 1 /\ Len(head) + Len(back) = Len(s) + 1
    BY <1>1, <1>3, <1>5
  <2>3. QED
    BY <2>1, <2>2
<1>7. ASSUME NEW i \in 1..Len(s) + 1
      PROVE  (head \o back)[i] = IF i <= k THEN s[i] ELSE IF i = k + 1 THEN e ELSE s[i - 1]
  <2>1. CASE i <= k + 1
    <3>1. i \in 1..k + 1 /\ (~(i <= k) => i = k + 1)
      BY <1>1, <2>1
    <3>2. (head \o back)[i] = head[i]
      BY <1>6, <2>1
    <3>3. QED
      BY <1>5, <3>1, <3>2
  <2>2. CASE i > k + 1
    <3>1. i - (k + 1) \in 1..Len(s) - k /\ k + (i - (k + 1)) = i - 1
      BY <1>1, <2>2
    <3>2. (head \o back)[i] = back[i - (k + 1)]
      BY <1>6, <2>2
    <3>3. back[i - (k + 1)] = s[k + (i - (k + 1))]
      BY <1>3, <3>1
    <3>4. QED
      BY <2>2, <3>1, <3>2, <3>3
  <2>3. i <= k + 1 \/ i > k + 1
    BY <1>1
  <2>4. QED
    BY <2>1, <2>2, <2>3
<1>8. QED
  BY <1>6, <1>7 DEF head, front, back

-----------------------------------------------------------------------------
(* Induction *)

\* Induction, in the form in which the provers can use it.
LEMMA InductionOnNat ==
  ASSUME NEW T \in SUBSET Nat, 0 \in T, \A n \in T : n + 1 \in T
  PROVE  T = Nat
<1> SUFFICES ASSUME Nat \ T # {} PROVE FALSE
  OBVIOUS
<1> DEFINE R == Nat \ T
<1>1. R \subseteq Nat /\ R # {}
  OBVIOUS
<1> HIDE DEF R
<1>2. PICK m \in R : \A n \in R : ~ (<<n, m>> \in OpToRel(<, Nat))
  BY <1>1, NatLessThanWellFounded, WFMin
<1>3. m \in Nat /\ m \notin T
  BY DEF R
<1>4. m # 0
  BY <1>3
<1>5. m - 1 \in Nat /\ m - 1 < m /\ (m - 1) + 1 = m
  BY <1>3, <1>4
<1>6. m - 1 \notin R
  BY <1>2, <1>3, <1>5 DEF OpToRel
<1>7. QED
  BY <1>3, <1>5, <1>6 DEF R

-----------------------------------------------------------------------------
(* Sums *)

Pick(s) == CHOOSE x \in s : TRUE

\* h is what SumFunctionOnSet computes of f for the subsets of S.
IsSum(f, S, h) ==
  h = [s \in SUBSET S |-> IF s = {} THEN 0 ELSE f[Pick(s)] + h[s \ {Pick(s)}]]

\* The same up to sets of n elements; from n to n + 1 is one step of the recursion.
SumUpTo(f, S, n, h) ==
  \A s \in SUBSET S : Cardinality(s) <= n =>
    h[s] = IF s = {} THEN 0 ELSE f[Pick(s)] + h[s \ {Pick(s)}]

LEMMA SubsetsOfFinite ==
  ASSUME NEW S, IsFiniteSet(S), NEW s \in SUBSET S
  PROVE  /\ IsFiniteSet(s) /\ Cardinality(s) \in Nat /\ Cardinality(s) <= Cardinality(S)
         /\ Cardinality(s) = 0 <=> s = {}
         /\ \A x \in s : /\ IsFiniteSet(s \ {x})
                         /\ Cardinality(s \ {x}) = Cardinality(s) - 1
         /\ s # {} => Pick(s) \in s
<1>1. IsFiniteSet(s) /\ Cardinality(s) <= Cardinality(S)
  BY FS_Subset
<1>2. Cardinality(s) \in Nat /\ (Cardinality(s) = 0 <=> s = {})
  BY <1>1, FS_CardinalityType, FS_EmptySet
<1>3. \A x \in s : IsFiniteSet(s \ {x}) /\ Cardinality(s \ {x}) = Cardinality(s) - 1
  BY <1>1, FS_RemoveElement
<1>4. s # {} => Pick(s) \in s
  BY DEF Pick
<1>5. QED
  BY <1>1, <1>2, <1>3, <1>4

LEMMA SumExists ==
  ASSUME NEW f, NEW S, IsFiniteSet(S)
  PROVE  \E h : IsSum(f, S, h)
<1> DEFINE body(h) == [s \in SUBSET S |-> IF s = {} THEN 0 ELSE f[Pick(s)] + h[s \ {Pick(s)}]]
           T == {n \in Nat : \E h : SumUpTo(f, S, n, h)}
<1>1. 0 \in T
  <2>1. SumUpTo(f, S, 0, [s \in SUBSET S |-> 0])
    BY SubsetsOfFinite DEF SumUpTo
  <2>2. QED
    BY <2>1
<1>2. ASSUME NEW n \in T PROVE n + 1 \in T
  <2>1. PICK h : SumUpTo(f, S, n, h)
    OBVIOUS
  <2>2. \A s \in SUBSET S : Cardinality(s) <= n => body(h)[s] = h[s]
    BY <2>1 DEF SumUpTo
  <2>3. ASSUME NEW s \in SUBSET S, Cardinality(s) <= n + 1
        PROVE  body(h)[s] = IF s = {} THEN 0 ELSE f[Pick(s)] + body(h)[s \ {Pick(s)}]
    <3>1. CASE s = {}
      BY <3>1
    <3>2. CASE s # {}
      <4>1. s \ {Pick(s)} \in SUBSET S /\ Cardinality(s \ {Pick(s)}) <= n
        BY <2>3, <3>2, SubsetsOfFinite
      <4>2. body(h)[s \ {Pick(s)}] = h[s \ {Pick(s)}]
        BY <2>2, <4>1
      <4>3. QED
        BY <3>2, <4>2
    <3>3. QED
      BY <3>1, <3>2
  <2> HIDE DEF body
  <2>4. SumUpTo(f, S, n + 1, body(h))
    BY <2>3 DEF SumUpTo
  <2>5. QED
    BY <2>4
<1>3. T = Nat
  <2> HIDE DEF T
  <2>1. T \in SUBSET Nat
    BY DEF T
  <2>2. QED
    BY <1>1, <1>2, <2>1, InductionOnNat
<1>4. PICK h : SumUpTo(f, S, Cardinality(S), h)
  <2>1. Cardinality(S) \in T
    BY <1>3, FS_CardinalityType
  <2>2. QED
    BY <2>1
<1>5. IsSum(f, S, body(h))
  <2>1. \A s \in SUBSET S : body(h)[s] = h[s]
    BY <1>4, SubsetsOfFinite DEF SumUpTo
  <2>2. \A s \in SUBSET S : body(h)[s] =
          IF s = {} THEN 0 ELSE f[Pick(s)] + body(h)[s \ {Pick(s)}]
    BY <2>1
  <2> DEFINE g == body(h)
  <2>3. g = [s \in SUBSET S |-> g[s]]
    OBVIOUS
  <2>4. \A s \in SUBSET S : g[s] = IF s = {} THEN 0 ELSE f[Pick(s)] + g[s \ {Pick(s)}]
    BY <2>2
  <2> HIDE DEF g
  <2>5. IsSum(f, S, g)
    BY <2>3, <2>4 DEF IsSum
  <2>6. QED
    BY <2>5 DEF g
<1>6. QED
  BY <1>5

LEMMA SumIsSum ==
  ASSUME NEW f, NEW S, IsFiniteSet(S)
  PROVE  \E h : IsSum(f, S, h) /\ SumFunctionOnSet(f, S) = h[S]
<1> DEFINE iter == CHOOSE h : IsSum(f, S, h)
<1>1. IsSum(f, S, iter)
  BY SumExists
<1>2. SumFunctionOnSet(f, S) = iter[S]
  BY DEF SumFunctionOnSet, FoldFunctionOnSet, MapThenFoldSet, IsSum, Pick
<1>3. QED
  BY <1>1, <1>2

\* The recursion of a sum does not depend on the set it was unfolded for, and
\* only on the values of the function on that set.
LEMMA SumsAgree ==
  ASSUME NEW f, NEW g, NEW S, IsFiniteSet(S), NEW R \in SUBSET S, \A x \in R : f[x] = g[x],
         NEW h, IsSum(f, S, h), NEW k, IsSum(g, R, k)
  PROVE  h[R] = k[R]
<1> DEFINE T == {n \in Nat : \A s \in SUBSET R : Cardinality(s) <= n => h[s] = k[s]}
<1>1. \A s \in SUBSET S : h[s] = IF s = {} THEN 0 ELSE f[Pick(s)] + h[s \ {Pick(s)}]
  BY DEF IsSum
<1>2. \A s \in SUBSET R : k[s] = IF s = {} THEN 0 ELSE g[Pick(s)] + k[s \ {Pick(s)}]
  BY DEF IsSum
<1>3. 0 \in T
  <2>1. SUFFICES ASSUME NEW s \in SUBSET R, Cardinality(s) <= 0 PROVE h[s] = k[s]
    OBVIOUS
  <2>2. s \in SUBSET S /\ s = {}
    BY <2>1, SubsetsOfFinite
  <2>3. QED
    BY <1>1, <1>2, <2>2
<1>4. ASSUME NEW n \in T PROVE n + 1 \in T
  <2>1. SUFFICES ASSUME NEW s \in SUBSET R, Cardinality(s) <= n + 1, s # {}
                 PROVE  h[s] = k[s]
    BY <1>1, <1>2
  <2> DEFINE r == s \ {Pick(s)}
  <2>2. /\ Pick(s) \in R /\ r \in SUBSET R /\ s \in SUBSET S
        /\ Cardinality(r) = Cardinality(s) - 1 /\ Cardinality(s) \in Nat
    BY <2>1, SubsetsOfFinite
  <2>3. Cardinality(r) <= n
    BY <2>1, <2>2
  <2> HIDE DEF r
  <2>4. h[r] = k[r] /\ f[Pick(s)] = g[Pick(s)]
    BY <2>2, <2>3
  <2>5. h[s] = f[Pick(s)] + h[r] /\ k[s] = g[Pick(s)] + k[r]
    BY <1>1, <1>2, <2>1, <2>2 DEF r
  <2>6. QED
    BY <2>4, <2>5
<1>5. T = Nat
  <2> HIDE DEF T
  <2>1. T \in SUBSET Nat
    BY DEF T
  <2>2. QED
    BY <1>3, <1>4, <2>1, InductionOnNat
<1>6. IsFiniteSet(R) /\ Cardinality(R) \in Nat
  BY SubsetsOfFinite
<1>7. QED
  BY <1>5, <1>6

\* One step of the recursion.
LEMMA SumUnfolds ==
  ASSUME NEW f, NEW S, IsFiniteSet(S)
  PROVE  SumFunctionOnSet(f, S) =
           IF S = {} THEN 0 ELSE f[Pick(S)] + SumFunctionOnSet(f, S \ {Pick(S)})
<1> DEFINE R == S \ {Pick(S)}
<1>1. PICK h : IsSum(f, S, h) /\ SumFunctionOnSet(f, S) = h[S]
  BY SumIsSum
<1>2. R \in SUBSET S /\ IsFiniteSet(R)
  BY FS_Subset
<1>3. PICK k : IsSum(f, R, k) /\ SumFunctionOnSet(f, R) = k[R]
  BY <1>2, SumIsSum
<1> HIDE DEF R
<1>4. h[R] = k[R]
  <2> DEFINE g == f
  <2>1. (\A x \in R : f[x] = g[x]) /\ IsSum(g, R, k)
    BY <1>3
  <2> HIDE DEF g
  <2>2. QED
    BY <1>1, <1>2, <2>1, SumsAgree
<1>5. h[S] = IF S = {} THEN 0 ELSE f[Pick(S)] + h[R]
  BY <1>1 DEF IsSum, R
<1>6. QED
  BY <1>1, <1>3, <1>4, <1>5 DEF R

\* A sum depends only on the values of the function on the set.
LEMMA SumOfSameValues ==
  ASSUME NEW f, NEW g, NEW S, IsFiniteSet(S), \A x \in S : f[x] = g[x]
  PROVE  SumFunctionOnSet(f, S) = SumFunctionOnSet(g, S)
<1>1. PICK h : IsSum(f, S, h) /\ SumFunctionOnSet(f, S) = h[S]
  BY SumIsSum
<1>2. PICK k : IsSum(g, S, k) /\ SumFunctionOnSet(g, S) = k[S]
  BY SumIsSum
<1>3. S \in SUBSET S
  OBVIOUS
<1>4. QED
  BY <1>1, <1>2, <1>3, SumsAgree

LEMMA SumType ==
  ASSUME NEW f, NEW S, IsFiniteSet(S), \A x \in S : f[x] \in Nat
  PROVE  \A s \in SUBSET S : SumFunctionOnSet(f, s) \in Nat
<1> DEFINE sum(s) == SumFunctionOnSet(f, s)
           T == {n \in Nat : \A s \in SUBSET S : Cardinality(s) <= n => sum(s) \in Nat}
<1>1. \A s \in SUBSET S : sum(s) = IF s = {} THEN 0 ELSE f[Pick(s)] + sum(s \ {Pick(s)})
  BY SubsetsOfFinite, SumUnfolds
<1> HIDE DEF sum
<1>2. 0 \in T
  BY <1>1, SubsetsOfFinite
<1>3. ASSUME NEW n \in T PROVE n + 1 \in T
  <2>1. SUFFICES ASSUME NEW s \in SUBSET S, Cardinality(s) <= n + 1, s # {}
                 PROVE  sum(s) \in Nat
    BY <1>1
  <2>2. /\ Pick(s) \in S /\ s \ {Pick(s)} \in SUBSET S
        /\ Cardinality(s \ {Pick(s)}) = Cardinality(s) - 1 /\ Cardinality(s) \in Nat
    BY <2>1, SubsetsOfFinite
  <2>3. Cardinality(s \ {Pick(s)}) <= n
    BY <2>1, <2>2
  <2>4. sum(s \ {Pick(s)}) \in Nat /\ f[Pick(s)] \in Nat
    BY <2>2, <2>3
  <2>5. QED
    BY <1>1, <2>1, <2>4
<1>4. T = Nat
  <2> HIDE DEF T
  <2>1. T \in SUBSET Nat
    BY DEF T
  <2>2. QED
    BY <1>2, <1>3, <2>1, InductionOnNat
<1>5. QED
  BY <1>4, SubsetsOfFinite DEF sum

\* Any element may be taken out first: the choice of the recursion is no matter.
LEMMA SumRemoves ==
  ASSUME NEW f, NEW S, IsFiniteSet(S), \A x \in S : f[x] \in Nat
  PROVE  /\ SumFunctionOnSet(f, S) \in Nat
         /\ \A x \in S : /\ SumFunctionOnSet(f, S \ {x}) \in Nat
                         /\ SumFunctionOnSet(f, S) = f[x] + SumFunctionOnSet(f, S \ {x})
<1> DEFINE sum(s) == SumFunctionOnSet(f, s)
           T == {n \in Nat : \A s \in SUBSET S : Cardinality(s) <= n =>
                               \A x \in s : sum(s) = f[x] + sum(s \ {x})}
<1>1. \A s \in SUBSET S : sum(s) \in Nat
  BY SumType
<1>2. \A s \in SUBSET S : s # {} => sum(s) = f[Pick(s)] + sum(s \ {Pick(s)})
  BY SubsetsOfFinite, SumUnfolds
<1> HIDE DEF sum
<1>3. 0 \in T
  BY SubsetsOfFinite
<1>4. ASSUME NEW n \in T PROVE n + 1 \in T
  <2>1. SUFFICES ASSUME NEW s \in SUBSET S, Cardinality(s) <= n + 1, NEW x \in s, x # Pick(s)
                 PROVE  sum(s) = f[x] + sum(s \ {x})
    BY <1>2
  <2> DEFINE p == Pick(s)
             r == s \ {p}
             q == s \ {x}
  <2>2. p \in s /\ Cardinality(s) \in Nat
    BY SubsetsOfFinite
  <2>3. /\ r \in SUBSET S /\ q \in SUBSET S /\ x \in r /\ p \in q
        /\ Cardinality(r) = Cardinality(s) - 1 /\ Cardinality(q) = Cardinality(s) - 1
        /\ r \ {x} = q \ {p} /\ r \ {x} \in SUBSET S
    BY <2>1, <2>2, SubsetsOfFinite
  <2>4. Cardinality(r) <= n /\ Cardinality(q) <= n
    BY <2>1, <2>2, <2>3
  <2>5. sum(s) = f[p] + sum(r)
    BY <1>2
  <2> HIDE DEF p, r, q
  <2>6. sum(r) = f[x] + sum(r \ {x}) /\ sum(q) = f[p] + sum(q \ {p})
    BY <2>3, <2>4
  <2>7. f[p] \in Nat /\ f[x] \in Nat /\ sum(r \ {x}) \in Nat
    BY <1>1, <2>2, <2>3
  <2>8. sum(s) = f[x] + sum(q)
    <3>1. sum(r \ {x}) = sum(q \ {p})
      BY <2>3
    <3>2. QED
      BY <2>5, <2>6, <2>7, <3>1
  <2>9. QED
    BY <2>8 DEF q
<1>5. T = Nat
  <2> HIDE DEF T
  <2>1. T \in SUBSET Nat
    BY DEF T
  <2>2. QED
    BY <1>3, <1>4, <2>1, InductionOnNat
<1>6. \A x \in S : sum(S) = f[x] + sum(S \ {x})
  <2>1. Cardinality(S) \in Nat
    BY FS_CardinalityType
  <2>2. QED
    BY <1>5, <2>1
<1>7. QED
  BY <1>1, <1>6 DEF sum

\* One value more.
LEMMA SumAdds ==
  ASSUME NEW f, NEW g, NEW S, IsFiniteSet(S), NEW x, x \notin S,
         \A y \in S : f[y] \in Nat /\ g[y] = f[y], g[x] \in Nat
  PROVE  /\ SumFunctionOnSet(f, S) \in Nat
         /\ SumFunctionOnSet(g, S \union {x}) = SumFunctionOnSet(f, S) + g[x]
<1> DEFINE U == S \union {x}
<1>1. IsFiniteSet(U) /\ x \in U /\ U \ {x} = S /\ \A y \in U : g[y] \in Nat
  BY FS_AddElement
<1> HIDE DEF U
<1>2. SumFunctionOnSet(g, U) = g[x] + SumFunctionOnSet(g, S)
  BY <1>1, SumRemoves
<1>3. SumFunctionOnSet(f, S) \in Nat
  BY SumRemoves
<1>4. SumFunctionOnSet(f, S) = SumFunctionOnSet(g, S)
  BY SumOfSameValues
<1>5. QED
  BY <1>2, <1>3, <1>4 DEF U

\* One value changed.
LEMMA SumChanges ==
  ASSUME NEW f, NEW g, NEW S, IsFiniteSet(S), NEW x \in S,
         \A y \in S : f[y] \in Nat, \A y \in S \ {x} : g[y] = f[y], g[x] = f[x] + 1
  PROVE  /\ SumFunctionOnSet(f, S) \in Nat
         /\ SumFunctionOnSet(g, S) = SumFunctionOnSet(f, S) + 1
<1> DEFINE R == S \ {x}
<1>1. IsFiniteSet(R) /\ \A y \in S : g[y] \in Nat
  BY FS_RemoveElement
<1>2. /\ SumFunctionOnSet(f, S) \in Nat /\ SumFunctionOnSet(f, R) \in Nat
      /\ SumFunctionOnSet(f, S) = f[x] + SumFunctionOnSet(f, R)
  BY SumRemoves
<1>3. SumFunctionOnSet(g, S) = g[x] + SumFunctionOnSet(g, R)
  BY <1>1, SumRemoves
<1> HIDE DEF R
<1>4. SumFunctionOnSet(f, R) = SumFunctionOnSet(g, R)
  BY <1>1, SumOfSameValues DEF R
<1>5. f[x] \in Nat
  OBVIOUS
<1>6. QED
  BY <1>2, <1>3, <1>4, <1>5
=============================================================================
