-------------------------- MODULE PrestoQueryProofs --------------------------
(***************************************************************************)
(* Proofs about PrestoQuery, for every set of statements, every number of  *)
(* result pages and every limit on the polls.                              *)
(***************************************************************************)
EXTENDS PrestoQuery, TLAPS, SequenceTheorems

-----------------------------------------------------------------------------
(* The two decisions about an answer *)

\* execute_query returns for one kind of answer only: a finished statement
\* with no page left after this one.
LEMMA ReturnsAtTheEnd ==
  ASSUME TypeOK, NEW q \in Statements, NEW n
  PROVE  QueryOutcome(Reply(q), n) = "returned" =>
           /\ state[q] = "FINISHED"
           /\ fetched[q] < ready[q] => fetched[q] + 1 >= PagesOf[q]
<1>1. fetched[q] \in Nat /\ ready[q] \in Nat /\ PagesOf[q] \in Nat
  BY PrestoAssumption DEF TypeOK
<1>2. QED
  BY <1>1 DEF QueryOutcome, Reply

LEMMA Outcomes ==
  ASSUME NEW reply, NEW n \in Nat
  PROVE  /\ QueryOutcome(reply, n) \in {"polling", "returned", "raised"}
         /\ SeedOutcome(reply, n) \in {"polling", "returned", "raised"}
         /\ QueryOutcome(reply, n) = "polling" => n < MaxPolls
         /\ SeedOutcome(reply, n) = "polling" => n < MaxPolls
  BY PrestoAssumption DEF QueryOutcome, SeedOutcome

\* A page that is handed out is the next one.
LEMMA PageOfReply ==
  ASSUME TypeOK, NEW q \in Statements
  PROVE  Reply(q).page # 0 => /\ Reply(q).page = fetched[q] + 1
                              /\ fetched[q] < ready[q]
  BY DEF TypeOK, Reply

-----------------------------------------------------------------------------
(* Type correctness *)

\* A statement no client has begun is unknown to Presto, and no poll was
\* counted for it: TypeOK is not inductive without it.
Untouched ==
  \A q \in Statements : client[q] = "idle" => state[q] = "ABSENT" /\ polls[q] = 0

LEMMA InitialTypes ==
  ASSUME Init
  PROVE  TypeOK /\ Untouched
<1>1. \A q \in Statements : PagesOf[q] \in Nat
  BY PrestoAssumption
<1>2. \A q \in Statements : <<>> \in Seq(Nat)
  OBVIOUS
<1>3. QED
  BY <1>1, <1>2, PrestoAssumption DEF Init, TypeOK, Untouched

LEMMA TypeStep ==
  ASSUME TypeOK, Untouched, [Next]_vars
  PROVE  TypeOK'
<1> USE PrestoAssumption
<1>1. ASSUME NEW q \in Statements,
             Submit(q) \/ SubmitRefused(q) \/ SubmitLost(q) \/ PollFails(q)
      PROVE  TypeOK'
  <2>1. CASE Submit(q)
    BY <2>1 DEF TypeOK, Untouched, Submit
  <2>2. CASE SubmitRefused(q)
    BY <2>2 DEF TypeOK, SubmitRefused, server
  <2>3. CASE SubmitLost(q)
    BY <2>3 DEF TypeOK, SubmitLost, Broken
  <2>4. CASE PollFails(q)
    BY <2>4 DEF TypeOK, PollFails, Broken, server
  <2>5. QED
    BY <1>1, <2>1, <2>2, <2>3, <2>4
<1>2. ASSUME NEW q \in Statements, Poll(q)
      PROVE  TypeOK'
  <2> DEFINE page == Reply(q).page
             next == IF q \in SeedSet THEN SeedOutcome(Reply(q), polls[q] + 1)
                                      ELSE QueryOutcome(Reply(q), polls[q] + 1)
  <2>1. polls[q] \in Nat /\ polls[q] < MaxPolls
    BY <1>2 DEF Poll, TypeOK
  <2>2. next \in {"polling", "returned", "raised"} /\ (next = "polling" => polls[q] + 1 < MaxPolls)
    BY <2>1, Outcomes
  <2>3. page # 0 => page = fetched[q] + 1 /\ fetched[q] < ready[q]
    BY PageOfReply
  <2>4. /\ fetched' = [fetched EXCEPT ![q] = IF page = 0 THEN @ ELSE page]
        /\ polls' = [polls EXCEPT ![q] = @ + 1]
        /\ got' = [got EXCEPT ![q] = IF page = 0 \/ q \in SeedSet THEN @ ELSE Append(@, page)]
        /\ client' = [client EXCEPT ![q] = next]
        /\ UNCHANGED <<state, ready, applied>>
    BY <1>2 DEF Poll
  <2> HIDE DEF page, next
  <2>5. fetched' \in [Statements -> Nat] /\ \A p \in Statements : fetched'[p] <= ready[p]
    BY <2>3, <2>4 DEF TypeOK
  <2>6. got' \in [Statements -> Seq(Nat)]
    <3>1. page # 0 => page \in Nat
      BY <2>3 DEF TypeOK
    <3>2. got[q] \in Seq(Nat)
      BY DEF TypeOK
    <3>3. page # 0 => Append(got[q], page) \in Seq(Nat)
      BY <3>1, <3>2, AppendProperties
    <3>4. QED
      BY <2>4, <3>2, <3>3 DEF TypeOK
  <2>7. /\ polls' \in [Statements -> 0..MaxPolls]
        /\ client' \in [Statements -> {"idle", "polling", "returned", "raised", "aborted"}]
        /\ \A p \in Statements : client'[p] = "polling" => polls'[p] < MaxPolls
    BY <2>1, <2>2, <2>4 DEF TypeOK
  <2>8. QED
    BY <2>4, <2>5, <2>6, <2>7 DEF TypeOK
<1>3. ASSUME NEW q \in Statements, Presto(q)
      PROVE  TypeOK'
  <2>1. CASE Run(q)
    BY <2>1 DEF TypeOK, Run, Enter
  <2>2. CASE ComputePage(q)
    BY <2>2 DEF TypeOK, ComputePage
  <2>3. CASE Finish(q)
    BY <2>3 DEF TypeOK, Finish, Enter
  <2>4. CASE Fail(q)
    BY <2>4 DEF TypeOK, Fail, Enter
  <2>5. QED
    BY <1>3, <2>1, <2>2, <2>3, <2>4 DEF Presto
<1>4. CASE UNCHANGED vars
  BY <1>4 DEF TypeOK, vars
<1>5. QED
  BY <1>1, <1>2, <1>3, <1>4 DEF Next, Client, AllEnded

LEMMA UntouchedStep ==
  ASSUME TypeOK, Untouched, [Next]_vars
  PROVE  Untouched'
<1> USE DEF Untouched, TypeOK
<1>1. ASSUME NEW q \in Statements, Client(q)
      PROVE  Untouched'
  <2>1. /\ client' = [client EXCEPT ![q] = client'[q]] /\ client'[q] # "idle"
        /\ \A p \in Statements \ {q} : state'[p] = state[p] /\ polls'[p] = polls[p]
    <3>1. CASE Submit(q)
      BY <3>1 DEF Submit
    <3>2. CASE SubmitRefused(q)
      BY <3>2 DEF SubmitRefused, server
    <3>3. CASE SubmitLost(q)
      BY <3>3 DEF SubmitLost, Broken
    <3>4. CASE Poll(q)
      <4>1. polls[q] + 1 \in Nat
        BY PrestoAssumption
      <4>2. /\ SeedOutcome(Reply(q), polls[q] + 1) # "idle"
            /\ QueryOutcome(Reply(q), polls[q] + 1) # "idle"
        BY <4>1, Outcomes
      <4>3. QED
        BY <3>4, <4>2 DEF Poll
    <3>5. CASE PollFails(q)
      BY <3>5 DEF PollFails, Broken, server
    <3>6. QED
      BY <1>1, <3>1, <3>2, <3>3, <3>4, <3>5 DEF Client
  <2>2. QED
    BY <2>1
<1>2. ASSUME NEW q \in Statements, Presto(q)
      PROVE  Untouched'
  BY <1>2 DEF Presto, Run, ComputePage, Finish, Fail, Enter
<1>3. CASE UNCHANGED vars
  BY <1>3 DEF vars
<1>4. QED
  BY <1>1, <1>2, <1>3 DEF Next, AllEnded

\* Statements, their states, polls and pages keep their types; in particular
\* Presto hands out no page it has not computed.
THEOREM TypeCorrect == Spec => []TypeOK
<1>1. Init => TypeOK /\ Untouched
  BY InitialTypes
<1>2. TypeOK /\ Untouched /\ [Next]_vars => TypeOK' /\ Untouched'
  BY TypeStep, UntouchedStep
<1>3. QED
  BY <1>1, <1>2, PTL DEF Spec

-----------------------------------------------------------------------------
(* What a returned call says about the statement *)

\* The polls did not run out, as far as the client can tell.
InTime(q) == q \in SeedSet => polls[q] < MaxPolls

\* A statement is finished exactly when it has taken effect, and then all its
\* pages are there; a call that returned in time returned from such a one.  A
\* seed that was given up without ending the runner will never take effect.
Served(q) ==
  /\ state[q] = "FINISHED" => ready[q] = PagesOf[q]
  /\ state[q] = "FINISHED" <=> q \in applied
  /\ client[q] = "returned" /\ InTime(q) => state[q] = "FINISHED"
  /\ client[q] = "raised" /\ q \in SeedSet => state[q] \in {"ABSENT", "FAILED"}

\* The rows of execute_query are the pages handed out so far; it always
\* returns or raises.
Collected(q) ==
  /\ Len(got[q]) = fetched[q]
  /\ \A i \in DOMAIN got[q] : got[q][i] = i
  /\ client[q] = "returned" => fetched[q] = PagesOf[q]
  /\ client[q] # "aborted"

\* The seed runner has dealt with what it sent before.
InTurn ==
  \A i, j \in DOMAIN Seeds : i < j /\ client[Seeds[j]] # "idle" => Ended(Seeds[i])

IInv ==
  /\ TypeOK /\ Untouched /\ InTurn
  /\ \A q \in Statements : Served(q)
  /\ \A q \in Queries : Collected(q)

LEMMA Initially ==
  ASSUME Init
  PROVE  IInv
<1>1. \A q \in Statements : Served(q)
  BY DEF Init, Served
<1>2. \A q \in Queries : Collected(q)
  BY DEF Init, Collected, Statements
<1>3. InTurn
  BY DEF Init, InTurn, SeedSet, Statements
<1>4. QED
  BY <1>1, <1>2, <1>3, InitialTypes DEF IInv

LEMMA PollStep ==
  ASSUME IInv, NEW q \in Statements, Poll(q)
  PROVE  Served(q)' /\ (q \in Queries => Collected(q)')
<1> USE PrestoAssumption
<1> DEFINE page == Reply(q).page
           n == polls[q] + 1
<1>1. /\ TypeOK /\ Served(q) /\ (q \in Queries => Collected(q))
      /\ fetched[q] \in Nat /\ ready[q] \in Nat /\ PagesOf[q] \in Nat
      /\ fetched[q] <= ready[q] /\ ready[q] <= PagesOf[q]
      /\ got[q] \in Seq(Nat)
  BY DEF IInv, TypeOK
<1>2. /\ fetched'[q] = IF page = 0 THEN fetched[q] ELSE page
      /\ polls'[q] = n
      /\ got'[q] = IF page = 0 \/ q \in SeedSet THEN got[q] ELSE Append(got[q], page)
      /\ client'[q] = IF q \in SeedSet THEN SeedOutcome(Reply(q), n)
                                       ELSE QueryOutcome(Reply(q), n)
      /\ UNCHANGED <<state, ready, applied>>
  BY <1>1 DEF Poll, TypeOK
<1>3. page = 0 \/ (page = fetched[q] + 1 /\ fetched[q] < ready[q])
  BY <1>1, PageOfReply
<1>4. /\ QueryOutcome(Reply(q), n) = "returned" => state[q] = "FINISHED"
      /\ SeedOutcome(Reply(q), n) = "returned" /\ n < MaxPolls => state[q] = "FINISHED"
      /\ SeedOutcome(Reply(q), n) = "raised" => state[q] = "FAILED"
  <2>1. n \in Nat
    BY <1>1 DEF TypeOK
  <2>2. QED
    BY <1>1, <2>1, ReturnsAtTheEnd DEF SeedOutcome, Reply
<1>5. Served(q)'
  BY <1>1, <1>2, <1>4 DEF Served, InTime
<1>6. ASSUME q \in Queries
      PROVE  Collected(q)'
  <2>1. q \notin SeedSet /\ client'[q] # "aborted"
    BY <1>2, <1>6, Outcomes DEF QueryOutcome
  <2>2. CASE page = 0
    <3>1. got'[q] = got[q] /\ fetched'[q] = fetched[q]
      BY <1>2, <2>2
    <3>2. client'[q] = "returned" => fetched[q] = PagesOf[q]
      <4>1. page = 0 /\ state[q] = "FINISHED" => ~(fetched[q] < ready[q])
        BY <1>1 DEF Reply
      <4>2. QED
        BY <1>1, <1>2, <1>4, <2>1, <2>2, <4>1 DEF Served
    <3>3. QED
      BY <1>1, <1>6, <2>1, <3>1, <3>2 DEF Collected
  <2>3. CASE page # 0
    <3>1. /\ got'[q] = Append(got[q], page) /\ fetched'[q] = fetched[q] + 1
          /\ page = Len(got[q]) + 1
      BY <1>1, <1>2, <1>3, <1>6, <2>1, <2>3 DEF Collected
    <3>2. /\ Len(got'[q]) = Len(got[q]) + 1
          /\ DOMAIN got'[q] = 1..Len(got[q]) + 1
          /\ \A i \in 1..Len(got[q]) : got'[q][i] = got[q][i]
          /\ got'[q][Len(got[q]) + 1] = page
      <4>1. page \in Nat
        BY <1>1, <1>3
      <4> HIDE DEF page
      <4>2. QED
        BY <1>1, <3>1, <4>1, AppendProperties, LenProperties
    <3>3. \A i \in DOMAIN got'[q] : got'[q][i] = i
      BY <1>1, <1>6, <3>1, <3>2, LenProperties DEF Collected
    <3>4. client'[q] = "returned" => fetched'[q] = PagesOf[q]
      BY <1>1, <1>2, <1>3, <2>1, <2>3, <3>1, ReturnsAtTheEnd
    <3>5. QED
      BY <1>1, <1>6, <2>1, <3>1, <3>2, <3>3, <3>4 DEF Collected
  <2>4. QED
    BY <2>2, <2>3
<1>7. QED
  BY <1>5, <1>6

LEMMA OtherClientSteps ==
  ASSUME IInv, NEW q \in Statements,
         Submit(q) \/ SubmitRefused(q) \/ SubmitLost(q) \/ PollFails(q)
  PROVE  Served(q)' /\ (q \in Queries => Collected(q)')
<1>1. /\ TypeOK /\ Untouched /\ Served(q) /\ (q \in Queries => Collected(q))
  BY DEF IInv
<1>2. /\ UNCHANGED <<ready, fetched, applied, polls, got>>
      /\ client'[q] # "returned" /\ (q \in Queries => client'[q] # "aborted")
      /\ q \in SeedSet /\ client'[q] = "raised" => state'[q] = "ABSENT"
      /\ \/ UNCHANGED state
         \/ state[q] = "ABSENT" /\ state'[q] = "QUEUED"
  <2> USE PrestoAssumption
  <2>1. CASE Submit(q)
    BY <1>1, <2>1 DEF Submit, TypeOK, Untouched
  <2>2. CASE SubmitRefused(q)
    BY <1>1, <2>2 DEF SubmitRefused, server, TypeOK, Untouched
  <2>3. CASE SubmitLost(q)
    BY <1>1, <2>3 DEF SubmitLost, Broken, TypeOK, Untouched
  <2>4. CASE PollFails(q)
    BY <1>1, <2>4 DEF PollFails, Broken, server, TypeOK
  <2>5. QED
    BY <2>1, <2>2, <2>3, <2>4
<1>3. QED
  BY <1>1, <1>2 DEF Served, Collected

LEMMA PrestoStep ==
  ASSUME IInv, NEW q \in Statements, Presto(q)
  PROVE  Served(q)' /\ (q \in Queries => Collected(q)')
<1>1. /\ TypeOK /\ Served(q) /\ (q \in Queries => Collected(q))
      /\ ready[q] \in Nat /\ PagesOf[q] \in Nat
  BY PrestoAssumption DEF IInv, TypeOK
<1>2. UNCHANGED <<fetched, client, polls, got>>
  BY DEF Presto, Run, ComputePage, Finish, Fail, Enter
<1>3. Served(q)'
  <2>1. CASE Run(q)
    BY <1>1, <2>1 DEF Run, Enter, Served, InTime, TypeOK
  <2>2. CASE ComputePage(q)
    BY <1>1, <2>2 DEF ComputePage, Served, InTime, TypeOK
  <2>3. CASE Finish(q)
    BY <1>1, <2>3 DEF Finish, Enter, Served, InTime, TypeOK
  <2>4. CASE Fail(q)
    BY <1>1, <2>4 DEF Fail, Enter, Served, InTime, TypeOK
  <2>5. QED
    BY <2>1, <2>2, <2>3, <2>4 DEF Presto
<1>4. QED
  BY <1>1, <1>2, <1>3 DEF Collected

\* A step of one statement leaves what is known of the others.
LEMMA OthersUntouched ==
  ASSUME IInv, NEW q \in Statements, Client(q) \/ Presto(q), NEW p \in Statements \ {q}
  PROVE  Served(p)' /\ (p \in Queries => Collected(p)')
<1>1. /\ state'[p] = state[p] /\ ready'[p] = ready[p] /\ fetched'[p] = fetched[p]
      /\ client'[p] = client[p] /\ polls'[p] = polls[p] /\ got'[p] = got[p]
      /\ p \in applied' <=> p \in applied
  <2>1. CASE Submit(q) \/ SubmitRefused(q) \/ SubmitLost(q) \/ PollFails(q)
    BY <2>1 DEF Submit, SubmitRefused, SubmitLost, PollFails, Broken, server, IInv, TypeOK
  <2>2. CASE Poll(q)
    BY <2>2 DEF Poll, IInv, TypeOK
  <2>3. CASE Presto(q)
    BY <2>3 DEF Presto, Run, ComputePage, Finish, Fail, Enter, IInv, TypeOK
  <2>4. QED
    BY <2>1, <2>2, <2>3 DEF Client
<1>2. QED
  BY <1>1 DEF IInv, Served, Collected, InTime

\* No step sends a seed out of turn, or takes up again what has ended.
LEMMA InTurnStep ==
  ASSUME IInv, NEW q \in Statements, Client(q) \/ Presto(q)
  PROVE  InTurn'
<1>1. /\ \A p \in Statements \ {q} : client'[p] = client[p]
      /\ Ended(q) => client'[q] = client[q]
      /\ client[q] = "idle" => Turn(q) \/ client'[q] = "idle"
  <2>1. CASE Submit(q) \/ SubmitRefused(q) \/ SubmitLost(q) \/ PollFails(q)
    BY <2>1 DEF Submit, SubmitRefused, SubmitLost, PollFails, Broken, Ended, IInv, TypeOK
  <2>2. CASE Poll(q)
    BY <2>2 DEF Poll, Ended, IInv, TypeOK
  <2>3. CASE Presto(q)
    BY <2>3 DEF Presto, Run, ComputePage, Finish, Fail, Enter
  <2>4. QED
    BY <2>1, <2>2, <2>3 DEF Client
<1>2. SUFFICES ASSUME NEW i \in DOMAIN Seeds, NEW j \in DOMAIN Seeds, i < j,
                      client'[Seeds[j]] # "idle"
               PROVE  Ended(Seeds[i])'
  BY DEF InTurn
<1>3. Seeds[i] \in Statements /\ Seeds[j] \in Statements /\ i \in 1..j - 1
  <2>1. Seeds[i] \in SeedSet /\ Seeds[j] \in SeedSet
    BY DEF SeedSet
  <2>2. DOMAIN Seeds = 1..Len(Seeds) /\ Len(Seeds) \in Nat
    BY PrestoAssumption, LenProperties
  <2>3. QED
    BY <1>2, <2>1, <2>2 DEF Statements
<1>4. Ended(Seeds[i])
  <2>1. CASE client[Seeds[j]] # "idle"
    BY <1>2, <2>1 DEF IInv, InTurn
  <2>2. CASE client[Seeds[j]] = "idle"
    <3>1. Seeds[j] = q /\ Turn(q)
      BY <1>1, <1>2, <1>3, <2>2
    <3>2. QED
      BY <1>3, <3>1 DEF Turn
  <2>3. QED
    BY <2>1, <2>2
<1>5. QED
  BY <1>1, <1>3, <1>4 DEF Ended

LEMMA InductiveStep ==
  ASSUME IInv, [Next]_vars
  PROVE  IInv'
<1>1. TypeOK' /\ Untouched'
  BY TypeStep, UntouchedStep DEF IInv
<1>2. Queries \subseteq Statements
  BY DEF Statements
<1>3. ASSUME NEW q \in Statements, Client(q) \/ Presto(q)
      PROVE  IInv'
  <2>1. Served(q)' /\ (q \in Queries => Collected(q)')
    BY <1>3, PollStep, OtherClientSteps, PrestoStep DEF Client
  <2>2. \A p \in Statements \ {q} : Served(p)' /\ (p \in Queries => Collected(p)')
    BY <1>3, OthersUntouched
  <2>3. InTurn'
    BY <1>3, InTurnStep
  <2>4. QED
    BY <1>1, <1>2, <2>1, <2>2, <2>3 DEF IInv
<1>4. CASE UNCHANGED vars
  BY <1>1, <1>4 DEF IInv, Served, Collected, InTime, InTurn, Ended, vars
<1>5. QED
  BY <1>3, <1>4 DEF Next, AllEnded

LEMMA Invariance == Spec => []IInv
<1>1. Init => IInv
  BY Initially
<1>2. IInv /\ [Next]_vars => IInv'
  BY InductiveStep
<1>3. QED
  BY <1>1, <1>2, PTL DEF Spec

\* execute_query returns the pages of the result completely, in order and
\* without repetition, whatever the number of pages and of empty answers.
THEOREM RowsStayComplete == Spec => []RowsAreComplete
<1>1. IInv => RowsAreComplete
  BY DEF IInv, RowsAreComplete, Collected
<1>2. QED
  BY <1>1, Invariance, PTL

\* The seed runner prints OK only for what took effect, and no seed overtakes
\* one before it, as long as the polls do not run out.
THEOREM SeedsStayInOrder == Spec => []SeedsArriveInOrder
<1>1. ASSUME IInv PROVE SeedsArriveInOrder
  <2>1. \A q \in SeedSet : client[q] = "returned" /\ polls[q] < MaxPolls => q \in applied
    BY <1>1 DEF IInv, Served, InTime, Statements
  <2>2. ASSUME NEW i \in DOMAIN Seeds, NEW j \in DOMAIN Seeds, i < j,
               client[Seeds[j]] # "idle", state[Seeds[i]] \in {"QUEUED", "RUNNING"}
        PROVE  polls[Seeds[i]] = MaxPolls
    <3>1. Seeds[i] \in SeedSet /\ Seeds[i] \in Statements /\ Served(Seeds[i])
      BY <1>1 DEF SeedSet, Statements, IInv
    <3>2. client[Seeds[i]] \in {"returned", "raised"}
      BY <1>1, <2>2 DEF IInv, InTurn, Ended
    <3>3. polls[Seeds[i]] \in 0..MaxPolls /\ MaxPolls \in Nat
      BY <1>1, <3>1, PrestoAssumption DEF IInv, TypeOK
    <3>4. QED
      BY <2>2, <3>1, <3>2, <3>3 DEF Served, InTime
  <2>3. QED
    BY <2>1, <2>2 DEF SeedsArriveInOrder
<1>2. QED
  BY <1>1, Invariance, PTL

-----------------------------------------------------------------------------
(* execute_query keeps the contract of StatementCall *)

\* What a statement's own step changes of the abstract state.
LEMMA ViewOfOthers ==
  ASSUME IInv, NEW q \in Statements, Client(q) \/ Presto(q)
  PROVE  /\ \A p \in Statements \ {q} :
              client'[p] = client[p] /\ (p \in applied' <=> p \in applied)
         /\ applied \subseteq applied' /\ applied' \subseteq applied \union {q}
<1>1. CASE Submit(q) \/ SubmitRefused(q) \/ SubmitLost(q) \/ PollFails(q)
  BY <1>1 DEF Submit, SubmitRefused, SubmitLost, PollFails, Broken, server, IInv, TypeOK
<1>2. CASE Poll(q)
  BY <1>2 DEF Poll, IInv, TypeOK
<1>3. CASE Presto(q)
  BY <1>3 DEF Presto, Run, ComputePage, Finish, Fail, Enter, IInv, TypeOK
<1>4. QED
  BY <1>1, <1>2, <1>3 DEF Client

\* What the step of a query does to its call and its effect.
LEMMA QueryStep ==
  ASSUME IInv, NEW q \in Queries, Client(q) \/ Presto(q)
  PROVE  \/ client[q] = "idle" /\ client'[q] = "polling" /\ UNCHANGED applied
         \/ client[q] \in {"idle", "polling"} /\ client'[q] = "raised" /\ UNCHANGED applied
         \/ /\ client[q] = "polling" /\ client'[q] = "returned"
            /\ q \in applied /\ UNCHANGED applied
         \/ /\ client[q] \in {"polling", "raised"} /\ UNCHANGED client
            /\ q \notin applied /\ applied' = applied \union {q}
         \/ UNCHANGED <<client, applied>>
<1>1. /\ q \in Statements /\ q \notin SeedSet
      /\ TypeOK /\ Untouched /\ Served(q)
  BY PrestoAssumption DEF IInv, Statements
<1>2. CASE Submit(q) \/ SubmitRefused(q) \/ SubmitLost(q) \/ PollFails(q)
  BY <1>1, <1>2 DEF Submit, SubmitRefused, SubmitLost, PollFails, Broken, server, TypeOK
<1>3. CASE Poll(q)
  <2>1. /\ client[q] = "polling" /\ UNCHANGED <<state, applied>>
        /\ client' = [client EXCEPT ![q] = QueryOutcome(Reply(q), polls[q] + 1)]
    BY <1>1, <1>3 DEF Poll
  <2>2. QueryOutcome(Reply(q), polls[q] + 1) \in {"polling", "returned", "raised"}
    BY PrestoAssumption DEF QueryOutcome
  <2>3. QueryOutcome(Reply(q), polls[q] + 1) = "returned" => q \in applied
    BY <1>1, ReturnsAtTheEnd DEF Served
  <2>4. client'[q] = QueryOutcome(Reply(q), polls[q] + 1)
    BY <1>1, <2>1 DEF TypeOK
  <2>5. client'[q] = "polling" => UNCHANGED client
    BY <1>1, <2>1, <2>4 DEF TypeOK
  <2>6. QED
    BY <2>1, <2>2, <2>3, <2>4, <2>5
<1>4. CASE Run(q) \/ ComputePage(q) \/ Fail(q)
  BY <1>4 DEF Run, ComputePage, Fail
<1>5. CASE Finish(q)
  <2>1. /\ state[q] = "RUNNING" /\ applied' = applied \union {q} /\ UNCHANGED client
    BY <1>5 DEF Finish, Enter
  <2>2. q \notin applied /\ client[q] \notin {"idle", "returned"}
    BY <1>1, <2>1 DEF Served, InTime, Untouched
  <2>3. client[q] # "aborted"
    BY DEF IInv, Collected
  <2>4. QED
    BY <1>1, <2>1, <2>2, <2>3 DEF TypeOK
<1>6. QED
  BY <1>1, <1>2, <1>3, <1>4, <1>5 DEF Client, Presto

LEMMA ContractInit ==
  ASSUME Init
  PROVE  Abstract!Init
BY DEF Init, Abstract!Init, Statements

\* Every step of the protocol is a step of the contract or changes nothing of
\* it.
LEMMA ContractStep ==
  ASSUME IInv, [Next]_vars
  PROVE  [Abstract!Next]_(Abstract!vars)
<1>1. Queries \subseteq Statements
  BY DEF Statements
<1>2. CASE UNCHANGED vars
  BY <1>2 DEF vars, Abstract!vars
<1>3. ASSUME NEW q \in SeedSet, Client(q) \/ Presto(q)
      PROVE  UNCHANGED Abstract!vars
  <2>1. q \in Statements /\ q \notin Queries
    BY PrestoAssumption DEF Statements
  <2>2. \A p \in Queries : client'[p] = client[p]
    BY <1>1, <1>3, <2>1, ViewOfOthers
  <2>3. applied' \intersect Queries = applied \intersect Queries
    BY <1>3, <2>1, ViewOfOthers
  <2>4. QED
    BY <2>2, <2>3 DEF Abstract!vars
<1>4. ASSUME NEW q \in Queries, Client(q) \/ Presto(q)
      PROVE  [Abstract!Next]_(Abstract!vars)
  <2>1. \A p \in Queries \ {q} : client'[p] = client[p]
    BY <1>1, <1>4, ViewOfOthers
  <2>2. CASE client[q] = "idle" /\ client'[q] = "polling" /\ UNCHANGED applied
    <3>1. Abstract!Invoke(q)
      BY <2>1, <2>2 DEF Abstract!Invoke
    <3>2. QED
      BY <3>1 DEF Abstract!Next
  <2>3. CASE client[q] \in {"idle", "polling"} /\ client'[q] = "raised" /\ UNCHANGED applied
    <3>1. Abstract!RaiseError(q)
      BY <2>1, <2>3 DEF Abstract!RaiseError
    <3>2. QED
      BY <3>1 DEF Abstract!Next
  <2>4. CASE /\ client[q] = "polling" /\ client'[q] = "returned"
             /\ q \in applied /\ UNCHANGED applied
    <3>1. Abstract!ReturnRows(q)
      BY <2>1, <2>4 DEF Abstract!ReturnRows
    <3>2. QED
      BY <3>1 DEF Abstract!Next
  <2>5. CASE /\ client[q] \in {"polling", "raised"} /\ UNCHANGED client
             /\ q \notin applied /\ applied' = applied \union {q}
    <3>1. Abstract!Apply(q)
      BY <2>5 DEF Abstract!Apply
    <3>2. QED
      BY <3>1 DEF Abstract!Next
  <2>6. CASE UNCHANGED <<client, applied>>
    BY <2>6 DEF Abstract!vars
  <2>7. QED
    BY <1>4, <2>2, <2>3, <2>4, <2>5, <2>6, QueryStep
<1>5. QED
  BY <1>2, <1>3, <1>4 DEF Next, AllEnded, Statements

\* execute_query implements the contract both agents rely on.
THEOREM ImplementsContract == Spec => KeepsContract
<1>1. Init => Abstract!Init
  BY ContractInit
<1>2. IInv /\ [Next]_vars => [Abstract!Next]_(Abstract!vars)
  BY ContractStep
<1>3. QED
  BY <1>1, <1>2, Invariance, PTL DEF Spec, KeepsContract, Abstract!Spec

\* What the contract is for: the statement of a call that returned took
\* effect.
ReturnsAreEarned == \A q \in Queries : client[q] = "returned" => q \in applied

LEMMA ContractConsequences ==
  ASSUME ReturnsAreEarned, TypeOK, [Abstract!Next]_(Abstract!vars)
  PROVE  ReturnsAreEarned'
<1> DEFINE call == [p \in Queries |-> IF client[p] = "polling" THEN "running" ELSE client[p]]
<1>1. SUFFICES ASSUME NEW q \in Queries, client'[q] = "returned"
               PROVE  q \in applied'
  BY DEF ReturnsAreEarned
<1>2. /\ call'[q] = "returned"
      /\ call[q] = "returned" => q \in applied
  BY <1>1 DEF ReturnsAreEarned
<1>3. CASE UNCHANGED Abstract!vars
  BY <1>2, <1>3 DEF Abstract!vars
<1>4. ASSUME NEW p \in Queries, Abstract!Invoke(p) \/ Abstract!RaiseError(p)
      PROVE  q \in applied'
  BY <1>2, <1>4 DEF Abstract!Invoke, Abstract!RaiseError
<1>5. ASSUME NEW p \in Queries, Abstract!Apply(p)
      PROVE  q \in applied'
  BY <1>2, <1>5 DEF Abstract!Apply
<1>6. ASSUME NEW p \in Queries, Abstract!ReturnRows(p)
      PROVE  q \in applied'
  BY <1>2, <1>6 DEF Abstract!ReturnRows
<1>7. QED
  BY <1>3, <1>4, <1>5, <1>6 DEF Abstract!Next

\* A caller that got rows from execute_query knows that its statement took
\* effect, whatever happened to the answers on the way.
THEOREM ReturnedMeansApplied ==
  Spec => [](\A q \in Queries : client[q] = "returned" => q \in applied)
<1>1. Init => ReturnsAreEarned
  BY DEF Init, ReturnsAreEarned, Statements
<1>2. ReturnsAreEarned /\ TypeOK /\ [Abstract!Next]_(Abstract!vars) => ReturnsAreEarned'
  BY ContractConsequences
<1>3. QED
  BY <1>1, <1>2, ImplementsContract, TypeCorrect, PTL
     DEF KeepsContract, Abstract!Spec, Spec, ReturnsAreEarned
=============================================================================
