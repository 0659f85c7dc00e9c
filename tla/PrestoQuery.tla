---------------------------- MODULE PrestoQuery ----------------------------
(***************************************************************************)
(* The Presto REST protocol as its two clients speak it: execute_query of  *)
(* shared/wxdata_client, used by both agents, and execute of the seed      *)
(* runner.  A client posts a statement and follows nextUri until there is  *)
(* none, at most MaxPolls times.  Presto itself is external: it queues,    *)
(* runs and finishes or fails a statement at its own pace, and goes on     *)
(* with a statement whose client is gone.                                  *)
(***************************************************************************)
EXTENDS Naturals, Sequences, FiniteSets

CONSTANTS
  Queries,   \* statements sent through execute_query
  Seeds,     \* the statements of the seed files, in order
  PagesOf,   \* pages of rows Presto answers a statement with
  Needs,     \* statements that must have taken effect for one to succeed
  MaxPolls   \* _MAX_POLLS and the 120 of _poll

SeedSet == {Seeds[i] : i \in DOMAIN Seeds}

Statements == Queries \union SeedSet

ASSUME PrestoAssumption ==
  /\ Seeds \in Seq(SeedSet) /\ Queries \intersect SeedSet = {}
  /\ \A i, j \in DOMAIN Seeds : Seeds[i] = Seeds[j] => i = j
  /\ PagesOf \in [Statements -> Nat]
  /\ Needs \in [Statements -> SUBSET Statements]
  /\ MaxPolls \in Nat \ {0}

(* An operator named X_Something is a mutant of the X that follows it.     *)

VARIABLES
  state,    \* Presto's state of each statement
  ready,    \* pages of the result computed so far
  fetched,  \* pages handed out so far
  applied,  \* statements that took effect
  client,   \* progress of each client
  polls,    \* GETs so far
  got       \* pages appended to rows so far

vars == <<state, ready, fetched, applied, client, polls, got>>

server == <<state, ready, fetched, applied>>

Init ==
  /\ state = [q \in Statements |-> "ABSENT"]
  /\ ready = [q \in Statements |-> 0]
  /\ fetched = [q \in Statements |-> 0]
  /\ applied = {}
  /\ client = [q \in Statements |-> "idle"]
  /\ polls = [q \in Statements |-> 0]
  /\ got = [q \in Statements |-> <<>>]

Ended(q) == client[q] \in {"returned", "raised"}

-----------------------------------------------------------------------------
(* Presto *)

Enter(q, from, to) ==
  /\ state[q] = from
  /\ state' = [state EXCEPT ![q] = to]

Run(q) ==
  /\ Enter(q, "QUEUED", "RUNNING")
  /\ UNCHANGED <<ready, fetched, applied, client, polls, got>>

ComputePage(q) ==
  /\ state[q] = "RUNNING" /\ ready[q] < PagesOf[q]
  /\ ready' = [ready EXCEPT ![q] = @ + 1]
  /\ UNCHANGED <<state, fetched, applied, client, polls, got>>

Finish(q) ==
  /\ Enter(q, "RUNNING", "FINISHED")
  /\ ready[q] = PagesOf[q] /\ Needs[q] \subseteq applied
  /\ applied' = applied \union {q}
  /\ UNCHANGED <<ready, fetched, client, polls, got>>

Fail(q) ==
  /\ \E from \in {"QUEUED", "RUNNING"} : Enter(q, from, "FAILED")
  /\ UNCHANGED <<ready, fetched, applied, client, polls, got>>

\* The answer to the next GET: the state, a page if one is ready (0: no data)
\* and whether there is a nextUri.
Reply(q) ==
  LET page == IF state[q] \in {"RUNNING", "FINISHED"} /\ fetched[q] < ready[q]
                THEN fetched[q] + 1 ELSE 0
  IN  [state |-> state[q],
       page |-> page,
       more |-> /\ state[q] # "FAILED"
                /\ state[q] = "FINISHED" => page # 0 /\ page < PagesOf[q]]

-----------------------------------------------------------------------------
(* The clients *)

\* The seed runner sends a statement when the one before has been dealt with.
Turn(q) ==
  \A i \in DOMAIN Seeds : Seeds[i] = q => \A j \in 1..i - 1 : Ended(Seeds[j])

\* The POST is answered: the statement is queued and there is a nextUri.
Submit(q) ==
  /\ client[q] = "idle" /\ Turn(q)
  /\ state' = [state EXCEPT ![q] = "QUEUED"]
  /\ client' = [client EXCEPT ![q] = "polling"]
  /\ UNCHANGED <<ready, fetched, applied, polls, got>>

\* The POST is answered with an HTTP error.
SubmitRefused(q) ==
  /\ client[q] = "idle" /\ Turn(q)
  /\ client' = [client EXCEPT ![q] = "raised"]
  /\ UNCHANGED <<server, polls, got>>

Broken_GoesOn(q) == "raised"

\* What any other failure of a request means: execute_query raises, the seed
\* runner, which catches nothing else, ends.
Broken(q) == IF q \in SeedSet THEN "aborted" ELSE "raised"

\* No answer to the POST; Presto may have taken the statement.
SubmitLost(q) ==
  /\ client[q] = "idle" /\ Turn(q)
  /\ client' = [client EXCEPT ![q] = Broken(q)]
  /\ state' \in {state, [state EXCEPT ![q] = "QUEUED"]}
  /\ UNCHANGED <<ready, fetched, applied, polls, got>>

QueryOutcome_StopsWhenFinished(reply, n) ==
  IF reply.state = "FAILED" THEN "raised"
  ELSE IF ~reply.more \/ reply.state = "FINISHED" THEN "returned"
  ELSE IF n >= MaxPolls THEN "raised" ELSE "polling"

QueryOutcome_ReturnsAtLimit(reply, n) ==
  IF reply.state = "FAILED" THEN "raised"
  ELSE IF ~reply.more \/ n >= MaxPolls THEN "returned" ELSE "polling"

QueryOutcome_OneMore(reply, n) ==
  IF reply.state = "FAILED" THEN "raised"
  ELSE IF ~reply.more THEN "returned"
  ELSE IF n > MaxPolls THEN "raised" ELSE "polling"

\* What execute_query does with the answer to its n-th GET.
QueryOutcome(reply, n) ==
  IF reply.state = "FAILED" THEN "raised"
  ELSE IF ~reply.more THEN "returned"
  ELSE IF n >= MaxPolls THEN "raised" ELSE "polling"

SeedOutcome_IgnoresFailure(reply, n) ==
  IF ~reply.more \/ n >= MaxPolls THEN "returned" ELSE "polling"

\* What the seed runner's _poll does with an answer: "returned" is True,
\* "raised" is False.
SeedOutcome(reply, n) ==
  IF reply.state = "FAILED" THEN "raised"
  ELSE IF ~reply.more \/ n >= MaxPolls THEN "returned" ELSE "polling"

Poll_StartsOver(q) ==
  LET reply == Reply(q)
      n == (polls[q] + 1) % MaxPolls
  IN  /\ client[q] = "polling"
      /\ fetched' = [fetched EXCEPT ![q] = IF reply.page = 0 THEN @ ELSE reply.page]
      /\ polls' = [polls EXCEPT ![q] = n]
      /\ client' = [client EXCEPT ![q] = IF q \in SeedSet THEN SeedOutcome(reply, n)
                                                          ELSE QueryOutcome(reply, n)]
      /\ got' = [got EXCEPT ![q] = IF reply.page = 0 \/ q \in SeedSet
                                     THEN @ ELSE Append(@, reply.page)]
      /\ UNCHANGED <<state, ready, applied>>

\* A GET is answered and the answer dealt with.
Poll(q) ==
  LET reply == Reply(q)
  IN  /\ client[q] = "polling"
      /\ fetched' = [fetched EXCEPT ![q] = IF reply.page = 0 THEN @ ELSE reply.page]
      /\ polls' = [polls EXCEPT ![q] = @ + 1]
      /\ got' = [got EXCEPT ![q] = IF reply.page = 0 \/ q \in SeedSet
                                     THEN @ ELSE Append(@, reply.page)]
      /\ client' = [client EXCEPT ![q] =
                      IF q \in SeedSet THEN SeedOutcome(reply, polls[q] + 1)
                                       ELSE QueryOutcome(reply, polls[q] + 1)]
      /\ UNCHANGED <<state, ready, applied>>

\* A GET is answered with an HTTP error or not at all.
PollFails(q) ==
  /\ client[q] = "polling"
  /\ client' = [client EXCEPT ![q] = Broken(q)]
  /\ UNCHANGED <<server, polls, got>>

AllEnded ==
  /\ \A q \in Queries : Ended(q)
  /\ (\A q \in SeedSet : Ended(q)) \/ (\E q \in SeedSet : client[q] = "aborted")
  /\ UNCHANGED vars

Client(q) == Submit(q) \/ SubmitRefused(q) \/ SubmitLost(q) \/ Poll(q) \/ PollFails(q)

Presto(q) == Run(q) \/ ComputePage(q) \/ Finish(q) \/ Fail(q)

Next == (\E q \in Statements : Client(q) \/ Presto(q)) \/ AllEnded

(* A client sleeps half a second and its requests time out after 30; Presto *)
(* is not assumed to make any progress.                                     *)
Fairness == \A q \in Statements : WF_vars(Poll(q) \/ PollFails(q))

Spec == Init /\ [][Next]_vars
FairSpec == Spec /\ Fairness

-----------------------------------------------------------------------------
(* Properties *)

TypeOK ==
  /\ state \in [Statements -> {"ABSENT", "QUEUED", "RUNNING", "FINISHED", "FAILED"}]
  /\ ready \in [Statements -> Nat] /\ fetched \in [Statements -> Nat]
  /\ \A q \in Statements : fetched[q] <= ready[q] /\ ready[q] <= PagesOf[q]
  /\ applied \in SUBSET Statements
  /\ client \in [Statements -> {"idle", "polling", "returned", "raised", "aborted"}]
  /\ polls \in [Statements -> 0..MaxPolls]
  /\ \A q \in Statements : client[q] = "polling" => polls[q] < MaxPolls
  /\ got \in [Statements -> Seq(Nat)]

\* execute_query returns every page of the result, once each and in order,
\* however many answers came without data.
RowsAreComplete ==
  \A q \in Queries :
    client[q] = "returned" =>
      /\ Len(got[q]) = PagesOf[q]
      /\ \A i \in DOMAIN got[q] : got[q][i] = i

\* The seed runner counts a statement as OK only if it took effect, and sends
\* one only when Presto is done with those before it, whether they took effect
\* or failed: seeds arrive in their order, though the runner continues after a
\* failure.  Both are lost for a statement whose polls ran out, and only then.
SeedsArriveInOrder ==
  /\ \A q \in SeedSet : client[q] = "returned" /\ polls[q] < MaxPolls => q \in applied
  /\ \A i, j \in DOMAIN Seeds :
       i < j /\ client[Seeds[j]] # "idle" /\ state[Seeds[i]] \in {"QUEUED", "RUNNING"} =>
         polls[Seeds[i]] = MaxPolls

\* execute_query keeps the contract its callers rely on: returned means the
\* statement took effect, and every call ends even if Presto hangs.
Abstract == INSTANCE StatementCall WITH
  Statements <- Queries,
  call <- [q \in Queries |-> IF client[q] = "polling" THEN "running" ELSE client[q]],
  applied <- applied \intersect Queries

KeepsContract == Abstract!Spec

EveryCallEnds == Abstract!EveryCallEnds
=============================================================================
