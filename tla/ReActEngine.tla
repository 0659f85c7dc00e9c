---------------------------- MODULE ReActEngine ----------------------------
(***************************************************************************)
(* The Orchestrate service: ReActEngine.run_turn over the in-process       *)
(* MemoryStore, behind POST /agent/chat and DELETE /agent/session/{id}.    *)
(*                                                                         *)
(* Every uvicorn worker is one asyncio event loop with its own             *)
(* MemoryStore.  Granite is called synchronously, so a chat holds the loop *)
(* from the moment it is resumed until it returns, raises, or awaits the   *)
(* HTTP call of a tool; that await is the only point where the handlers of *)
(* a worker interleave.  An await of an unknown tool never suspends.       *)
(*                                                                         *)
(* A turn stands for its text: who wrote it (role), for which chat request *)
(* (req) and in which iteration (step).                                    *)
(***************************************************************************)
EXTENDS Naturals, Sequences, FiniteSets, FiniteSetsExt

CONSTANTS
  Workers,     \* uvicorn worker processes, over all pods
  Sessions,    \* session_id values
  Requests,    \* identities of POST /agent/chat calls
  MaxTurns,    \* settings.max_conversation_turns (default 20)
  MaxIter,     \* settings.max_react_iterations (default 8)
  MaxGiveUps,  \* bound: chats whose client stops waiting for the answer
  MaxClears,   \* bound: DELETE /agent/session calls
  MaxCrashes,  \* bound: worker restarts
  NoRequest,   \* event loop is free
  Nowhere,     \* request not sent yet
  NoTurn,      \* no answer yet
  Apology      \* "I reached the maximum number of reasoning steps..."

Roles == {"user", "assistant", "tool"}

Turn == [role : Roles, req : Requests, step : Nat]

Windows == Workers \X Sessions

ASSUME LimitsAssumption ==
  /\ MaxTurns \in Nat \ {0}
  /\ MaxIter \in Nat \ {0}
  /\ MaxGiveUps \in Nat /\ MaxClears \in Nat /\ MaxCrashes \in Nat

ASSUME SentinelAssumption ==
  /\ NoRequest \notin Requests
  /\ Nowhere \notin Windows
  /\ NoTurn \notin Turn /\ Apology \notin Turn /\ NoTurn # Apology

VARIABLES
  mem,         \* MemoryStore._sessions of each worker; <<>> if absent
  loop,        \* the chat that holds a worker's event loop
  pc,          \* progress of each chat
  at,          \* the worker and session a chat runs on
  iter,        \* the loop variable of run_turn
  answer,      \* what the chat returned
  gone,        \* chats whose client stopped waiting (gateway 504)
  clears,      \* DELETE calls so far
  crashes,     \* restarts so far
  foreign,     \* history: turns others added to a chat's window while it ran
  wiped,       \* history: chats whose session was deleted while they ran
  erased,      \* history: finished chats whose session was deleted
  lastAnswer   \* history: what each session's user was last answered

vars == <<mem, loop, pc, at, iter, answer, gone, clears, crashes,
          foreign, wiped, erased, lastAnswer>>

history == <<wiped, erased>>

Init ==
  /\ mem = [p \in Windows |-> <<>>]
  /\ loop = [w \in Workers |-> NoRequest]
  /\ pc = [r \in Requests |-> "unsent"]
  /\ at = [r \in Requests |-> Nowhere]
  /\ iter = [r \in Requests |-> 0]
  /\ answer = [r \in Requests |-> NoTurn]
  /\ gone = {}
  /\ clears = 0
  /\ crashes = 0
  /\ foreign = [r \in Requests |-> 0]
  /\ wiped = {}
  /\ erased = {}
  /\ lastAnswer = [s \in Sessions |-> NoTurn]

Active(r) == pc[r] \in {"think", "await"}
Finished(r) == pc[r] \in {"answered", "failed"}

-----------------------------------------------------------------------------
(* MemoryStore *)

(* Mutants of the code (an operator named X_Something replaces X in a      *)
(* mutant run) stand just before the definition they change.               *)
AddTurn_NeverTrims(h, t) == Append(h, t)

AddTurn_TrimsNewest(h, t) ==
  IF Len(h) = MaxTurns THEN h ELSE Append(h, t)

AddTurn_TrimsEarly(h, t) ==
  LET g == Append(h, t)
  IN  IF Len(g) >= MaxTurns THEN Tail(g) ELSE g

\* add_turn: append, then the sliding-window trim.
AddTurn(h, t) ==
  LET g == Append(h, t)
  IN  IF Len(g) > MaxTurns THEN Tail(g) ELSE g

UserTurn(r) == [role |-> "user", req |-> r, step |-> 0]
AssistantTurn(r) == [role |-> "assistant", req |-> r, step |-> iter[r]]
ToolTurn(r) == [role |-> "tool", req |-> r, step |-> iter[r]]

\* The chat that owns window p after r added n turns to it: every other
\* running chat of that window sees n turns it did not write.
NoteForeign(r, p, n) ==
  foreign' = [q \in Requests |->
                IF q # r /\ Active(q) /\ at[q] = p THEN foreign[q] + n
                                                   ELSE foreign[q]]

-----------------------------------------------------------------------------
(* run_turn *)

LastAssistant_First(h) ==
  LET said == {i \in DOMAIN h : h[i].role = "assistant"}
  IN  IF said = {} THEN Apology ELSE h[Min(said)]

LastAssistant_LastTurn(h) == IF h = <<>> THEN Apology ELSE h[Len(h)]

\* The content of the last assistant turn of the session, whoever caused it.
LastAssistant(h) ==
  LET said == {i \in DOMAIN h : h[i].role = "assistant"}
  IN  IF said = {} THEN Apology ELSE h[Max(said)]

Return(r, h, a) ==
  /\ mem' = [mem EXCEPT ![at[r]] = h]
  /\ pc' = [pc EXCEPT ![r] = "answered"]
  /\ answer' = [answer EXCEPT ![r] = a]
  /\ lastAnswer' = [lastAnswer EXCEPT ![at[r][2]] = IF a = Apology THEN NoTurn ELSE a]
  /\ loop' = [loop EXCEPT ![at[r][1]] = NoRequest]

NextIteration_WhileTrue(r, h) ==
  /\ mem' = [mem EXCEPT ![at[r]] = h]
  /\ pc' = [pc EXCEPT ![r] = "think"]
  /\ loop' = [loop EXCEPT ![at[r][1]] = r]
  /\ UNCHANGED <<iter, answer, lastAnswer>>

\* The bottom of the for loop: another iteration, or the loop is exhausted
\* and the last assistant output is returned as it is.
NextIteration(r, h) ==
  /\ iter' = [iter EXCEPT ![r] = @ + 1]
  /\ \/ /\ iter[r] + 1 < MaxIter
        /\ mem' = [mem EXCEPT ![at[r]] = h]
        /\ pc' = [pc EXCEPT ![r] = "think"]
        /\ loop' = [loop EXCEPT ![at[r][1]] = r]
        /\ UNCHANGED <<answer, lastAnswer>>
     \/ /\ iter[r] + 1 >= MaxIter
        /\ Return(r, h, LastAssistant(h))

\* The user of a session sends a message when no earlier one is pending, as
\* far as that user can tell; any worker may accept it.  The handler runs at
\* once: the user turn is stored and the first prompt is built.
Chat(r, p) ==
  /\ pc[r] = "unsent"
  /\ loop[p[1]] = NoRequest
  /\ \A q \in Requests : Active(q) /\ at[q][2] = p[2] => q \in gone
  /\ mem' = [mem EXCEPT ![p] = AddTurn(@, UserTurn(r))]
  /\ at' = [at EXCEPT ![r] = p]
  /\ pc' = [pc EXCEPT ![r] = "think"]
  /\ loop' = [loop EXCEPT ![p[1]] = r]
  /\ NoteForeign(r, p, 1)
  /\ UNCHANGED <<iter, answer, gone, clears, crashes, lastAnswer, history>>

Thinking(r) == pc[r] = "think" /\ loop[at[r][1]] = r

Conclude_NotStored(r) ==
  /\ Thinking(r)
  /\ Return(r, mem[at[r]], AssistantTurn(r))
  /\ UNCHANGED <<at, iter, gone, clears, crashes, foreign, history>>

\* Granite gives a Final Answer, or text without any recognised pattern.
Conclude(r) ==
  /\ Thinking(r)
  /\ Return(r, AddTurn(mem[at[r]], AssistantTurn(r)), AssistantTurn(r))
  /\ NoteForeign(r, at[r], 1)
  /\ UNCHANGED <<at, iter, gone, clears, crashes, history>>

CallTool_ActionNotStored(r) ==
  /\ Thinking(r)
  /\ pc' = [pc EXCEPT ![r] = "await"]
  /\ loop' = [loop EXCEPT ![at[r][1]] = NoRequest]
  /\ UNCHANGED <<mem, at, iter, answer, gone, clears, crashes, lastAnswer,
                 foreign, history>>

\* Granite asks for a registered tool; the loop is released while it runs.
CallTool(r) ==
  /\ Thinking(r)
  /\ mem' = [mem EXCEPT ![at[r]] = AddTurn(@, AssistantTurn(r))]
  /\ pc' = [pc EXCEPT ![r] = "await"]
  /\ loop' = [loop EXCEPT ![at[r][1]] = NoRequest]
  /\ NoteForeign(r, at[r], 1)
  /\ UNCHANGED <<at, iter, answer, gone, clears, crashes, lastAnswer, history>>

\* Granite names a tool that is not registered, or gives a registered one an
\* input it rejects before its HTTP call: the error becomes the observation
\* without the coroutine ever being suspended.
CallUnknownTool(r) ==
  /\ Thinking(r)
  /\ NextIteration(r, AddTurn(AddTurn(mem[at[r]], AssistantTurn(r)), ToolTurn(r)))
  /\ NoteForeign(r, at[r], 2)
  /\ UNCHANGED <<at, gone, clears, crashes, history>>

\* generate_text raises: nothing catches it, the chat ends in HTTP 500 and
\* the turns stored so far stay.
GraniteRaises(r) ==
  /\ Thinking(r)
  /\ pc' = [pc EXCEPT ![r] = "failed"]
  /\ loop' = [loop EXCEPT ![at[r][1]] = NoRequest]
  /\ lastAnswer' = [lastAnswer EXCEPT ![at[r][2]] = NoTurn]
  /\ UNCHANGED <<mem, at, iter, answer, gone, clears, crashes, foreign, history>>

\* The tool's HTTP call ends: a result, an HTTP error or an httpx timeout,
\* each of which is an observation.
ToolReturns(r) ==
  /\ pc[r] = "await"
  /\ loop[at[r][1]] = NoRequest
  /\ NextIteration(r, AddTurn(mem[at[r]], ToolTurn(r)))
  /\ NoteForeign(r, at[r], 1)
  /\ UNCHANGED <<at, gone, clears, crashes, history>>

-----------------------------------------------------------------------------
(* The environment of a chat *)

Cleared_KeepsLast(p) == IF mem[p] = <<>> THEN <<>> ELSE Tail(mem[p])

\* clear_session: what is left of the session.
Cleared(p) == <<>>

\* DELETE /agent/session/{id}, handled by some worker when its loop is free.
ClearSession(p) ==
  /\ clears < MaxClears
  /\ loop[p[1]] = NoRequest
  /\ clears' = clears + 1
  /\ mem' = [mem EXCEPT ![p] = Cleared(p)]
  /\ wiped' = wiped \union {q \in Requests : Active(q) /\ at[q] = p}
  /\ erased' = erased \union {q \in Requests : Finished(q) /\ at[q][2] = p[2]}
  /\ lastAnswer' = [lastAnswer EXCEPT ![p[2]] = NoTurn]
  /\ UNCHANGED <<loop, pc, at, iter, answer, gone, crashes, foreign>>

\* The client stops waiting (the gateway's read timeout answers 504); the
\* handler is not cancelled and goes on.
GiveUp(r) ==
  /\ Active(r) /\ r \notin gone
  /\ Cardinality(gone) < MaxGiveUps
  /\ gone' = gone \union {r}
  /\ UNCHANGED <<mem, loop, pc, at, iter, answer, clears, crashes, foreign,
                 lastAnswer, history>>

\* A worker restarts: its memory and its running chats are lost.
Crash(w) ==
  /\ crashes < MaxCrashes
  /\ crashes' = crashes + 1
  /\ mem' = [p \in Windows |-> IF p[1] = w THEN <<>> ELSE mem[p]]
  /\ loop' = [loop EXCEPT ![w] = NoRequest]
  /\ pc' = [r \in Requests |-> IF Active(r) /\ at[r][1] = w THEN "failed" ELSE pc[r]]
  /\ lastAnswer' = [s \in Sessions |-> NoTurn]
  /\ UNCHANGED <<at, iter, answer, gone, clears, foreign, history>>

Granite(r) == Conclude(r) \/ CallTool(r) \/ CallUnknownTool(r) \/ GraniteRaises(r)

Done == (\A r \in Requests : Finished(r)) /\ UNCHANGED vars

Next ==
  \/ \E r \in Requests : \/ \E p \in Windows : Chat(r, p)
                         \/ Granite(r)
                         \/ ToolReturns(r)
                         \/ GiveUp(r)
  \/ \E p \in Windows : ClearSession(p)
  \/ \E w \in Workers : Crash(w)
  \/ Done

(* Every httpx call of a tool ends within its timeout, and asyncio's ready *)
(* queue is first-in first-out, so a resumed handler that keeps finding    *)
(* the loop free for others is not passed over for ever.  generate_text    *)
(* sets no timeout of its own: that it returns or raises is a premise      *)
(* about watsonx.ai and its client.                                        *)
Fairness == \A r \in Requests : WF_vars(Granite(r)) /\ SF_vars(ToolReturns(r))

Spec == Init /\ [][Next]_vars
FairSpec == Spec /\ Fairness

-----------------------------------------------------------------------------
(* Properties *)

TypeOK ==
  /\ mem \in [Windows -> Seq(Turn)]
  /\ \A p \in Windows : Len(mem[p]) <= MaxTurns
  /\ loop \in [Workers -> Requests \union {NoRequest}]
  /\ pc \in [Requests -> {"unsent", "think", "await", "answered", "failed"}]
  /\ at \in [Requests -> Windows \union {Nowhere}]
  /\ \A r \in Requests : pc[r] # "unsent" => at[r] \in Windows
  /\ iter \in [Requests -> 0..MaxIter]
  /\ \A r \in Requests : Active(r) => iter[r] < MaxIter
  /\ answer \in [Requests -> Turn \union {NoTurn, Apology}]
  /\ gone \in SUBSET Requests
  /\ clears \in Nat /\ crashes \in Nat
  /\ foreign \in [Requests -> Nat]
  /\ wiped \in SUBSET Requests /\ erased \in SUBSET Requests
  /\ lastAnswer \in [Sessions -> Turn \union {NoTurn}]

\* Every prompt sent to Granite for a chat contains that chat's user message,
\* as long as the session was not deleted meanwhile and other chats of the
\* session added no more turns than the window has to spare over one
\* full-length chat: MaxTurns - (2 * MaxIter - 1), five with the defaults.
PromptHasUserMessage ==
  \A r \in Requests :
    pc[r] = "think" /\ r \notin wiped /\ foreign[r] + 2 * MaxIter <= MaxTurns + 1
      => \E i \in DOMAIN mem[at[r]] : mem[at[r]][i] = UserTurn(r)

\* A chat no other chat interfered with is answered with Granite's own output
\* for it, never with what Granite said for another chat of the session; only
\* if the session was deleted under it may it be answered with the apology.
AnswerIsOwn ==
  \A r \in Requests :
    pc[r] = "answered" /\ foreign[r] = 0
      => \/ answer[r] \in Turn /\ answer[r].req = r /\ answer[r].role = "assistant"
         \/ answer[r] = Apology /\ r \in wiped

\* With one user per session, the window shows an observation right after the
\* action that asked for it, whatever was trimmed or deleted; only the oldest
\* turn may be an observation whose action is lost.
ObservationFollowsAction ==
  \A p \in Windows : \A i \in DOMAIN mem[p] :
    mem[p][i].role = "tool" /\ i > 1
      => mem[p][i - 1] = [mem[p][i] EXCEPT !.role = "assistant"]

\* The first prompt of a chat still shows the answer its user was given last.
ConversationContinuity ==
  \A r \in Requests :
    pc[r] = "think" /\ iter[r] = 0 /\ lastAnswer[at[r][2]] # NoTurn
      => \E i \in DOMAIN mem[at[r]] : mem[at[r]][i] = lastAnswer[at[r][2]]

\* No turn of a chat that had finished when its session was deleted is ever
\* shown to Granite again.  A chat that was still running goes on in the new
\* window and fills it with the turns it adds; they are not meant here.
ErasedStaysErased ==
  \A p \in Windows : \A i \in DOMAIN mem[p] : mem[p][i].req \notin erased

\* Every accepted chat is eventually answered or fails.
EveryChatEnds == \A r \in Requests : Active(r) ~> Finished(r)
=============================================================================
