------------------------- MODULE ReActEngineProofs -------------------------
(***************************************************************************)
(* Proofs about ReActEngine, for every number of workers, sessions, chats, *)
(* crashes and deletions, and every size of the window.                    *)
(***************************************************************************)
EXTENDS ReActEngine, PositionLemmas, TLAPS, SequenceTheorems, FiniteSetTheorems

-----------------------------------------------------------------------------
(* Lemmas about the operators *)

\* Placed(h, k, t): t is the (k + 1)-th newest turn of window h, unless the
\* window is too short to hold that many.
Placed(h, k, t) ==
  k < MaxTurns => k < Len(h) /\ h[Len(h) - k] = t

\* add_turn keeps a window a window, puts the new turn last, and moves every
\* other turn it keeps one place back.
LEMMA AddTurnProperties ==
  ASSUME NEW h \in Seq(Turn), Len(h) <= MaxTurns, NEW t \in Turn
  PROVE  /\ AddTurn(h, t) \in Seq(Turn)
         /\ Len(AddTurn(h, t)) <= MaxTurns
         /\ Placed(AddTurn(h, t), 0, t)
         /\ \A k \in Nat : \A u : Placed(h, k, u) => Placed(AddTurn(h, t), k + 1, u)
         /\ \A i \in DOMAIN AddTurn(h, t) :
              AddTurn(h, t)[i] = t \/ \E j \in DOMAIN h : AddTurn(h, t)[i] = h[j]
<1> DEFINE g == Append(h, t)
<1>1. /\ g \in Seq(Turn) /\ g # <<>>
      /\ Len(g) = Len(h) + 1
      /\ \A i \in 1..Len(h) : g[i] = h[i]
      /\ g[Len(h) + 1] = t
  BY AppendProperties
<1>2. /\ Tail(g) \in Seq(Turn)
      /\ Len(Tail(g)) = Len(h)
      /\ \A i \in 1..Len(h) : Tail(g)[i] = g[i + 1]
  BY <1>1, HeadTailProperties
<1>3. Len(h) \in Nat /\ DOMAIN h = 1..Len(h) /\ MaxTurns \in Nat \ {0}
  BY LimitsAssumption, LenProperties
<1> HIDE DEF g
<1>4. CASE Len(g) > MaxTurns
  <2>1. AddTurn(h, t) = Tail(g)
    BY <1>4 DEF AddTurn, g
  <2>2. DOMAIN Tail(g) = 1..Len(h)
    BY <1>2, LenProperties
  <2>3. Len(h) = MaxTurns
    <3>1. Len(g) = Len(h) + 1 /\ Len(h) \in Nat /\ MaxTurns \in Nat
      BY <1>1, <1>3
    <3>2. QED
      BY <3>1, <1>4
  <2>4. Placed(Tail(g), 0, t)
    BY <1>1, <1>2, <1>3, <2>3 DEF Placed
  <2>5. ASSUME NEW k \in Nat, NEW u, Placed(h, k, u)
        PROVE  Placed(Tail(g), k + 1, u)
    <3>1. SUFFICES ASSUME k + 1 < MaxTurns
                   PROVE  Tail(g)[Len(h) - (k + 1)] = u
      BY <1>2, <1>3, <2>3 DEF Placed
    <3>2. Len(h) - (k + 1) \in 1..Len(h) /\ Len(h) - k \in 1..Len(h)
      BY <3>1, <1>3, <2>3
    <3>3. Tail(g)[Len(h) - (k + 1)] = g[Len(h) - k]
      BY <3>2, <1>2, <1>3
    <3>4. h[Len(h) - k] = u
      BY <2>5, <3>1, <1>3 DEF Placed
    <3>5. QED
      BY <3>2, <3>3, <3>4, <1>1
  <2>6. ASSUME NEW i \in 1..Len(h)
        PROVE  Tail(g)[i] = t \/ \E j \in DOMAIN h : Tail(g)[i] = h[j]
    BY <1>1, <1>2, <1>3
  <2>7. QED
    BY <2>1, <2>2, <2>4, <2>5, <2>6, <1>2, <1>3
<1>5. CASE ~ (Len(g) > MaxTurns)
  <2>1. AddTurn(h, t) = g
    BY <1>5 DEF AddTurn, g
  <2>2. DOMAIN g = 1..(Len(h) + 1)
    BY <1>1, LenProperties
  <2>3. QED
    BY <2>1, <2>2, <1>1, <1>3, <1>5 DEF Placed
<1>6. QED
  BY <1>4, <1>5

\* What the exhausted loop returns: an assistant turn of the window, or the
\* apology.
LEMMA LastAssistantType ==
  ASSUME NEW h \in Seq(Turn)
  PROVE  \/ LastAssistant(h) = Apology
         \/ \E i \in DOMAIN h : h[i].role = "assistant" /\ LastAssistant(h) = h[i]
<1> DEFINE said == {i \in DOMAIN h : h[i].role = "assistant"}
<1>1. DOMAIN h = 1..Len(h) /\ Len(h) \in Nat
  BY LenProperties
<1>2. said # {} => Max(said) \in said
  BY <1>1, MaxOfPositions
<1>3. QED
  BY <1>2 DEF LastAssistant

\* If the window ends with an action and its observation, the exhausted loop
\* returns that action.
LEMMA LastAssistantIsLatest ==
  ASSUME NEW h \in Seq(Turn), NEW a, NEW o, MaxTurns > 1,
         Placed(h, 1, a), Placed(h, 0, o),
         a.role = "assistant", o.role # "assistant"
  PROVE  LastAssistant(h) = a
<1> DEFINE said == {i \in DOMAIN h : h[i].role = "assistant"}
<1>1. DOMAIN h = 1..Len(h) /\ Len(h) \in Nat
  BY LenProperties
<1>2. /\ 1 < Len(h) /\ h[Len(h) - 1] = a /\ h[Len(h)] = o
  BY <1>1, LimitsAssumption DEF Placed
<1>3. Len(h) - 1 \in said /\ \A j \in said : j <= Len(h) - 1
  BY <1>1, <1>2
<1>4. Max(said) \in said /\ \A j \in said : j <= Max(said)
  BY <1>1, <1>3, MaxOfPositions
<1>5. Max(said) = Len(h) - 1
  <2>1. said \subseteq 1..Len(h)
    BY <1>1
  <2> HIDE DEF said
  <2>2. Max(said) \in 1..Len(h)
    BY <1>4, <2>1
  <2>5. Max(said) <= Len(h) - 1
    BY <1>3, <1>4
  <2>3. Len(h) - 1 <= Max(said)
    BY <1>3, <1>4
  <2>4. QED
    BY <1>1, <2>2, <2>3, <2>5
<1>6. QED
  BY <1>2, <1>3, <1>5 DEF LastAssistant

-----------------------------------------------------------------------------
(* Type correctness *)

\* A chat that was not sent has the counters Init gave it: TypeOK is not
\* inductive without it, because a sent chat must have an iteration left.
Fresh ==
  \A r \in Requests :
    pc[r] = "unsent" => iter[r] = 0 /\ foreign[r] = 0 /\ r \notin wiped

LEMMA TurnTypes ==
  ASSUME TypeOK, NEW r \in Requests
  PROVE  UserTurn(r) \in Turn /\ AssistantTurn(r) \in Turn /\ ToolTurn(r) \in Turn
<1>1. iter[r] \in Nat
  BY LimitsAssumption DEF TypeOK
<1>2. QED
  BY <1>1 DEF Turn, Roles, UserTurn, AssistantTurn, ToolTurn

LEMMA WindowTypes ==
  ASSUME TypeOK, NEW r \in Requests, pc[r] # "unsent"
  PROVE  /\ at[r] \in Windows /\ at[r][1] \in Workers /\ at[r][2] \in Sessions
         /\ mem[at[r]] \in Seq(Turn) /\ Len(mem[at[r]]) <= MaxTurns
  BY DEF TypeOK, Windows

LEMMA ForeignTypes ==
  ASSUME TypeOK, NEW r, NEW p, NEW n \in Nat, NoteForeign(r, p, n)
  PROVE  foreign' \in [Requests -> Nat]
  BY DEF TypeOK, NoteForeign

\* Storing a new window and a new status for one chat keeps these types.
LEMMA StoreTypes ==
  ASSUME TypeOK, NEW p \in Windows, NEW h \in Seq(Turn), Len(h) <= MaxTurns,
         mem' = [mem EXCEPT ![p] = h]
  PROVE  mem' \in [Windows -> Seq(Turn)] /\ \A q \in Windows : Len(mem'[q]) <= MaxTurns
  BY DEF TypeOK

LEMMA ReturnTypes ==
  ASSUME TypeOK, NEW r \in Requests, Active(r),
         NEW h \in Seq(Turn), Len(h) <= MaxTurns,
         NEW a \in Turn \union {Apology}, Return(r, h, a)
  PROVE  /\ mem' \in [Windows -> Seq(Turn)]
         /\ \A q \in Windows : Len(mem'[q]) <= MaxTurns
         /\ loop' \in [Workers -> Requests \union {NoRequest}]
         /\ pc' = [pc EXCEPT ![r] = "answered"]
         /\ answer' \in [Requests -> Turn \union {NoTurn, Apology}]
         /\ lastAnswer' \in [Sessions -> Turn \union {NoTurn}]
<1>1. at[r] \in Windows /\ at[r][1] \in Workers /\ at[r][2] \in Sessions
  BY WindowTypes DEF Active
<1>2. mem' \in [Windows -> Seq(Turn)] /\ \A q \in Windows : Len(mem'[q]) <= MaxTurns
  BY <1>1, StoreTypes DEF Return
<1>3. loop' \in [Workers -> Requests \union {NoRequest}]
  BY <1>1 DEF Return, TypeOK
<1>4. answer' \in [Requests -> Turn \union {NoTurn, Apology}]
  BY DEF Return, TypeOK
<1>5. lastAnswer' \in [Sessions -> Turn \union {NoTurn}]
  BY <1>1 DEF Return, TypeOK
<1>6. QED
  BY <1>2, <1>3, <1>4, <1>5 DEF Return

LEMMA NextIterationTypes ==
  ASSUME TypeOK, NEW r \in Requests, Active(r),
         NEW h \in Seq(Turn), Len(h) <= MaxTurns, NextIteration(r, h)
  PROVE  /\ mem' \in [Windows -> Seq(Turn)]
         /\ \A q \in Windows : Len(mem'[q]) <= MaxTurns
         /\ loop' \in [Workers -> Requests \union {NoRequest}]
         /\ pc' \in [Requests -> {"unsent", "think", "await", "answered", "failed"}]
         /\ \A q \in Requests : pc'[q] # "unsent" => pc[q] # "unsent"
         /\ iter' \in [Requests -> 0..MaxIter]
         /\ \A q \in Requests : Active(q)' => iter'[q] < MaxIter
         /\ answer' \in [Requests -> Turn \union {NoTurn, Apology}]
         /\ lastAnswer' \in [Sessions -> Turn \union {NoTurn}]
<1>1. at[r] \in Windows /\ at[r][1] \in Workers /\ at[r][2] \in Sessions
  BY WindowTypes DEF Active
<1>2. iter' \in [Requests -> 0..MaxIter] /\ iter[r] + 1 \in 0..MaxIter
  BY LimitsAssumption DEF NextIteration, TypeOK
<1>3. \A q \in Requests : iter'[q] = IF q = r THEN iter[r] + 1 ELSE iter[q]
  BY DEF NextIteration, TypeOK
<1>4. CASE iter[r] + 1 < MaxIter /\ pc' = [pc EXCEPT ![r] = "think"]
           /\ mem' = [mem EXCEPT ![at[r]] = h]
           /\ loop' = [loop EXCEPT ![at[r][1]] = r]
           /\ UNCHANGED <<answer, lastAnswer>>
  <2>1. mem' \in [Windows -> Seq(Turn)] /\ \A q \in Windows : Len(mem'[q]) <= MaxTurns
    BY <1>1, <1>4, StoreTypes
  <2>2. \A q \in Requests : Active(q)' => iter'[q] < MaxIter
    BY <1>3, <1>4 DEF Active, TypeOK
  <2>3. QED
    BY <1>1, <1>2, <1>4, <2>1, <2>2 DEF TypeOK, Active
<1>5. CASE Return(r, h, LastAssistant(h))
  <2>1. LastAssistant(h) \in Turn \union {Apology}
    BY LastAssistantType, LenProperties, ElementOfSeq
  <2>2. \A q \in Requests : Active(q)' => q # r /\ Active(q)
    BY <1>5 DEF Return, Active, TypeOK
  <2>3. \A q \in Requests : Active(q)' => iter'[q] < MaxIter
    BY <1>3, <2>2 DEF TypeOK
  <2>4. pc' \in [Requests -> {"unsent", "think", "await", "answered", "failed"}]
        /\ \A q \in Requests : pc'[q] # "unsent" => pc[q] # "unsent"
    BY <1>5 DEF Return, Active, TypeOK
  <2>5. QED
    BY <1>2, <1>5, <2>1, <2>3, <2>4, ReturnTypes
<1>6. QED
  BY <1>4, <1>5 DEF NextIteration

LEMMA TypeInit == Init => TypeOK
<1>1. \A s \in Seq(Turn) : s = <<>> => Len(s) <= MaxTurns
  BY EmptySeq, LimitsAssumption
<1>2. <<>> \in Seq(Turn)
  BY EmptySeq
<1>3. QED
  BY <1>1, <1>2, LimitsAssumption DEF Init, TypeOK, Active

LEMMA TypeStep == TypeOK /\ Fresh /\ [Next]_vars => TypeOK'
<1> SUFFICES ASSUME TypeOK, Fresh, [Next]_vars
             PROVE  TypeOK'
  OBVIOUS
<1>1. ASSUME NEW r \in Requests, NEW p \in Windows, Chat(r, p)
      PROVE  TypeOK'
  <2>1. AddTurn(mem[p], UserTurn(r)) \in Seq(Turn)
        /\ Len(AddTurn(mem[p], UserTurn(r))) <= MaxTurns
    BY AddTurnProperties, TurnTypes DEF TypeOK
  <2>2. mem' \in [Windows -> Seq(Turn)] /\ \A q \in Windows : Len(mem'[q]) <= MaxTurns
    BY <1>1, <2>1, StoreTypes DEF Chat
  <2>3. foreign' \in [Requests -> Nat]
    BY <1>1, ForeignTypes DEF Chat
  <2>4. at' \in [Requests -> Windows \union {Nowhere}] /\ p[1] \in Workers
    BY <1>1 DEF Chat, TypeOK, Windows
  <2>5. \A q \in Requests : pc'[q] # "unsent" => at'[q] \in Windows
    BY <1>1 DEF Chat, TypeOK
  <2>6. \A q \in Requests : Active(q)' => iter'[q] < MaxIter
    BY <1>1, LimitsAssumption DEF Chat, Fresh, TypeOK, Active
  <2>7. QED
    BY <1>1, <2>2, <2>3, <2>4, <2>5, <2>6 DEF Chat, TypeOK, history
<1>2. ASSUME NEW r \in Requests, Conclude(r)
      PROVE  TypeOK'
  <2>1. Active(r) /\ pc[r] # "unsent"
    BY <1>2 DEF Conclude, Thinking, Active
  <2>2. AddTurn(mem[at[r]], AssistantTurn(r)) \in Seq(Turn)
        /\ Len(AddTurn(mem[at[r]], AssistantTurn(r))) <= MaxTurns
    BY <2>1, AddTurnProperties, TurnTypes, WindowTypes
  <2>3. /\ mem' \in [Windows -> Seq(Turn)]
        /\ \A q \in Windows : Len(mem'[q]) <= MaxTurns
        /\ loop' \in [Workers -> Requests \union {NoRequest}]
        /\ pc' = [pc EXCEPT ![r] = "answered"]
        /\ answer' \in [Requests -> Turn \union {NoTurn, Apology}]
        /\ lastAnswer' \in [Sessions -> Turn \union {NoTurn}]
    BY <1>2, <2>1, <2>2, ReturnTypes, TurnTypes DEF Conclude
  <2>4. foreign' \in [Requests -> Nat]
    BY <1>2, ForeignTypes DEF Conclude
  <2>5. QED
    BY <1>2, <2>1, <2>3, <2>4 DEF Conclude, TypeOK, history, Active
<1>3. ASSUME NEW r \in Requests, CallTool(r)
      PROVE  TypeOK'
  <2>1. Active(r) /\ pc[r] # "unsent"
    BY <1>3 DEF CallTool, Thinking, Active
  <2>2. AddTurn(mem[at[r]], AssistantTurn(r)) \in Seq(Turn)
        /\ Len(AddTurn(mem[at[r]], AssistantTurn(r))) <= MaxTurns
    BY <2>1, AddTurnProperties, TurnTypes, WindowTypes
  <2>3. mem' \in [Windows -> Seq(Turn)] /\ \A q \in Windows : Len(mem'[q]) <= MaxTurns
    BY <1>3, <2>1, <2>2, StoreTypes, WindowTypes DEF CallTool
  <2>4. foreign' \in [Requests -> Nat] /\ at[r][1] \in Workers
    BY <1>3, <2>1, ForeignTypes, WindowTypes DEF CallTool
  <2>5. QED
    BY <1>3, <2>1, <2>3, <2>4 DEF CallTool, TypeOK, history, Active
<1>4. ASSUME NEW r \in Requests, CallUnknownTool(r)
      PROVE  TypeOK'
  <2>1. Active(r) /\ pc[r] # "unsent"
    BY <1>4 DEF CallUnknownTool, Thinking, Active
  <2> DEFINE h == AddTurn(AddTurn(mem[at[r]], AssistantTurn(r)), ToolTurn(r))
  <2>2. h \in Seq(Turn) /\ Len(h) <= MaxTurns
    BY <2>1, AddTurnProperties, TurnTypes, WindowTypes
  <2>3. NextIteration(r, h)
    BY <1>4 DEF CallUnknownTool
  <2> HIDE DEF h
  <2>4. foreign' \in [Requests -> Nat]
    BY <1>4, ForeignTypes DEF CallUnknownTool
  <2>5. /\ mem' \in [Windows -> Seq(Turn)]
        /\ \A q \in Windows : Len(mem'[q]) <= MaxTurns
        /\ loop' \in [Workers -> Requests \union {NoRequest}]
        /\ pc' \in [Requests -> {"unsent", "think", "await", "answered", "failed"}]
        /\ \A q \in Requests : pc'[q] # "unsent" => pc[q] # "unsent"
        /\ iter' \in [Requests -> 0..MaxIter]
        /\ \A q \in Requests : Active(q)' => iter'[q] < MaxIter
        /\ answer' \in [Requests -> Turn \union {NoTurn, Apology}]
        /\ lastAnswer' \in [Sessions -> Turn \union {NoTurn}]
    BY <2>1, <2>2, <2>3, NextIterationTypes
  <2>6. QED
    BY <1>4, <2>4, <2>5 DEF CallUnknownTool, TypeOK, history
<1>5. ASSUME NEW r \in Requests, GraniteRaises(r)
      PROVE  TypeOK'
  <2>1. pc[r] # "unsent" /\ at[r][1] \in Workers /\ at[r][2] \in Sessions
    BY <1>5, WindowTypes DEF GraniteRaises, Thinking
  <2>2. QED
    BY <1>5, <2>1 DEF GraniteRaises, TypeOK, history, Active
<1>6. ASSUME NEW r \in Requests, ToolReturns(r)
      PROVE  TypeOK'
  <2>1. Active(r) /\ pc[r] # "unsent"
    BY <1>6 DEF ToolReturns, Active
  <2> DEFINE h == AddTurn(mem[at[r]], ToolTurn(r))
  <2>2. h \in Seq(Turn) /\ Len(h) <= MaxTurns
    BY <2>1, AddTurnProperties, TurnTypes, WindowTypes
  <2>3. NextIteration(r, h)
    BY <1>6 DEF ToolReturns
  <2> HIDE DEF h
  <2>4. foreign' \in [Requests -> Nat]
    BY <1>6, ForeignTypes DEF ToolReturns
  <2>5. /\ mem' \in [Windows -> Seq(Turn)]
        /\ \A q \in Windows : Len(mem'[q]) <= MaxTurns
        /\ loop' \in [Workers -> Requests \union {NoRequest}]
        /\ pc' \in [Requests -> {"unsent", "think", "await", "answered", "failed"}]
        /\ \A q \in Requests : pc'[q] # "unsent" => pc[q] # "unsent"
        /\ iter' \in [Requests -> 0..MaxIter]
        /\ \A q \in Requests : Active(q)' => iter'[q] < MaxIter
        /\ answer' \in [Requests -> Turn \union {NoTurn, Apology}]
        /\ lastAnswer' \in [Sessions -> Turn \union {NoTurn}]
    BY <2>1, <2>2, <2>3, NextIterationTypes
  <2>6. QED
    BY <1>6, <2>4, <2>5 DEF ToolReturns, TypeOK, history
<1>7. ASSUME NEW r \in Requests, GiveUp(r)
      PROVE  TypeOK'
  BY <1>7 DEF GiveUp, TypeOK, history, Active
<1>8. ASSUME NEW p \in Windows, ClearSession(p)
      PROVE  TypeOK'
  <2>1. <<>> \in Seq(Turn) /\ Len(<<>>) <= MaxTurns /\ p[2] \in Sessions
    BY EmptySeq, LimitsAssumption DEF Windows
  <2>2. mem' \in [Windows -> Seq(Turn)] /\ \A q \in Windows : Len(mem'[q]) <= MaxTurns
    BY <1>8, <2>1, StoreTypes DEF ClearSession, Cleared
  <2>3. QED
    BY <1>8, <2>1, <2>2 DEF ClearSession, TypeOK, Active
<1>9. ASSUME NEW w \in Workers, Crash(w)
      PROVE  TypeOK'
  <2>1. <<>> \in Seq(Turn) /\ Len(<<>>) <= MaxTurns
    BY EmptySeq, LimitsAssumption
  <2>2. mem' \in [Windows -> Seq(Turn)] /\ \A q \in Windows : Len(mem'[q]) <= MaxTurns
    BY <1>9, <2>1 DEF Crash, TypeOK
  <2>3. pc' \in [Requests -> {"unsent", "think", "await", "answered", "failed"}]
        /\ \A r \in Requests : pc'[r] # "unsent" => pc[r] # "unsent"
    BY <1>9 DEF Crash, TypeOK, Active
  <2>4. \A r \in Requests : Active(r)' => Active(r)
    BY <1>9 DEF Crash, Active
  <2>5. QED
    BY <1>9, <2>2, <2>3, <2>4 DEF Crash, TypeOK, history
<1>10. CASE UNCHANGED vars
  BY <1>10 DEF vars, TypeOK, Active
<1>11. QED
  BY <1>1, <1>2, <1>3, <1>4, <1>5, <1>6, <1>7, <1>8, <1>9, <1>10
     DEF Next, Granite, Done

LEMMA FreshStep == TypeOK /\ Fresh /\ [Next]_vars => Fresh'
<1> SUFFICES ASSUME TypeOK, Fresh, [Next]_vars,
                    NEW q \in Requests, pc'[q] = "unsent"
             PROVE  pc[q] = "unsent" /\ iter'[q] = iter[q] /\ foreign'[q] = foreign[q]
                    /\ (q \in wiped' => q \in wiped)
  BY DEF Fresh
<1>1. ASSUME NEW r, NEW p, NEW n, NoteForeign(r, p, n), pc[q] = "unsent"
      PROVE  foreign'[q] = foreign[q]
  BY <1>1 DEF NoteForeign, Active
<1>2. ASSUME NEW r \in Requests, NEW h, NextIteration(r, h)
      PROVE  pc[q] = "unsent" /\ iter'[q] = iter[q]
  BY <1>2 DEF NextIteration, Return, TypeOK
<1>3. ASSUME NEW r \in Requests, NEW p \in Windows, Chat(r, p)
      PROVE  pc[q] = "unsent" /\ iter' = iter /\ NoteForeign(r, p, 1) /\ wiped' = wiped
  BY <1>3 DEF Chat, TypeOK, history
<1>4. ASSUME NEW r \in Requests, Conclude(r)
      PROVE  pc[q] = "unsent" /\ iter' = iter /\ NoteForeign(r, at[r], 1) /\ wiped' = wiped
  BY <1>4 DEF Conclude, Return, TypeOK, history
<1>5. ASSUME NEW r \in Requests, CallTool(r)
      PROVE  pc[q] = "unsent" /\ iter' = iter /\ NoteForeign(r, at[r], 1) /\ wiped' = wiped
  BY <1>5 DEF CallTool, TypeOK, history
<1>6. ASSUME NEW r \in Requests, CallUnknownTool(r)
      PROVE  pc[q] = "unsent" /\ iter'[q] = iter[q]
             /\ NoteForeign(r, at[r], 2) /\ wiped' = wiped
  BY <1>6, <1>2 DEF CallUnknownTool, history
<1>7. ASSUME NEW r \in Requests, ToolReturns(r)
      PROVE  pc[q] = "unsent" /\ iter'[q] = iter[q]
             /\ NoteForeign(r, at[r], 1) /\ wiped' = wiped
  BY <1>7, <1>2 DEF ToolReturns, history
<1>8. ASSUME NEW r \in Requests, GraniteRaises(r) \/ GiveUp(r)
      PROVE  pc[q] = "unsent" /\ iter' = iter /\ foreign' = foreign /\ wiped' = wiped
  BY <1>8 DEF GraniteRaises, GiveUp, TypeOK, history
<1>9. ASSUME NEW p \in Windows, ClearSession(p)
      PROVE  pc[q] = "unsent" /\ iter' = iter /\ foreign' = foreign
             /\ (q \in wiped' => q \in wiped)
  BY <1>9 DEF ClearSession, Active
<1>10. ASSUME NEW w \in Workers, Crash(w)
       PROVE  pc[q] = "unsent" /\ iter' = iter /\ foreign' = foreign /\ wiped' = wiped
  BY <1>10 DEF Crash, TypeOK, history
<1>11. CASE UNCHANGED vars
  BY <1>11 DEF vars
<1>12. QED
  BY <1>1, <1>3, <1>4, <1>5, <1>6, <1>7, <1>8, <1>9, <1>10, <1>11
     DEF Next, Granite, Done

\* Every variable of the Orchestrate service keeps its type, and no window
\* ever holds more than MaxTurns turns.
THEOREM TypeCorrect == Spec => []TypeOK
<1>1. Init => TypeOK /\ Fresh
  BY TypeInit DEF Init, Fresh
<1>2. TypeOK /\ Fresh /\ [Next]_vars => (TypeOK /\ Fresh)'
  BY TypeStep, FreshStep
<1>3. QED
  BY <1>1, <1>2, PTL DEF Spec

-----------------------------------------------------------------------------
(* Where a chat finds its own turns in the shared window *)

\* The number of turns added to a chat's window after its user turn: two for
\* each finished iteration, the pending action, and what others added.
Age(r) == 2 * iter[r] + foreign[r] + (IF pc[r] = "await" THEN 1 ELSE 0)

\* The user turn is Age turns deep, unless trimmed away.
UserPlaced(r) ==
  Active(r) /\ r \notin wiped => Placed(mem[at[r]], Age(r), UserTurn(r))

\* While an undisturbed chat waits for a tool, its action is the newest turn.
ActionPlaced(r) ==
  pc[r] = "await" /\ r \notin wiped /\ foreign[r] = 0
    => Placed(mem[at[r]], 0, AssistantTurn(r))

\* After a deletion, the window of an undisturbed chat holds only its turns.
OnlyOwn(r) ==
  Active(r) /\ r \in wiped /\ foreign[r] = 0
    => \A i \in DOMAIN mem[at[r]] : mem[at[r]][i].req = r

\* AnswerIsOwn, for one chat.
AnswerOwn(r) ==
  pc[r] = "answered" /\ foreign[r] = 0
    => \/ answer[r] \in Turn /\ answer[r].req = r /\ answer[r].role = "assistant"
       \/ answer[r] = Apology /\ r \in wiped

\* The inductive invariant of one chat.
ChatInv(r) == UserPlaced(r) /\ ActionPlaced(r) /\ OnlyOwn(r) /\ AnswerOwn(r)

\* h is g with n turns of chat r added at its end, the oldest ones trimmed.
Extends(r, g, h, n) ==
  /\ \A k \in Nat : \A u : Placed(g, k, u) => Placed(h, k + n, u)
  /\ \A i \in DOMAIN h : h[i].req = r \/ \E j \in DOMAIN g : h[i] = g[j]

\* The part common to every step in which chat r adds n turns to window p.
Adds(r, p, h, n) ==
  /\ mem' = [mem EXCEPT ![p] = h]
  /\ NoteForeign(r, p, n)
  /\ Extends(r, mem[p], h, n)
  /\ wiped' = wiped
  /\ \A q \in Requests \ {r} : /\ pc'[q] = pc[q] /\ at'[q] = at[q]
                               /\ iter'[q] = iter[q] /\ answer'[q] = answer[q]

LEMMA AddTurnExtends ==
  ASSUME NEW h \in Seq(Turn), Len(h) <= MaxTurns, NEW t \in Turn, NEW r, t.req = r
  PROVE  Extends(r, h, AddTurn(h, t), 1)
BY AddTurnProperties DEF Extends

LEMMA AddTwoTurnsExtends ==
  ASSUME NEW h \in Seq(Turn), Len(h) <= MaxTurns, NEW r,
         NEW t \in Turn, t.req = r, NEW u \in Turn, u.req = r
  PROVE  Extends(r, h, AddTurn(AddTurn(h, t), u), 2)
<1> DEFINE g == AddTurn(h, t)
<1>1. g \in Seq(Turn) /\ Len(g) <= MaxTurns /\ Extends(r, h, g, 1)
  BY AddTurnProperties, AddTurnExtends
<1> HIDE DEF g
<1>2. Extends(r, g, AddTurn(g, u), 1)
  BY <1>1, AddTurnExtends
<1>3. ASSUME NEW k \in Nat, NEW v, Placed(h, k, v)
      PROVE  Placed(AddTurn(g, u), k + 2, v)
  <2>1. Placed(g, k + 1, v)
    BY <1>1, <1>3 DEF Extends
  <2>2. Placed(AddTurn(g, u), (k + 1) + 1, v)
    BY <1>2, <2>1 DEF Extends
  <2>3. (k + 1) + 1 = k + 2
    OBVIOUS
  <2>4. QED
    BY <2>2, <2>3
<1>4. QED
  BY <1>1, <1>2, <1>3 DEF Extends, g

\* Turns added by one chat age the turns of the others, no more.
LEMMA OthersKeepInv ==
  ASSUME TypeOK, NEW r \in Requests, NEW q \in Requests \ {r}, NEW p \in Windows,
         NEW h, NEW n \in Nat \ {0}, Adds(r, p, h, n), ChatInv(q)
  PROVE  ChatInv(q)'
<1>1. /\ pc'[q] = pc[q] /\ at'[q] = at[q] /\ iter'[q] = iter[q] /\ answer'[q] = answer[q]
      /\ wiped' = wiped
  BY DEF Adds
<1>2. Active(q)' <=> Active(q)
  BY <1>1 DEF Active
<1>3. UserTurn(q)' = UserTurn(q) /\ AssistantTurn(q)' = AssistantTurn(q)
  BY <1>1 DEF UserTurn, AssistantTurn
<1>4. CASE Active(q) /\ at[q] = p
  <2>1. mem'[at'[q]] = h /\ foreign'[q] = foreign[q] + n /\ foreign[q] \in Nat
        /\ iter[q] \in Nat
    BY <1>1, <1>4, LimitsAssumption DEF Adds, NoteForeign, TypeOK
  <2>2. Age(q)' = Age(q) + n /\ Age(q) \in Nat /\ foreign'[q] # 0
    BY <1>1, <2>1 DEF Age
  <2>3. UserPlaced(q)'
    BY <1>1, <1>2, <1>3, <1>4, <2>1, <2>2 DEF ChatInv, UserPlaced, Adds, Extends
  <2>4. QED
    BY <1>1, <1>4, <2>2, <2>3 DEF ChatInv, ActionPlaced, OnlyOwn, AnswerOwn, Active
<1>5. CASE Active(q) /\ at[q] # p
  <2>1. mem'[at'[q]] = mem[at[q]] /\ foreign'[q] = foreign[q]
    BY <1>1, <1>5, WindowTypes DEF Adds, NoteForeign, TypeOK, Active
  <2>2. Age(q)' = Age(q)
    BY <1>1, <2>1 DEF Age
  <2>3. QED
    BY <1>1, <1>2, <1>3, <2>1, <2>2
       DEF ChatInv, UserPlaced, ActionPlaced, OnlyOwn, AnswerOwn
<1>6. CASE ~ Active(q)
  <2>1. foreign'[q] = foreign[q]
    BY <1>6 DEF Adds, NoteForeign
  <2>2. QED
    BY <1>1, <1>2, <1>6, <2>1
       DEF ChatInv, UserPlaced, ActionPlaced, OnlyOwn, AnswerOwn, Active
<1>7. QED
  BY <1>4, <1>5, <1>6

\* The bottom of the for loop, seen from the chat itself: h is the window with
\* the pending action a and its observation o at its end.
LEMMA NextIterationKeepsInv ==
  ASSUME TypeOK, MaxTurns > 1, NEW r \in Requests, Active(r), NEW h \in Seq(Turn),
         NEW n \in Nat, Extends(r, mem[at[r]], h, n), NextIteration(r, h),
         at'[r] = at[r], foreign'[r] = foreign[r], wiped' = wiped,
         Age(r) + n = 2 * (iter[r] + 1) + foreign[r],
         r \notin wiped /\ foreign[r] = 0
           => Placed(h, 1, AssistantTurn(r)) /\ Placed(h, 0, ToolTurn(r)),
         ChatInv(r)
  PROVE  ChatInv(r)'
<1>1. mem'[at'[r]] = h /\ iter'[r] = iter[r] + 1
  BY WindowTypes DEF NextIteration, Return, TypeOK, Active
<1>2. iter[r] \in Nat /\ foreign[r] \in Nat /\ Age(r) \in Nat
  BY LimitsAssumption DEF TypeOK, Age
<1>3. r \in wiped /\ foreign[r] = 0 => \A i \in DOMAIN h : h[i].req = r
  BY DEF ChatInv, OnlyOwn, Extends
<1>4. CASE pc'[r] = "think"
  <2>1. Age(r)' = Age(r) + n
    BY <1>1, <1>2, <1>4 DEF Age
  <2>2. UserTurn(r)' = UserTurn(r)
    BY DEF UserTurn
  <2>3. UserPlaced(r)'
    BY <1>1, <1>2, <2>1, <2>2 DEF ChatInv, UserPlaced, Extends
  <2>4. QED
    BY <1>1, <1>3, <1>4, <2>3 DEF ChatInv, ActionPlaced, OnlyOwn, AnswerOwn
<1>5. CASE pc'[r] = "answered" /\ answer'[r] = LastAssistant(h)
  <2>1. ASSUME r \notin wiped, foreign[r] = 0
        PROVE  LastAssistant(h) = AssistantTurn(r)
    <3>1. AssistantTurn(r).role = "assistant" /\ ToolTurn(r).role # "assistant"
      BY DEF AssistantTurn, ToolTurn
    <3>2. QED
      BY <2>1, <3>1, LastAssistantIsLatest
  <2>2. AssistantTurn(r) \in Turn /\ AssistantTurn(r).req = r
        /\ AssistantTurn(r).role = "assistant"
    BY TurnTypes DEF AssistantTurn
  <2>3. ASSUME r \in wiped, foreign[r] = 0
        PROVE  \/ LastAssistant(h) = Apology
               \/ /\ LastAssistant(h) \in Turn /\ LastAssistant(h).req = r
                  /\ LastAssistant(h).role = "assistant"
    BY <1>3, <2>3, LastAssistantType, LenProperties, ElementOfSeq
  <2>4. AnswerOwn(r)'
    BY <1>5, <2>1, <2>2, <2>3 DEF AnswerOwn
  <2>5. QED
    BY <1>5, <2>4 DEF ChatInv, UserPlaced, ActionPlaced, OnlyOwn, Active
<1>6. QED
  BY <1>4, <1>5 DEF NextIteration, Return, TypeOK

LEMMA ChatKeepsInv ==
  ASSUME TypeOK, Fresh, \A q \in Requests : ChatInv(q),
         NEW r \in Requests, NEW p \in Windows, Chat(r, p)
  PROVE  \A q \in Requests : ChatInv(q)'
<1> DEFINE h == AddTurn(mem[p], UserTurn(r))
<1>1. UserTurn(r) \in Turn /\ UserTurn(r).req = r
      /\ mem[p] \in Seq(Turn) /\ Len(mem[p]) <= MaxTurns
  BY TurnTypes DEF UserTurn, TypeOK
<1>2. Placed(h, 0, UserTurn(r)) /\ Extends(r, mem[p], h, 1)
  BY <1>1, AddTurnProperties, AddTurnExtends
<1> HIDE DEF h
<1>3. Adds(r, p, h, 1)
  BY <1>2 DEF Adds, Chat, TypeOK, history, h
<1>4. ChatInv(r)'
  <2>1. pc'[r] = "think" /\ at'[r] = p /\ r \notin wiped' /\ mem'[p] = h
    BY DEF Chat, TypeOK, Fresh, history, h
  <2>2. Age(r)' = 0
    BY <2>1 DEF Age, Chat, Fresh, NoteForeign
  <2>3. UserTurn(r)' = UserTurn(r)
    BY DEF UserTurn
  <2>4. QED
    BY <1>2, <2>1, <2>2, <2>3 DEF ChatInv, UserPlaced, ActionPlaced, OnlyOwn, AnswerOwn
<1>5. QED
  BY <1>3, <1>4, OthersKeepInv

LEMMA ConcludeKeepsInv ==
  ASSUME TypeOK, \A q \in Requests : ChatInv(q), NEW r \in Requests, Conclude(r)
  PROVE  \A q \in Requests : ChatInv(q)'
<1> DEFINE h == AddTurn(mem[at[r]], AssistantTurn(r))
<1>1. /\ AssistantTurn(r) \in Turn /\ AssistantTurn(r).req = r
      /\ AssistantTurn(r).role = "assistant" /\ at[r] \in Windows
      /\ mem[at[r]] \in Seq(Turn) /\ Len(mem[at[r]]) <= MaxTurns
  BY TurnTypes, WindowTypes DEF Conclude, Thinking, AssistantTurn
<1>2. Extends(r, mem[at[r]], h, 1)
  BY <1>1, AddTurnExtends
<1> HIDE DEF h
<1>3. Adds(r, at[r], h, 1)
  BY <1>2 DEF Adds, Conclude, Return, TypeOK, history, h
<1>4. ChatInv(r)'
  <2>1. pc'[r] = "answered" /\ answer'[r] = AssistantTurn(r)
    BY DEF Conclude, Return, TypeOK
  <2>2. QED
    BY <1>1, <2>1 DEF ChatInv, UserPlaced, ActionPlaced, OnlyOwn, AnswerOwn, Active
<1>5. QED
  BY <1>1, <1>3, <1>4, OthersKeepInv

LEMMA CallToolKeepsInv ==
  ASSUME TypeOK, \A q \in Requests : ChatInv(q), NEW r \in Requests, CallTool(r)
  PROVE  \A q \in Requests : ChatInv(q)'
<1> DEFINE h == AddTurn(mem[at[r]], AssistantTurn(r))
<1>1. /\ AssistantTurn(r) \in Turn /\ AssistantTurn(r).req = r /\ at[r] \in Windows
      /\ mem[at[r]] \in Seq(Turn) /\ Len(mem[at[r]]) <= MaxTurns
      /\ pc[r] = "think"
  BY TurnTypes, WindowTypes DEF CallTool, Thinking, AssistantTurn
<1>2. Placed(h, 0, AssistantTurn(r)) /\ Extends(r, mem[at[r]], h, 1)
  BY <1>1, AddTurnProperties, AddTurnExtends
<1> HIDE DEF h
<1>3. Adds(r, at[r], h, 1)
  BY <1>2 DEF Adds, CallTool, TypeOK, history, h
<1>4. ChatInv(r)'
  <2>1. /\ pc'[r] = "await" /\ at'[r] = at[r] /\ iter'[r] = iter[r] /\ mem'[at[r]] = h
        /\ foreign'[r] = foreign[r] /\ wiped' = wiped
    BY <1>1 DEF CallTool, TypeOK, NoteForeign, history, h
  <2>2. Age(r)' = Age(r) + 1 /\ Age(r) \in Nat
    BY <1>1, <2>1, LimitsAssumption DEF Age, TypeOK
  <2>3. UserTurn(r)' = UserTurn(r) /\ AssistantTurn(r)' = AssistantTurn(r)
    BY <2>1 DEF UserTurn, AssistantTurn
  <2>4. Active(r)
    BY <1>1 DEF Active
  <2>5. UserPlaced(r)'
    BY <1>2, <2>1, <2>2, <2>3, <2>4 DEF ChatInv, UserPlaced, Extends
  <2>6. OnlyOwn(r)'
    <3>1. r \in wiped /\ foreign[r] = 0 => \A i \in DOMAIN h : h[i].req = r
      BY <1>2, <2>4 DEF ChatInv, OnlyOwn, Extends
    <3>2. QED
      BY <2>1, <3>1 DEF OnlyOwn
  <2>7. QED
    BY <1>2, <2>1, <2>3, <2>5, <2>6 DEF ChatInv, ActionPlaced, AnswerOwn
<1>5. QED
  BY <1>1, <1>3, <1>4, OthersKeepInv

LEMMA CallUnknownToolKeepsInv ==
  ASSUME TypeOK, MaxTurns > 1, \A q \in Requests : ChatInv(q),
         NEW r \in Requests, CallUnknownTool(r)
  PROVE  \A q \in Requests : ChatInv(q)'
<1> DEFINE g == AddTurn(mem[at[r]], AssistantTurn(r))
           h == AddTurn(g, ToolTurn(r))
<1>1. /\ AssistantTurn(r) \in Turn /\ AssistantTurn(r).req = r
      /\ ToolTurn(r) \in Turn /\ ToolTurn(r).req = r
      /\ at[r] \in Windows /\ mem[at[r]] \in Seq(Turn) /\ Len(mem[at[r]]) <= MaxTurns
      /\ pc[r] = "think"
  BY TurnTypes, WindowTypes DEF CallUnknownTool, Thinking, AssistantTurn, ToolTurn
<1>2. g \in Seq(Turn) /\ Len(g) <= MaxTurns /\ Placed(g, 0, AssistantTurn(r))
  BY <1>1, AddTurnProperties
<1>3. h \in Seq(Turn) /\ Placed(h, 0, ToolTurn(r)) /\ Placed(h, 1, AssistantTurn(r))
  <2> HIDE DEF g
  <2>1. Placed(h, 0 + 1, AssistantTurn(r))
    BY <1>1, <1>2, AddTurnProperties
  <2>2. QED
    BY <1>1, <1>2, <2>1, AddTurnProperties
<1>4. Extends(r, mem[at[r]], h, 2)
  BY <1>1, AddTwoTurnsExtends
<1>5. NextIteration(r, h)
  BY DEF CallUnknownTool
<1> HIDE DEF h
<1>6. Adds(r, at[r], h, 2)
  BY <1>4, <1>5 DEF Adds, CallUnknownTool, NextIteration, Return, TypeOK, history
<1>7. ChatInv(r)'
  <2>1. at'[r] = at[r] /\ foreign'[r] = foreign[r] /\ wiped' = wiped
    BY DEF CallUnknownTool, NoteForeign, history
  <2>2. Age(r) + 2 = 2 * (iter[r] + 1) + foreign[r]
    BY <1>1, LimitsAssumption DEF Age, TypeOK
  <2>3. Active(r)
    BY <1>1 DEF Active
  <2>4. QED
    BY <1>3, <1>4, <1>5, <2>1, <2>2, <2>3, NextIterationKeepsInv
<1>8. QED
  BY <1>1, <1>6, <1>7, OthersKeepInv

LEMMA ToolReturnsKeepsInv ==
  ASSUME TypeOK, MaxTurns > 1, \A q \in Requests : ChatInv(q),
         NEW r \in Requests, ToolReturns(r)
  PROVE  \A q \in Requests : ChatInv(q)'
<1> DEFINE h == AddTurn(mem[at[r]], ToolTurn(r))
<1>1. /\ ToolTurn(r) \in Turn /\ ToolTurn(r).req = r
      /\ at[r] \in Windows /\ mem[at[r]] \in Seq(Turn) /\ Len(mem[at[r]]) <= MaxTurns
      /\ pc[r] = "await"
  BY TurnTypes, WindowTypes DEF ToolReturns, ToolTurn
<1>2. h \in Seq(Turn) /\ Placed(h, 0, ToolTurn(r)) /\ Extends(r, mem[at[r]], h, 1)
  BY <1>1, AddTurnProperties, AddTurnExtends
<1>3. NextIteration(r, h)
  BY DEF ToolReturns
<1> HIDE DEF h
<1>4. Adds(r, at[r], h, 1)
  BY <1>2, <1>3 DEF Adds, ToolReturns, NextIteration, Return, TypeOK, history
<1>5. ChatInv(r)'
  <2>1. at'[r] = at[r] /\ foreign'[r] = foreign[r] /\ wiped' = wiped
    BY DEF ToolReturns, NoteForeign, history
  <2>2. Age(r) + 1 = 2 * (iter[r] + 1) + foreign[r]
    BY <1>1, LimitsAssumption DEF Age, TypeOK
  <2>3. r \notin wiped /\ foreign[r] = 0 => Placed(h, 1, AssistantTurn(r))
    <3>1. r \notin wiped /\ foreign[r] = 0 => Placed(h, 0 + 1, AssistantTurn(r))
      BY <1>1, <1>2 DEF ChatInv, ActionPlaced, Extends
    <3>2. QED
      BY <3>1
  <2>4. Active(r)
    BY <1>1 DEF Active
  <2>5. QED
    BY <1>2, <1>3, <2>1, <2>2, <2>3, <2>4, NextIterationKeepsInv
<1>6. QED
  BY <1>1, <1>4, <1>5, OthersKeepInv

\* A chat whose own variables and window a step leaves alone.
LEMMA UntouchedKeepsInv ==
  ASSUME NEW q \in Requests, ChatInv(q),
         pc'[q] = pc[q], at'[q] = at[q], iter'[q] = iter[q], answer'[q] = answer[q],
         foreign'[q] = foreign[q], q \in wiped' <=> q \in wiped,
         Active(q) => mem'[at[q]] = mem[at[q]]
  PROVE  ChatInv(q)'
<1>1. UserTurn(q)' = UserTurn(q) /\ AssistantTurn(q)' = AssistantTurn(q)
      /\ Age(q)' = Age(q) /\ (Active(q)' <=> Active(q))
  BY DEF UserTurn, AssistantTurn, Age, Active
<1>2. UserPlaced(q)' /\ ActionPlaced(q)'
  BY <1>1 DEF ChatInv, UserPlaced, ActionPlaced, Active
<1>3. OnlyOwn(q)' /\ AnswerOwn(q)'
  BY <1>1 DEF ChatInv, OnlyOwn, AnswerOwn
<1>4. QED
  BY <1>2, <1>3 DEF ChatInv

\* A chat that has just failed has nothing left to keep.
LEMMA FailedKeepsInv ==
  ASSUME NEW q \in Requests, pc'[q] = "failed"
  PROVE  ChatInv(q)'
BY DEF ChatInv, UserPlaced, ActionPlaced, OnlyOwn, AnswerOwn, Active

LEMMA ChatInvStep ==
  ASSUME MaxTurns > 1, TypeOK, Fresh, \A q \in Requests : ChatInv(q), [Next]_vars
  PROVE  \A q \in Requests : ChatInv(q)'
<1>1. ASSUME NEW r \in Requests, Granite(r) \/ ToolReturns(r) \/ GiveUp(r)
      PROVE  \A q \in Requests : ChatInv(q)'
  <2>1. CASE GraniteRaises(r)
    <3>1. ASSUME NEW q \in Requests \ {r}
          PROVE  ChatInv(q)'
      BY <2>1, UntouchedKeepsInv DEF GraniteRaises, history
    <3>2. pc'[r] = "failed"
      BY <2>1 DEF GraniteRaises, TypeOK
    <3>3. QED
      BY <3>1, <3>2, FailedKeepsInv
  <2>2. CASE GiveUp(r)
    BY <2>2, UntouchedKeepsInv DEF GiveUp, history
  <2>3. QED
    BY <1>1, <2>1, <2>2, ConcludeKeepsInv, CallToolKeepsInv, CallUnknownToolKeepsInv,
       ToolReturnsKeepsInv DEF Granite
<1>2. ASSUME NEW p \in Windows, ClearSession(p), NEW q \in Requests
      PROVE  ChatInv(q)'
  <2>1. CASE Active(q) /\ at[q] = p
    <3>1. /\ pc'[q] = pc[q] /\ answer'[q] = answer[q] /\ q \in wiped'
          /\ mem'[at'[q]] = <<>>
      BY <1>2, <2>1 DEF ClearSession, Cleared, TypeOK
    <3>2. DOMAIN <<>> = {}
      OBVIOUS
    <3>3. QED
      BY <2>1, <3>1, <3>2
         DEF ChatInv, UserPlaced, ActionPlaced, OnlyOwn, AnswerOwn, Active
  <2>2. CASE ~ (Active(q) /\ at[q] = p)
    <3>1. Active(q) => at[q] \in Windows \ {p}
      BY <2>2 DEF TypeOK, Active
    <3>2. Active(q) => mem'[at[q]] = mem[at[q]]
      BY <1>2, <3>1 DEF ClearSession, TypeOK
    <3>3. q \in wiped' <=> q \in wiped
      BY <1>2, <2>2 DEF ClearSession
    <3>4. QED
      BY <1>2, <3>2, <3>3, UntouchedKeepsInv DEF ClearSession
  <2>3. QED
    BY <2>1, <2>2
<1>3. ASSUME NEW w \in Workers, Crash(w), NEW q \in Requests
      PROVE  ChatInv(q)'
  <2>1. CASE Active(q) /\ at[q][1] = w
    BY <1>3, <2>1, FailedKeepsInv DEF Crash
  <2>2. CASE ~ (Active(q) /\ at[q][1] = w)
    <3>1. pc'[q] = pc[q]
      BY <1>3, <2>2 DEF Crash
    <3>2. Active(q) => mem'[at[q]] = mem[at[q]]
      BY <1>3, <2>2 DEF Crash, TypeOK, Active
    <3>3. QED
      BY <1>3, <3>1, <3>2, UntouchedKeepsInv DEF Crash, history
  <2>3. QED
    BY <2>1, <2>2
<1>4. CASE UNCHANGED vars
  BY <1>4, UntouchedKeepsInv DEF vars
<1>5. QED
  BY <1>1, <1>2, <1>3, <1>4, ChatKeepsInv DEF Next, Done

\* The inductive invariant of the service.
IInv == TypeOK /\ Fresh /\ \A r \in Requests : ChatInv(r)

LEMMA IInvInit == Init => IInv
<1> SUFFICES ASSUME Init PROVE IInv
  OBVIOUS
<1>1. TypeOK /\ Fresh
  BY TypeInit DEF Init, Fresh
<1>2. ASSUME NEW r \in Requests PROVE ChatInv(r)
  BY DEF Init, ChatInv, UserPlaced, ActionPlaced, OnlyOwn, AnswerOwn, Active
<1>3. QED
  BY <1>1, <1>2 DEF IInv

LEMMA IInvStep == ASSUME MaxTurns > 1 PROVE IInv /\ [Next]_vars => IInv'
BY TypeStep, FreshStep, ChatInvStep DEF IInv

\* IInv holds in every reachable state.
LEMMA Inductive == ASSUME MaxTurns > 1 PROVE Spec => []IInv
BY IInvInit, IInvStep, PTL DEF Spec

\* The prompt of every chat contains its user message as long as others added
\* no more turns than the window has to spare, whatever the interleaving.
THEOREM PromptsAreComplete ==
  ASSUME MaxTurns > 1 PROVE Spec => []PromptHasUserMessage
<1>1. IInv => PromptHasUserMessage
  <2> SUFFICES ASSUME IInv, NEW r \in Requests, pc[r] = "think", r \notin wiped,
                      foreign[r] + 2 * MaxIter <= MaxTurns + 1
               PROVE  \E i \in DOMAIN mem[at[r]] : mem[at[r]][i] = UserTurn(r)
    BY DEF PromptHasUserMessage
  <2>1. Active(r) /\ TypeOK /\ UserPlaced(r)
    BY DEF Active, IInv, ChatInv
  <2>2. Age(r) \in Nat /\ Age(r) < MaxTurns
    <3>1. iter[r] \in Nat /\ iter[r] < MaxIter /\ foreign[r] \in Nat
      BY <2>1, LimitsAssumption DEF TypeOK
    <3>2. Age(r) = 2 * iter[r] + foreign[r]
      BY <3>1 DEF Age
    <3>3. QED
      BY <3>1, <3>2, LimitsAssumption
  <2>3. Age(r) < Len(mem[at[r]]) /\ mem[at[r]][Len(mem[at[r]]) - Age(r)] = UserTurn(r)
    BY <2>1, <2>2 DEF UserPlaced, Placed
  <2>4. DOMAIN mem[at[r]] = 1..Len(mem[at[r]]) /\ Len(mem[at[r]]) \in Nat
    BY <2>1, WindowTypes, LenProperties DEF Active
  <2>5. Len(mem[at[r]]) - Age(r) \in DOMAIN mem[at[r]]
    BY <2>2, <2>3, <2>4
  <2>6. QED
    BY <2>3, <2>5
<1>2. QED
  BY <1>1, Inductive, PTL

\* A chat no other chat interfered with is answered with its own output.
THEOREM AnswersAreOwn == ASSUME MaxTurns > 1 PROVE Spec => []AnswerIsOwn
<1>1. IInv => AnswerIsOwn
  BY DEF IInv, ChatInv, AnswerOwn, AnswerIsOwn
<1>2. QED
  BY <1>1, Inductive, PTL

-----------------------------------------------------------------------------
(* Sticky sessions *)

\* A router in front of the workers that sends every call of a session to the
\* worker it calls home.
HomeWindows(home) == {p \in Windows : p[1] = home[p[2]]}

StickyNext(home) ==
  \/ \E r \in Requests : \/ \E p \in HomeWindows(home) : Chat(r, p)
                         \/ Granite(r)
                         \/ ToolReturns(r)
                         \/ GiveUp(r)
  \/ \E p \in HomeWindows(home) : ClearSession(p)
  \/ \E w \in Workers : Crash(w)
  \/ Done

Sticky(home) == Init /\ [][StickyNext(home)]_vars

\* Every chat runs at the home of its session.
Homed(home) == \A r \in Requests : pc[r] # "unsent" => at[r] \in HomeWindows(home)

LEMMA StickyStep ==
  ASSUME NEW home, [StickyNext(home)]_vars
  PROVE  [Next]_vars
BY DEF StickyNext, HomeWindows, Next

\* One worker is everybody's home.
LEMMA OneWorkerIsHome ==
  ASSUME \A u, v \in Workers : u = v, NEW home,
         home = [s \in Sessions |-> CHOOSE w \in Workers : TRUE]
  PROVE  HomeWindows(home) = Windows
<1>1. ASSUME NEW p \in Windows PROVE p[1] = home[p[2]]
  <2>1. p[1] \in Workers /\ p[2] \in Sessions
    BY DEF Windows
  <2>2. (CHOOSE w \in Workers : TRUE) \in Workers
    BY <2>1
  <2>3. QED
    BY <2>1, <2>2
<1>2. QED
  BY <1>1 DEF HomeWindows

LEMMA HomedStep ==
  ASSUME NEW home, TypeOK, Homed(home), [StickyNext(home)]_vars
  PROVE  Homed(home)'
<1> SUFFICES ASSUME NEW q \in Requests, pc'[q] # "unsent" PROVE at'[q] \in HomeWindows(home)
  BY DEF Homed, HomeWindows
<1>1. ASSUME NEW r \in Requests, NEW p \in HomeWindows(home), Chat(r, p)
      PROVE  at'[q] \in HomeWindows(home)
  BY <1>1 DEF Chat, TypeOK, Homed
<1>2. ASSUME at' = at, pc[q] = "unsent" => pc'[q] = "unsent"
      PROVE  at'[q] \in HomeWindows(home)
  BY <1>2 DEF Homed
<1>3. ASSUME NEW r \in Requests,
             Granite(r) \/ ToolReturns(r) \/ GiveUp(r)
      PROVE  at'[q] \in HomeWindows(home)
  <2>1. at' = at /\ (pc[q] = "unsent" => pc'[q] = "unsent")
    BY <1>3 DEF Granite, Conclude, CallTool, CallUnknownTool, GraniteRaises, ToolReturns, GiveUp,
                Thinking, NextIteration, Return, TypeOK
  <2>2. QED
    BY <1>2, <2>1
<1>4. ASSUME NEW p \in HomeWindows(home), ClearSession(p)
      PROVE  at'[q] \in HomeWindows(home)
  BY <1>2, <1>4 DEF ClearSession
<1>5. ASSUME NEW w \in Workers, Crash(w) PROVE at'[q] \in HomeWindows(home)
  BY <1>2, <1>5 DEF Crash, TypeOK, Active
<1>6. CASE UNCHANGED vars
  BY <1>2, <1>6 DEF vars
<1>7. QED
  BY <1>1, <1>3, <1>4, <1>5, <1>6 DEF StickyNext, Done

-----------------------------------------------------------------------------
(* What was erased *)

\* The part common to every step in which chat r leaves window p as h, seen
\* from the sessions: who writes is running afterwards or was before.
Writes(r, p, h) ==
  /\ mem' = [mem EXCEPT ![p] = h]
  /\ at'[r] = p /\ pc'[r] # "unsent" /\ ~Finished(r)
  /\ \A i \in DOMAIN h : h[i].req = r \/ \E j \in DOMAIN mem[p] : h[i] = mem[p][j]
  /\ \A q \in Requests \ {r} : pc'[q] = pc[q] /\ at'[q] = at[q] /\ iter'[q] = iter[q]
  /\ UNCHANGED <<gone, erased>>

LEMMA WhatIsWritten ==
  ASSUME TypeOK, NEW r \in Requests
  PROVE  /\ \A p \in Windows : Chat(r, p) => Writes(r, p, AddTurn(mem[p], UserTurn(r)))
         /\ Conclude(r) \/ CallTool(r) =>
              Writes(r, at[r], AddTurn(mem[at[r]], AssistantTurn(r)))
         /\ CallUnknownTool(r) =>
              Writes(r, at[r], AddTurn(AddTurn(mem[at[r]], AssistantTurn(r)), ToolTurn(r)))
         /\ ToolReturns(r) => Writes(r, at[r], AddTurn(mem[at[r]], ToolTurn(r)))
<1>1. ASSUME NEW p \in Windows, NEW t \in Turn, t.req = r
      PROVE  \A i \in DOMAIN AddTurn(mem[p], t) :
               \/ AddTurn(mem[p], t)[i].req = r
               \/ \E j \in DOMAIN mem[p] : AddTurn(mem[p], t)[i] = mem[p][j]
  <2>1. mem[p] \in Seq(Turn) /\ Len(mem[p]) <= MaxTurns
    BY DEF TypeOK
  <2>2. Extends(r, mem[p], AddTurn(mem[p], t), 1)
    BY <1>1, <2>1, AddTurnExtends
  <2>3. QED
    BY <2>2 DEF Extends
<1>2. /\ UserTurn(r) \in Turn /\ UserTurn(r).req = r
      /\ AssistantTurn(r) \in Turn /\ AssistantTurn(r).req = r
      /\ ToolTurn(r) \in Turn /\ ToolTurn(r).req = r
  BY TurnTypes DEF UserTurn, AssistantTurn, ToolTurn
<1>3. ASSUME NEW p \in Windows, Chat(r, p)
      PROVE  Writes(r, p, AddTurn(mem[p], UserTurn(r)))
  <2>1. /\ at'[r] = p /\ pc'[r] # "unsent" /\ ~Finished(r)
        /\ \A q \in Requests \ {r} : pc'[q] = pc[q] /\ at'[q] = at[q] /\ iter'[q] = iter[q]
    BY <1>3 DEF Chat, TypeOK, Finished
  <2>2. QED
    BY <1>1, <1>2, <1>3, <2>1 DEF Writes, Chat, history
<1>4. ASSUME Conclude(r) \/ CallTool(r)
      PROVE  Writes(r, at[r], AddTurn(mem[at[r]], AssistantTurn(r)))
  <2>1. /\ at' = at /\ pc'[r] # "unsent" /\ ~Finished(r) /\ at[r] \in Windows
        /\ \A q \in Requests \ {r} : pc'[q] = pc[q] /\ iter'[q] = iter[q]
    BY <1>4 DEF Conclude, CallTool, Return, Thinking, TypeOK, Finished
  <2>2. QED
    BY <1>1, <1>2, <1>4, <2>1 DEF Writes, Conclude, CallTool, Return, history
<1>5. ASSUME CallUnknownTool(r)
      PROVE  Writes(r, at[r], AddTurn(AddTurn(mem[at[r]], AssistantTurn(r)), ToolTurn(r)))
  <2> DEFINE h == AddTurn(AddTurn(mem[at[r]], AssistantTurn(r)), ToolTurn(r))
  <2>1. /\ at' = at /\ pc'[r] # "unsent" /\ ~Finished(r) /\ at[r] \in Windows
        /\ \A q \in Requests \ {r} : pc'[q] = pc[q] /\ iter'[q] = iter[q]
    BY <1>5 DEF CallUnknownTool, NextIteration, Return, Thinking, TypeOK, Finished
  <2>2. mem[at[r]] \in Seq(Turn) /\ Len(mem[at[r]]) <= MaxTurns
    BY <2>1 DEF TypeOK
  <2>3. Extends(r, mem[at[r]], h, 2)
    BY <1>2, <2>2, AddTwoTurnsExtends
  <2>4. mem' = [mem EXCEPT ![at[r]] = h] /\ UNCHANGED <<gone, erased>>
    BY <1>5 DEF CallUnknownTool, NextIteration, Return, history
  <2> HIDE DEF h
  <2>5. Writes(r, at[r], h)
    BY <2>1, <2>3, <2>4 DEF Writes, Extends
  <2>6. QED
    BY <2>5 DEF h
<1>6. ASSUME ToolReturns(r)
      PROVE  Writes(r, at[r], AddTurn(mem[at[r]], ToolTurn(r)))
  <2>1. /\ at' = at /\ pc'[r] # "unsent" /\ ~Finished(r) /\ at[r] \in Windows
        /\ \A q \in Requests \ {r} : pc'[q] = pc[q] /\ iter'[q] = iter[q]
    BY <1>6 DEF ToolReturns, NextIteration, Return, TypeOK, Finished
  <2>2. QED
    BY <1>1, <1>2, <1>6, <2>1 DEF Writes, ToolReturns, NextIteration, Return, history
<1>7. QED
  BY <1>3, <1>4, <1>5, <1>6

\* Every turn is in the window of its chat, no turn of an erased chat is left,
\* and an erased chat writes no more.
Filed ==
  /\ \A p \in Windows : \A i \in DOMAIN mem[p] :
       /\ pc[mem[p][i].req] # "unsent" /\ at[mem[p][i].req] = p
       /\ mem[p][i].req \notin erased
  /\ \A q \in erased : Finished(q)

LEMMA TurnsHaveRequests ==
  ASSUME TypeOK
  PROVE  \A p \in Windows : \A i \in DOMAIN mem[p] : mem[p][i].req \in Requests
<1> SUFFICES ASSUME NEW p \in Windows, NEW i \in DOMAIN mem[p]
             PROVE  mem[p][i].req \in Requests
  OBVIOUS
<1>1. mem[p] \in Seq(Turn)
  BY DEF TypeOK
<1>2. mem[p][i] \in Turn
  BY <1>1, LenProperties, ElementOfSeq
<1>3. QED
  BY <1>2 DEF Turn

LEMMA WritesKeepsFiled ==
  ASSUME TypeOK, Filed, NEW r \in Requests, NEW p \in Windows, NEW h, Writes(r, p, h),
         pc[r] # "unsent" => at[r] = p
  PROVE  Filed'
<1>1. r \notin erased
  BY DEF Filed, Writes
<1>2. \A q \in erased' : Finished(q)'
  BY <1>1 DEF Filed, Writes, Finished, TypeOK
<1>3. ASSUME NEW o \in Windows, NEW i \in DOMAIN mem'[o]
      PROVE  /\ pc'[mem'[o][i].req] # "unsent" /\ at'[mem'[o][i].req] = o
             /\ mem'[o][i].req \notin erased'
  <2>1. CASE o = p /\ h[i].req = r
    <3>1. mem'[o][i].req = r
      BY <2>1 DEF Writes, TypeOK
    <3>2. QED
      BY <1>1, <2>1, <3>1 DEF Writes
  <2>2. ASSUME NEW j \in DOMAIN mem[o], mem'[o][i] = mem[o][j]
        PROVE  /\ pc'[mem'[o][i].req] # "unsent" /\ at'[mem'[o][i].req] = o
               /\ mem'[o][i].req \notin erased'
    <3>1. mem[o] \in Seq(Turn) /\ mem[o][j] \in Turn
      BY <2>2, LenProperties, ElementOfSeq DEF TypeOK
    <3>2. mem[o][j].req \in Requests
      BY <3>1 DEF Turn
    <3>3. pc[mem[o][j].req] # "unsent" /\ at[mem[o][j].req] = o /\ mem[o][j].req \notin erased
      BY <2>2 DEF Filed
    <3>4. CASE mem[o][j].req = r
      BY <2>2, <3>3, <3>4 DEF Writes
    <3>5. CASE mem[o][j].req # r
      BY <2>2, <3>2, <3>3, <3>5 DEF Writes
    <3>6. QED
      BY <3>4, <3>5
  <2>3. CASE o # p
    <3>1. mem'[o] = mem[o]
      BY <2>3 DEF Writes, TypeOK
    <3>2. QED
      BY <1>3, <2>2, <3>1
  <2>4. CASE o = p
    <3>1. mem'[o] = h
      BY <2>4 DEF Writes, TypeOK
    <3>2. QED
      BY <1>3, <2>1, <2>2, <2>4, <3>1 DEF Writes
  <2>5. QED
    BY <2>3, <2>4
<1>4. QED
  BY <1>2, <1>3 DEF Filed

LEMMA FiledStep ==
  ASSUME NEW home, TypeOK, Filed, Homed(home), [StickyNext(home)]_vars
  PROVE  Filed'
<1>1. ASSUME NEW r \in Requests, NEW p \in HomeWindows(home), Chat(r, p) PROVE Filed'
  <2>1. pc[r] = "unsent" /\ p \in Windows
    BY <1>1 DEF Chat, HomeWindows
  <2>2. QED
    BY <1>1, <2>1, WhatIsWritten, WritesKeepsFiled
<1>2. ASSUME NEW r \in Requests,
             Conclude(r) \/ CallTool(r) \/ CallUnknownTool(r) \/ ToolReturns(r)
      PROVE  Filed'
  <2>1. at[r] \in Windows
    BY <1>2 DEF Conclude, CallTool, CallUnknownTool, ToolReturns, Thinking, TypeOK
  <2>2. QED
    BY <1>2, <2>1, WhatIsWritten, WritesKeepsFiled
<1>3. ASSUME NEW r \in Requests, GraniteRaises(r) \/ GiveUp(r) PROVE Filed'
  <2>1. /\ UNCHANGED <<mem, at, erased>>
        /\ \A q \in Requests : /\ pc[q] # "unsent" => pc'[q] # "unsent"
                               /\ Finished(q) => Finished(q)'
    BY <1>3 DEF GraniteRaises, GiveUp, TypeOK, Finished, history
  <2>2. \A p \in Windows : \A i \in DOMAIN mem[p] : mem[p][i].req \in Requests
    BY TurnsHaveRequests
  <2>3. QED
    BY <2>1, <2>2 DEF Filed, TypeOK
<1>4. ASSUME NEW p \in HomeWindows(home), ClearSession(p) PROVE Filed'
  <2>1. \A q \in erased' : Finished(q)'
    BY <1>4 DEF ClearSession, Filed, Finished
  <2>2. ASSUME NEW o \in Windows, NEW i \in DOMAIN mem'[o]
        PROVE  /\ pc'[mem'[o][i].req] # "unsent" /\ at'[mem'[o][i].req] = o
               /\ mem'[o][i].req \notin erased'
    <3>1. DOMAIN <<>> = {}
      OBVIOUS
    <3>2. o # p
      BY <1>4, <2>2, <3>1 DEF ClearSession, Cleared, TypeOK
    <3>3. mem'[o] = mem[o] /\ at' = at /\ pc' = pc
      BY <1>4, <3>2 DEF ClearSession, HomeWindows, TypeOK
    <3>4. pc[mem[o][i].req] # "unsent" /\ at[mem[o][i].req] = o /\ mem[o][i].req \notin erased
      BY <2>2, <3>3 DEF Filed
    <3>5. o[2] # p[2]
      <4>1. mem[o][i].req \in Requests
        BY <2>2, <3>3, TurnsHaveRequests
      <4>2. o \in HomeWindows(home)
        BY <3>4, <4>1 DEF Homed
      <4>3. QED
        BY <3>2, <4>2 DEF HomeWindows, Windows
    <3>6. QED
      BY <1>4, <3>3, <3>4, <3>5 DEF ClearSession
  <2>3. QED
    BY <2>1, <2>2 DEF Filed
<1>5. ASSUME NEW w \in Workers, Crash(w) PROVE Filed'
  <2>1. DOMAIN <<>> = {}
    OBVIOUS
  <2>2. /\ UNCHANGED <<at, erased>>
        /\ \A p \in Windows : \A i \in DOMAIN mem'[p] : mem'[p] = mem[p]
        /\ \A q \in Requests : /\ pc[q] # "unsent" => pc'[q] # "unsent"
                               /\ Finished(q) => Finished(q)'
    BY <1>5, <2>1 DEF Crash, TypeOK, Finished, history
  <2>3. \A p \in Windows : \A i \in DOMAIN mem[p] : mem[p][i].req \in Requests
    BY TurnsHaveRequests
  <2>4. QED
    BY <2>2, <2>3 DEF Filed, TypeOK
<1>6. CASE UNCHANGED vars
  BY <1>6 DEF vars, Filed, Finished
<1>7. QED
  BY <1>1, <1>2, <1>3, <1>4, <1>5, <1>6 DEF StickyNext, Granite, Done

\* With sticky sessions, what was deleted is never shown to Granite again,
\* whatever clients gave up and however chats of the session overlap.
THEOREM StickyErasureIsFinal ==
  ASSUME NEW home PROVE Sticky(home) => []ErasedStaysErased
<1> DEFINE Inv == TypeOK /\ Fresh /\ Homed(home) /\ Filed
<1>1. Init => Inv
  BY TypeInit DEF Init, Fresh, Filed, Homed
<1>2. Inv /\ [StickyNext(home)]_vars => Inv'
  BY StickyStep, TypeStep, FreshStep, HomedStep, FiledStep
<1>3. Inv => ErasedStaysErased
  BY DEF Filed, ErasedStaysErased
<1>4. QED
  BY <1>1, <1>2, <1>3, PTL DEF Sticky

\* With one worker, whatever else happens, erased is gone.
THEOREM ErasedIsGone ==
  ASSUME \A u, v \in Workers : u = v PROVE Spec => []ErasedStaysErased
<1> DEFINE home == [s \in Sessions |-> CHOOSE w \in Workers : TRUE]
<1>1. [Next]_vars => [StickyNext(home)]_vars
  BY OneWorkerIsHome DEF Next, StickyNext
<1>2. Sticky(home) => []ErasedStaysErased
  BY StickyErasureIsFinal
<1>3. QED
  BY <1>1, <1>2, PTL DEF Spec, Sticky

-----------------------------------------------------------------------------
(* Patient users: one chat of a session at a time *)

\* Every observation but an oldest turn stands behind its action.
Paired(h) ==
  \A i \in DOMAIN h :
    h[i].role = "tool" /\ i > 1 => h[i - 1] = [h[i] EXCEPT !.role = "assistant"]

\* h ends with t, unless it was deleted.
EndsWith(h, t) == h = <<>> \/ h[Len(h)] = t

LEMMA AddTurnKeepsPairs ==
  ASSUME NEW h \in Seq(Turn), Len(h) <= MaxTurns, Paired(h), NEW t \in Turn,
         t.role = "tool" => EndsWith(h, [t EXCEPT !.role = "assistant"])
  PROVE  Paired(AddTurn(h, t)) /\ EndsWith(AddTurn(h, t), t)
<1> DEFINE g == Append(h, t)
<1>1. /\ g \in Seq(Turn) /\ g # <<>>
      /\ Len(g) = Len(h) + 1
      /\ \A i \in 1..Len(h) : g[i] = h[i]
      /\ g[Len(h) + 1] = t
  BY AppendProperties
<1>2. Len(h) \in Nat /\ DOMAIN h = 1..Len(h) /\ DOMAIN g = 1..(Len(h) + 1)
  BY <1>1, LenProperties
<1>3. /\ Tail(g) \in Seq(Turn) /\ Len(Tail(g)) = Len(h) /\ DOMAIN Tail(g) = 1..Len(h)
      /\ \A i \in 1..Len(h) : Tail(g)[i] = g[i + 1]
  BY <1>1, <1>2, HeadTailProperties, LenProperties
<1>4. Len(h) > 0 => h # <<>>
  BY <1>2, EmptySeq
<1> HIDE DEF g
<1>5. ASSUME NEW i \in DOMAIN g, g[i].role = "tool", i > 1
      PROVE  g[i - 1] = [g[i] EXCEPT !.role = "assistant"]
  <2>1. i \in Nat /\ i - 1 \in 1..Len(h) /\ Len(h) > 0
    BY <1>2, <1>5
  <2>2. g[i - 1] = h[i - 1]
    BY <1>1, <2>1
  <2>3. CASE i = Len(h) + 1
    <3>1. g[i] = t /\ i - 1 = Len(h)
      BY <1>1, <1>2, <2>3
    <3>2. h[Len(h)] = [t EXCEPT !.role = "assistant"]
      BY <1>4, <1>5, <2>1, <3>1 DEF EndsWith
    <3>3. QED
      BY <2>2, <3>1, <3>2
  <2>4. CASE i # Len(h) + 1
    <3>1. i \in DOMAIN h /\ g[i] = h[i]
      BY <1>1, <1>2, <2>4
    <3>2. QED
      BY <1>5, <2>2, <3>1 DEF Paired
  <2>5. QED
    BY <2>3, <2>4
<1>6. Paired(g)
  BY <1>5 DEF Paired
<1>7. ASSUME NEW i \in DOMAIN Tail(g), Tail(g)[i].role = "tool", i > 1
      PROVE  Tail(g)[i - 1] = [Tail(g)[i] EXCEPT !.role = "assistant"]
  <2>1. PICK j \in DOMAIN g : j = i + 1
    BY <1>2, <1>3
  <2>2. i - 1 \in 1..Len(h) /\ (i - 1) + 1 = i /\ j - 1 = i /\ j > 1
    BY <1>2, <1>3, <1>7, <2>1
  <2>3. Tail(g)[i] = g[j] /\ Tail(g)[i - 1] = g[j - 1]
    BY <1>3, <2>1, <2>2
  <2>4. QED
    BY <1>5, <1>7, <2>2, <2>3
<1>8. Paired(Tail(g))
  BY <1>7 DEF Paired
<1>9. EndsWith(g, t)
  BY <1>1 DEF EndsWith
<1>10. EndsWith(Tail(g), t)
  <2>1. CASE Len(h) = 0
    BY <1>3, <2>1, EmptySeq DEF EndsWith
  <2>2. CASE Len(h) > 0
    <3>1. Len(h) \in 1..Len(h)
      BY <1>2, <2>2
    <3>2. QED
      BY <1>1, <1>3, <3>1 DEF EndsWith
  <2>3. QED
    BY <1>2, <2>1, <2>2
<1>11. QED
  BY <1>6, <1>8, <1>9, <1>10 DEF AddTurn, g

\* No client gave up, so that a session has one chat at a time; the window of
\* a chat that awaits a tool ends with its action.
Alone ==
  /\ gone = {}
  /\ \A q, r \in Requests :
       Active(q) /\ Active(r) /\ at[q][2] = at[r][2] => q = r

Orderly ==
  /\ Alone
  /\ \A p \in Windows : Paired(mem[p])
  /\ \A r \in Requests : pc[r] = "await" => EndsWith(mem[at[r]], AssistantTurn(r))

\* What a chat writes is no business of the other sessions.
LEMMA WritesKeepsOrder ==
  ASSUME TypeOK, Orderly, NEW r \in Requests, NEW p \in Windows, NEW h, Writes(r, p, h),
         \A q \in Requests \ {r} : Active(q) => at[q][2] # p[2],
         Paired(h), pc'[r] = "await" => EndsWith(h, AssistantTurn(r)) /\ iter'[r] = iter[r]
  PROVE  Orderly'
<1>1. \A q \in Requests \ {r} : Active(q)' => Active(q) /\ at'[q] = at[q] /\ at[q][2] # p[2]
  BY DEF Writes, Active
<1>2. Alone'
  BY <1>1 DEF Orderly, Alone, Writes
<1>3. \A o \in Windows : Paired(mem'[o])
  BY DEF Orderly, Writes, TypeOK
<1>4. ASSUME NEW q \in Requests, pc'[q] = "await"
      PROVE  EndsWith(mem'[at'[q]], AssistantTurn(q)')
  <2>1. CASE q = r
    <3>1. mem'[at'[q]] = h
      BY <2>1 DEF Writes, TypeOK
    <3>2. AssistantTurn(q)' = AssistantTurn(q)
      BY <1>4, <2>1 DEF AssistantTurn
    <3>3. QED
      BY <1>4, <2>1, <3>1, <3>2
  <2>2. CASE q # r
    <3>1. pc[q] = "await" /\ Active(q)' /\ Active(q)
      BY <1>4, <2>2 DEF Writes, Active
    <3>2. at'[q] = at[q] /\ at[q] # p /\ at[q] \in Windows
      BY <1>1, <2>2, <3>1 DEF TypeOK, Active
    <3>3. mem'[at'[q]] = mem[at[q]]
      BY <3>2 DEF Writes, TypeOK
    <3>4. AssistantTurn(q)' = AssistantTurn(q)
      BY <2>2 DEF AssistantTurn, Writes
    <3>5. QED
      BY <3>1, <3>3, <3>4 DEF Orderly
  <2>3. QED
    BY <2>1, <2>2
<1>5. QED
  BY <1>2, <1>3, <1>4 DEF Orderly, EndsWith

\* Where the turns of a step of r go, while its user is patient.
LEMMA WritersAreAlone ==
  ASSUME TypeOK, Orderly, NEW r \in Requests
  PROVE  /\ \A p \in Windows : Chat(r, p) =>
              \A q \in Requests : Active(q) => at[q][2] # p[2]
         /\ Active(r) => \A q \in Requests \ {r} : Active(q) => at[q][2] # at[r][2]
  BY DEF Orderly, Alone, Chat

LEMMA OrderlyStep ==
  ASSUME MaxGiveUps = 0, TypeOK, Orderly, [Next]_vars
  PROVE  Orderly'
<1>0. \A p \in Windows : /\ mem[p] \in Seq(Turn) /\ Len(mem[p]) <= MaxTurns
                         /\ Paired(mem[p])
  BY DEF TypeOK, Orderly
<1>1. ASSUME NEW r \in Requests, NEW p \in Windows, Chat(r, p) PROVE Orderly'
  <2>1. UserTurn(r) \in Turn /\ UserTurn(r).role # "tool"
    BY TurnTypes DEF UserTurn
  <2>2. Paired(AddTurn(mem[p], UserTurn(r)))
    BY <1>0, <2>1, AddTurnKeepsPairs
  <2>3. pc'[r] # "await"
    BY <1>1 DEF Chat, TypeOK
  <2>4. Writes(r, p, AddTurn(mem[p], UserTurn(r)))
    BY <1>1, WhatIsWritten
  <2>5. QED
    BY <1>1, <2>2, <2>3, <2>4, WritersAreAlone, WritesKeepsOrder
<1>2. ASSUME NEW r \in Requests, Conclude(r) \/ CallTool(r) PROVE Orderly'
  <2> DEFINE h == AddTurn(mem[at[r]], AssistantTurn(r))
  <2>1. AssistantTurn(r) \in Turn /\ AssistantTurn(r).role # "tool"
    BY TurnTypes DEF AssistantTurn
  <2>2. at[r] \in Windows /\ Active(r)
    BY <1>2, WindowTypes DEF Conclude, CallTool, Thinking, Active
  <2>3. Paired(h) /\ EndsWith(h, AssistantTurn(r))
    BY <1>0, <2>1, <2>2, AddTurnKeepsPairs
  <2>4. iter'[r] = iter[r]
    BY <1>2 DEF Conclude, CallTool
  <2>5. Writes(r, at[r], h)
    BY <1>2, WhatIsWritten
  <2> HIDE DEF h
  <2>6. QED
    BY <2>2, <2>3, <2>4, <2>5, WritersAreAlone, WritesKeepsOrder
<1>3. ASSUME NEW r \in Requests, CallUnknownTool(r) PROVE Orderly'
  <2> DEFINE g == AddTurn(mem[at[r]], AssistantTurn(r))
             h == AddTurn(g, ToolTurn(r))
  <2>1. /\ AssistantTurn(r) \in Turn /\ AssistantTurn(r).role # "tool" /\ ToolTurn(r) \in Turn
        /\ AssistantTurn(r) = [ToolTurn(r) EXCEPT !.role = "assistant"]
    BY TurnTypes DEF AssistantTurn, ToolTurn
  <2>2. at[r] \in Windows /\ Active(r)
    BY <1>3, WindowTypes DEF CallUnknownTool, Thinking, Active
  <2>3. g \in Seq(Turn) /\ Len(g) <= MaxTurns /\ Paired(g) /\ EndsWith(g, AssistantTurn(r))
    BY <1>0, <2>1, <2>2, AddTurnProperties, AddTurnKeepsPairs
  <2>4. pc'[r] # "await"
    BY <1>3 DEF CallUnknownTool, NextIteration, Return, TypeOK
  <2>5. Writes(r, at[r], h)
    BY <1>3, WhatIsWritten
  <2> HIDE DEF g
  <2>6. Paired(h)
    BY <2>1, <2>3, AddTurnKeepsPairs
  <2> HIDE DEF h
  <2>7. QED
    BY <2>2, <2>4, <2>5, <2>6, WritersAreAlone, WritesKeepsOrder
<1>4. ASSUME NEW r \in Requests, ToolReturns(r) PROVE Orderly'
  <2> DEFINE h == AddTurn(mem[at[r]], ToolTurn(r))
  <2>1. /\ ToolTurn(r) \in Turn
        /\ AssistantTurn(r) = [ToolTurn(r) EXCEPT !.role = "assistant"]
    BY TurnTypes DEF AssistantTurn, ToolTurn
  <2>2. at[r] \in Windows /\ Active(r) /\ pc[r] = "await"
    BY <1>4, WindowTypes DEF ToolReturns, Active
  <2>3. EndsWith(mem[at[r]], AssistantTurn(r))
    BY <2>2 DEF Orderly
  <2>4. Paired(h)
    BY <1>0, <2>1, <2>2, <2>3, AddTurnKeepsPairs
  <2>5. pc'[r] # "await"
    BY <1>4 DEF ToolReturns, NextIteration, Return, TypeOK
  <2>6. Writes(r, at[r], h)
    BY <1>4, WhatIsWritten
  <2> HIDE DEF h
  <2>7. QED
    BY <2>2, <2>4, <2>5, <2>6, WritersAreAlone, WritesKeepsOrder
<1>5. ASSUME NEW r \in Requests, GiveUp(r) PROVE FALSE
  BY <1>5, FS_EmptySet DEF GiveUp, Orderly, Alone
<1>6. ASSUME UNCHANGED <<at, iter, gone>>,
             \A q \in Requests : (Active(q)' => Active(q)) /\ (pc'[q] = "await" => pc[q] = "await"),
             \A p \in Windows : \/ mem'[p] = <<>>
                                \/ mem'[p] = mem[p]
      PROVE  Orderly'
  <2>1. Alone'
    BY <1>6 DEF Orderly, Alone
  <2>2. Paired(<<>>) /\ \A t : EndsWith(<<>>, t)
    BY DEF Paired, EndsWith
  <2>3. \A p \in Windows : Paired(mem'[p])
    BY <1>0, <1>6, <2>2
  <2>4. ASSUME NEW q \in Requests, pc'[q] = "await"
        PROVE  EndsWith(mem'[at'[q]], AssistantTurn(q)')
    <3>1. at'[q] \in Windows /\ AssistantTurn(q)' = AssistantTurn(q)
      BY <1>6, <2>4, WindowTypes DEF AssistantTurn
    <3>2. EndsWith(mem[at[q]], AssistantTurn(q))
      BY <1>6, <2>4 DEF Orderly
    <3>3. QED
      BY <1>6, <2>2, <3>1, <3>2
  <2>5. QED
    BY <2>1, <2>3, <2>4 DEF Orderly, EndsWith
<1>7. ASSUME NEW r \in Requests, GraniteRaises(r) PROVE Orderly'
  BY <1>6, <1>7 DEF GraniteRaises, TypeOK, Active
<1>8. ASSUME NEW p \in Windows, ClearSession(p) PROVE Orderly'
  BY <1>6, <1>8 DEF ClearSession, Cleared, TypeOK, Active
<1>9. ASSUME NEW w \in Workers, Crash(w) PROVE Orderly'
  BY <1>6, <1>9 DEF Crash, TypeOK, Active
<1>10. CASE UNCHANGED vars
  BY <1>6, <1>10 DEF vars, Active
<1>11. QED
  BY <1>1, <1>2, <1>3, <1>4, <1>5, <1>7, <1>8, <1>9, <1>10 DEF Next, Granite, Done

LEMMA OrderlyInit == Init => Orderly
BY DEF Init, Orderly, Alone, Paired, EndsWith, Active

\* With patient users, on any number of workers, an observation stands behind
\* the action that asked for it.
THEOREM ObservationsFollow ==
  ASSUME MaxGiveUps = 0 PROVE Spec => []ObservationFollowsAction
<1>1. Init => TypeOK /\ Fresh /\ Orderly
  BY TypeInit, OrderlyInit DEF Init, Fresh
<1>2. TypeOK /\ Fresh /\ Orderly /\ [Next]_vars => (TypeOK /\ Fresh /\ Orderly)'
  BY TypeStep, FreshStep, OrderlyStep
<1>3. Orderly => ObservationFollowsAction
  BY DEF Orderly, Paired, ObservationFollowsAction
<1>4. QED
  BY <1>1, <1>2, <1>3, PTL DEF Spec

\* The last answer a user was given is among the newest turns of the window
\* until the next chat of the session is at work.
Near(h, from, t) == \E k \in {from, from + 1} : Placed(h, k, t)

Idle(p) == \A q \in Requests : Active(q) => at[q] # p

FirstPrompt(q) == pc[q] = "think" /\ iter[q] = 0

Shown(home) ==
  \A p \in HomeWindows(home) : lastAnswer[p[2]] # NoTurn =>
    /\ Idle(p) => Near(mem[p], 0, lastAnswer[p[2]])
    /\ \A q \in Requests : FirstPrompt(q) /\ at[q] = p => Near(mem[p], 1, lastAnswer[p[2]])

\* A session that is neither written to nor answered keeps what it shows, if
\* no chat of it begins or ends.
LEMMA OthersStayShown ==
  ASSUME NEW home, Shown(home), NEW p \in HomeWindows(home), lastAnswer'[p[2]] \in {lastAnswer[p[2]], NoTurn},
         mem'[p] = mem[p] \/ lastAnswer'[p[2]] = NoTurn,
         \A q \in Requests : FirstPrompt(q)' /\ at'[q] = p => FirstPrompt(q) /\ at[q] = p,
         lastAnswer'[p[2]] # NoTurn /\ Idle(p)' => Idle(p),
         lastAnswer'[p[2]] # NoTurn
  PROVE  /\ Idle(p)' => Near(mem'[p], 0, lastAnswer'[p[2]])
         /\ \A q \in Requests : FirstPrompt(q)' /\ at'[q] = p => Near(mem'[p], 1, lastAnswer'[p[2]])
BY DEF Shown

\* How an iteration ends: another prompt, or the answer, which is the latest
\* action unless that was deleted.
LEMMA IterationEnds ==
  ASSUME TypeOK, MaxTurns > 1, NEW r \in Requests, Active(r), NEW h \in Seq(Turn),
         NextIteration(r, h), Placed(h, 0, ToolTurn(r)),
         Placed(h, 1, AssistantTurn(r)) \/ LastAssistant(h) = Apology
  PROVE  /\ mem'[at[r]] = h /\ iter'[r] # 0
         /\ \A s \in Sessions : s # at[r][2] => lastAnswer'[s] = lastAnswer[s]
         /\ \/ pc'[r] = "think"
            \/ /\ pc'[r] = "answered"
               /\ lastAnswer'[at[r][2]] # NoTurn => Near(h, 0, lastAnswer'[at[r][2]])
<1>1. /\ at[r] \in Windows /\ at[r][2] \in Sessions /\ iter[r] \in Nat
      /\ iter'[r] = iter[r] + 1
  BY WindowTypes, LimitsAssumption DEF Active, TypeOK, NextIteration
<1>2. mem'[at[r]] = h /\ iter'[r] # 0
  BY <1>1 DEF NextIteration, Return, TypeOK
<1>3. \A s \in Sessions : s # at[r][2] => lastAnswer'[s] = lastAnswer[s]
  BY DEF NextIteration, Return, TypeOK
<1>4. AssistantTurn(r).role = "assistant" /\ ToolTurn(r).role # "assistant"
  BY DEF AssistantTurn, ToolTurn
<1>5. ASSUME Return(r, h, LastAssistant(h))
      PROVE  /\ pc'[r] = "answered"
             /\ lastAnswer'[at[r][2]] # NoTurn => Near(h, 0, lastAnswer'[at[r][2]])
  <2>1. pc'[r] = "answered"
    BY <1>5 DEF Return, TypeOK
  <2>2. lastAnswer'[at[r][2]] = IF LastAssistant(h) = Apology THEN NoTurn ELSE LastAssistant(h)
    BY <1>1, <1>5 DEF Return, TypeOK
  <2>3. Placed(h, 1, AssistantTurn(r)) => LastAssistant(h) = AssistantTurn(r)
    BY <1>4, LastAssistantIsLatest
  <2>4. QED
    BY <2>1, <2>2, <2>3 DEF Near
<1>6. pc'[r] = "think" \/ Return(r, h, LastAssistant(h))
  BY DEF NextIteration, TypeOK
<1>7. QED
  BY <1>2, <1>3, <1>5, <1>6

\* A chat's step shows its session what it must, and leaves the others alone.
LEMMA WritesKeepsShown ==
  ASSUME NEW home, TypeOK, Shown(home),
         NEW r \in Requests, NEW p \in HomeWindows(home), NEW h, Writes(r, p, h),
         at[r] = p \/ pc[r] = "unsent",
         \A q \in Requests \ {r} : Active(q) => at[q][2] # p[2],
         \A s \in Sessions : s # p[2] => lastAnswer'[s] = lastAnswer[s],
         ~Active(r)' /\ lastAnswer'[p[2]] # NoTurn => Near(h, 0, lastAnswer'[p[2]]),
         FirstPrompt(r)' /\ lastAnswer'[p[2]] # NoTurn => Near(h, 1, lastAnswer'[p[2]])
  PROVE  Shown(home)'
<1> SUFFICES ASSUME NEW o \in HomeWindows(home), lastAnswer'[o[2]] # NoTurn
             PROVE  /\ Idle(o)' => Near(mem'[o], 0, lastAnswer'[o[2]])
                    /\ \A q \in Requests : FirstPrompt(q)' /\ at'[q] = o
                         => Near(mem'[o], 1, lastAnswer'[o[2]])
  BY DEF Shown, Near, Placed, HomeWindows
<1>1. \A q \in Requests \ {r} : /\ (Active(q)' <=> Active(q)) /\ at'[q] = at[q]
                                /\ FirstPrompt(q)' <=> FirstPrompt(q)
  BY DEF Writes, Active, FirstPrompt
<1>2. CASE o = p
  <2>1. mem'[o] = h /\ at'[r] = p
    BY <1>2 DEF Writes, TypeOK, HomeWindows
  <2>2. \A q \in Requests \ {r} : FirstPrompt(q)' => at'[q] # p
    BY <1>1 DEF FirstPrompt, Active
  <2>3. Idle(o)' => ~Active(r)'
    BY <1>2, <2>1 DEF Idle
  <2>4. QED
    BY <1>2, <2>1, <2>2, <2>3
<1>3. CASE o # p
  <2>1. o[2] # p[2] /\ o[2] \in Sessions /\ o \in Windows /\ p \in Windows
    BY <1>3 DEF HomeWindows, Windows
  <2>2. mem'[o] = mem[o] /\ lastAnswer'[o[2]] = lastAnswer[o[2]] /\ at'[r] # o
    BY <1>3, <2>1 DEF Writes, TypeOK
  <2>3. Idle(o)' => Idle(o)
    <3>1. Active(r) => at[r] # o
      BY <1>3 DEF Active
    <3>2. QED
      BY <1>1, <3>1 DEF Idle
  <2>4. \A q \in Requests : FirstPrompt(q)' /\ at'[q] = o => FirstPrompt(q) /\ at[q] = o
    BY <1>1, <2>2
  <2>5. QED
    BY <2>2, <2>3, <2>4, OthersStayShown
<1>4. QED
  BY <1>2, <1>3

LEMMA ShownStep ==
  ASSUME NEW home, MaxTurns > 2, MaxGiveUps = 0,
         TypeOK, Fresh, Orderly, Homed(home), Shown(home), [StickyNext(home)]_vars
  PROVE  Shown(home)'
<1>0. /\ \A p \in Windows : mem[p] \in Seq(Turn) /\ Len(mem[p]) <= MaxTurns
      /\ MaxTurns \in Nat /\ MaxTurns > 1
      /\ HomeWindows(home) \subseteq Windows
      /\ \A r \in Requests : Active(r) => at[r] \in HomeWindows(home)
  BY LimitsAssumption DEF TypeOK, Homed, HomeWindows, Active
<1>1. ASSUME NEW r \in Requests, NEW p \in HomeWindows(home), Chat(r, p) PROVE Shown(home)'
  <2> DEFINE h == AddTurn(mem[p], UserTurn(r))
  <2>1. Writes(r, p, h) /\ \A q \in Requests : Active(q) => at[q][2] # p[2]
    BY <1>0, <1>1, WhatIsWritten, WritersAreAlone
  <2>2. \A k \in Nat : \A u : Placed(mem[p], k, u) => Placed(h, k + 1, u)
    BY <1>0, TurnTypes, AddTurnProperties
  <2>3. lastAnswer[p[2]] # NoTurn => Near(mem[p], 0, lastAnswer[p[2]])
    BY <2>1 DEF Shown, Idle
  <2> HIDE DEF h
  <2>4. lastAnswer[p[2]] # NoTurn => Near(h, 1, lastAnswer[p[2]])
    <3>1. 0 \in Nat /\ 1 \in Nat /\ 0 + 1 = 1 /\ 1 + 1 = 2
      OBVIOUS
    <3>2. \A u : Placed(mem[p], 0, u) => Placed(h, 1, u)
      BY <2>2, <3>1
    <3>3. \A u : Placed(mem[p], 1, u) => Placed(h, 2, u)
      BY <2>2, <3>1
    <3>4. QED
      BY <2>3, <3>1, <3>2, <3>3 DEF Near
  <2>5. lastAnswer' = lastAnswer /\ pc[r] = "unsent" /\ Active(r)'
    BY <1>1 DEF Chat, TypeOK, Active
  <2>6. QED
    BY <2>1, <2>4, <2>5, WritesKeepsShown
<1>2. ASSUME NEW r \in Requests, Conclude(r) PROVE Shown(home)'
  <2> DEFINE h == AddTurn(mem[at[r]], AssistantTurn(r))
  <2>1. at[r] \in Windows /\ at[r][2] \in Sessions /\ Active(r)
    BY <1>2, WindowTypes DEF Conclude, Thinking, Active
  <2>2. Writes(r, at[r], h) /\ \A q \in Requests \ {r} : Active(q) => at[q][2] # at[r][2]
    BY <1>2, <2>1, WhatIsWritten, WritersAreAlone
  <2>3. Placed(h, 0, AssistantTurn(r))
    BY <1>0, <2>1, TurnTypes, AddTurnProperties
  <2> HIDE DEF h
  <2>4. AssistantTurn(r) # Apology
    BY TurnTypes, SentinelAssumption
  <2>5. /\ lastAnswer' = [lastAnswer EXCEPT ![at[r][2]] = AssistantTurn(r)]
        /\ pc' = [pc EXCEPT ![r] = "answered"]
    BY <1>2, <2>4 DEF Conclude, Return
  <2>6. /\ lastAnswer'[at[r][2]] = AssistantTurn(r)
        /\ \A s \in Sessions : s # at[r][2] => lastAnswer'[s] = lastAnswer[s]
        /\ ~FirstPrompt(r)'
    BY <2>1, <2>5 DEF TypeOK, FirstPrompt
  <2>7. Near(h, 0, AssistantTurn(r))
    BY <2>3 DEF Near
  <2>8. QED
    BY <1>0, <2>1, <2>2, <2>6, <2>7, WritesKeepsShown
<1>3. ASSUME NEW r \in Requests, CallTool(r) PROVE Shown(home)'
  <2>1. at[r] \in Windows /\ Active(r)
    BY <1>3, WindowTypes DEF CallTool, Thinking, Active
  <2>2. /\ Writes(r, at[r], AddTurn(mem[at[r]], AssistantTurn(r)))
        /\ \A q \in Requests \ {r} : Active(q) => at[q][2] # at[r][2]
    BY <1>3, <2>1, WhatIsWritten, WritersAreAlone
  <2>3. lastAnswer' = lastAnswer /\ Active(r)' /\ ~FirstPrompt(r)'
    BY <1>3 DEF CallTool, TypeOK, Active, FirstPrompt
  <2>4. QED
    BY <1>0, <2>1, <2>2, <2>3, WritesKeepsShown
<1>4. ASSUME NEW r \in Requests, NEW h \in Seq(Turn), Active(r), at[r] \in Windows,
             Writes(r, at[r], h), NextIteration(r, h), Placed(h, 0, ToolTurn(r)),
             Placed(h, 1, AssistantTurn(r)) \/ LastAssistant(h) = Apology
      PROVE  Shown(home)'
  <2>1. \A q \in Requests \ {r} : Active(q) => at[q][2] # at[r][2]
    BY <1>4, WritersAreAlone
  <2>2. /\ iter'[r] # 0
        /\ \A s \in Sessions : s # at[r][2] => lastAnswer'[s] = lastAnswer[s]
        /\ \/ pc'[r] = "think"
           \/ /\ pc'[r] = "answered"
              /\ lastAnswer'[at[r][2]] # NoTurn => Near(h, 0, lastAnswer'[at[r][2]])
    BY <1>0, <1>4, IterationEnds
  <2>3. ~FirstPrompt(r)'
    BY <2>2 DEF FirstPrompt
  <2>4. ~Active(r)' /\ lastAnswer'[at[r][2]] # NoTurn => Near(h, 0, lastAnswer'[at[r][2]])
    BY <2>2 DEF Active
  <2>5. QED
    BY <1>0, <1>4, <2>1, <2>2, <2>3, <2>4, WritesKeepsShown
<1>5. ASSUME NEW r \in Requests, CallUnknownTool(r) PROVE Shown(home)'
  <2> DEFINE g == AddTurn(mem[at[r]], AssistantTurn(r))
             h == AddTurn(g, ToolTurn(r))
  <2>1. at[r] \in Windows /\ Active(r)
    BY <1>5, WindowTypes DEF CallUnknownTool, Thinking, Active
  <2>2. g \in Seq(Turn) /\ Len(g) <= MaxTurns /\ Placed(g, 0, AssistantTurn(r))
    BY <1>0, <2>1, TurnTypes, AddTurnProperties
  <2>3. Writes(r, at[r], h) /\ NextIteration(r, h)
    BY <1>5, WhatIsWritten DEF CallUnknownTool
  <2> HIDE DEF g
  <2>4. h \in Seq(Turn) /\ Placed(h, 0, ToolTurn(r)) /\ Placed(h, 0 + 1, AssistantTurn(r))
    BY <2>2, TurnTypes, AddTurnProperties
  <2> HIDE DEF h
  <2>5. Placed(h, 1, AssistantTurn(r))
    BY <2>4
  <2>6. QED
    BY <1>4, <2>1, <2>3, <2>4, <2>5
<1>6. ASSUME NEW r \in Requests, ToolReturns(r) PROVE Shown(home)'
  <2> DEFINE h == AddTurn(mem[at[r]], ToolTurn(r))
  <2>1. at[r] \in Windows /\ Active(r) /\ pc[r] = "await"
    BY <1>6, WindowTypes DEF ToolReturns, Active
  <2>2. Writes(r, at[r], h) /\ NextIteration(r, h)
    BY <1>6, WhatIsWritten DEF ToolReturns
  <2>3. /\ h \in Seq(Turn) /\ Placed(h, 0, ToolTurn(r))
        /\ \A k \in Nat : \A u : Placed(mem[at[r]], k, u) => Placed(h, k + 1, u)
        /\ \A i \in DOMAIN h : h[i] = ToolTurn(r) \/ \E j \in DOMAIN mem[at[r]] : h[i] = mem[at[r]][j]
    BY <1>0, <2>1, TurnTypes, AddTurnProperties
  <2> HIDE DEF h
  <2>4. Placed(h, 1, AssistantTurn(r)) \/ LastAssistant(h) = Apology
    <3>1. CASE mem[at[r]] = <<>>
      <4>1. \A i \in DOMAIN h : h[i].role # "assistant"
        BY <2>3, <3>1 DEF ToolTurn
      <4>2. QED
        BY <4>1 DEF LastAssistant
    <3>2. CASE mem[at[r]] # <<>>
      <4>1. mem[at[r]][Len(mem[at[r]])] = AssistantTurn(r)
        BY <2>1, <3>2 DEF Orderly, EndsWith
      <4>2. Len(mem[at[r]]) \in Nat /\ Len(mem[at[r]]) > 0
        BY <1>0, <2>1, <3>2, LenProperties, EmptySeq
      <4>3. Placed(mem[at[r]], 0, AssistantTurn(r))
        BY <4>1, <4>2 DEF Placed
      <4>4. Placed(h, 0 + 1, AssistantTurn(r))
        BY <2>3, <4>3
      <4>5. QED
        BY <4>4
    <3>3. QED
      BY <3>1, <3>2
  <2>5. QED
    BY <1>4, <2>1, <2>2, <2>3, <2>4
<1>7. ASSUME NEW r \in Requests, GiveUp(r) PROVE FALSE
  BY <1>7, FS_EmptySet DEF GiveUp, Orderly, Alone
<1>8. ASSUME UNCHANGED <<at, iter>>, \A s \in Sessions : lastAnswer'[s] \in {lastAnswer[s], NoTurn},
             \A q \in Requests : pc'[q] = pc[q] \/ pc'[q] = "failed",
             \A p \in Windows : lastAnswer'[p[2]] # NoTurn =>
               mem'[p] = mem[p] /\ \A q \in Requests : at[q] = p => pc'[q] = pc[q]
      PROVE  Shown(home)'
  <2> SUFFICES ASSUME NEW p \in HomeWindows(home), lastAnswer'[p[2]] # NoTurn
               PROVE  /\ Idle(p)' => Near(mem'[p], 0, lastAnswer'[p[2]])
                      /\ \A q \in Requests : FirstPrompt(q)' /\ at'[q] = p
                           => Near(mem'[p], 1, lastAnswer'[p[2]])
    BY DEF Shown, Near, Placed, HomeWindows
  <2>1. p[2] \in Sessions /\ p \in Windows
    BY DEF HomeWindows, Windows
  <2>2. \A q \in Requests : FirstPrompt(q)' /\ at'[q] = p => FirstPrompt(q) /\ at[q] = p
    BY <1>8 DEF FirstPrompt
  <2>3. Idle(p)' => Idle(p)
    BY <1>8, <2>1 DEF Idle, Active
  <2>4. QED
    BY <1>8, <2>1, <2>2, <2>3, OthersStayShown
<1>9. ASSUME NEW r \in Requests, GraniteRaises(r) PROVE Shown(home)'
  <2>1. at[r] \in Windows /\ at[r][2] \in Sessions
    BY <1>9, WindowTypes DEF GraniteRaises, Thinking
  <2>2. /\ UNCHANGED <<mem, at, iter>> /\ pc' = [pc EXCEPT ![r] = "failed"]
        /\ lastAnswer' = [lastAnswer EXCEPT ![at[r][2]] = NoTurn]
    BY <1>9 DEF GraniteRaises
  <2>3. \A p \in Windows : lastAnswer'[p[2]] # NoTurn => p # at[r]
    BY <2>1, <2>2 DEF TypeOK
  <2>4. \A s \in Sessions : lastAnswer'[s] \in {lastAnswer[s], NoTurn}
    BY <2>2 DEF TypeOK
  <2>5. \A q \in Requests : pc'[q] = (IF q = r THEN "failed" ELSE pc[q])
    BY <2>2 DEF TypeOK
  <2>6. \A p \in Windows : lastAnswer'[p[2]] # NoTurn =>
          mem'[p] = mem[p] /\ \A q \in Requests : at[q] = p => pc'[q] = pc[q]
    BY <2>2, <2>3, <2>5
  <2>7. \A q \in Requests : pc'[q] = pc[q] \/ pc'[q] = "failed"
    BY <2>5
  <2>8. UNCHANGED <<at, iter>>
    BY <2>2
  <2>9. QED
    BY <1>8, <2>4, <2>6, <2>7, <2>8
<1>10. ASSUME NEW p \in HomeWindows(home), ClearSession(p) PROVE Shown(home)'
  <2>1. /\ UNCHANGED <<pc, at, iter>> /\ p[2] \in Sessions
        /\ lastAnswer' = [lastAnswer EXCEPT ![p[2]] = NoTurn]
    BY <1>10 DEF ClearSession, HomeWindows, Windows
  <2>2. \A o \in Windows : lastAnswer'[o[2]] # NoTurn => mem'[o] = mem[o]
    BY <1>10, <2>1 DEF ClearSession, TypeOK
  <2>3. \A s \in Sessions : lastAnswer'[s] \in {lastAnswer[s], NoTurn}
    BY <2>1 DEF TypeOK
  <2>4. QED
    BY <1>8, <2>1, <2>2, <2>3
<1>11. ASSUME NEW w \in Workers, Crash(w) PROVE Shown(home)'
  BY <1>8, <1>11 DEF Crash, TypeOK, Windows
<1>12. CASE UNCHANGED vars
  BY <1>8, <1>12 DEF vars
<1>13. QED
  BY <1>1, <1>2, <1>3, <1>5, <1>6, <1>7, <1>9, <1>10, <1>11, <1>12 DEF StickyNext, Granite, Done

\* With sticky sessions and patient users, the first prompt of a chat shows the
\* last answer of its session, whatever fails, is deleted or restarts in between.
THEOREM StickySessionsContinue ==
  ASSUME NEW home, MaxTurns > 2, MaxGiveUps = 0
  PROVE  Sticky(home) => []ConversationContinuity
<1> DEFINE Inv == TypeOK /\ Fresh /\ Homed(home) /\ Orderly /\ Shown(home)
<1>1. Init => Inv
  BY TypeInit, OrderlyInit DEF Init, Fresh, Homed, Shown, HomeWindows, Windows
<1>2. Inv /\ [StickyNext(home)]_vars => Inv'
  BY StickyStep, TypeStep, FreshStep, HomedStep, OrderlyStep, ShownStep
<1>3. Inv => ConversationContinuity
  <2> SUFFICES ASSUME Inv, NEW r \in Requests, pc[r] = "think", iter[r] = 0,
                      lastAnswer[at[r][2]] # NoTurn
               PROVE  \E i \in DOMAIN mem[at[r]] : mem[at[r]][i] = lastAnswer[at[r][2]]
    BY DEF ConversationContinuity
  <2>1. at[r] \in HomeWindows(home) /\ mem[at[r]] \in Seq(Turn)
    BY WindowTypes DEF Homed
  <2>2. PICK k \in {1, 2} : Placed(mem[at[r]], k, lastAnswer[at[r][2]])
    BY <2>1 DEF Shown, FirstPrompt, Near
  <2>3. /\ k < Len(mem[at[r]]) /\ k \in Nat
        /\ mem[at[r]][Len(mem[at[r]]) - k] = lastAnswer[at[r][2]]
    BY <2>2, LimitsAssumption DEF Placed
  <2>4. Len(mem[at[r]]) \in Nat /\ DOMAIN mem[at[r]] = 1..Len(mem[at[r]])
    BY <2>1, LenProperties
  <2>5. Len(mem[at[r]]) - k \in DOMAIN mem[at[r]]
    BY <2>3, <2>4
  <2>6. QED
    BY <2>3, <2>5
<1>4. QED
  BY <1>1, <1>2, <1>3, PTL DEF Sticky

\* With one worker and patient users, conversations continue.
THEOREM ConversationsContinue ==
  ASSUME \A u, v \in Workers : u = v, MaxTurns > 2, MaxGiveUps = 0
  PROVE  Spec => []ConversationContinuity
<1> DEFINE home == [s \in Sessions |-> CHOOSE w \in Workers : TRUE]
<1>1. [Next]_vars => [StickyNext(home)]_vars
  BY OneWorkerIsHome DEF Next, StickyNext
<1>2. Sticky(home) => []ConversationContinuity
  BY StickySessionsContinue
<1>3. QED
  BY <1>1, <1>2, PTL DEF Spec, Sticky

-----------------------------------------------------------------------------
(* Why every chat ends *)

\* What EveryChatEnds needs of the safety side.  A loop is held by a chat that
\* thinks there, and a chat that thinks holds its loop.
LoopInv ==
  /\ \A w \in Workers : loop[w] # NoRequest =>
       loop[w] \in Requests /\ pc[loop[w]] = "think" /\ at[loop[w]][1] = w
  /\ \A r \in Requests : pc[r] = "think" => loop[at[r][1]] = r

\* A chat that ends, awaits or goes on thinking leaves its loop accordingly.
LEMMA ChatKeepsLoop ==
  ASSUME TypeOK, LoopInv, NEW r \in Requests, NEW p \in Windows,
         at'[r] = p, loop[p[1]] \in {NoRequest, r}, pc[r] = "unsent" \/ at[r] = p,
         \A q \in Requests \ {r} : pc'[q] = pc[q] /\ at'[q] = at[q],
         loop' = [loop EXCEPT ![p[1]] = IF pc'[r] = "think" THEN r ELSE NoRequest]
  PROVE  LoopInv'
<1>1. p[1] \in Workers /\ \A w \in Workers : loop[w] \in Requests \union {NoRequest}
  BY DEF Windows, TypeOK
<1>2. \A w \in Workers : loop'[w] = IF w # p[1] THEN loop[w]
                                    ELSE IF pc'[r] = "think" THEN r ELSE NoRequest
  BY <1>1 DEF TypeOK
<1>3. ASSUME NEW w \in Workers, loop'[w] # NoRequest
      PROVE  loop'[w] \in Requests /\ pc'[loop'[w]] = "think" /\ at'[loop'[w]][1] = w
  <2>1. CASE w = p[1]
    BY <1>2, <1>3, <2>1
  <2>2. CASE w # p[1]
    <3>1. /\ loop'[w] = loop[w] /\ loop[w] \in Requests
          /\ pc[loop[w]] = "think" /\ at[loop[w]][1] = w
      BY <1>2, <1>3, <2>2 DEF LoopInv
    <3>2. loop[w] # r
      BY <2>2, <3>1
    <3>3. QED
      BY <3>1, <3>2
  <2>3. QED
    BY <2>1, <2>2
<1>4. ASSUME NEW q \in Requests, pc'[q] = "think" PROVE loop'[at'[q][1]] = q
  <2>1. CASE q = r
    BY <1>1, <1>2, <1>4, <2>1
  <2>2. CASE q # r
    <3>1. pc[q] = "think" /\ at'[q] = at[q] /\ loop[at[q][1]] = q /\ at[q][1] \in Workers
      BY <1>4, <2>2, WindowTypes DEF LoopInv
    <3>2. at[q][1] # p[1]
      BY <2>2, <3>1, SentinelAssumption
    <3>3. QED
      BY <1>2, <3>1, <3>2
  <2>3. QED
    BY <2>1, <2>2
<1>5. QED
  BY <1>3, <1>4 DEF LoopInv

LEMMA LoopStep == TypeOK /\ LoopInv /\ [Next]_vars => LoopInv'
<1> SUFFICES ASSUME TypeOK, LoopInv, [Next]_vars PROVE LoopInv'
  OBVIOUS
<1>1. ASSUME NEW r \in Requests, NEW p \in Windows, Chat(r, p) PROVE LoopInv'
  <2>1. /\ at'[r] = p /\ loop[p[1]] = NoRequest /\ pc[r] = "unsent" /\ pc'[r] = "think"
        /\ \A q \in Requests \ {r} : pc'[q] = pc[q] /\ at'[q] = at[q]
        /\ loop' = [loop EXCEPT ![p[1]] = r]
    BY <1>1 DEF Chat, TypeOK
  <2>2. QED
    BY <2>1, ChatKeepsLoop
<1>2. ASSUME NEW r \in Requests, Granite(r) \/ ToolReturns(r) PROVE LoopInv'
  <2>1. at[r] \in Windows /\ loop[at[r][1]] \in {NoRequest, r}
    BY <1>2, WindowTypes DEF Granite, Conclude, CallTool, CallUnknownTool, GraniteRaises,
                             ToolReturns, Thinking
  <2>2. at' = at /\ \A q \in Requests \ {r} : pc'[q] = pc[q]
    BY <1>2 DEF Granite, Conclude, CallTool, CallUnknownTool, GraniteRaises, ToolReturns,
                NextIteration, Return, TypeOK
  <2>3. loop' = [loop EXCEPT ![at[r][1]] = IF pc'[r] = "think" THEN r ELSE NoRequest]
    BY <1>2 DEF Granite, Conclude, CallTool, CallUnknownTool, GraniteRaises, ToolReturns,
                NextIteration, Return, TypeOK
  <2>4. QED
    BY <2>1, <2>2, <2>3, ChatKeepsLoop
<1>3. ASSUME UNCHANGED <<loop, pc, at>> PROVE LoopInv'
  BY <1>3 DEF LoopInv
<1>4. ASSUME NEW w \in Workers, Crash(w) PROVE LoopInv'
  <2>1. /\ at' = at
        /\ \A v \in Workers : loop'[v] = IF v = w THEN NoRequest ELSE loop[v]
        /\ \A q \in Requests : pc'[q] = IF Active(q) /\ at[q][1] = w THEN "failed" ELSE pc[q]
    BY <1>4 DEF Crash, TypeOK
  <2>2. \A q \in Requests : pc[q] = "think" => at[q][1] \in Workers
    BY WindowTypes
  <2>3. QED
    BY <2>1, <2>2 DEF LoopInv, Active
<1>5. QED
  BY <1>1, <1>2, <1>3, <1>4 DEF Next, GiveUp, ClearSession, Done, vars

\* Nobody waits for ever on the event loop: of every running chat, either it is
\* its own turn - it thinks and holds the loop, or its tool may return to a free
\* loop - or the chat that holds its loop can take its next step.
NoChatIsStuck ==
  \A r \in Requests : Active(r) =>
    \/ pc[r] = "await" /\ loop[at[r][1]] = NoRequest
    \/ \E q \in Requests : Thinking(q) /\ at[q][1] = at[r][1]

\* However chats, tools, deletions and restarts interleave, a chat is never left
\* without somebody to move it.
THEOREM ChatsCanMove == Spec => []NoChatIsStuck
<1>1. Init => TypeOK /\ Fresh /\ LoopInv
  BY TypeInit DEF Init, Fresh, LoopInv
<1>2. TypeOK /\ Fresh /\ LoopInv /\ [Next]_vars => (TypeOK /\ Fresh /\ LoopInv)'
  BY TypeStep, FreshStep, LoopStep
<1>3. TypeOK /\ LoopInv => NoChatIsStuck
  <2> SUFFICES ASSUME TypeOK, LoopInv, NEW r \in Requests, Active(r),
                      ~ (pc[r] = "await" /\ loop[at[r][1]] = NoRequest)
               PROVE  \E q \in Requests : Thinking(q) /\ at[q][1] = at[r][1]
    BY DEF NoChatIsStuck
  <2>1. at[r][1] \in Workers
    BY WindowTypes DEF Active
  <2>2. CASE pc[r] = "think"
    BY <2>2 DEF LoopInv, Thinking
  <2>3. CASE pc[r] = "await"
    <3>1. loop[at[r][1]] # NoRequest
      BY <2>3
    <3>2. QED
      BY <2>1, <3>1 DEF LoopInv, Thinking
  <2>4. QED
    BY <2>2, <2>3 DEF Active
<1>4. QED
  BY <1>1, <1>2, <1>3, PTL DEF Spec

\* The steps a chat may still take: a prompt and a tool call in each iteration
\* it has left.
Left(r) ==
  CASE pc[r] = "unsent" -> 2 * MaxIter + 1
    [] pc[r] = "think"  -> 2 * (MaxIter - iter[r])
    [] pc[r] = "await"  -> 2 * (MaxIter - iter[r]) - 1
    [] OTHER            -> 0

\* Every step of a chat brings it closer to its end, and nothing anybody else
\* does takes it further away: a chat takes at most 2 * MaxIter steps, the
\* bound of the ReAct loop, whatever Granite and the tools answer.
ChatsWindDown ==
  \A r \in Requests :
    /\ Left(r) \in Nat /\ Left(r)' <= Left(r)
    /\ Granite(r) \/ ToolReturns(r) => Left(r)' < Left(r)

\* No chat runs for ever by its own steps, and none is set back by another's.
THEOREM ChatsTerminate == Spec => [][ChatsWindDown]_vars
<1>1. TypeOK /\ TypeOK' /\ Fresh /\ [Next]_vars => [ChatsWindDown]_vars
  <2> SUFFICES ASSUME TypeOK, TypeOK', Fresh, Next, NEW r \in Requests
               PROVE  /\ Left(r) \in Nat /\ Left(r)' <= Left(r)
                      /\ Granite(r) \/ ToolReturns(r) => Left(r)' < Left(r)
    BY DEF ChatsWindDown
  <2>1. /\ MaxIter \in Nat \ {0} /\ iter[r] \in Nat /\ iter'[r] \in Nat
        /\ iter[r] <= MaxIter /\ iter'[r] <= MaxIter
        /\ Active(r) => iter[r] < MaxIter
        /\ Active(r)' => iter'[r] < MaxIter
        /\ pc[r] \in {"unsent", "think", "await", "answered", "failed"}
        /\ pc'[r] \in {"unsent", "think", "await", "answered", "failed"}
    BY LimitsAssumption DEF TypeOK
  <2>2. Left(r) \in Nat /\ Left(r)' \in Nat
    BY <2>1 DEF Left, Active
  <2>3. pc[r] \in {"think", "await"} => Left(r) > 0
    BY <2>1 DEF Left, Active
  <2>4. ASSUME Granite(r) \/ ToolReturns(r) PROVE Left(r)' < Left(r)
    <3>1. pc[r] \in {"think", "await"}
      BY <2>4 DEF Granite, Conclude, CallTool, CallUnknownTool, GraniteRaises, ToolReturns, Thinking
    <3>2. CASE pc'[r] \in {"answered", "failed"}
      BY <2>2, <2>3, <3>1, <3>2 DEF Left
    <3>3. CASE pc[r] = "think" /\ pc'[r] = "await" /\ iter'[r] = iter[r]
      BY <2>1, <3>3 DEF Left, Active
    <3>4. CASE pc'[r] = "think" /\ iter'[r] = iter[r] + 1
      BY <2>1, <3>1, <3>4 DEF Left, Active
    <3>5. QED
      BY <2>4, <3>1, <3>2, <3>3, <3>4
         DEF Granite, Conclude, CallTool, CallUnknownTool, GraniteRaises, ToolReturns, Thinking,
             NextIteration, Return, TypeOK
  <2>5. ASSUME NEW p \in Windows, Chat(r, p) PROVE Left(r)' <= Left(r)
    <3>1. pc[r] = "unsent" /\ pc'[r] = "think" /\ iter'[r] = 0
      BY <2>5 DEF Chat, TypeOK, Fresh
    <3>2. QED
      BY <2>1, <3>1 DEF Left
  <2>6. ASSUME pc'[r] = pc[r] /\ iter'[r] = iter[r] PROVE Left(r)' <= Left(r)
    BY <2>2, <2>6 DEF Left
  <2>7. ASSUME pc'[r] = "failed" PROVE Left(r)' <= Left(r)
    BY <2>2, <2>7 DEF Left
  <2>8. ASSUME NEW q \in Requests, q # r,
               Granite(q) \/ ToolReturns(q) \/ GiveUp(q) \/ \E p \in Windows : Chat(q, p)
        PROVE  pc'[r] = pc[r] /\ iter'[r] = iter[r]
    BY <2>8 DEF Granite, Conclude, CallTool, CallUnknownTool, GraniteRaises, ToolReturns, GiveUp, Chat,
                NextIteration, Return, TypeOK
  <2>9. ASSUME GiveUp(r) \/ (\E p \in Windows : ClearSession(p)) \/ Done
        PROVE  pc'[r] = pc[r] /\ iter'[r] = iter[r]
    BY <2>9 DEF GiveUp, ClearSession, Done, vars
  <2>10. ASSUME NEW w \in Workers, Crash(w)
         PROVE  pc'[r] = "failed" \/ (pc'[r] = pc[r] /\ iter'[r] = iter[r])
    BY <2>10 DEF Crash, TypeOK
  <2>11. Left(r)' < Left(r) => Left(r)' <= Left(r)
    BY <2>2
  <2>12. Left(r)' <= Left(r)
    BY <2>4, <2>5, <2>6, <2>7, <2>8, <2>9, <2>10, <2>11 DEF Next
  <2>13. QED
    BY <2>2, <2>4, <2>12
<1>2. Init => TypeOK /\ Fresh
  BY TypeInit DEF Init, Fresh
<1>3. TypeOK /\ Fresh /\ [Next]_vars => (TypeOK /\ Fresh)'
  BY TypeStep, FreshStep
<1>4. QED
  BY <1>1, <1>2, <1>3, PTL DEF Spec
=============================================================================
