--------------------------- MODULE AgentPodsProofs ---------------------------
(***************************************************************************)
(* Proofs about AgentPods, for any number of pods, processes and requests, *)
(* any threshold of the probes and any number of outages and crashes.      *)
(***************************************************************************)
EXTENDS AgentPods, TLAPS

\* A pod that ever took connections since it was started has a process that
\* is ready, and only such pods have work.
Gated ==
  /\ \A p \in Pods : endpoint[p] # "never" => \E w \in ProcessesOf(p) : reason[w] = "ok"
  /\ \A r \in Requests : fate[r] \in {"queued", "running"} =>
       target[r] \in Pods /\ endpoint[target[r]] # "never"

\* A process holds its loop for a request of its pod that is running, and for
\* no request of another process.
Working ==
  \A w \in Processes : job[w] # None =>
    /\ phase[w] = "serving"
    /\ fate[job[w]] = "running" /\ target[job[w]] = w[1]
    /\ \A v \in Processes : job[v] = job[w] => v = w

\* A request nobody sent is unknown to the pods.
Unsent == \A r \in Requests : client[r] = "idle" => fate[r] = "unsent"

IInv == TypeOK /\ Gated /\ Working /\ Unsent

LEMMA ProcessFacts ==
  /\ \A w \in Processes : w[1] \in Pods /\ w \in ProcessesOf(w[1])
  /\ \A p \in Pods : ProcessesOf(p) \subseteq Processes
  /\ \A p \in Pods : \A w \in ProcessesOf(p) : w[1] = p
BY DEF Processes, ProcessesOf

-----------------------------------------------------------------------------
(* Type correctness *)

LEMMA InitialTypes ==
  ASSUME Init
  PROVE  TypeOK
BY PodsAssumption DEF Init, TypeOK

LEMMA RestartTypes ==
  ASSUME TypeOK, NEW p \in Pods, Restart(p)
  PROVE  /\ TypeOK!1' /\ TypeOK!2' /\ TypeOK!3' /\ TypeOK!4' /\ TypeOK!5' /\ TypeOK!6'
         /\ TypeOK!7' /\ TypeOK!8' /\ TypeOK!9' /\ TypeOK!10' /\ TypeOK!11' /\ TypeOK!12'
<1>1. \A f \in {"unsent", "queued", "running", "done", "killed", "lost"} :
        AfterReset(f) \in {"unsent", "queued", "running", "done", "killed", "lost"}
  BY DEF AfterReset
<1>2. 0 \in 0..FailureThreshold - 1
  BY PodsAssumption
<1>3. QED
  BY <1>1, <1>2 DEF TypeOK, Restart, Restarted

LEMMA TypeStep ==
  ASSUME TypeOK, [Next]_vars
  PROVE  TypeOK'
<1> USE DEF flags, probes, requests, bounds
<1>1. CASE UNCHANGED vars
  BY <1>1 DEF vars, TypeOK
<1>2. ASSUME NEW w \in Processes, ProbeWatsonx(w)
      PROVE  TypeOK'
  BY <1>2 DEF ProbeWatsonx, TypeOK
<1>3. ASSUME NEW w \in Processes, ProbeWxdata(w)
      PROVE  TypeOK'
  <2>1. /\ phase[w] = "watsonx.data" /\ ~ready[w] /\ reason[w] # "ok"
        /\ phase' = [phase EXCEPT ![w] = "serving"]
        /\ UNCHANGED <<up, job, probes, requests, bounds>>
    BY <1>3 DEF ProbeWxdata, TypeOK
  <2>2. CASE "watsonx.data" \in up
    <3>1. ready' = [ready EXCEPT ![w] = TRUE] /\ reason' = [reason EXCEPT ![w] = "ok"]
      BY <1>3, <2>2 DEF ProbeWxdata
    <3>2. \A v \in Processes : /\ ready'[v] <=> reason'[v] = "ok"
                               /\ ready'[v] => phase'[v] = "serving"
      BY <2>1, <3>1 DEF TypeOK
    <3>3. QED
      BY <2>1, <3>1, <3>2 DEF TypeOK
  <2>3. CASE "watsonx.data" \notin up
    <3>1. /\ UNCHANGED ready
          /\ reason' = [reason EXCEPT ![w] = IF @ = "starting" THEN "wxdata_unreachable" ELSE @]
      BY <1>3, <2>3 DEF ProbeWxdata
    <3>2. reason'[w] # "ok" /\ \A v \in Processes \ {w} : reason'[v] = reason[v]
      BY <2>1, <3>1 DEF TypeOK
    <3>3. phase'[w] = "serving" /\ \A v \in Processes \ {w} : phase'[v] = phase[v]
      BY <2>1 DEF TypeOK
    <3>4. \A v \in Processes : /\ ready'[v] <=> reason'[v] = "ok"
                               /\ ready'[v] => phase'[v] = "serving"
      BY <2>1, <3>1, <3>2, <3>3 DEF TypeOK
    <3>5. QED
      BY <2>1, <3>1, <3>4 DEF TypeOK
  <2>4. QED
    BY <2>2, <2>3
<1>4. ASSUME NEW w \in Processes, Finish(w)
      PROVE  TypeOK'
  <2>1. job[w] \in Requests
    BY <1>4 DEF Finish, TypeOK
  <2>2. QED
    BY <1>4, <2>1 DEF Finish, TypeOK
<1>5. ASSUME NEW w \in Processes, NEW r \in Requests, Accept(w, r)
      PROVE  TypeOK'
  BY <1>5 DEF Accept, TypeOK
<1>6. ASSUME NEW r \in Requests, Refuse(r) \/ GiveUp(r) \/ \E p \in Pods : Send(r, p)
      PROVE  TypeOK'
  <2>1. CASE Refuse(r) \/ GiveUp(r)
    <3>1. /\ client' = [client EXCEPT ![r] = "failed"]
          /\ UNCHANGED <<up, flags, job, probes, target, fate, bounds>>
      BY <2>1 DEF Refuse, GiveUp
    <3>2. QED
      BY <3>1 DEF TypeOK
  <2>2. ASSUME NEW p \in Pods, Send(r, p)
        PROVE  TypeOK'
    <3>1. /\ target' \in [Requests -> Pods \union {None}]
          /\ fate' \in [Requests -> {"unsent", "queued", "running", "done", "killed", "lost"}]
          /\ client' \in [Requests -> {"idle", "waiting", "answered", "failed"}]
      BY <2>2 DEF Send, TypeOK
    <3>2. UNCHANGED <<up, flags, job, probes, bounds>>
      BY <2>2 DEF Send
    <3>3. QED
      BY <3>1, <3>2 DEF TypeOK
  <2>3. QED
    BY <1>6, <2>1, <2>2
<1>7. ASSUME NEW p \in Pods, HealthAnswered(p) \/ ReadyAnswered(p)
      PROVE  TypeOK'
  <2>1. 0 \in 0..FailureThreshold - 1
    BY PodsAssumption
  <2>2. CASE HealthAnswered(p)
    BY <2>1, <2>2 DEF HealthAnswered, TypeOK
  <2>3. CASE ReadyAnswered(p)
    BY <2>1, <2>3 DEF ReadyAnswered, TypeOK
  <2>4. QED
    BY <1>7, <2>2, <2>3
<1>8. ASSUME NEW p \in Pods, HealthMissed(p)
      PROVE  TypeOK'
  <2>1. UNCHANGED <<outages, crashes>>
    BY <1>8 DEF HealthMissed
  <2>2. CASE Restart(p)
    BY <2>1, <2>2, RestartTypes DEF TypeOK
  <2>3. CASE ~Restart(p)
    <3>1. /\ missed[p] + 1 # FailureThreshold
          /\ missed' = [missed EXCEPT ![p] = @ + 1]
          /\ UNCHANGED <<up, flags, job, unready, endpoint, requests>>
      BY <1>8, <2>3 DEF HealthMissed
    <3>2. missed[p] + 1 \in 0..FailureThreshold - 1
      BY <3>1, PodsAssumption DEF TypeOK
    <3>3. missed' \in [Pods -> 0..FailureThreshold - 1]
      BY <3>1, <3>2 DEF TypeOK
    <3>4. QED
      BY <2>1, <3>1, <3>3 DEF TypeOK
  <2>4. QED
    BY <2>2, <2>3
<1>9. ASSUME NEW p \in Pods, ReadyMissed(p)
      PROVE  TypeOK'
  <2>1. unready' \in [Pods -> 0..FailureThreshold - 1]
    <3>1. unready[p] \in 0..FailureThreshold - 1
      BY DEF TypeOK
    <3>2. unready[p] + 1 # FailureThreshold => unready[p] + 1 \in 0..FailureThreshold - 1
      BY <3>1, PodsAssumption
    <3>3. 0 \in 0..FailureThreshold - 1
      BY PodsAssumption
    <3>4. QED
      BY <1>9, <3>2, <3>3 DEF ReadyMissed, TypeOK
  <2>2. QED
    BY <1>9, <2>1 DEF ReadyMissed, TypeOK
<1>10. ASSUME NEW p \in Pods, Crash(p)
       PROVE  TypeOK'
  <2>1. crashes' \in Nat /\ UNCHANGED outages /\ Restart(p)
    BY <1>10 DEF Crash, TypeOK
  <2>2. QED
    BY <2>1, RestartTypes DEF TypeOK
<1>11. ASSUME NEW service \in {"watsonx.ai", "watsonx.data"}, Outage(service)
       PROVE  TypeOK'
  BY <1>11 DEF Outage, TypeOK
<1>12. QED
  BY <1>1, <1>2, <1>3, <1>4, <1>5, <1>6, <1>7, <1>8, <1>9, <1>10, <1>11 DEF Next

\* The state has its type, and a process is ready when its reason says so.
THEOREM TypeCorrect == Spec => []TypeOK
<1>1. Init => TypeOK
  BY InitialTypes
<1>2. TypeOK /\ [Next]_vars => TypeOK'
  BY TypeStep
<1>3. QED
  BY <1>1, <1>2, PTL DEF Spec

-----------------------------------------------------------------------------
(* The invariant *)

LEMMA InitialInvariant ==
  ASSUME Init
  PROVE  IInv
BY InitialTypes DEF Init, IInv, Gated, Working, Unsent

\* A restart takes the jobs of the pod and all that waits for it, and leaves
\* the other pods alone.
LEMMA RestartFacts ==
  ASSUME TypeOK, NEW p \in Pods, Restart(p)
  PROVE  /\ \A w \in Processes :
              IF w[1] = p THEN phase'[w] = "watsonx.ai" /\ job'[w] = None
                          ELSE phase'[w] = phase[w] /\ job'[w] = job[w] /\ reason'[w] = reason[w]
         /\ \A q \in Pods : endpoint'[q] = IF q = p THEN "never" ELSE endpoint[q]
         /\ \A r \in Requests :
              /\ target[r] = p => fate'[r] = AfterReset(fate[r])
              /\ target[r] # p => fate'[r] = fate[r]
              /\ client'[r] = "idle" => client[r] = "idle"
         /\ UNCHANGED target
BY DEF Restart, Restarted, TypeOK

LEMMA RestartKeeps ==
  ASSUME IInv, NEW p \in Pods, Restart(p)
  PROVE  Gated' /\ Working' /\ Unsent'
<1> USE DEF IInv
<1>1. \A q \in Pods : endpoint'[q] # "never" => \E w \in ProcessesOf(q) : reason'[w] = "ok"
  BY RestartFacts, ProcessFacts DEF Gated
<1>2. \A r \in Requests : fate'[r] \in {"queued", "running"} =>
        fate[r] = fate'[r] /\ target[r] # p
  BY RestartFacts DEF AfterReset
<1>3. Gated'
  BY <1>1, <1>2, RestartFacts DEF Gated
<1>4. Working'
  <2>1. ASSUME NEW w \in Processes, job'[w] # None
        PROVE  /\ phase'[w] = "serving"
               /\ fate'[job'[w]] = "running" /\ target'[job'[w]] = w[1]
               /\ \A v \in Processes : job'[v] = job'[w] => v = w
    <3>1. w[1] # p /\ job'[w] = job[w] /\ phase'[w] = phase[w]
      BY <2>1, RestartFacts
    <3>2. job[w] \in Requests
      BY <2>1, <3>1 DEF TypeOK
    <3>3. fate'[job[w]] = fate[job[w]] /\ UNCHANGED target
      BY <2>1, <3>1, <3>2, RestartFacts DEF Working
    <3>4. \A v \in Processes : job'[v] \in {None, job[v]}
      BY RestartFacts
    <3>5. QED
      BY <2>1, <3>1, <3>3, <3>4 DEF Working
  <2>2. QED
    BY <2>1 DEF Working
<1>5. Unsent'
  BY RestartFacts DEF Unsent, AfterReset
<1>6. QED
  BY <1>3, <1>4, <1>5

LEMMA InvariantStep ==
  ASSUME IInv, [Next]_vars
  PROVE  IInv'
<1> USE DEF flags, probes, requests, bounds
<1>0. TypeOK'
  BY TypeStep DEF IInv
<1>1. CASE UNCHANGED vars
  BY <1>0, <1>1 DEF vars, IInv, Gated, Working, Unsent
<1>2. ASSUME NEW w \in Processes, ProbeWatsonx(w)
      PROVE  Gated' /\ Working' /\ Unsent'
  <2>1. /\ \A v \in Processes : reason[v] = "ok" => reason'[v] = "ok"
        /\ \A v \in Processes : phase[v] = "serving" => phase'[v] = "serving"
        /\ UNCHANGED <<endpoint, fate, target, client, job>>
    BY <1>2 DEF ProbeWatsonx, IInv, TypeOK
  <2>2. QED
    BY <2>1, ProcessFacts DEF IInv, Gated, Working, Unsent
<1>3. ASSUME NEW w \in Processes, ProbeWxdata(w)
      PROVE  Gated' /\ Working' /\ Unsent'
  <2>1. /\ \A v \in Processes : reason[v] = "ok" => reason'[v] = "ok"
        /\ \A v \in Processes : phase[v] = "serving" => phase'[v] = "serving"
        /\ UNCHANGED <<endpoint, fate, target, client, job>>
    BY <1>3 DEF ProbeWxdata, IInv, TypeOK
  <2>2. QED
    BY <2>1, ProcessFacts DEF IInv, Gated, Working, Unsent
<1>4. ASSUME NEW w \in Processes, Finish(w)
      PROVE  Gated' /\ Working' /\ Unsent'
  <2>1. /\ job[w] \in Requests /\ job'[w] = None /\ fate'[job[w]] = "done"
        /\ \A v \in Processes \ {w} : job'[v] = job[v]
        /\ \A r \in Requests \ {job[w]} : fate'[r] = fate[r]
        /\ \A r \in Requests : client'[r] = "idle" <=> client[r] = "idle"
        /\ UNCHANGED <<endpoint, reason, phase, target>>
    BY <1>4 DEF Finish, IInv, TypeOK
  <2>2. client[job[w]] # "idle"
    BY <1>4, <2>1 DEF Finish, IInv, Working, Unsent
  <2>3. Working'
    <3>1. \A v \in Processes \ {w} : job[v] # job[w]
      BY <1>4, <2>1 DEF Finish, IInv, Working
    <3>2. \A v \in Processes : job[v] # None => job[v] \in Requests
      BY DEF IInv, TypeOK
    <3>3. QED
      BY <2>1, <3>1, <3>2 DEF IInv, Working
  <2>4. QED
    BY <2>1, <2>2, <2>3 DEF IInv, Gated, Unsent
<1>5. ASSUME NEW w \in Processes, NEW r \in Requests, Accept(w, r)
      PROVE  Gated' /\ Working' /\ Unsent'
  <2>1. /\ job[w] = None /\ phase[w] = "serving" /\ fate[r] = "queued" /\ target[r] = w[1]
        /\ job'[w] = r /\ \A v \in Processes \ {w} : job'[v] = job[v]
        /\ fate'[r] = "running" /\ \A q \in Requests \ {r} : fate'[q] = fate[q]
        /\ UNCHANGED <<endpoint, reason, phase, target, client>>
    BY <1>5 DEF Accept, Free, IInv, TypeOK
  <2>2. \A v \in Processes : job[v] # r
    BY <2>1, PodsAssumption DEF IInv, Working
  <2>3. Working'
    <3>1. \A v \in Processes : job[v] # None => job[v] \in Requests \ {r}
      BY <2>2 DEF IInv, TypeOK
    <3>2. QED
      BY <2>1, <3>1 DEF IInv, Working
  <2>4. QED
    BY <2>1, <2>3 DEF IInv, Gated, Unsent
<1>6. ASSUME NEW r \in Requests, Refuse(r) \/ GiveUp(r)
      PROVE  Gated' /\ Working' /\ Unsent'
  <2>1. /\ client' = [client EXCEPT ![r] = "failed"]
        /\ UNCHANGED <<endpoint, reason, phase, target, job, fate>>
    BY <1>6 DEF Refuse, GiveUp
  <2>2. QED
    BY <2>1 DEF IInv, TypeOK, Gated, Working, Unsent
<1>7. ASSUME NEW r \in Requests, NEW p \in Pods, Send(r, p)
      PROVE  Gated' /\ Working' /\ Unsent'
  <2>1. /\ fate[r] = "unsent" /\ endpoint[p] # "never"
        /\ target'[r] = p /\ fate'[r] = "queued" /\ client'[r] = "waiting"
        /\ \A q \in Requests \ {r} : /\ target'[q] = target[q] /\ fate'[q] = fate[q]
                                    /\ client'[q] = client[q]
        /\ UNCHANGED <<endpoint, reason, phase, job>>
    BY <1>7 DEF Send, IInv, TypeOK, Unsent
  <2>2. \A v \in Processes : job[v] # None => job[v] \in Requests \ {r}
    BY <2>1 DEF IInv, TypeOK, Working
  <2>3. Working'
    BY <2>1, <2>2 DEF IInv, Working
  <2>4. QED
    BY <2>1, <2>3 DEF IInv, Gated, Unsent
<1>8. ASSUME NEW p \in Pods, HealthAnswered(p)
      PROVE  Gated' /\ Working' /\ Unsent'
  BY <1>8 DEF HealthAnswered, IInv, Gated, Working, Unsent
<1>9. ASSUME NEW p \in Pods, HealthMissed(p)
      PROVE  Gated' /\ Working' /\ Unsent'
  <2>1. CASE Restart(p)
    BY <2>1, RestartKeeps
  <2>2. CASE ~Restart(p)
    BY <1>9, <2>2 DEF HealthMissed, IInv, Gated, Working, Unsent
  <2>3. QED
    BY <2>1, <2>2
<1>10. ASSUME NEW p \in Pods, ReadyAnswered(p)
       PROVE  Gated' /\ Working' /\ Unsent'
  <2>1. \E w \in ProcessesOf(p) : reason[w] = "ok"
    BY <1>10, ProcessFacts DEF ReadyAnswered, IInv, TypeOK
  <2>2. /\ endpoint'[p] = "in" /\ \A q \in Pods \ {p} : endpoint'[q] = endpoint[q]
        /\ UNCHANGED <<reason, phase, job, target, fate, client>>
    BY <1>10 DEF ReadyAnswered, IInv, TypeOK
  <2>3. QED
    BY <2>1, <2>2 DEF IInv, Gated, Working, Unsent
<1>11. ASSUME NEW p \in Pods, ReadyMissed(p)
       PROVE  Gated' /\ Working' /\ Unsent'
  <2>1. /\ \A q \in Pods : endpoint'[q] = "never" <=> endpoint[q] = "never"
        /\ UNCHANGED <<reason, phase, job, target, fate, client>>
    BY <1>11 DEF ReadyMissed, IInv, TypeOK
  <2>2. QED
    BY <2>1 DEF IInv, Gated, Working, Unsent
<1>12. ASSUME NEW p \in Pods, Crash(p)
       PROVE  Gated' /\ Working' /\ Unsent'
  BY <1>12, RestartKeeps DEF Crash
<1>13. ASSUME NEW service \in {"watsonx.ai", "watsonx.data"}, Outage(service)
       PROVE  Gated' /\ Working' /\ Unsent'
  BY <1>13 DEF Outage, IInv, Gated, Working, Unsent
<1>14. CASE Next
  BY <1>0, <1>2, <1>3, <1>4, <1>5, <1>6, <1>7, <1>8, <1>9, <1>10, <1>11, <1>12, <1>13, <1>14
     DEF Next, IInv
<1>15. QED
  BY <1>1, <1>14

LEMMA Invariance == Spec => []IInv
<1>1. Init => IInv
  BY InitialInvariant
<1>2. IInv /\ [Next]_vars => IInv'
  BY InvariantStep
<1>3. QED
  BY <1>1, <1>2, PTL DEF Spec

\* The readiness probe governs the work of a pod.
THEOREM WorkStaysGated == Spec => []WorkIsGated
<1>1. IInv => WorkIsGated
  BY DEF IInv, Gated, WorkIsGated
<1>2. QED
  BY <1>1, Invariance, PTL

-----------------------------------------------------------------------------
(* Stuck pods *)

\* A pod that is stuck has no work, so it answers /health whenever asked.
LEMMA StuckIsIdle ==
  ASSUME IInv, NEW p \in Pods, Stuck(p)
  PROVE  ~Held(p)
<1>1. SUFFICES ASSUME NEW w \in ProcessesOf(p), job[w] # None
               PROVE  FALSE
  BY DEF Held
<1>2. job[w] \in Requests /\ fate[job[w]] = "running" /\ target[job[w]] = p
  BY <1>1, ProcessFacts DEF IInv, TypeOK, Working
<1>3. PICK v \in ProcessesOf(p) : reason[v] = "ok"
  BY <1>2 DEF IInv, Gated
<1>4. QED
  BY <1>3, ProcessFacts DEF IInv, TypeOK, Stuck

LEMMA StuckStep ==
  ASSUME IInv, [Next]_vars, NEW p \in Pods, Stuck(p)
  PROVE  Stuck(p)' \/ crashes' # crashes
<1> USE DEF flags, probes, requests, bounds
<1>1. \A w \in ProcessesOf(p) : w \in Processes /\ phase[w] = "serving"
  BY ProcessFacts DEF Stuck
<1>2. ASSUME NEW w \in Processes, ProbeWatsonx(w) \/ ProbeWxdata(w)
      PROVE  Stuck(p)'
  BY <1>1, <1>2 DEF ProbeWatsonx, ProbeWxdata, Stuck, IInv, TypeOK
<1>3. ASSUME NEW q \in Pods, HealthMissed(q)
      PROVE  Stuck(p)'
  <2>1. CASE Restart(q) /\ q # p
    BY <2>1, ProcessFacts, <1>1 DEF Restart, Restarted, Stuck
  <2>2. CASE Restart(q) /\ q = p
    <3>1. Starting(p)
      BY <1>3, <2>2, StuckIsIdle DEF HealthMissed
    <3>2. ProcessesOf(p) = {}
      BY <1>1, <3>1 DEF Starting
    <3>3. QED
      BY <3>2 DEF Stuck, ProcessesOf
  <2>3. CASE ~Restart(q)
    BY <1>3, <2>3 DEF HealthMissed, Stuck
  <2>4. QED
    BY <2>1, <2>2, <2>3
<1>4. ASSUME NEW q \in Pods, Crash(q)
      PROVE  crashes' # crashes
  BY <1>4 DEF Crash, IInv, TypeOK
<1>5. CASE UNCHANGED <<phase, ready>>
  BY <1>5 DEF Stuck
<1>6. QED
  BY <1>2, <1>3, <1>4, <1>5
     DEF Next, vars, Finish, Accept, Refuse, GiveUp, Send, HealthAnswered, ReadyAnswered,
         ReadyMissed, Outage

\* Nothing but a crash gets a stuck pod out.
THEOREM StuckStaysStuck == Spec => StuckForGood
<1>1. IInv /\ [Next]_vars => [\A p \in Pods : Stuck(p) => Stuck(p)' \/ crashes' # crashes]_vars
  BY StuckStep
<1>2. QED
  BY <1>1, Invariance, PTL DEF Spec, StuckForGood

-----------------------------------------------------------------------------
(* Service with watsonx.data in reach *)

InReach == "watsonx.data" \in up

ServingIsReady == \A w \in Processes : phase[w] = "serving" => ready[w]

\* The second probe alone sets the flag, and nothing clears it but a restart.
LEMMA ReadyStep ==
  ASSUME TypeOK, InReach, ServingIsReady, [Next]_vars
  PROVE  ServingIsReady'
<1> USE DEF flags, probes, requests, bounds
<1>1. ASSUME NEW w \in Processes, ProbeWatsonx(w) \/ ProbeWxdata(w)
      PROVE  ServingIsReady'
  BY <1>1 DEF ProbeWatsonx, ProbeWxdata, InReach, ServingIsReady, TypeOK
<1>2. ASSUME NEW p \in Pods, Restart(p)
      PROVE  ServingIsReady'
  BY <1>2 DEF Restart, Restarted, ServingIsReady
<1>3. CASE UNCHANGED <<phase, ready>>
  BY <1>3 DEF ServingIsReady
<1>4. ASSUME NEW p \in Pods, HealthMissed(p) \/ Crash(p)
      PROVE  ServingIsReady'
  <2>1. Restart(p) \/ UNCHANGED <<phase, ready>>
    BY <1>4 DEF HealthMissed, Crash
  <2>2. QED
    BY <1>2, <1>3, <2>1
<1>5. QED
  BY <1>1, <1>3, <1>4
     DEF Next, vars, Finish, Accept, Refuse, GiveUp, Send, HealthAnswered, ReadyAnswered,
         ReadyMissed, Outage

LEMMA InReachMeansReady == Spec /\ []InReach => []ServingIsReady
<1>1. Init => ServingIsReady
  BY DEF Init, ServingIsReady
<1>2. TypeOK /\ InReach /\ ServingIsReady /\ [Next]_vars => ServingIsReady'
  BY ReadyStep
<1>3. QED
  BY <1>1, <1>2, TypeCorrect, PTL DEF Spec

\* A pod in service is taken out of it only while a handler holds the loop of
\* one of its processes, or by a crash.
OnlyBusyPodsLeave ==
  \A p \in Pods :
    endpoint[p] = "in" /\ endpoint'[p] # "in" => Held(p) \/ crashes' # crashes

LEMMA LeavingStep ==
  ASSUME IInv, ServingIsReady, [Next]_vars
  PROVE  OnlyBusyPodsLeave
<1> USE DEF flags, probes, requests, bounds
<1>1. SUFFICES ASSUME NEW p \in Pods, endpoint[p] = "in", endpoint'[p] # "in",
                      crashes' = crashes
               PROVE  Held(p)
  BY DEF OnlyBusyPodsLeave
<1>2. ~Starting(p)
  <2>1. PICK w \in ProcessesOf(p) : reason[w] = "ok"
    BY <1>1 DEF IInv, Gated
  <2>2. QED
    BY <2>1, ProcessFacts DEF Starting, IInv, TypeOK
<1>3. ASSUME NEW q \in Pods, HealthMissed(q)
      PROVE  Held(p)
  <2>1. CASE Restart(q)
    BY <1>1, <1>2, <1>3, <2>1, RestartFacts DEF HealthMissed, IInv
  <2>2. CASE ~Restart(q)
    BY <1>1, <1>3, <2>2 DEF HealthMissed
  <2>3. QED
    BY <2>1, <2>2
<1>4. ASSUME NEW q \in Pods, ReadyMissed(q)
      PROVE  Held(p)
  <2>1. q = p
    BY <1>1, <1>4 DEF ReadyMissed, IInv, TypeOK
  <2>2. \A w \in ProcessesOf(p) : ~(Free(w) /\ ~ready[w])
    BY ProcessFacts DEF Free, ServingIsReady
  <2>3. QED
    BY <1>2, <1>4, <2>1, <2>2 DEF ReadyMissed
<1>5. ASSUME NEW q \in Pods, ReadyAnswered(q)
      PROVE  Held(p)
  BY <1>1, <1>5 DEF ReadyAnswered, IInv, TypeOK
<1>6. ASSUME NEW q \in Pods, Crash(q)
      PROVE  Held(p)
  BY <1>1, <1>6 DEF Crash, IInv, TypeOK
<1>7. CASE UNCHANGED endpoint
  BY <1>1, <1>7
<1>8. QED
  BY <1>3, <1>4, <1>5, <1>6, <1>7
     DEF Next, vars, ProbeWatsonx, ProbeWxdata, Finish, Accept, Refuse, GiveUp, Send,
         HealthAnswered, Outage

\* As long as watsonx.data is in reach, whatever becomes of watsonx.ai, every
\* process that serves is ready, so only held loops and crashes take a pod out
\* of service: what keeps InServiceInTheEnd from failing once the handlers are
\* through.
THEOREM OnlyWorkTakesPodsOut == Spec /\ []InReach => [][OnlyBusyPodsLeave]_vars
<1>1. IInv /\ ServingIsReady /\ [Next]_vars => [OnlyBusyPodsLeave]_vars
  BY LeavingStep
<1>2. QED
  BY <1>1, InReachMeansReady, Invariance, PTL DEF Spec

-----------------------------------------------------------------------------
(* The contract of a request *)

LEMMA ContractInit ==
  ASSUME Init
  PROVE  Call!Init
BY DEF Init, Call!Init, Handler

LEMMA RestartIsKill ==
  ASSUME IInv, NEW p \in Pods, Restart(p)
  PROVE  Call!Next
<1> DEFINE H == {r \in Requests : target[r] = p /\ fate[r] = "running"}
           S == {r \in Requests : target[r] = p /\ client[r] = "waiting"}
<1>1. \A r \in H : Handler[r] = "running"
  BY DEF Handler
<1>2. Handler' = [r \in Requests |-> IF r \in H THEN "killed" ELSE Handler[r]]
  <2>1. \A r \in Requests : fate'[r] = IF target[r] = p THEN AfterReset(fate[r]) ELSE fate[r]
    BY DEF Restart
  <2>2. \A r \in Requests : fate[r] \in {"unsent", "queued", "running", "done", "killed", "lost"}
    BY DEF IInv, TypeOK
  <2>3. QED
    BY <2>1, <2>2 DEF Handler, AfterReset
<1>3. client' = [r \in Requests |-> IF r \in S THEN "failed" ELSE client[r]]
  BY DEF Restart
<1>4. Call!Kill(H, S)
  BY <1>1, <1>2, <1>3 DEF Call!Kill
<1>5. H \in SUBSET Requests /\ S \in SUBSET Requests
  OBVIOUS
<1>6. QED
  BY <1>4, <1>5 DEF Call!Next

LEMMA ContractStep ==
  ASSUME IInv, [Next]_vars
  PROVE  [Call!Next]_(Call!vars)
<1> USE DEF flags, probes, requests, bounds
<1>1. CASE UNCHANGED <<fate, client>>
  BY <1>1 DEF Call!vars, Handler
<1>2. ASSUME NEW w \in Processes, Finish(w)
      PROVE  Call!Next
  <2>1. job[w] \in Requests /\ fate[job[w]] = "running"
    BY <1>2 DEF Finish, IInv, TypeOK, Working
  <2>2. Handler[job[w]] = "running"
    BY <2>1 DEF Handler
  <2>3. Handler' = [Handler EXCEPT ![job[w]] = "done"]
    BY <1>2, <2>1 DEF Finish, Handler, IInv, TypeOK
  <2>4. Call!Finish(job[w])
    BY <1>2, <2>2, <2>3 DEF Call!Finish, Finish
  <2>5. QED
    BY <2>1, <2>4 DEF Call!Next
<1>3. ASSUME NEW w \in Processes, NEW r \in Requests, Accept(w, r)
      PROVE  Call!Next
  <2>1. client[r] # "idle" /\ Handler[r] = "none" /\ UNCHANGED client
    BY <1>3 DEF Accept, Handler, IInv, Unsent
  <2>2. Handler' = [Handler EXCEPT ![r] = "running"]
    BY <1>3 DEF Accept, Handler, IInv, TypeOK
  <2>3. Call!Start(r)
    BY <2>1, <2>2 DEF Call!Start
  <2>4. QED
    BY <2>3 DEF Call!Next
<1>4. ASSUME NEW r \in Requests, Refuse(r) \/ GiveUp(r)
      PROVE  Call!Next
  <2>1. Call!Fail(r)
    BY <1>4 DEF Refuse, GiveUp, Call!Fail, Handler
  <2>2. QED
    BY <2>1 DEF Call!Next
<1>5. ASSUME NEW r \in Requests, NEW p \in Pods, Send(r, p)
      PROVE  Call!Next
  <2>1. fate[r] = "unsent" /\ fate' = [fate EXCEPT ![r] = "queued"]
    BY <1>5 DEF Send, IInv, Unsent
  <2>2. Handler' = Handler
    BY <2>1 DEF Handler, IInv, TypeOK
  <2>3. Call!Send(r)
    BY <1>5, <2>2 DEF Call!Send, Send
  <2>4. QED
    BY <2>3 DEF Call!Next
<1>6. ASSUME NEW p \in Pods, HealthMissed(p)
      PROVE  [Call!Next]_(Call!vars)
  <2>1. CASE Restart(p)
    BY <2>1, RestartIsKill
  <2>2. CASE ~Restart(p)
    BY <1>1, <1>6, <2>2 DEF HealthMissed
  <2>3. QED
    BY <2>1, <2>2
<1>7. ASSUME NEW p \in Pods, Crash(p)
      PROVE  Call!Next
  BY <1>7, RestartIsKill DEF Crash
<1>8. QED
  BY <1>1, <1>2, <1>3, <1>4, <1>5, <1>6, <1>7
     DEF Next, vars, ProbeWatsonx, ProbeWxdata, HealthAnswered, ReadyAnswered, ReadyMissed,
         Outage

\* Through all restarts a handler runs at most once, and who is answered was
\* answered by a handler that ran to its end.
THEOREM ImplementsContract == Spec => KeepsCallContract
<1>1. Init => Call!Init
  BY ContractInit
<1>2. IInv /\ [Next]_vars => [Call!Next]_(Call!vars)
  BY ContractStep
<1>3. QED
  BY <1>1, <1>2, Invariance, PTL DEF Spec, KeepsCallContract, Call!Spec

\* What the contract is for: an answer says that the handler ran to its end,
\* and a handler that ended or was killed is over.
AnswersAreEarned == \A r \in Requests : client[r] = "answered" => Handler[r] = "done"

EndsAreFinal == \A r \in Requests : Handler[r] \in {"done", "killed"} => Handler'[r] = Handler[r]

LEMMA ContractConsequences ==
  ASSUME AnswersAreEarned, TypeOK, [Call!Next]_(Call!vars)
  PROVE  AnswersAreEarned' /\ EndsAreFinal
<1> DEFINE Earned(r) == /\ client'[r] = "answered" => Handler'[r] = "done"
                        /\ Handler[r] \in {"done", "killed"} => Handler'[r] = Handler[r]
<1>1. SUFFICES ASSUME NEW r \in Requests
               PROVE  Earned(r)
  BY DEF AnswersAreEarned, EndsAreFinal
<1>2. /\ Handler \in [Requests -> {"none", "running", "done", "killed"}]
      /\ client \in [Requests -> {"idle", "waiting", "answered", "failed"}]
      /\ client[r] = "answered" => Handler[r] = "done"
  BY DEF Handler, TypeOK, AnswersAreEarned
<1>3. CASE UNCHANGED Call!vars
  BY <1>2, <1>3 DEF Call!vars
<1>4. ASSUME NEW q \in Requests, Call!Send(q) \/ Call!Start(q) \/ Call!Fail(q)
      PROVE  Earned(r)
  BY <1>2, <1>4 DEF Call!Send, Call!Start, Call!Fail
<1>5. ASSUME NEW q \in Requests, Call!Finish(q)
      PROVE  Earned(r)
  BY <1>2, <1>5 DEF Call!Finish
<1>6. ASSUME NEW H \in SUBSET Requests, NEW S \in SUBSET Requests, Call!Kill(H, S)
      PROVE  Earned(r)
  BY <1>2, <1>6 DEF Call!Kill
<1>7. QED
  BY <1>3, <1>4, <1>5, <1>6 DEF Call!Next

\* A sender that was answered knows that the handler of its request ran to its
\* end.
THEOREM AnsweredMeansDone ==
  Spec => [](\A r \in Requests : client[r] = "answered" => fate[r] = "done")
<1>1. Init => AnswersAreEarned
  BY DEF Init, AnswersAreEarned
<1>2. AnswersAreEarned /\ TypeOK /\ [Call!Next]_(Call!vars) => AnswersAreEarned'
  BY ContractConsequences
<1>3. AnswersAreEarned => \A r \in Requests : client[r] = "answered" => fate[r] = "done"
  BY DEF AnswersAreEarned, Handler
<1>4. QED
  BY <1>1, <1>2, <1>3, ImplementsContract, TypeCorrect, PTL DEF KeepsCallContract, Call!Spec, Spec

\* A handler that ended or was killed never runs again, neither when its sender
\* gave up nor after a restart.
THEOREM HandlersRunOnce == Spec => [][EndsAreFinal]_vars
<1>1. Init => AnswersAreEarned
  BY DEF Init, AnswersAreEarned
<1>2. AnswersAreEarned /\ TypeOK /\ [Call!Next]_(Call!vars) => AnswersAreEarned' /\ EndsAreFinal
  BY ContractConsequences
<1>3. QED
  BY <1>1, <1>2, ImplementsContract, TypeCorrect, PTL DEF KeepsCallContract, Call!Spec, Spec
=============================================================================
