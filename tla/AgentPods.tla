------------------------------ MODULE AgentPods ------------------------------
(***************************************************************************)
(* The pods of an agent: start-up probes, /health and /ready, the probes   *)
(* OpenShift makes of them, and the requests the gateway and the tools of  *)
(* Orchestrate send.                                                       *)
(*                                                                         *)
(* A pod runs several worker processes with an event loop and a readiness  *)
(* flag each, behind one listening socket.  A handler calls WinRM, Granite,*)
(* Presto and COS synchronously, so it holds the loop of its process from  *)
(* beginning to end; a process whose loop is held answers no probe.  The   *)
(* start-up probes run once, before a process serves, and a failure of     *)
(* theirs is only noted.                                                   *)
(*                                                                         *)
(* External, as the deployment asks for: a pod that missed                 *)
(* FailureThreshold liveness probes in a row is restarted; one that missed *)
(* as many readiness probes gets no new connections until it passes one.   *)
(* Left out: scaling; the background tasks, which run in threads; and the   *)
(* death of one process alone, since whether uvicorn then starts another    *)
(* depends on its version, which requirements.txt leaves open.              *)
(***************************************************************************)
EXTENDS Naturals

CONSTANTS
  Pods, Workers,
  Requests,
  FailureThreshold,  \* of both probes
  MaxOutages,        \* bound: changes of what can be reached
  MaxCrashes,        \* bound: pods killed by something else
  None

ASSUME PodsAssumption ==
  /\ FailureThreshold \in Nat \ {0}
  /\ MaxOutages \in Nat /\ MaxCrashes \in Nat
  /\ None \notin Requests /\ None \notin Pods

(* An operator named X_Something is a mutant of the X that follows it.      *)

Processes == Pods \X Workers
ProcessesOf(p) == {p} \X Workers

VARIABLES
  up,         \* what can be reached of watsonx.ai and watsonx.data
  phase,      \* lifespan of each process: the next probe, or serving
  ready,      \* _ready["status"]
  reason,     \* _ready["reason"]
  job,        \* request whose handler holds the loop of a process
  missed,     \* liveness probes a pod missed in a row
  unready,    \* readiness probes a pod missed in a row, while it is "in"
  endpoint,   \* whether connections to a pod can be made: "in"; were made
              \* before: "out"; or were never made since it was started
  target,     \* pod a request was sent to
  fate,       \* what became of a request at its pod
  client,     \* what the sender of a request knows
  outages, crashes

vars == <<up, phase, ready, reason, job, missed, unready, endpoint, target, fate,
          client, outages, crashes>>

flags == <<phase, ready, reason>>
probes == <<missed, unready, endpoint>>
requests == <<target, fate, client>>
bounds == <<outages, crashes>>

Init ==
  /\ up \in SUBSET {"watsonx.ai", "watsonx.data"}
  /\ phase = [w \in Processes |-> "watsonx.ai"]
  /\ ready = [w \in Processes |-> FALSE]
  /\ reason = [w \in Processes |-> "starting"]
  /\ job = [w \in Processes |-> None]
  /\ missed = [p \in Pods |-> 0]
  /\ unready = [p \in Pods |-> 0]
  /\ endpoint = [p \in Pods |-> "never"]
  /\ target = [r \in Requests |-> None]
  /\ fate = [r \in Requests |-> "unsent"]
  /\ client = [r \in Requests |-> "idle"]
  /\ outages = 0 /\ crashes = 0

-----------------------------------------------------------------------------
(* lifespan *)

\* The failure of the first probe does not stop the second.
ProbeWatsonx(w) ==
  /\ phase[w] = "watsonx.ai"
  /\ phase' = [phase EXCEPT ![w] = "watsonx.data"]
  /\ reason' = [reason EXCEPT ![w] = IF "watsonx.ai" \in up THEN @ ELSE "watsonx_unreachable"]
  /\ UNCHANGED <<up, ready, job, probes, requests, bounds>>

ProbeWxdata_NeedsBoth(w) ==
  LET both == "watsonx.data" \in up /\ reason[w] = "starting"
  IN  /\ phase[w] = "watsonx.data"
      /\ phase' = [phase EXCEPT ![w] = "serving"]
      /\ ready' = [ready EXCEPT ![w] = both]
      /\ reason' = [reason EXCEPT ![w] = IF both THEN "ok" ELSE @]
      /\ UNCHANGED <<up, job, probes, requests, bounds>>

ProbeWxdata_KeepsReason(w) ==
  LET reached == "watsonx.data" \in up
  IN  /\ phase[w] = "watsonx.data"
      /\ phase' = [phase EXCEPT ![w] = "serving"]
      /\ ready' = [ready EXCEPT ![w] = reached]
      /\ reason' = [reason EXCEPT ![w] =
           IF @ # "starting" THEN @ ELSE IF reached THEN "ok" ELSE "wxdata_unreachable"]
      /\ UNCHANGED <<up, job, probes, requests, bounds>>

\* The second probe alone decides; whatever it gives, the process now serves.
ProbeWxdata(w) ==
  /\ phase[w] = "watsonx.data"
  /\ phase' = [phase EXCEPT ![w] = "serving"]
  /\ IF "watsonx.data" \in up
       THEN /\ ready' = [ready EXCEPT ![w] = TRUE]
            /\ reason' = [reason EXCEPT ![w] = "ok"]
       ELSE /\ reason' = [reason EXCEPT ![w] =
                            IF @ = "starting" THEN "wxdata_unreachable" ELSE @]
            /\ UNCHANGED ready
  /\ UNCHANGED <<up, job, probes, requests, bounds>>

-----------------------------------------------------------------------------
(* Requests *)

Free(w) == phase[w] = "serving" /\ job[w] = None

\* Senders keep connections alive, also to a pod that gets no new ones.
Send(r, p) ==
  /\ client[r] = "idle"
  /\ endpoint[p] # "never"
  /\ target' = [target EXCEPT ![r] = p]
  /\ fate' = [fate EXCEPT ![r] = "queued"]
  /\ client' = [client EXCEPT ![r] = "waiting"]
  /\ UNCHANGED <<up, flags, job, probes, bounds>>

\* No pod takes connections: 502 at the gateway, an observation of a tool.
Refuse(r) ==
  /\ client[r] = "idle"
  /\ \A p \in Pods : endpoint[p] # "in"
  /\ client' = [client EXCEPT ![r] = "failed"]
  /\ UNCHANGED <<up, flags, job, probes, target, fate, bounds>>

\* Any process of the pod may take the request, ready or not, whether or not
\* its sender still waits.
Accept(w, r) ==
  /\ Free(w)
  /\ fate[r] = "queued" /\ target[r] = w[1]
  /\ job' = [job EXCEPT ![w] = r]
  /\ fate' = [fate EXCEPT ![r] = "running"]
  /\ UNCHANGED <<up, flags, probes, target, client, bounds>>

\* The handler ends; with a report or an error response is the same here.
Finish(w) ==
  /\ job[w] # None
  /\ job' = [job EXCEPT ![w] = None]
  /\ fate' = [fate EXCEPT ![job[w]] = "done"]
  /\ client' = [client EXCEPT ![job[w]] = IF @ = "waiting" THEN "answered" ELSE @]
  /\ UNCHANGED <<up, flags, probes, target, bounds>>

\* The read timeout of the gateway or of a tool; the agent does not notice.
GiveUp(r) ==
  /\ client[r] = "waiting"
  /\ client' = [client EXCEPT ![r] = "failed"]
  /\ UNCHANGED <<up, flags, job, probes, target, fate, bounds>>

-----------------------------------------------------------------------------
(* Probes and restarts *)

\* A connection may be accepted by a process whose loop is then held.
Held(p) == \E w \in ProcessesOf(p) : job[w] # None

Starting(p) == \A w \in ProcessesOf(p) : phase[w] # "serving"

AfterReset_Repeated(f) == IF f = "running" THEN "queued" ELSE f

\* Nothing repeats a request whose pod goes away.
AfterReset(f) ==
  IF f = "running" THEN "killed" ELSE IF f = "queued" THEN "lost" ELSE f

Restarted(f, p, value) == [w \in Processes |-> IF w[1] = p THEN value ELSE f[w]]

\* The container is started again, with all its processes.
Restart(p) ==
  /\ phase' = Restarted(phase, p, "watsonx.ai")
  /\ ready' = Restarted(ready, p, FALSE)
  /\ reason' = Restarted(reason, p, "starting")
  /\ job' = Restarted(job, p, None)
  /\ missed' = [missed EXCEPT ![p] = 0]
  /\ unready' = [unready EXCEPT ![p] = 0]
  /\ endpoint' = [endpoint EXCEPT ![p] = "never"]
  /\ fate' = [r \in Requests |-> IF target[r] = p THEN AfterReset(fate[r]) ELSE fate[r]]
  /\ client' = [r \in Requests |->
                  IF target[r] = p /\ client[r] = "waiting" THEN "failed" ELSE client[r]]
  /\ UNCHANGED <<up, target>>

\* GET /health is answered.
HealthAnswered(p) ==
  /\ \E w \in ProcessesOf(p) : Free(w)
  /\ missed' = [missed EXCEPT ![p] = 0]
  /\ UNCHANGED <<up, flags, job, unready, endpoint, requests, bounds>>

HealthMissed_ChecksReady(p) ==
  /\ \E w \in ProcessesOf(p) : job[w] # None \/ (Free(w) /\ ~ready[w])
  /\ Restart(p)
  /\ UNCHANGED bounds

\* GET /health is not answered in time: a loop is held, or no process serves
\* yet.  A start may take longer than the probes allow, and so may the next.
HealthMissed(p) ==
  /\ Held(p) \/ Starting(p)
  /\ IF missed[p] + 1 = FailureThreshold
       THEN Restart(p)
       ELSE /\ missed' = [missed EXCEPT ![p] = @ + 1]
            /\ UNCHANGED <<up, flags, job, unready, endpoint, requests>>
  /\ UNCHANGED bounds

ReadyAnswered_Always(p) ==
  /\ \E w \in ProcessesOf(p) : Free(w)
  /\ unready' = [unready EXCEPT ![p] = 0]
  /\ endpoint' = [endpoint EXCEPT ![p] = "in"]
  /\ UNCHANGED <<up, flags, job, missed, requests, bounds>>

\* GET /ready is answered with 200, by one of the processes.
ReadyAnswered(p) ==
  /\ \E w \in ProcessesOf(p) : Free(w) /\ ready[w]
  /\ unready' = [unready EXCEPT ![p] = 0]
  /\ endpoint' = [endpoint EXCEPT ![p] = "in"]
  /\ UNCHANGED <<up, flags, job, missed, requests, bounds>>

\* GET /ready is answered with 503, by a process that is not ready, or not in
\* time.
ReadyMissed(p) ==
  /\ endpoint[p] = "in"
  /\ Held(p) \/ Starting(p) \/ \E w \in ProcessesOf(p) : Free(w) /\ ~ready[w]
  /\ IF unready[p] + 1 = FailureThreshold
       THEN /\ unready' = [unready EXCEPT ![p] = 0]
            /\ endpoint' = [endpoint EXCEPT ![p] = "out"]
       ELSE /\ unready' = [unready EXCEPT ![p] = @ + 1]
            /\ UNCHANGED endpoint
  /\ UNCHANGED <<up, flags, job, missed, requests, bounds>>

\* The pod is evicted or runs out of memory.
Crash(p) ==
  /\ crashes < MaxCrashes
  /\ crashes' = crashes + 1
  /\ Restart(p)
  /\ UNCHANGED outages

\* watsonx.ai or watsonx.data goes away or comes back.
Outage(service) ==
  /\ outages < MaxOutages
  /\ outages' = outages + 1
  /\ up' = IF service \in up THEN up \ {service} ELSE up \union {service}
  /\ UNCHANGED <<flags, job, probes, requests, crashes>>

Next ==
  \/ \E w \in Processes : \/ ProbeWatsonx(w) \/ ProbeWxdata(w) \/ Finish(w)
                          \/ \E r \in Requests : Accept(w, r)
  \/ \E r \in Requests : Refuse(r) \/ GiveUp(r) \/ \E p \in Pods : Send(r, p)
  \/ \E p \in Pods : \/ HealthAnswered(p) \/ HealthMissed(p)
                     \/ ReadyAnswered(p) \/ ReadyMissed(p)
                     \/ Crash(p)
  \/ \E service \in {"watsonx.ai", "watsonx.data"} : Outage(service)

\* The second probe of the lifespan ends (its polls are numbered and its HTTP
\* calls have timeouts), and OpenShift goes on probing.  Whatever calls
\* watsonx.ai may hang, for generate_text sets no timeout: the first probe and
\* the handlers have no fairness here.
Fairness ==
  /\ \A w \in Processes : WF_vars(ProbeWxdata(w))
  /\ \A p \in Pods : WF_vars(ReadyAnswered(p))

Spec == Init /\ [][Next]_vars /\ Fairness

-----------------------------------------------------------------------------
(* Properties *)

TypeOK ==
  /\ up \subseteq {"watsonx.ai", "watsonx.data"}
  /\ phase \in [Processes -> {"watsonx.ai", "watsonx.data", "serving"}]
  /\ ready \in [Processes -> BOOLEAN]
  /\ reason \in [Processes -> {"starting", "watsonx_unreachable", "wxdata_unreachable", "ok"}]
  /\ \A w \in Processes : /\ ready[w] <=> reason[w] = "ok"
                          /\ ready[w] => phase[w] = "serving"
  /\ job \in [Processes -> Requests \union {None}]
  /\ missed \in [Pods -> 0..FailureThreshold - 1]
  /\ unready \in [Pods -> 0..FailureThreshold - 1]
  /\ endpoint \in [Pods -> {"never", "in", "out"}]
  /\ target \in [Requests -> Pods \union {None}]
  /\ fate \in [Requests -> {"unsent", "queued", "running", "done", "killed", "lost"}]
  /\ client \in [Requests -> {"idle", "waiting", "answered", "failed"}]
  /\ outages \in Nat /\ crashes \in Nat

\* gateway/main.py: the agents' own /ready probes govern their traffic.  A
\* request waits or is worked on only at a pod one of whose processes reached
\* watsonx.data when it started, though perhaps not the one that works on it.
WorkIsGated ==
  \A r \in Requests :
    fate[r] \in {"queued", "running"} =>
      \E w \in ProcessesOf(target[r]) : reason[w] = "ok"

\* All processes of the pod serve and none of them is ready.
Stuck(p) == \A w \in ProcessesOf(p) : phase[w] = "serving" /\ ~ready[w]

\* A pod that was started without watsonx.data stays out of service, whatever
\* can be reached later, until something other than the probes restarts it:
\* /health is answered, so OpenShift does not.
StuckForGood == [][\A p \in Pods : Stuck(p) => Stuck(p)' \/ crashes' # crashes]_vars

Handler ==
  [r \in Requests |-> IF fate[r] \in {"running", "done", "killed"} THEN fate[r] ELSE "none"]

Call == INSTANCE HandlerCall WITH handler <- Handler

\* A handler runs at most once, though its pod may be restarted under it, and
\* only one that ran to its end is answered.
KeepsCallContract == Call!Spec

\* Every call of watsonx.ai returns or raises in the end.
WatsonxReturns ==
  \A w \in Processes : WF_vars(ProbeWatsonx(w)) /\ WF_vars(Finish(w))

\* A liveness probe is missed because the lifespan is not through.
SlowStart(p) == HealthMissed(p) /\ Starting(p)

\* From some time on no start outlasts the liveness probes and nothing else
\* kills a pod.  The deployment does not see to that: a pod that starts for a
\* minute is killed, and the next start may take as long.
StartsInTime == <>[][\A p \in Pods : ~SlowStart(p) /\ ~Crash(p)]_vars

\* With watsonx.data in reach all the time, every pod is in service in the end,
\* whether or not watsonx.ai was in reach when it started and however busy its
\* loops were in between, provided that the calls of watsonx.ai end and that
\* the pod gets through its start in time.
InServiceInTheEnd ==
  WatsonxReturns /\ StartsInTime /\ []("watsonx.data" \in up)
    => \A p \in Pods : <>[](endpoint[p] = "in")
=============================================================================
