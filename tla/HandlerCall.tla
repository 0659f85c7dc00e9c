----------------------------- MODULE HandlerCall -----------------------------
(***************************************************************************)
(* What the sender of a request to an agent may rely on.  Its handler runs *)
(* at most once, and an answer says that it ran to its end.  A failure     *)
(* says nothing: the handler may never run, go on, begin only afterwards,  *)
(* or be killed at any point.  AgentPods implements this.                  *)
(***************************************************************************)
CONSTANT Requests

VARIABLES
  client,   \* what the sender of each request knows
  handler   \* what became of the request

vars == <<client, handler>>

Init ==
  /\ client = [r \in Requests |-> "idle"]
  /\ handler = [r \in Requests |-> "none"]

Send(r) ==
  /\ client[r] = "idle"
  /\ client' = [client EXCEPT ![r] = "waiting"]
  /\ UNCHANGED handler

\* The handler does not know whether anybody still waits for it.
Start(r) ==
  /\ client[r] # "idle" /\ handler[r] = "none"
  /\ handler' = [handler EXCEPT ![r] = "running"]
  /\ UNCHANGED client

Finish(r) ==
  /\ handler[r] = "running"
  /\ handler' = [handler EXCEPT ![r] = "done"]
  /\ client' = [client EXCEPT ![r] = IF @ = "waiting" THEN "answered" ELSE @]

\* Refused, timed out or cut off.
Fail(r) ==
  /\ client[r] \in {"idle", "waiting"}
  /\ client' = [client EXCEPT ![r] = "failed"]
  /\ UNCHANGED handler

\* A restart kills handlers and cuts off senders, of the same requests or not.
Kill(handlers, senders) ==
  /\ \A r \in handlers : handler[r] = "running"
  /\ \A r \in senders : client[r] = "waiting"
  /\ handler' = [r \in Requests |-> IF r \in handlers THEN "killed" ELSE handler[r]]
  /\ client' = [r \in Requests |-> IF r \in senders THEN "failed" ELSE client[r]]

Next ==
  \/ \E r \in Requests : Send(r) \/ Start(r) \/ Finish(r) \/ Fail(r)
  \/ \E handlers, senders \in SUBSET Requests : Kill(handlers, senders)

Spec == Init /\ [][Next]_vars
=============================================================================
