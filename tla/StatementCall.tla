--------------------------- MODULE StatementCall ---------------------------
(***************************************************************************)
(* What shared/wxdata_client promises its callers about one SQL statement: *)
(* a call that returns has had its effect exactly once, a call that raises *)
(* may have its effect before or after it raised or never, and every call  *)
(* returns or raises.                                                      *)
(***************************************************************************)
CONSTANT Statements

VARIABLES
  call,    \* "idle", "running", "returned" or "raised"
  applied  \* statements that took effect

vars == <<call, applied>>

Init ==
  /\ call = [q \in Statements |-> "idle"]
  /\ applied = {}

Invoke(q) ==
  /\ call[q] = "idle"
  /\ call' = [call EXCEPT ![q] = "running"]
  /\ UNCHANGED applied

Apply(q) ==
  /\ call[q] \in {"running", "raised"} /\ q \notin applied
  /\ applied' = applied \union {q}
  /\ UNCHANGED call

ReturnRows(q) ==
  /\ call[q] = "running" /\ q \in applied
  /\ call' = [call EXCEPT ![q] = "returned"]
  /\ UNCHANGED applied

RaiseError(q) ==
  /\ call[q] \in {"idle", "running"}
  /\ call' = [call EXCEPT ![q] = "raised"]
  /\ UNCHANGED applied

Next == \E q \in Statements : Invoke(q) \/ Apply(q) \/ ReturnRows(q) \/ RaiseError(q)

Spec == Init /\ [][Next]_vars

\* Every call that was begun returns or raises, whatever Presto does.
EveryCallEnds ==
  \A q \in Statements : call[q] = "running" ~> call[q] \in {"returned", "raised"}
=============================================================================
