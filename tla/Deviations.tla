----------------------------- MODULE Deviations -----------------------------
(***************************************************************************)
(* Which resources of a server an audit names in its findings, given what  *)
(* the collector could read.  ComplianceScan audits a server in one step   *)
(* with this operator; ServerAudit runs the commands one by one, compares  *)
(* single permissions, rights and members, and is checked against it.      *)
(***************************************************************************)
CONSTANTS
  Resources,  \* folders, shares, local groups and services of a server
  Kind        \* "folder", "share", "group" or "service" of a resource

Kinds == {"folder", "share", "group", "service"}

ASSUME KindAssumption == Kind \in [Resources -> Kinds]

\* A share that was not listed is reported if it is approved, as not found;
\* so are the permissions of a folder and a service, but only what is approved
\* is compared at all; a group that was not listed has no members too many.
Reported(approved, deviating, read) ==
  {x \in Resources :
     \/ Kind[x] = "share" /\ x \in (IF x \in read THEN deviating ELSE approved)
     \/ /\ Kind[x] \in {"folder", "service"} /\ x \in approved
        /\ x \in read => x \in deviating
     \/ Kind[x] = "group" /\ x \in approved \intersect read \intersect deviating}
=============================================================================
