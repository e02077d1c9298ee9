------------------------------ MODULE MCSafety ------------------------------
(* Safety of the components that many threads or processes share: the       *)
(* forwarder's threads and registries, the permit of its cold start, the    *)
(* kill switch, the logs and the locks of the king card.  They have no      *)
(* variable in common, so one run checks them side by side: a behaviour is  *)
(* one of the component that `part` names.                                  *)
EXTENDS Forwarder, Bootstrap, Logs, Admission, KingLocks, TLC

VARIABLE part

MCInit ==
  /\ part \in {"forwarder", "permit", "logs", "admission", "locks"}
  /\ Init /\ BootstrapInit /\ LogInit /\ AdmissionInit /\ LocksInit

MCNext ==
  /\ \/ part = "forwarder" /\ Next
     \/ part # "forwarder" /\ UNCHANGED vars
  /\ \/ part = "permit" /\ BootstrapNext
     \/ part # "permit" /\ UNCHANGED bootstrapVars
  /\ \/ part = "logs" /\ LogNext
     \/ part # "logs" /\ UNCHANGED logVars
  /\ \/ part = "admission" /\ AdmissionNext
     \/ part # "admission" /\ UNCHANGED admissionVars
  /\ \/ part = "locks" /\ LocksNext
     \/ part # "locks" /\ UNCHANGED locksVars
  /\ UNCHANGED part

mcVars == <<vars, bootstrapVars, logVars, admissionVars, locksVars, part>>

MCSpec == MCInit /\ [][MCNext]_mcVars

\* Every variable of the first four keeps its type, and the counters that must agree
\* with each other do.
SharedTypesOK == TypeOK /\ BootstrapTypeOK /\ AdmissionTypeOK /\ LogTypeOK

Symmetry == Permutations(FDs) \cup Permutations(Workers)
=============================================================================
