------------------------------ MODULE Lifetime ------------------------------
(***************************************************************************)
(* What the stop/free protocol of KPKIngCore.h promises, without threads,  *)
(* locks or descriptors: a resource that users enter and leave.  The       *)
(* comments on kp_forwarder_stop and kp_forwarder_free state it: free only *)
(* when every user has left, otherwise leak, and never let a user in after *)
(* closing.                                                                *)
(***************************************************************************)
CONSTANT Users

VARIABLES
  phase,  \* "fresh", "open", "closing", then "freed" or "leaked"
  users   \* those inside

life == <<phase, users>>

Init == phase = "fresh" /\ users = {}

Open  == phase = "fresh" /\ phase' = "open" /\ UNCHANGED users
Close == phase = "open" /\ phase' = "closing" /\ UNCHANGED users

Enter(u) == phase = "open" /\ u \notin users /\ users' = users \cup {u} /\ UNCHANGED phase
Leave(u) == phase # "freed" /\ u \in users /\ users' = users \ {u} /\ UNCHANGED phase

Release == phase = "closing" /\ users = {} /\ phase' = "freed" /\ UNCHANGED users
Abandon == phase = "closing" /\ phase' = "leaked" /\ UNCHANGED users

Next ==
  \/ Open
  \/ Close
  \/ \E u \in Users : Enter(u) \/ Leave(u)
  \/ Release
  \/ Abandon

Spec == Init /\ [][Next]_life
=============================================================================
