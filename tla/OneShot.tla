------------------------------ MODULE OneShot ------------------------------
(***************************************************************************)
(* What KPKIngCore.h promises of kp_forwarder_grant_pbproxy_bootstrap: a   *)
(* grant is good for exactly one tunnel, for a short time, and a newer     *)
(* grant replaces an older one.                                            *)
(***************************************************************************)
EXTENDS Naturals

CONSTANT Grants       \* the numbers of the grants

VARIABLES
  newest,  \* number of the latest grant
  live,    \* the grants that still open a tunnel
  opened   \* tunnels opened by each grant

oneShot == <<newest, live, opened>>

Init == newest = 0 /\ live = {} /\ opened = [g \in Grants |-> 0]

Grant ==
  /\ newest + 1 \in Grants
  /\ newest' = newest + 1
  /\ live' = {newest'}
  /\ UNCHANGED opened

Open(g) ==
  /\ g \in live
  /\ opened' = [opened EXCEPT ![g] = @ + 1]
  /\ live' = live \ {g}
  /\ UNCHANGED newest

\* Revoked, expired or cleared.
Drop == live # {} /\ live' = {} /\ UNCHANGED <<newest, opened>>

Next == Grant \/ (\E g \in Grants : Open(g)) \/ Drop

Spec == Init /\ [][Next]_oneShot
=============================================================================
