-------------------------------- MODULE MCLive -------------------------------
(* Termination in the forwarder, and the settings applied again when the    *)
(* app returns or the network changes.  The two have no variable in common  *)
(* and run side by side: a behaviour is one of the component that `part`    *)
(* names, and in the other no step that fairness asks for is enabled.       *)
EXTENDS Forwarder, Foreground

VARIABLE part

MCInit == part \in {"forwarder", "foreground"} /\ Init /\ ForegroundInit

MCNext ==
  /\ \/ part = "forwarder" /\ Next
     \/ part # "forwarder" /\ UNCHANGED vars
  /\ \/ part = "foreground" /\ ForegroundNext
     \/ part # "foreground" /\ UNCHANGED foregroundVars
  /\ UNCHANGED part

MCSpec == MCInit /\ [][MCNext]_<<vars, foregroundVars, part>>

MCFair == MCSpec /\ Fairness /\ ForegroundFairness
=============================================================================
