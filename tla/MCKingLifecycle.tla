-------------------------- MODULE MCKingLifecycle --------------------------
(* A small instance of KingLifecycle for TLC.                              *)
EXTENDS KingLifecycle, TLC

Symmetry == Permutations(Forwarders)
=============================================================================
