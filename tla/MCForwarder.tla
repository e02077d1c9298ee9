----------------------------- MODULE MCForwarder -----------------------------
(* Small instances of Forwarder for TLC.                                   *)
EXTENDS Forwarder, TLC

Symmetry == Permutations(FDs) \cup Permutations(Workers)
=============================================================================
