---------------------------- MODULE MCStatusView ----------------------------
(***************************************************************************)
(* Instances of StatusView for TLC.                                        *)
(***************************************************************************)
EXTENDS StatusView, TLC

Symmetric == Permutations(Workers) \cup Permutations(Redrives)
=============================================================================
