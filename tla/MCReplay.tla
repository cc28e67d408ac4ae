------------------------------ MODULE MCReplay ------------------------------
(***************************************************************************)
(* An instance of Replay for TLC: six events, three with one created_at   *)
(* that a page boundary falls into, one outside of the range and one with  *)
(* another source.                                                         *)
(***************************************************************************)
EXTENDS Replay, TLC

Times == 1 :> 3 @@ 2 :> 3 @@ 3 :> 3 @@ 4 :> 2 @@ 5 :> 5 @@ 6 :> 3
=============================================================================
