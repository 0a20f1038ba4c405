------------------------------ MODULE MC_PSub ------------------------------
(***************************************************************************)
(* p_sub's Bounded arm for every low, high, n_x and n_y in 0..4 and both   *)
(* builds: enough for n_x at either end of [low, high], in its lower and  *)
(* upper half, outside it, and low = high.                                 *)
(***************************************************************************)
EXTENDS PSub

CONSTANTS NaN

MC_Builds == {"debug", "release"}
=============================================================================
