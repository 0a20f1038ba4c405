---------------------------- MODULE MC_PString -----------------------------
(***************************************************************************)
(* PString over the atoms a and b: every pair of strings of length at most *)
(* 3, every t_max and d_max in 0..3.  The weights are pairwise distinct    *)
(* and not products of each other, so two sums of products that differ in *)
(* what they read differ in value.                                         *)
(***************************************************************************)
EXTENDS PString

CONSTANTS a, b

MC_Strings   == BoundedSeq({a, b}, 3)
MC_MaxCounts == 0..3
MC_SubWeight(u, v) == IF u = v THEN 5 ELSE 7
=============================================================================
