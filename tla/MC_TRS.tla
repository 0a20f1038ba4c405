------------------------------- MODULE MC_TRS -------------------------------
(* Model-checking instance of TRS: three LHS classes, two clause classes. *)
EXTENDS TRS, TLC

CONSTANTS l1, l2, l3, c1, c2

MC_Lhs == {l1, l2, l3}
MC_Rhs == {c1, c2}

\* LHS classes and clause classes are interchangeable.
Symmetry == Permutations(MC_Lhs) \cup Permutations(MC_Rhs)
=============================================================================
