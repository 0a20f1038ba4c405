-------------------------- MODULE MC_RewriteEngine --------------------------
(***************************************************************************)
(* Model-checking instance of RewriteEngine.  The TRS is                   *)
(*     C = A | B;   F(x_) = J(x_ x_);   F(A) = B;   J(x_ x_) = D;          *)
(* with a two-clause rule, a non-linear LHS, and two rules that match the  *)
(* same terms F(A...).  The engine is called on every term of height at    *)
(* most 2 over J/2, F/1, A, C and the variable y.                          *)
(***************************************************************************)
EXTENDS RewriteEngine

CONSTANTS J, F, A, B, C, D, x, y

MC_Ops   == {J, F, A, B, C, D}
MC_Vars  == {x, y}
MC_Arity == (J :> 2) @@ (F :> 1) @@ [o \in {A, B, C, D} |-> 0]

K(o) == App(o, <<>>)

MC_TRSRules ==
    << [lhs |-> K(C),                      rhs |-> <<K(A), K(B)>>],
       [lhs |-> App(F, <<Var(x)>>),        rhs |-> <<App(J, <<Var(x), Var(x)>>)>>],
       [lhs |-> App(F, <<K(A)>>),          rhs |-> <<K(B)>>],
       [lhs |-> App(J, <<Var(x), Var(x)>>), rhs |-> <<K(D)>>] >>

MC_InputTerms == TermsUpTo({J, F, A, C}, {y}, 2)
\* The strategies a run calls the engine with.
MC_AllStrategies == Strategies
=============================================================================
