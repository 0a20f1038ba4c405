------------------------- MODULE MC_StringRewrite --------------------------
(***************************************************************************)
(* Strategy::String on a signature with "." (Dot), the constants A, B, C, *)
(* the unary F and the variables x, y.  The rules, written as strings:     *)
(*   A x_ B = C        a variable between two operators                   *)
(*   x_ B x_ = x_      a non-linear pattern whose RHS can be empty         *)
(*   x_ B = x_ A       a variable that may match the empty prefix          *)
(***************************************************************************)
EXTENDS StringRewrite

CONSTANTS D_, A, B, C, F, x, y

MC_Ops   == {D_, A, B, C, F}
MC_Vars  == {x, y}
MC_Arity == (D_ :> 2) @@ (F :> 1) @@ [o \in {A, B, C} |-> 0]

\* The left-nested "." term of a string of atoms.
Str(s) == ConvertToTerm(s).v

MC_TRSRules ==
    << [lhs |-> Str(<<A, x, B>>), rhs |-> <<Str(<<C>>)>>],
       [lhs |-> Str(<<x, B, x>>), rhs |-> <<Var(x)>>],
       [lhs |-> Str(<<x, B>>),    rhs |-> <<Str(<<x, A>>)>>] >>

\* Every term over ".", A, B, C, F and y of height at most 2: strings of up
\* to four atoms nested either way, and terms with no string (F).
MC_InputTerms == TermsUpTo({D_, A, B, C, F}, {y}, 2)
=============================================================================
