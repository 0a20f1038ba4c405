------------------------------- MODULE Terms -------------------------------
(***************************************************************************)
(* First-order terms, substitution and matching.  Term, Term::substitute, *)
(* Term::replace and Term::pmatch live in term.rs, which is not under     *)
(* src/; they are modelled from the spec (sections 3, 4.2 and 4.3).       *)
(*                                                                         *)
(* A term is a record [sym, args]: sym is an operator of Ops or a          *)
(* variable of Vars, args the ordered argument list (empty for a          *)
(* variable).  Operator and variable identity is equality of model        *)
(* values, as it is equality of (signature, id) handles in atom.rs.       *)
(***************************************************************************)
EXTENDS Naturals, Sequences, SequencesExt, TLC

CONSTANTS
    Ops,     \* operators of the signature
    Vars,    \* variables of the signature
    Arity    \* Arity[o]: the arity fixed by Signature::new_op

ASSUME Ops \cap Vars = {} /\ Arity \in [Ops -> Nat]

App(o, as) == [sym |-> o, args |-> as]
Var(v)     == [sym |-> v, args |-> <<>>]
IsVar(t)   == t.sym \in Vars

\* A term is well-formed when every application has as many arguments as
\* its operator's arity (section 3).
RECURSIVE WellFormed(_)
WellFormed(t) ==
    IF IsVar(t) THEN t.args = <<>>
    ELSE /\ Len(t.args) = Arity[t.sym]
         /\ \A i \in DOMAIN t.args : WellFormed(t.args[i])

\* The well-formed terms over operators os and variables vs of height at
\* most d.
RECURSIVE TermsUpTo(_, _, _)
TermsUpTo(os, vs, d) ==
    LET leaves == {Var(v) : v \in vs} \cup {App(o, <<>>) : o \in {p \in os : Arity[p] = 0}}
    IN  IF d = 0 THEN leaves
        ELSE LET below == TermsUpTo(os, vs, d - 1)
             IN  leaves \cup UNION {{App(o, as) : as \in [1..Arity[o] -> below]} :
                                    o \in {p \in os : Arity[p] > 0}}

RECURSIVE VarsOf(_)
VarsOf(t) ==
    IF IsVar(t) THEN {t.sym}
    ELSE UNION {VarsOf(t.args[i]) : i \in DOMAIN t.args}

\* Term::substitute: replace each mapped variable by its image.
RECURSIVE Substitute(_, _)
Substitute(t, sub) ==
    IF IsVar(t)
    THEN IF t.sym \in DOMAIN sub THEN sub[t.sym] ELSE t
    ELSE [t EXCEPT !.args = [i \in DOMAIN t.args |-> Substitute(t.args[i], sub)]]

\* Term::replace(&[i], s) for a path of length one (the 0-based child i).
ReplaceArg(t, i, s) == [t EXCEPT !.args[i + 1] = s]

\* Term::pmatch on a work list of (pattern, term) pairs: only variables of
\* the patterns bind, the terms are rigid, a variable already bound must
\* meet the term it is bound to again.  The result is [ok, sub].
RECURSIVE MatchPairs(_, _)
MatchPairs(pairs, sub) ==
    IF pairs = <<>> THEN [ok |-> TRUE, sub |-> sub]
    ELSE LET p == Head(pairs)[1]
             t == Head(pairs)[2]
         IN  CASE IsVar(p) /\ p.sym \in DOMAIN sub ->
                    IF sub[p.sym] = t THEN MatchPairs(Tail(pairs), sub)
                    ELSE [ok |-> FALSE, sub |-> sub]
               [] IsVar(p) -> MatchPairs(Tail(pairs), sub @@ (p.sym :> t))
               [] ~IsVar(t) /\ p.sym = t.sym ->
                    MatchPairs(Zip(p.args, t.args) \o Tail(pairs), sub)
               [] OTHER -> [ok |-> FALSE, sub |-> sub]

PMatch(p, t) == MatchPairs(<<<<p, t>>>>, <<>>)

=============================================================================
