--------------------------- MODULE StringRewrite ---------------------------
(***************************************************************************)
(* Strategy::String (src/src/types/trs.rs): TRSRewrites::new calls         *)
(* rewrite_as_string, which flattens the term and every rule into strings *)
(* of atoms, matches each rule's LHS string against the term's string over *)
(* every split gen_breaks proposes, and turns each instantiated RHS string *)
(* back into a left-nested "." term.  A None anywhere (the ? operators)   *)
(* ends the call with no rewrites at all.                                  *)
(*                                                                         *)
(* An atom is the model value of its symbol: an operator of Ops or a       *)
(* variable of Vars.  Dot is the binary operator named ".".                *)
(***************************************************************************)
EXTENDS Terms

CONSTANTS
    Dot,         \* the operator of arity 2 named "."
    TRSRules,    \* TRS.rules: a sequence of [lhs, rhs] with rhs a sequence
    InputTerms   \* the terms the engine is called on

ASSUME Dot \in Ops /\ Arity[Dot] = 2

\* A result of a conversion that may fail: Option<T> of the code.
Some(v) == [ok |-> TRUE, v |-> v]
None    == [ok |-> FALSE, v |-> <<>>]

(***************************************************************************)
(* Term <-> string conversion.                                             *)
(***************************************************************************)

\* The atoms a string can hold: variables and nullary operators.
Atoms == Vars \cup {o \in Ops : Arity[o] = 0}

\* The term of one atom, as convert_to_term builds it.
Leaf(a) == IF a \in Vars THEN Var(a) ELSE App(a, <<>>)

\* Mutant: the right subterm's string is put before the left one's.
RECURSIVE ConvertTermToStringRightFirst(_)
ConvertTermToStringRightFirst(t) ==
    CASE IsVar(t)          -> Some(<<t.sym>>)
      [] Arity[t.sym] = 0  -> Some(<<t.sym>>)
      [] t.sym = Dot       -> LET l == ConvertTermToStringRightFirst(t.args[1])
                                  r == ConvertTermToStringRightFirst(t.args[2])
                              IN  IF l.ok /\ r.ok THEN Some(r.v \o l.v) ELSE None
      [] OTHER             -> None

\* convert_term_to_string: a variable or a nullary application is one atom,
\* a "." application the left string followed by the right one; any other
\* application has no string.
RECURSIVE ConvertTermToString(_)
ConvertTermToString(t) ==
    CASE IsVar(t)          -> Some(<<t.sym>>)
      [] Arity[t.sym] = 0  -> Some(<<t.sym>>)
      [] t.sym = Dot       -> LET l == ConvertTermToString(t.args[1])
                                  r == ConvertTermToString(t.args[2])
                              IN  IF l.ok /\ r.ok THEN Some(l.v \o r.v) ELSE None
      [] OTHER             -> None

\* convert_rule_to_strings: the LHS string and the RHS strings, or None if
\* any of them has no string.
RuleToStrings(rule) ==
    LET lhs == ConvertTermToString(rule.lhs)
        rhs == [k \in DOMAIN rule.rhs |-> ConvertTermToString(rule.rhs[k])]
    IN  IF lhs.ok /\ \A k \in DOMAIN rhs : rhs[k].ok
        THEN Some([lhs |-> lhs.v, rhs |-> [k \in DOMAIN rhs |-> rhs[k].v]])
        ELSE None

\* convert_to_term: the first atom, then each later atom joined on with the
\* "." operator, nesting to the left; an empty string has no term.
ConvertToTerm(s) ==
    IF s = <<>> THEN None
    ELSE Some(FoldLeft(LAMBDA acc, a : App(Dot, <<acc, Leaf(a)>>), Leaf(s[1]), Tail(s)))

(***************************************************************************)
(* Matching a pattern string against a string.                             *)
(***************************************************************************)

\* (lo..hi).combinations(k) of itertools: the strictly increasing k-tuples
\* over lo..hi, in lexicographic order.
RECURSIVE Combinations(_, _, _)
Combinations(lo, hi, k) ==
    IF k = 0 THEN << <<>> >>
    ELSE IF lo > hi THEN <<>>
    ELSE LET with == Combinations(lo + 1, hi, k - 1)
         IN  [i \in DOMAIN with |-> <<lo>> \o with[i]] \o Combinations(lo + 1, hi, k)

\* valid_option: every operator of the pattern gets a segment of length 1.
ValidOption(pattern, breaks) ==
    \A i \in DOMAIN pattern :
        pattern[i] \in Ops => breaks[i + 1] - breaks[i] = 1

\* gen_breaks: 0, a (|pattern| - 1)-combination of 0..n, then n; only the
\* valid options are kept.
GenBreaks(pattern, n) ==
    LET cs == Combinations(0, n, Len(pattern) - 1)
    IN  SelectSeq([i \in DOMAIN cs |-> <<0>> \o cs[i] \o <<n>>],
                  LAMBDA b : ValidOption(pattern, b))

\* The segment of string that break i assigns to the i-th pattern atom.
Segment(string, breaks, i) == SubSeq(string, breaks[i] + 1, breaks[i + 1])

\* Mutant: a variable met again is not compared with its first segment.
MatchPatternLinear(pattern, breaks, string) ==
    LET step(m, i) ==
          LET a == pattern[i]  seg == Segment(string, breaks, i)
          IN  CASE ~m.ok                          -> m
                [] a \in Ops /\ seg # <<a>>       -> None
                [] a \in Vars /\ a \notin DOMAIN m.v -> Some(m.v @@ (a :> seg))
                [] OTHER                          -> m
    IN  FoldLeft(step, Some(<<>>), [i \in DOMAIN pattern |-> i])

\* match_pattern: walk the pattern; a variable already bound must meet the
\* same segment again, an operator must be its own segment, and a variable
\* is bound to its segment on its first occurrence.
MatchPattern(pattern, breaks, string) ==
    LET step(m, i) ==
          LET a == pattern[i]  seg == Segment(string, breaks, i)
          IN  CASE ~m.ok                                -> m
                [] a \in Vars /\ a \in DOMAIN m.v /\ m.v[a] # seg -> None
                [] a \in Ops /\ seg # <<a>>             -> None
                [] a \in Vars /\ a \notin DOMAIN m.v    -> Some(m.v @@ (a :> seg))
                [] OTHER                                -> m
    IN  FoldLeft(step, Some(<<>>), [i \in DOMAIN pattern |-> i])

\* substitute_pattern: each bound variable becomes its segment, each
\* operator stays; an unbound variable makes it None.
SubstitutePattern(pattern, matches) ==
    LET step(r, a) ==
          CASE ~r.ok                             -> r
            [] a \in Vars /\ a \in DOMAIN matches -> Some(r.v \o matches[a])
            [] a \in Ops                         -> Some(Append(r.v, a))
            [] OTHER                             -> None
    IN  FoldLeft(step, Some(<<>>), pattern)

\* The body of rewrite_as_string's loop for one rule: Some(the new terms),
\* or None when one of its ? operators returns early.
RuleStringRewrites(rule, string) ==
    LET p       == RuleToStrings(rule)
        bs      == GenBreaks(p.v.lhs, Len(string))
        ms      == SelectSeq([i \in DOMAIN bs |-> MatchPattern(p.v.lhs, bs[i], string)],
                             LAMBDA m : m.ok)
        strs    == FlattenSeq([i \in DOMAIN ms |->
                       [k \in DOMAIN p.v.rhs |-> SubstitutePattern(p.v.rhs[k], ms[i].v)]])
        terms   == [i \in DOMAIN strs |-> ConvertToTerm(strs[i].v)]
    IN  IF ~p.ok THEN None
        ELSE IF \E i \in DOMAIN strs : ~strs[i].ok THEN None
        ELSE IF \E i \in DOMAIN terms : ~terms[i].ok THEN None
        ELSE Some([i \in DOMAIN terms |-> terms[i].v])

(***************************************************************************)
(* One call of TRS::rewrite with Strategy::String.                         *)
(***************************************************************************)
VARIABLES
    term,     \* the term the engine was called on
    pc,       \* "convert", "rules", "next", "done"
    ri,       \* the index of the next rule of the loop
    acc,      \* rewrite_as_string's vector of rewrites so far
    status,   \* rewrite_as_string's result: "pending", "Some" or "None"
    it,       \* the rewrites the iterator still has to yield
    out       \* the terms yielded so far

vars == <<term, pc, ri, acc, status, it, out>>

\* The string of the term (meaningful once ConvertTerm succeeded).
String == ConvertTermToString(term).v

Init ==
    /\ term \in InputTerms
    /\ pc = "convert"
    /\ ri = 1
    /\ acc = <<>>
    /\ status = "pending"
    /\ it = <<>>
    /\ out = <<>>

\* Returning None: TRSRewrites::new turns it into an empty iterator.
ReturnNone ==
    /\ status' = "None" /\ it' = <<>> /\ pc' = "next"

\* The first line of rewrite_as_string: the term's string, or None.
ConvertTerm ==
    /\ pc = "convert"
    /\ IF ConvertTermToString(term).ok
       THEN pc' = "rules" /\ UNCHANGED <<status, it>>
       ELSE ReturnNone
    /\ UNCHANGED <<term, ri, acc, out>>

\* One iteration of the loop over self.rules.
RuleStep ==
    /\ pc = "rules"
    /\ ri <= Len(TRSRules)
    /\ LET r == RuleStringRewrites(TRSRules[ri], String)
       IN  IF r.ok
           THEN acc' = acc \o r.v /\ ri' = ri + 1 /\ UNCHANGED <<pc, status, it>>
           ELSE ReturnNone /\ UNCHANGED <<ri, acc>>
    /\ UNCHANGED <<term, out>>

\* The loop is over: Some(rewrites) becomes the iterator's vector.
RulesDone ==
    /\ pc = "rules"
    /\ ri > Len(TRSRules)
    /\ status' = "Some" /\ it' = acc /\ pc' = "next"
    /\ UNCHANGED <<term, ri, acc, out>>

\* TRSRewrites::next yields the next buffered term.
Yield ==
    /\ pc = "next"
    /\ it # <<>>
    /\ out' = Append(out, Head(it)) /\ it' = Tail(it)
    /\ UNCHANGED <<term, pc, ri, acc, status>>

\* TRSRewrites::next returns None.
Exhausted ==
    /\ pc = "next"
    /\ it = <<>>
    /\ pc' = "done"
    /\ UNCHANGED <<term, ri, acc, status, it, out>>

Next == ConvertTerm \/ RuleStep \/ RulesDone \/ Yield \/ Exhausted

Spec == Init /\ [][Next]_vars

(***************************************************************************)
(* String rewriting as spec section 4.7 defines it: a rule rewrites the   *)
(* string s to r(sigma) for every assignment sigma of strings (the empty   *)
(* one included) to the LHS's variables with l(sigma) = s.                *)
(***************************************************************************)

\* The string of pattern p with every variable replaced by its image.
Instantiate(p, sigma) ==
    FlattenSeq([i \in DOMAIN p |-> IF p[i] \in Vars THEN sigma[p[i]] ELSE <<p[i]>>])

\* The RHS strings rule rewrites s to (a rule with no string rewrites none).
SpecStringRewrites(rule, s) ==
    LET p == RuleToStrings(rule)
    IN  IF ~p.ok THEN {}
        ELSE { Instantiate(p.v.rhs[k], sigma) :
                 k \in DOMAIN p.v.rhs,
                 sigma \in { f \in [ToSet(p.v.lhs) \cap Vars -> SubSeqs(s)] :
                               Instantiate(p.v.lhs, f) = s } }

\* The strings of the terms yielded so far.
OutStrings == { ConvertTermToString(out[k]).v : k \in DOMAIN out }

(***************************************************************************)
(* Properties.                                                             *)
(***************************************************************************)

\* Every term String yields is a rewrite of the term's string by some rule:
\* a repeated pattern variable (a non-linear LHS) matched in gen_breaks'
\* splits must stand for equal segments.
StringRewritesSound ==
    pc = "done" =>
        OutStrings \subseteq UNION { SpecStringRewrites(TRSRules[r], String) : r \in DOMAIN TRSRules }

\* convert_term_to_string undoes convert_to_term on the string of every
\* input term (spec section 8, round-trips): the left-nested term that
\* rewrite_as_string builds has the string it was built from.
ConversionRoundTrip ==
    ConvertTermToString(term).ok =>
        ConvertTermToString(ConvertToTerm(String).v) = Some(String)

\* String yields every rewrite spec 4.7 describes, for every rule in TRS
\* order (4.6), whatever the other rules do: variables may match any
\* segment, the empty one included.  (An empty RHS string has no term.)
StringYieldsSpecRewrites ==
    pc = "done" /\ ConvertTermToString(term).ok =>
        \A r \in DOMAIN TRSRules :
            SpecStringRewrites(TRSRules[r], String) \ {<<>>} \subseteq OutStrings

=============================================================================
