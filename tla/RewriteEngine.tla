--------------------------- MODULE RewriteEngine ---------------------------
(***************************************************************************)
(* TRS::rewrite (src/src/types/trs.rs): one call of the rewrite engine on *)
(* a term under the strategies Normal, Eager and All.                      *)
(*                                                                         *)
(* TRSRewrites::new computes the Eager and All successors into a buffered *)
(* vector (rewrite_args, rewrite_head, rewrite_all), which is one step     *)
(* here.  For Normal it runs Normal::new, whose search for the leftmost-   *)
(* outermost redex is a loop over an explicit stack of (operator,         *)
(* argument index, argument slice) frames; each iteration of that loop is *)
(* one step.  Each call of the iterator's next() is one step: for Normal  *)
(* it folds the found rewrite back up through the stack.                  *)
(***************************************************************************)
EXTENDS Terms

CONSTANTS
    TRSRules,    \* TRS.rules: a sequence of [lhs, rhs] with rhs a sequence
    InputTerms,  \* the terms the engine is called on
    Called       \* the strategies it is called with

Normal == "Normal"
Eager  == "Eager"
All    == "All"
Strategies == {Normal, Eager, All}

ASSUME Called \subseteq Strategies

(***************************************************************************)
(* The buffered strategies, as the recursive functions of trs.rs.         *)
(***************************************************************************)

\* Rule::rewrite (rule.rs, from spec section 4.4): the instantiated clauses
\* of rule when its LHS matches t, in clause order; empty otherwise.
RuleRewrite(rule, t) ==
    LET m == PMatch(rule.lhs, t)
    IN  IF m.ok THEN [k \in DOMAIN rule.rhs |-> Substitute(rule.rhs[k], m.sub)]
        ELSE <<>>

\* The first rule, in TRS order, with a non-empty rewrite of t (0: none).
FirstRuleFor(t) == SelectInSeq(TRSRules, LAMBDA r : RuleRewrite(r, t) # <<>>)

\* rewrite_head: every clause of the first rule that matches the whole term.
RewriteHead(t) ==
    LET r == FirstRuleFor(t)
    IN  IF r = 0 THEN <<>> ELSE RuleRewrite(TRSRules[r], t)

\* Each rewrite rs of the 0-based argument i of t, put back in place.
InPlace(t, i, rs) == [k \in DOMAIN rs |-> ReplaceArg(t, i, rs[k])]

\* rewrite_args (called with the Eager strategy) and the Eager arm of
\* TRSRewrites::new: the rewrites of the first argument that has any, each
\* put back in place; failing that, rewrite_head.
RECURSIVE EagerRewrites(_)
RewriteArgs(t) ==
    LET rs == [i \in DOMAIN t.args |-> EagerRewrites(t.args[i])]
        i  == SelectInSeq(rs, LAMBDA r : r # <<>>)
    IN  IF i = 0 THEN <<>> ELSE InPlace(t, i - 1, rs[i])
EagerRewrites(t) ==
    LET args == RewriteArgs(t)
    IN  IF args # <<>> THEN args ELSE RewriteHead(t)

RECURSIVE RewriteAll(_)

\* Mutant: rewrite_all without the head rewrites.
RewriteAllWithoutHead(t) ==
    IF IsVar(t) THEN <<>>
    ELSE FlattenSeq([i \in DOMAIN t.args |-> InPlace(t, i - 1, RewriteAll(t.args[i]))])

\* rewrite_all: the head rewrites, then for each argument in order every
\* one of its rewrite_all results put back in place.
RewriteAll(t) ==
    IF IsVar(t) THEN <<>>
    ELSE RewriteHead(t) \o
         FlattenSeq([i \in DOMAIN t.args |-> InPlace(t, i - 1, RewriteAll(t.args[i]))])

(***************************************************************************)
(* The state of one call.                                                  *)
(***************************************************************************)
VARIABLES
    term,      \* the term the engine was called on
    strategy,  \* the strategy it was called with
    pc,        \* "new", "search" (Normal's loop), "next", "done", "panic"
    stack,     \* Normal's frame stack, bottom first
    it,        \* the rewrites the iterator still has to yield
    out        \* the terms yielded so far

vars == <<term, strategy, pc, stack, it, out>>

Frame(op, arg, args) == [op |-> op, arg |-> arg, args |-> args]

Init ==
    /\ term \in InputTerms
    /\ strategy \in Called
    /\ pc = "new"
    /\ stack = <<>>
    /\ it = <<>>
    /\ out = <<>>

\* The vector TRSRewrites::new buffers for each input term and strategy.
Buffered == [t \in InputTerms |-> [s \in {Eager, All} |->
                IF s = Eager THEN EagerRewrites(t) ELSE RewriteAll(t)]]

\* TRSRewrites::new for Eager and All: the whole vector is computed at once.
NewBuffered ==
    /\ pc = "new"
    /\ strategy \in {Eager, All}
    /\ it' = Buffered[term][strategy]
    /\ pc' = "next"
    /\ UNCHANGED <<term, strategy, stack, out>>

\* Normal::new, up to its loop: try every rule at the head; if none has a
\* rewrite, start the loop with the frame (op, 0, args) of the whole term.
NormalHead ==
    /\ pc = "new"
    /\ strategy = Normal
    /\ CASE IsVar(term) ->
              pc' = "next" /\ UNCHANGED <<stack, it>>
         [] FirstRuleFor(term) # 0 ->
              /\ it' = RuleRewrite(TRSRules[FirstRuleFor(term)], term)
              /\ pc' = "next" /\ UNCHANGED stack
         [] OTHER ->
              /\ stack' = <<Frame(term.sym, 0, term.args)>>
              /\ pc' = "search" /\ UNCHANGED it
    /\ UNCHANGED <<term, strategy, out>>

\* Mutant: the sibling frame keeps the index it was popped with.
PushedFramesRepeating(f, sub) ==
    (IF f.arg + 1 < Len(f.args) THEN <<Frame(f.op, f.arg, f.args)>> ELSE <<>>)
    \o (IF sub.args # <<>> THEN <<Frame(sub.sym, 0, sub.args)>> ELSE <<>>)

\* The frames pushed after args[arg] of frame f, an application no rule
\* rewrites: the next sibling's (if any), then its first child's (if any).
PushedFrames(f, sub) ==
    (IF f.arg + 1 < Len(f.args) THEN <<Frame(f.op, f.arg + 1, f.args)>> ELSE <<>>)
    \o (IF sub.args # <<>> THEN <<Frame(sub.sym, 0, sub.args)>> ELSE <<>>)

\* One iteration of Normal::new's while-let loop: pop a frame and look at
\* args[arg].  Indexing past the slice panics.  A variable is passed over.
\* An application some rule rewrites ends the search with the popped frame
\* pushed back and the stack reversed.  Otherwise the frame for the next
\* sibling (if any) is pushed, then the frame for the first child (if any).
NormalStep ==
    /\ pc = "search"
    /\ stack # <<>>
    /\ LET f    == Last(stack)
           rest == Front(stack)
       IN  IF f.arg >= Len(f.args)
           THEN pc' = "panic" /\ UNCHANGED <<stack, it>>
           ELSE LET sub == f.args[f.arg + 1]
                IN  CASE IsVar(sub) ->
                           stack' = rest /\ UNCHANGED <<pc, it>>
                      [] FirstRuleFor(sub) # 0 ->
                           /\ stack' = Reverse(Append(rest, f))
                           /\ it' = RuleRewrite(TRSRules[FirstRuleFor(sub)], sub)
                           /\ pc' = "next"
                      [] OTHER ->
                           stack' = rest \o PushedFrames(f, sub) /\ UNCHANGED <<pc, it>>
    /\ UNCHANGED <<term, strategy, out>>

\* The loop ran out of frames: NormalKind::None.
NormalNone ==
    /\ pc = "search"
    /\ stack = <<>>
    /\ pc' = "next"
    /\ UNCHANGED <<term, strategy, stack, it, out>>

\* Mutant: the fold keeps the replaced argument as well (args[arg..]).
FoldStackKeepingArg(s, t) ==
    FoldLeft(LAMBDA acc, f : App(f.op, SubSeq(f.args, 1, f.arg) \o <<acc>>
                                       \o SubSeq(f.args, f.arg + 1, Len(f.args))), t, s)

\* Normal's next() for a subterm redex: fold the rewritten subterm through
\* the (reversed) stack, each frame putting it at its index among its args.
FoldStack(s, t) ==
    FoldLeft(LAMBDA acc, f : App(f.op, [f.args EXCEPT ![f.arg + 1] = acc]), t, s)

\* TRSRewrites::next yields one more term.
Yield ==
    /\ pc = "next"
    /\ it # <<>>
    /\ out' = Append(out, FoldStack(stack, Head(it)))
    /\ it' = Tail(it)
    /\ UNCHANGED <<term, strategy, pc, stack>>

\* TRSRewrites::next returns None: the sequence is exhausted.
Exhausted ==
    /\ pc = "next"
    /\ it = <<>>
    /\ pc' = "done"
    /\ UNCHANGED <<term, strategy, stack, it, out>>

Next ==
    \/ NewBuffered
    \/ NormalHead
    \/ NormalStep
    \/ NormalNone
    \/ Yield
    \/ Exhausted

Spec ==
    /\ Init /\ [][Next]_vars
    /\ WF_vars(NewBuffered) /\ WF_vars(NormalHead) /\ WF_vars(NormalStep)
    /\ WF_vars(NormalNone) /\ WF_vars(Yield) /\ WF_vars(Exhausted)

SafetySpec == Init /\ [][Next]_vars

(***************************************************************************)
(* The strategies as spec section 4.6 defines them.                        *)
(***************************************************************************)

\* Normal (leftmost-outermost): every clause of the first rule matching at
\* the outermost, leftmost site that any rule matches, put back in place.
RECURSIVE NormalReference(_)
NormalReference(t) ==
    LET head == RewriteHead(t)
        rs   == [i \in DOMAIN t.args |-> NormalReference(t.args[i])]
        i    == SelectInSeq(rs, LAMBDA r : r # <<>>)
    IN  CASE IsVar(t)     -> <<>>
          [] head # <<>>  -> head
          [] i # 0        -> InPlace(t, i - 1, rs[i])
          [] OTHER        -> <<>>

(***************************************************************************)
(* Properties.                                                             *)
(***************************************************************************)
\* Every term any strategy yields is well-formed (spec section 8,
\* property 9), Normal's fold through its frame stack included.
YieldsWellFormed == \A k \in DOMAIN out : WellFormed(out[k])

\* Every term Eager yields is also yielded by All (section 8, property 10):
\* the innermost site rewrite_args descends to is one rewrite_all visits.
EagerWithinAll ==
    strategy = Eager /\ pc = "done" => ToSet(out) \subseteq ToSet(RewriteAll(term))

\* Every call of the engine ends: Normal's loop pops a frame per step and
\* pushes only frames of strictly smaller subterms or later siblings.
CallEnds == <>(pc \in {"done", "panic"})

\* Normal's part of spec 4.6: it returns, without panicking, exactly the
\* rewrites at the leftmost-outermost redex re-embedded in the unchanged
\* context, and nothing only when the term has no redex (section 9: "push
\* right-siblings then left-child ... re-embedded back up the context").
NormalIsLeftmostOutermost ==
    strategy = Normal /\ pc \in {"done", "panic"} =>
        pc = "done" /\ out = NormalReference(term)

\* All's part of spec 4.6: it yields the head rewrites of every matching
\* rule, in TRS order ("All yields over every matching rule in TRS order").
AllYieldsEveryMatchingRule ==
    strategy = All /\ pc = "done" =>
        \A r \in DOMAIN TRSRules : ToSet(RuleRewrite(TRSRules[r], term)) \subseteq ToSet(out)

\* Every call of TRS::rewrite yields what spec 4.6 says its strategy
\* yields: Normal the leftmost-outermost rewrites, All the rewrites of every
\* matching rule.
StrategiesFollowSpec == NormalIsLeftmostOutermost /\ AllYieldsEveryMatchingRule

=============================================================================
