-------------------------------- MODULE TRS --------------------------------
(***************************************************************************)
(* The rule-set discipline of struct TRS (src/src/types/trs.rs): an       *)
(* ordered sequence of rules and the is_deterministic flag, changed only  *)
(* by the mutators make_deterministic, make_nondeterministic, remove,      *)
(* remove_idx, remove_clauses, insert, insert_idx, insert_clauses, push,   *)
(* move_rule and replace.  Every mutator is one action that performs the  *)
(* whole call, nested calls included (push = insert; get; move_rule and    *)
(* move_rule = remove_idx; insert).                                        *)
(*                                                                         *)
(* Data abstraction.  A left-hand side is a member of Lhs, standing for   *)
(* its alpha-equivalence class: Term::alpha on two LHSs is equality here.  *)
(* A clause (one right-hand side) is a member of Rhs, standing for its     *)
(* class up to alpha-renaming together with its LHS.  Rule::merge and      *)
(* Rule::discard live in rule.rs, which is not under src/, and are taken  *)
(* from the spec (section 4.4).                                            *)
(***************************************************************************)
EXTENDS Naturals, Sequences, SequencesExt, Functions

CONSTANTS
    Lhs,         \* alpha-classes of left-hand sides
    Rhs,         \* alpha-classes of clauses
    MaxClauses   \* longest right-hand side of a rule passed to a mutator

ASSUME MaxClauses >= 2

\* The results of a mutator: Ok or one of the TRSError variants.
Ok                   == "Ok"
NotInTRS             == "NotInTRS"
AlreadyInTRS         == "AlreadyInTRS"
NondeterministicRule == "NondeterministicRule"
InvalidIndex         == "InvalidIndex"
Results == {Ok, NotInTRS, AlreadyInTRS, NondeterministicRule, InvalidIndex}

\* Rules built by Rule::new: a LHS and a non-empty list of distinct clauses.
ClauseLists == {s \in BoundedSeq(Rhs, MaxClauses) : s # <<>> /\ IsInjective(s)}
Rules       == [lhs : Lhs, rhs : ClauseLists]

\* Indices handed to the index-taking mutators: every index the rule list
\* can have, and the first one past it.
Idx == 0..(Cardinality(Lhs) + 1)

\* The rule vectors handed to inserts_idx and pushes: two rules each.
Batches == Rules \X Rules

VARIABLES
    rules,             \* TRS.rules
    is_deterministic,  \* TRS.is_deterministic
    last               \* the mutator last called, its rule's LHS and its result

vars == <<rules, is_deterministic, last>>

NoLhs == "none"   \* the LHS recorded for mutators that take no rule

(***************************************************************************)
(* Each mutator as an operator from a TRS value t = [rules, det] to the   *)
(* TRS it leaves behind and its result.                                    *)
(***************************************************************************)
Done(t)      == [t |-> t, res |-> Ok]
Fail(t, err) == [t |-> t, res |-> err]

\* TRS::get: the (1-based) position of the rule whose LHS is alpha-equivalent
\* to lhs, 0 when there is none.
Get(t, lhs) == SelectInSeq(t.rules, LAMBDA r : r.lhs = lhs)

\* Mutant: merge appends every clause of other, present or not.
MergeKeepingDuplicates(r, other) == [r EXCEPT !.rhs = @ \o other.rhs]

\* Mutant: merge replaces the clauses instead of appending to them.
MergeOverwriting(r, other) == [r EXCEPT !.rhs = other.rhs]

\* Rule::merge: append the clauses of other not already present.
Merge(r, other) ==
    [r EXCEPT !.rhs = @ \o SelectSeq(other.rhs, LAMBDA c : c \notin ToSet(r.rhs))]

\* Rule::discard: drop the clauses of r that are clauses of other; it yields
\* Some(discarded) when other's LHS is r's and a clause was dropped.
Discard(r, other) ==
    LET kept == SelectSeq(r.rhs, LAMBDA c : c \notin ToSet(other.rhs))
    IN  [rule |-> [r EXCEPT !.rhs = kept],
         some |-> r.lhs = other.lhs /\ kept # r.rhs]

\* Mutant: make_deterministic sets the flag without truncating.
MakeDeterministicFlagOnly(t) == Done([t EXCEPT !.det = TRUE])

MakeDeterministicT(t) ==
    IF ~t.det
    THEN Done([rules |-> [i \in DOMAIN t.rules |->
                            [t.rules[i] EXCEPT !.rhs = SubSeq(@, 1, 1)]],
               det   |-> TRUE])
    ELSE Done(t)

MakeNondeterministicT(t) == Done([t EXCEPT !.det = FALSE])

RemoveT(t, lhs) ==
    IF Get(t, lhs) # 0
    THEN Done([t EXCEPT !.rules = RemoveAt(@, Get(t, lhs))])
    ELSE Fail(t, NotInTRS)

RemoveIdxT(t, idx) ==
    IF Len(t.rules) > idx
    THEN Done([t EXCEPT !.rules = RemoveAt(@, idx + 1)])
    ELSE Fail(t, InvalidIndex)

\* Mutant: remove_clauses without the retain of non-empty rules.
RemoveClausesKeepingEmpty(t, rule) ==
    LET i == SelectInSeq(t.rules, LAMBDA r : Discard(r, rule).some)
    IN  IF i = 0 THEN Fail(t, NotInTRS)
        ELSE Done([t EXCEPT !.rules = ReplaceAt(@, i, Discard(@[i], rule).rule)])

\* remove_clauses: discard from the first rule whose discard is Some, then
\* retain only the non-empty rules.
RemoveClausesT(t, rule) ==
    LET i == SelectInSeq(t.rules, LAMBDA r : Discard(r, rule).some)
    IN  IF i = 0
        THEN Fail(t, NotInTRS)
        ELSE Done([t EXCEPT !.rules =
                     SelectSeq(ReplaceAt(@, i, Discard(@[i], rule).rule),
                               LAMBDA r : r.rhs # <<>>)])

\* Mutant: insert_idx without the AlreadyInTRS check.
InsertIdxWithoutGet(t, idx, rule) ==
    CASE t.det /\ Len(rule.rhs) > 1 -> Fail(t, NondeterministicRule)
      [] idx > Len(t.rules)         -> Fail(t, InvalidIndex)
      [] OTHER -> Done([t EXCEPT !.rules = InsertAt(@, idx + 1, rule)])

InsertIdxT(t, idx, rule) ==
    CASE t.det /\ Len(rule.rhs) > 1 -> Fail(t, NondeterministicRule)
      [] idx > Len(t.rules)         -> Fail(t, InvalidIndex)
      [] Get(t, rule.lhs) # 0       -> Fail(t, AlreadyInTRS)
      [] OTHER -> Done([t EXCEPT !.rules = InsertAt(@, idx + 1, rule)])

InsertClausesT(t, rule) ==
    CASE t.det                -> Fail(t, NondeterministicRule)
      [] Get(t, rule.lhs) # 0 ->
            Done([t EXCEPT !.rules[Get(t, rule.lhs)] = Merge(@, rule)])
      [] OTHER                -> Fail(t, NotInTRS)

\* insert: merge into an existing rule if possible, else insert_idx.
InsertT(t, idx, rule) ==
    IF InsertClausesT(t, rule).res # Ok
    THEN InsertIdxT(t, idx, rule)
    ELSE InsertClausesT(t, rule)

\* move_rule: remove_idx(i) and then insert(j, rule) on what remains.
MoveRuleT(t, i, j) ==
    IF i = j THEN Done(t)
    ELSE LET removed == RemoveIdxT(t, i)
         IN  IF removed.res # Ok THEN removed
             ELSE InsertT(removed.t, j, t.rules[i + 1])

\* Mutant: push moves the rule after the one it found (off by one).
PushMovingNextRule(t, rule) ==
    LET ins == InsertT(t, 0, rule)
    IN  IF ins.res # Ok THEN ins
        ELSE IF Get(ins.t, rule.lhs) = 0 THEN Fail(ins.t, NotInTRS)
        ELSE MoveRuleT(ins.t, Get(ins.t, rule.lhs), 0)

\* push: insert(0, rule), find the rule again with get, move it to index 0.
PushT(t, rule) ==
    LET ins == InsertT(t, 0, rule)
    IN  IF ins.res # Ok THEN ins
        ELSE IF Get(ins.t, rule.lhs) = 0 THEN Fail(ins.t, NotInTRS)
        ELSE MoveRuleT(ins.t, Get(ins.t, rule.lhs) - 1, 0)

\* inserts_idx: insert_idx(idx, rule) for each rule of rs, last one first,
\* returning at the first error (the ? of the loop body) with the rules
\* already inserted left in place.
InsertsIdxT(t, idx, rs) ==
    FoldLeft(LAMBDA acc, r : IF acc.res # Ok THEN acc ELSE InsertIdxT(acc.t, idx, r),
             Done(t), Reverse(rs))

\* Mutant: pushes without the .rev(), pushing the first rule first.
PushesForward(t, rs) ==
    FoldLeft(LAMBDA acc, r : IF acc.res # Ok THEN acc ELSE PushT(acc.t, r), Done(t), rs)

\* pushes: push(rule) for each rule of rs, last one first, returning at the
\* first error with the rules already pushed left in place.
PushesT(t, rs) ==
    FoldLeft(LAMBDA acc, r : IF acc.res # Ok THEN acc ELSE PushT(acc.t, r),
             Done(t), Reverse(rs))

\* replace: remove_clauses(rule1) and then insert(idx, rule2).
ReplaceT(t, idx, rule1, rule2) ==
    LET removed == RemoveClausesT(t, rule1)
    IN  IF removed.res # Ok THEN removed
        ELSE InsertT(removed.t, idx, rule2)

(***************************************************************************)
(* The state machine.                                                      *)
(***************************************************************************)
TRSValue == [rules |-> rules, det |-> is_deterministic]

\* Commit the outcome r of mutator op called with a rule whose LHS is lhs.
Apply(op, lhs, r) ==
    /\ rules' = r.t.rules
    /\ is_deterministic' = r.t.det
    /\ last' = [op |-> op, lhs |-> lhs, res |-> r.res]

\* TRS::new(rules): pushes the rules onto an empty, nondeterministic TRS
\* and drops the Result (.ok()).
Init ==
    \E rs \in {<<>>} \cup Batches :
        /\ rules = PushesT([rules |-> <<>>, det |-> FALSE], rs).t.rules
        /\ is_deterministic = FALSE
        /\ last = [op |-> "new", lhs |-> NoLhs, res |-> Ok]

MakeDeterministic    == Apply("make_deterministic", NoLhs, MakeDeterministicT(TRSValue))
MakeNondeterministic == Apply("make_nondeterministic", NoLhs, MakeNondeterministicT(TRSValue))
RemoveLhs(lhs)       == Apply("remove", lhs, RemoveT(TRSValue, lhs))
RemoveIdx(idx)       == Apply("remove_idx", NoLhs, RemoveIdxT(TRSValue, idx))
RemoveClauses(rule)  == Apply("remove_clauses", rule.lhs, RemoveClausesT(TRSValue, rule))
InsertIdx(idx, rule) == Apply("insert_idx", rule.lhs, InsertIdxT(TRSValue, idx, rule))
InsertClauses(rule)  == Apply("insert_clauses", rule.lhs, InsertClausesT(TRSValue, rule))
Insert(idx, rule)    == Apply("insert", rule.lhs, InsertT(TRSValue, idx, rule))
Push(rule)           == Apply("push", rule.lhs, PushT(TRSValue, rule))
MoveRule(i, j)       == Apply("move_rule", NoLhs, MoveRuleT(TRSValue, i, j))
Replace(idx, rule1, rule2) ==
    Apply("replace", rule2.lhs, ReplaceT(TRSValue, idx, rule1, rule2))

\* The LHSs of a batch of rules, recorded for inserts_idx and pushes.
LhsOf(rs) == [i \in DOMAIN rs |-> rs[i].lhs]

InsertsIdx(idx, rs) == Apply("inserts_idx", LhsOf(rs), InsertsIdxT(TRSValue, idx, rs))
Pushes(rs)          == Apply("pushes", LhsOf(rs), PushesT(TRSValue, rs))

Next ==
    \/ MakeDeterministic
    \/ MakeNondeterministic
    \/ \E lhs \in Lhs : RemoveLhs(lhs)
    \/ \E idx \in Idx : RemoveIdx(idx)
    \/ \E rule \in Rules : RemoveClauses(rule)
    \/ \E idx \in Idx, rule \in Rules : InsertIdx(idx, rule)
    \/ \E rule \in Rules : InsertClauses(rule)
    \/ \E idx \in Idx, rule \in Rules : Insert(idx, rule)
    \/ \E rule \in Rules : Push(rule)
    \/ \E i, j \in Idx : MoveRule(i, j)
    \/ \E idx \in Idx, rule1, rule2 \in Rules : Replace(idx, rule1, rule2)
    \/ \E idx \in Idx, rs \in Batches : InsertsIdx(idx, rs)
    \/ \E rs \in Batches : Pushes(rs)

Spec == Init /\ [][Next]_vars

(***************************************************************************)
(* Properties.                                                             *)
(***************************************************************************)
Ops == {"new", "make_deterministic", "make_nondeterministic", "remove",
        "remove_idx", "remove_clauses", "insert_idx", "insert_clauses",
        "insert", "push", "move_rule", "replace", "inserts_idx", "pushes"}

TypeOK ==
    /\ rules \in Seq(Rules)
    /\ is_deterministic \in BOOLEAN
    /\ last.op \in Ops /\ last.res \in Results
    /\ IF last.op \in {"inserts_idx", "pushes"} THEN last.lhs \in Lhs \X Lhs
                                              ELSE last.lhs \in Lhs \cup {NoLhs}

\* The (LHS, clause) pairs a TRS holds.
Clauses(rs) == UNION {{<<rs[i].lhs, c>> : c \in ToSet(rs[i].rhs)} : i \in DOMAIN rs}

\* No two rules have alpha-equivalent LHSs (spec section 8, invariant 2),
\* whatever sequence of insert, push, move_rule and replace calls built it.
UniqueLhs ==
    \A i, j \in DOMAIN rules : i # j => rules[i].lhs # rules[j].lhs

\* A deterministic TRS has exactly one clause per rule (section 8,
\* invariant 3): make_deterministic truncates, and insert_idx and
\* insert_clauses refuse what would add a second clause afterwards.
DeterministicRulesHaveOneClause ==
    is_deterministic => \A i \in DOMAIN rules : Len(rules[i].rhs) = 1

\* A rule whose clauses have all been discarded is removed (section 3):
\* remove_clauses, and replace through it, never leave an empty rule.
NoEmptyRule ==
    \A i \in DOMAIN rules : rules[i].rhs # <<>>

\* A successful push leaves the pushed rule, merged or inserted, at index 0
\* (push: insert(0, rule), then get and move_rule(idx, 0)).
PushPutsRuleFirst ==
    [][last'.op = "push" /\ last'.res = Ok => rules'[1].lhs = last'.lhs]_vars

\* A successful insert, insert_idx, inserts_idx, insert_clauses, push,
\* pushes, move_rule or make_nondeterministic loses no clause of the TRS:
\* merging appends, and move_rule re-inserts the rule it removed.
NoClauseLost ==
    [][/\ last'.res = Ok
       /\ last'.op \in {"insert", "insert_idx", "inserts_idx", "insert_clauses",
                        "push", "pushes", "move_rule", "make_nondeterministic"}
       => Clauses(rules) \subseteq Clauses(rules')]_vars

\* The distinct elements of s in the order of their first occurrence.
Dedup(s) == FoldLeft(LAMBDA acc, e : IF e \in ToSet(acc) THEN acc ELSE Append(acc, e), <<>>, s)

\* A successful pushes(rs) leaves the rules of rs first, in rs's order
\* (each LHS once: a later rule with an earlier one's LHS was merged into
\* it), because pushes pushes them last one first and each push moves its
\* rule, inserted or merged, to index 0.
PushesPutsRulesFirstInOrder ==
    [][last'.op = "pushes" /\ last'.res = Ok =>
         LET d == Dedup(last'.lhs)
         IN  [i \in 1..Len(d) |-> rules'[i].lhs] = d]_vars

\* Spec section 7: "Failed mutations leave the TRS unchanged."
FailedMutationLeavesTRSUnchanged ==
    [][last'.res # Ok => UNCHANGED <<rules, is_deterministic>>]_vars

=============================================================================
