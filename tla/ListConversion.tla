--------------------------- MODULE ListConversion ---------------------------
(***************************************************************************)
(* TRS::p_list (src/src/types/trs.rs) run by several threads on one shared *)
(* Signature.  Each call converts its list x, then its list y, with        *)
(* convert_list_to_string; every element goes through num_to_atom, which   *)
(* takes a snapshot sig.operators(), looks in it for a nullary operator    *)
(* named for the number, and otherwise registers one with sig.new_op.      *)
(*                                                                         *)
(* The Signature (spec section C1) is an append-only sequence of operator  *)
(* records behind a reader-writer lock; an operator is its index.  Each    *)
(* lock acquisition is one step: the snapshot, the scan of its names (a    *)
(* read lock per name, but names never change once written, so the scan    *)
(* is one step), and new_op.  p_list's sig.clone() shares the backing      *)
(* store, so every thread reads and writes the same operators.             *)
(*                                                                         *)
(* A list element is its numeral, the sequence of its decimal digits, most *)
(* significant first (DIGIT(d) then DECC(k, d) per further digit), or      *)
(* Malformed for a cell or numeral that as_guarded_application rejects.    *)
(* A digit is a nullary operator named "0" .. "9" (digit_to_usize), so    *)
(* the Signature holds the digits of every numeral before any call.  The  *)
(* operators ".", CONS, NIL, DIGIT and DECC have names that are not       *)
(* numbers; find never matches them and they are left out.               *)
(* num_to_usize computes in 64-bit usize (module Usize): Build says        *)
(* whether an overflow panics (debug) or wraps (release).                  *)
(***************************************************************************)
EXTENDS Naturals, Sequences, FiniteSets, SequencesExt, Usize

CONSTANTS
    Threads,            \* the threads calling p_list
    Calls,              \* the argument pairs <<x, y>> a p_list call may get
    InitialSignatures,  \* the operator sequences the Signature may start with
    Malformed,          \* an element that is not a CONS cell over a numeral
    Build,              \* "debug" or "release"
    TMax, DMax,         \* the t_max and d_max p_list passes to compute
    PIns, PDel,         \* dist.p_insertion and dist.p_deletion
    PCorrect,           \* dist.p_correct_sub
    PIncorrect          \* dist.p_incorrect_sub = Constant(PIncorrect)

\* num_to_atom only converts numbers below this.
NumLimit == 100

\* num_to_usize: a DIGIT(d) is d; a DECC(k, d) is num_to_usize(k) * 10 + d
\* in usize.  The recursion of the code, innermost digit first, is the
\* loop below over the digits from the most significant; acc is
\* [v, over] as in MulAdd.
RECURSIVE DigitsFrom(_, _, _)
DigitsFrom(ds, i, acc) ==
    IF i > Len(ds) THEN acc
    ELSE DigitsFrom(ds, i + 1, LET r == MulAdd(acc.v, 10, ds[i])
                               IN  [v |-> r.v, over |-> acc.over \/ r.over])
NumToUsize(ds) == DigitsFrom(ds, 1, [v |-> FromNat(0), over |-> FALSE])

\* The numerals of the calls' lists.
Numerals == UNION { { c[k][j] : j \in { i \in DOMAIN c[k] : c[k][i] # Malformed } } :
                    c \in Calls, k \in 1..2 }

\* num_to_usize of every numeral.
Parsed == [e \in Numerals |-> NumToUsize(e)]

\* The digits of the numerals of a call's lists.
DigitsOf(c) ==
    LET numerals == UNION { ToSet(c[k]) : k \in 1..2 } \ {Malformed}
    IN  UNION { { e[j] : j \in DOMAIN e } : e \in numerals }

\* The result of a list conversion that returned None.
Fail == "None"

\* What p_list returns when a conversion returned None, and the result of a
\* call that has not returned.
NegInfinity == [ret |-> "NEG_INFINITY", value |-> <<>>]
NoResult    == [ret |-> "pending", value |-> <<>>]

\* PString::p_sub with the Constant distribution: atoms are compared with
\* ==, so two operators that display alike are still a substitution.
PSubConstant(u, v) == IF u = v THEN PCorrect ELSE PIncorrect

\* PString::new over the strings xs and ys, then compute: the query value
\* of every key (t, d, s) compute sums, from module PString with a cold
\* cache.  The factors rho_t(t) and normalizer(t) depend on t and the
\* lengths only and are left out, as in module PString.
PS == INSTANCE PString
          WITH Strings <- {}, MaxCounts <- {}, SubWeight <- PSubConstant,
               x <- <<>>, y <- <<>>, t_max <- TMax, d_max <- DMax,
               pc <- "new", t <- 0, t_end <- 0, cache <- <<>>, terms <- <<>>

Distance(xs, ys) ==
    [k \in PS!ComputeKeys(xs, ys, TMax, DMax) |-> PS!Query(k, <<>>, xs, ys).v]

VARIABLES
    args,      \* thread -> the <<x, y>> its p_list call converts
    ops,       \* the Signature's operator records [arity, name], in order
    creators,  \* the thread whose new_op appended each record ("init": none)
    pc,        \* thread -> "cell", "find", "create", "done", "returned" or "panic"
    li,        \* thread -> 1 while converting x, 2 while converting y
    pos,       \* thread -> the index of the current cell of that list
    snap,      \* thread -> the length of its last sig.operators() snapshot
    cur,       \* thread -> the atoms of the current list converted so far
    strings,   \* thread -> the results of its finished conversions
    result     \* thread -> what its p_list call returned

vars == <<args, ops, creators, pc, li, pos, snap, cur, strings, result>>

List(t)    == args[t][li[t]]
Element(t) == List(t)[pos[t]]

\* The usize of thread t's current element.
UsizeOf(t) == Parsed[Element(t)]

\* Whether num_to_usize panics on t's element: an overflow in a debug build.
Panics(t) == Element(t) # Malformed /\ Build = "debug" /\ UsizeOf(t).over

\* The elements num_to_atom accepts: a numeral whose usize, wrapped in a
\* release build, is below NumLimit.
Accepted(t) == Element(t) # Malformed /\ ~Panics(t) /\ LessThan(UsizeOf(t).v, NumLimit)

\* The number n num_to_atom names its operator for (n.to_string()).
Number(t) == ToNat(UsizeOf(t).v)

Init ==
    /\ args \in [Threads -> Calls]
    /\ ops \in InitialSignatures
    /\ \A t \in Threads : \A d \in DigitsOf(args[t]) :
           \E i \in DOMAIN ops : ops[i] = [arity |-> 0, name |-> d]
    /\ creators = [i \in DOMAIN ops |-> "init"]
    /\ pc = [t \in Threads |-> "cell"]
    /\ li = [t \in Threads |-> 1]
    /\ pos = [t \in Threads |-> 1]
    /\ snap = [t \in Threads |-> 0]
    /\ cur = [t \in Threads |-> <<>>]
    /\ strings = [t \in Threads |-> <<>>]
    /\ result = [t \in Threads |-> NoResult]

\* convert_list_to_string returns r for the current list; p_list goes on
\* with y after x whatever x gave.
EndList(t, r) ==
    /\ strings' = [strings EXCEPT ![t] = Append(@, r)]
    /\ cur' = [cur EXCEPT ![t] = <<>>]
    /\ li' = [li EXCEPT ![t] = @ + 1]
    /\ pos' = [pos EXCEPT ![t] = 1]
    /\ pc' = [pc EXCEPT ![t] = IF li[t] = 2 THEN "done" ELSE "cell"]

\* The atom for the current element is a; the recursion goes on with the
\* tail.
Converted(t, a) ==
    /\ cur' = [cur EXCEPT ![t] = Append(@, a)]
    /\ pos' = [pos EXCEPT ![t] = @ + 1]
    /\ pc' = [pc EXCEPT ![t] = "cell"]

\* Mutant: the snapshot is taken once per list and reused for its cells.
SnapshotOnce(t) == IF pos[t] = 1 THEN Len(ops) ELSE snap[t]

\* sig.operators(): a snapshot of the handles registered so far.
Snapshot(t) == Len(ops)

\* One call of convert_list_to_string on the current cell: NIL ends the
\* list; a malformed cell or numeral, or a number of NumLimit or more, makes
\* it None; an overflow in a debug build panics the thread; otherwise
\* num_to_atom takes its snapshot.
Cell(t) ==
    /\ pc[t] = "cell"
    /\ \/ /\ pos[t] > Len(List(t))
          /\ EndList(t, cur[t])
          /\ UNCHANGED snap
       \/ /\ pos[t] <= Len(List(t))
          /\ ~Panics(t)
          /\ ~Accepted(t)
          /\ EndList(t, Fail)
          /\ UNCHANGED snap
       \/ /\ pos[t] <= Len(List(t))
          /\ Panics(t)
          /\ pc' = [pc EXCEPT ![t] = "panic"]
          /\ UNCHANGED <<li, pos, cur, strings, snap>>
       \/ /\ pos[t] <= Len(List(t))
          /\ Accepted(t)
          /\ snap' = [snap EXCEPT ![t] = Snapshot(t)]
          /\ pc' = [pc EXCEPT ![t] = "find"]
          /\ UNCHANGED <<li, pos, cur, strings>>
    /\ UNCHANGED <<args, ops, creators, result>>

\* Operator::arity and Operator::name: the fields of the i-th operator,
\* read under the Signature's read lock.
OpArity(sig, i) == sig[i].arity
OpName(sig, i)  == sig[i].name

\* Mutant: find without the arity test.
FindOpIgnoringArity(sig, k, n) ==
    LET hits == {i \in 1..k : OpName(sig, i) = n}
    IN  IF hits = {} THEN 0 ELSE CHOOSE i \in hits : \A j \in hits : i <= j

\* .iter().find over the first k operators: the first named n with arity
\* 0 (0: none).
FindOp(sig, k, n) ==
    LET hits == {i \in 1..k : OpName(sig, i) = n /\ OpArity(sig, i) = 0}
    IN  IF hits = {} THEN 0 ELSE CHOOSE i \in hits : \A j \in hits : i <= j

\* num_to_atom's find over its snapshot: a hit is the atom; a miss goes on
\* to or_else.
Find(t) ==
    /\ pc[t] = "find"
    /\ LET a == FindOp(ops, snap[t], Number(t))
       IN  IF a # 0 THEN Converted(t, a) ELSE pc' = [pc EXCEPT ![t] = "create"] /\ UNCHANGED <<pos, cur>>
    /\ UNCHANGED <<args, ops, creators, li, snap, strings, result>>

\* Mutant: new_op registers on a copy of the Signature, not the shared one.
CreateOnCopy(t) ==
    /\ pc[t] = "create"
    /\ Converted(t, Len(ops) + 1)
    /\ UNCHANGED <<args, ops, creators, li, snap, strings, result>>

\* or_else: sig.new_op(0, Some(n.to_string())) appends a record under the
\* write lock and returns its index.
Create(t) ==
    /\ pc[t] = "create"
    /\ ops' = Append(ops, [arity |-> 0, name |-> Number(t)])
    /\ creators' = Append(creators, t)
    /\ Converted(t, Len(ops) + 1)
    /\ UNCHANGED <<args, li, snap, strings, result>>

\* The end of p_list: NEG_INFINITY unless both conversions returned
\* Some, else PString::new over the two strings and compute(t_max, d_max).
PList(t) ==
    /\ pc[t] = "done"
    /\ pc' = [pc EXCEPT ![t] = "returned"]
    /\ result' = [result EXCEPT ![t] =
                     IF Fail \in ToSet(strings[t]) THEN NegInfinity
                     ELSE [ret |-> "ln", value |-> Distance(strings[t][1], strings[t][2])]]
    /\ UNCHANGED <<args, ops, creators, li, pos, snap, cur, strings>>

Next == \E t \in Threads : Cell(t) \/ Find(t) \/ Create(t) \/ PList(t)

Spec == Init /\ [][Next]_vars

(***************************************************************************)
(* Properties.                                                             *)
(***************************************************************************)

TypeOK ==
    /\ args \in [Threads -> Calls]
    /\ ops \in Seq([arity : Nat, name : Nat])
    /\ Len(creators) = Len(ops)
    /\ pc \in [Threads -> {"cell", "find", "create", "done", "returned", "panic"}]
    /\ \A t \in Threads : \A k \in 1..Len(cur[t]) : cur[t][k] \in DOMAIN ops
    /\ \A t \in Threads : \/ result[t] \in {NoResult, NegInfinity}
                          \/ /\ result[t].ret = "ln"
                             /\ result[t].value \in [DOMAIN result[t].value -> Nat]

\* The (numeral, atom) pairs thread t's call has obtained from
\* num_to_atom: the atoms of its finished conversions and of the one under
\* way.
ObtainedBy(t) ==
    LET Pairs(l, as) == { <<l[j], as[j]>> : j \in DOMAIN as }
        Done         == { k \in DOMAIN strings[t] : strings[t][k] # Fail }
    IN  UNION { Pairs(args[t][k], strings[t][k]) : k \in Done }
        \cup IF pc[t] \in {"done", "returned", "panic"} THEN {} ELSE Pairs(List(t), cur[t])

\* The pairs of every thread.
Obtained == UNION { ObtainedBy(t) : t \in Threads }

\* The decimal form of a number (n.to_string()) and of a numeral: its
\* digits without leading zeros.
RECURSIVE Decimal(_)
Decimal(n) == IF n < 10 THEN <<n>> ELSE Append(Decimal(n \div 10), n % 10)
Written(ds) == IF \A i \in DOMAIN ds : ds[i] = 0 THEN <<0>>
               ELSE SubSeq(ds, SelectInSeq(ds, LAMBDA d : d # 0), Len(ds))

\* Every atom num_to_atom hands out for a numeral, whether found in a
\* snapshot or created, is a nullary operator whose name is that numeral's
\* decimal form (spec 4.7), however the threads interleave and whatever
\* the numeral's length.
AtomNamedForNumber ==
    \A p \in Obtained : ops[p[2]].arity = 0 /\ Decimal(ops[p[2]].name) = Written(p[1])

\* A thread registers each number at most once: after its own new_op, its
\* next snapshot of the Signature contains the operator it created.
OneCreationPerThreadAndNumber ==
    \A t \in Threads, i, j \in DOMAIN ops :
        creators[i] = t /\ creators[j] = t /\ ops[i].name = ops[j].name => i = j

\* The names of the operators a string of atoms stands for.
NamesOf(as) == [i \in DOMAIN as |-> ops[as[i]].name]

\* What a p_list call returns depends on the numbers of its lists alone:
\* it is compute over the strings of their decimal names, in which a
\* number equals only itself.  num_to_atom must hand out one atom per
\* number within the call (spec 4.7: the operator "whose name is that
\* integer's decimal form"), since p_sub compares atoms with ==.
PListDependsOnNumbers ==
    \A t \in Threads :
        result[t].ret = "ln" =>
            result[t].value = Distance(NamesOf(strings[t][1]), NamesOf(strings[t][2]))

=============================================================================
