----------------------------- MODULE PStringSpec -----------------------------
(***************************************************************************)
(* What PString::compute (src/src/types/trs.rs) promises, without its      *)
(* cache and without its loop: one step that sums, over the insertion      *)
(* counts t of its range that pass its filter, the edit recurrence Q of    *)
(* spec section 4.8 evaluated afresh.  Module PString, which fills a cache *)
(* one t at a time, implements this specification under the mapping in    *)
(* PString (Abs).                                                          *)
(*                                                                         *)
(* The range is spec 4.8's, in integers: t in [max(0, n - m),             *)
(* min(t_max, d_max + n - m)] with 0 <= t <= n and n <= m + t.  It is      *)
(* empty when d_max + n < m, where the code's saturating_sub clamps the    *)
(* upper bound to 0 instead.                                               *)
(***************************************************************************)
EXTENDS Integers, Sequences, FiniteSetsExt

CONSTANTS Strings, MaxCounts, PIns, PDel, SubWeight(_, _)

VARIABLES
    x, y, t_max, d_max,  \* the strings and the arguments of compute
    done,                \* compute has returned
    total                \* what it returned (0 before)

avars == <<x, y, t_max, d_max, done, total>>

\* The edit model of spec section 4.8, written forwards: the weight of
\* producing y[j+1..] from x[i+1..] with exactly tk insertions, dk
\* deletions and sk substitutions, summed over every order of them.
RECURSIVE Generate(_, _, _, _, _, _, _)
Generate(xs, ys, i, j, tk, dk, sk) ==
    IF tk = 0 /\ dk = 0 /\ sk = 0 THEN 1
    ELSE (IF tk > 0 THEN PIns * Generate(xs, ys, i, j + 1, tk - 1, dk, sk) ELSE 0)
       + (IF dk > 0 THEN PDel * Generate(xs, ys, i + 1, j, tk, dk - 1, sk) ELSE 0)
       + (IF sk > 0 THEN SubWeight(xs[i + 1], ys[j + 1])
                          * Generate(xs, ys, i + 1, j + 1, tk, dk, sk - 1) ELSE 0)

\* The keys (t, m + t - n, n - t) of spec 4.8: every feasible count t of
\* insertions in [max(0, n - m), min(t_max, d_max + n - m)].
SpecCounts(xs, ys, tmax, dmax) ==
    LET m == Len(xs)  n == Len(ys)
        lo == IF n > m THEN n - m ELSE 0
        hi == IF tmax < dmax + n - m THEN tmax ELSE dmax + n - m
    IN  { <<t, m + t - n, n - t>> : t \in { u \in lo..hi : u <= n /\ n <= m + u } }

Init ==
    /\ x \in Strings /\ y \in Strings
    /\ t_max \in MaxCounts /\ d_max \in MaxCounts
    /\ done = FALSE
    /\ total = 0

\* compute, in one step.
Compute ==
    /\ ~done
    /\ done' = TRUE
    /\ total' = MapThenSumSet(LAMBDA k : Generate(x, y, 0, 0, k[1], k[2], k[3]),
                              SpecCounts(x, y, t_max, d_max))
    /\ UNCHANGED <<x, y, t_max, d_max>>

Spec == Init /\ [][Compute]_avars

=============================================================================
