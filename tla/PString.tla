------------------------------ MODULE PString ------------------------------
(***************************************************************************)
(* PString (src/src/types/trs.rs): the probabilistic edit distance behind *)
(* p_string and p_list.  PString::new records the strings x (length m) and *)
(* y (length n); compute sums, over a range of insertion counts t, the     *)
(* memoised recurrence query((t, d, s)) with d = m + t - n deletions and   *)
(* s = n - t substitutions.  One iteration of compute's filter_map is one  *)
(* step; query's recursion, with the cache it fills, is one operator.      *)
(*                                                                         *)
(* The probabilities are f64 in the code.  Here they are natural-number    *)
(* weights: query only adds and multiplies them, so distinct weights tell  *)
(* apart any two sums of products that read different characters.  The    *)
(* factors rho_t and normalizer of compute do not touch the cache and are  *)
(* left out; p_sub is the constant table SubWeight (the Bounded case is   *)
(* module PSub).                                                           *)
(***************************************************************************)
EXTENDS Naturals, FiniteSets, Sequences, SequencesExt, FiniteSetsExt, Usize

CONSTANTS
    Strings,     \* the strings p_string is called with (sequences of atoms)
    MaxCounts,   \* the values t_max and d_max range over
    PIns,        \* dist.p_insertion
    PDel,        \* dist.p_deletion
    SubWeight(_, _)  \* p_sub(x, y)

\* usize::saturating_sub and usize::min.
SatSub(a, b) == IF a > b THEN a - b ELSE 0
MinOf(a, b)  == IF a < b THEN a ELSE b

VARIABLES
    x, y,          \* PString.x and PString.y
    t_max, d_max,  \* the arguments of compute
    pc,            \* "new", "loop", "done"
    t,             \* the next insertion count of compute's range
    t_end,         \* the last one
    cache,         \* PString.cache: (t, d, s) -> value
    terms          \* the (t, d, s, query) compute has summed so far

vars == <<x, y, t_max, d_max, pc, t, t_end, cache, terms>>

m == Len(x)
n == Len(y)

(***************************************************************************)
(* query                                                                   *)
(***************************************************************************)

\* Mutant: the substitution reads x[s - 1] and y[s - 1] in every case, as
\* the (0, 0, s) arm does.
QueryStepsReadingPrefix(k, xs, ys) ==
    LET tk == k[1]  dk == k[2]  sk == k[3]
    IN  (IF tk > 0 THEN << [key |-> <<tk - 1, dk, sk>>, w |-> PIns] >> ELSE <<>>)
        \o (IF dk > 0 THEN << [key |-> <<tk, dk - 1, sk>>, w |-> PDel] >> ELSE <<>>)
        \o (IF sk > 0 THEN << [key |-> <<tk, dk, sk - 1>>,
                                w |-> SubWeight(xs[sk], ys[sk])] >> ELSE <<>>)

\* The recursive calls of query's match arm for key (t, d, s), in the
\* order the code sums them, each with the factor it is multiplied by: an
\* insertion p_insertion, a deletion p_deletion, a substitution
\* p_sub(x[s + d - 1], y[s + t - 1]).  The seven guarded arms of the code
\* are the seven combinations of t, d, s being zero or positive.
QuerySteps(k, xs, ys) ==
    LET tk == k[1]  dk == k[2]  sk == k[3]
    IN  (IF tk > 0 THEN << [key |-> <<tk - 1, dk, sk>>, w |-> PIns] >> ELSE <<>>)
        \o (IF dk > 0 THEN << [key |-> <<tk, dk - 1, sk>>, w |-> PDel] >> ELSE <<>>)
        \o (IF sk > 0 THEN << [key |-> <<tk, dk, sk - 1>>,
                                w |-> SubWeight(xs[sk + dk], ys[sk + tk])] >> ELSE <<>>)

\* Mutant: the cache is keyed by (d, s) alone.
RECURSIVE QueryKeyedByDS(_, _, _, _)
QueryKeyedByDS(k, c, xs, ys) ==
    LET key == <<0, k[2], k[3]>>
    IN  IF key \in DOMAIN c THEN [v |-> c[key], c |-> c]
        ELSE LET r == IF k = <<0, 0, 0>> THEN [v |-> 1, c |-> c]
                      ELSE FoldLeft(LAMBDA acc, st :
                                      LET q == QueryKeyedByDS(st.key, acc.c, xs, ys)
                                      IN  [v |-> acc.v + q.v * st.w, c |-> q.c],
                                    [v |-> 0, c |-> c], QuerySteps(k, xs, ys))
             IN  [v |-> r.v, c |-> r.c @@ (key :> r.v)]

\* query(key) with the cache c: a hit returns the cached value; a miss
\* computes the arm ((0, 0, 0) is 1), inserts it and returns it.  The
\* result is [v |-> value, c |-> the cache afterwards].
RECURSIVE Query(_, _, _, _)
Query(k, c, xs, ys) ==
    IF k \in DOMAIN c THEN [v |-> c[k], c |-> c]
    ELSE LET r == IF k = <<0, 0, 0>> THEN [v |-> 1, c |-> c]
                  ELSE FoldLeft(LAMBDA acc, st :
                                  LET q == Query(st.key, acc.c, xs, ys)
                                  IN  [v |-> acc.v + q.v * st.w, c |-> q.c],
                                [v |-> 0, c |-> c], QuerySteps(k, xs, ys))
         IN  [v |-> r.v, c |-> r.c @@ (k :> r.v)]

(***************************************************************************)
(* compute                                                                 *)
(***************************************************************************)

\* Mutant: the range of insertion counts is exclusive of t_end.
ComputeRangeExclusive(mm, nn, tmax, dmax) ==
    SatSub(nn, mm)..(MinOf(tmax, SatSub(dmax + nn, mm)) - 1)

\* compute's range (t_start..=t_end): t_start = n.saturating_sub(m),
\* t_end = t_max.min((d_max + n).saturating_sub(m)).
ComputeRange(mm, nn, tmax, dmax) ==
    SatSub(nn, mm)..MinOf(tmax, SatSub(dmax + nn, mm))

\* The filter_map closure's test: t passes unless t > n or n > m + t.
Passes(tk, mm, nn) == ~(tk > nn \/ nn > mm + tk)

\* The keys (t, m + t - n, n - t) compute queries for strings xs and ys.
ComputeKeys(xs, ys, tmax, dmax) ==
    LET mm == Len(xs)  nn == Len(ys)
    IN  { <<tk, mm + tk - nn, nn - tk>> :
            tk \in { u \in ComputeRange(mm, nn, tmax, dmax) : Passes(u, mm, nn) } }

\* (lo..=hi).product::<usize>(), multiplied left to right in usize:
\* [v, over] as in MulAdd (over: a debug build panics, a release build
\* returns the product modulo 2^64).
RECURSIVE ProductFrom(_, _, _)
ProductFrom(i, hi, acc) ==
    IF i > hi THEN acc
    ELSE ProductFrom(i + 1, hi, LET r == MulAdd(acc.v, i, 0)
                                IN  [v |-> r.v, over |-> acc.over \/ r.over])
UsizeProduct(lo, hi) == ProductFrom(lo, hi, [v |-> FromNat(1), over |-> FALSE])

\* Mutant: the denominator's product starts at max_mt, not max_mt + 1.
NormalizerFromMax(mm, tk) ==
    IF mm = 0 /\ tk = 0 THEN {}
    ELSE {UsizeProduct(1, MinOf(tk, mm)), UsizeProduct(mm + tk - MinOf(tk, mm), mm + tk)}

\* The usize products normalizer(t) computes for m = mm before its f64
\* division: min(m, t)! and (max(m, t) + 1..=m + t); none when m = t = 0.
NormalizerProducts(mm, tk) ==
    IF mm = 0 /\ tk = 0 THEN {}
    ELSE {UsizeProduct(1, MinOf(tk, mm)), UsizeProduct(mm + tk - MinOf(tk, mm) + 1, mm + tk)}

\* PString::new: a fresh instance with an empty cache.
Init ==
    /\ x \in Strings /\ y \in Strings
    /\ t_max \in MaxCounts /\ d_max \in MaxCounts
    /\ pc = "new"
    /\ t = 0 /\ t_end = 0
    /\ cache = <<>>
    /\ terms = <<>>

\* compute's first two lines: the bounds of its range.  (An empty range,
\* t_start > t_end, leaves nothing to iterate.)
Start ==
    /\ pc = "new"
    /\ LET r == ComputeRange(m, n, t_max, d_max)
       IN  IF r = {} THEN pc' = "done" /\ UNCHANGED <<t, t_end>>
           ELSE t' = Min(r) /\ t_end' = Max(r)
                              /\ pc' = "loop"
    /\ UNCHANGED <<x, y, t_max, d_max, cache, terms>>

\* The next value of the range, or the end of compute.
Advance == IF t < t_end THEN t' = t + 1 /\ pc' = "loop" ELSE pc' = "done" /\ t' = t

\* The filter_map closure for a t that passes the filter: query((t, d, s))
\* with d = m + t - n and s = n - t is summed.
Iterate ==
    /\ pc = "loop"
    /\ Passes(t, m, n)
    /\ LET k == <<t, m + t - n, n - t>>
           q == Query(k, cache, x, y)
       IN  /\ cache' = q.c
           /\ terms' = Append(terms, [key |-> k, q |-> q.v])
    /\ Advance
    /\ UNCHANGED <<x, y, t_max, d_max, t_end>>

\* The filter_map closure returns None: t > n or n > m + t.
Filtered ==
    /\ pc = "loop"
    /\ ~Passes(t, m, n)
    /\ Advance
    /\ UNCHANGED <<x, y, t_max, d_max, t_end, cache, terms>>

Next == Start \/ Iterate \/ Filtered

Spec == Init /\ [][Next]_vars

(***************************************************************************)
(* The specification compute implements: its cache and its loop are       *)
(* hidden; compute has returned when pc is "done", and it returned the    *)
(* sum of the query values it collected.                                   *)
(***************************************************************************)
Abs == INSTANCE PStringSpec
           WITH done  <- pc = "done",
                total <- IF pc = "done"
                         THEN MapThenSumSet(LAMBDA i : terms[i].q, DOMAIN terms)
                         ELSE 0

Generate(xs, ys, i, j, tk, dk, sk) == Abs!Generate(xs, ys, i, j, tk, dk, sk)

\* The keys spec 4.8 sums: t in [max(0, n - m), min(t_max, d_max + n - m)].
SpecKeys == Abs!SpecCounts(x, y, t_max, d_max)

SummedKeys == { terms[i].key : i \in DOMAIN terms }

(***************************************************************************)
(* Properties.                                                             *)
(***************************************************************************)

\* Every value in the cache, however many t's compute has already run and
\* whichever of them filled it, is the value a fresh computation of that
\* key gives (spec section 8, property 13); in particular query reads the
\* characters x[s + d - 1] and y[s + t - 1] the key stands for.
CacheAgreesWithFreshQuery ==
    \A k \in DOMAIN cache : cache[k] = Generate(x, y, 0, 0, k[1], k[2], k[3])

\* compute implements spec 4.8 (module PStringSpec): it returns the sum,
\* over the insertion counts of the spec's range, of the edit recurrence
\* evaluated afresh; its cache, its loop and its clamp of t_end are
\* invisible.
ComputeImplementsSpec == Abs!Spec

\* The largest m + n for which normalizer is exact: compute calls
\* normalizer(t) only for t <= n.
ShortLengths == 29

\* normalizer(t) for m = mm computes its usize products exactly.
NormalizerExact(mm, tk) == \A p \in NormalizerProducts(mm, tk) : ~p.over

\* NormalizerExact for every m and t with m + t <= ShortLengths.
ShortNormalizersExact ==
    [k \in (0..ShortLengths) \X (0..ShortLengths) |->
        k[1] + k[2] > ShortLengths \/ NormalizerExact(k[1], k[2])]

\* normalizer's usize products never leave 64 bits, so that it neither
\* panics (debug) nor divides wrapped products (release): for every t
\* compute has summed, and for every t compute may pass it on strings x
\* and y of m and n atoms with m + n <= 29.  The first overflow is
\* m = n = t = 15: (16..=30).product() > 2^64.
NormalizerExactForShortStrings ==
    /\ \A i \in DOMAIN terms : NormalizerExact(m, terms[i].key[1])
    /\ \A k \in DOMAIN ShortNormalizersExact : ShortNormalizersExact[k]

\* compute sums the feasible insertion counts of spec 4.8, each once,
\* whenever that range is not empty (d_max + n >= m): no count is lost at
\* either end of t_start..=t_end and none beyond them is summed.  (When
\* d_max + n < m the code's clamp sums t = 0; run compute_clamp.)
ComputeSumsSpecRange ==
    pc = "done" /\ d_max + n >= m =>
        /\ SummedKeys = SpecKeys
        /\ Len(terms) = Cardinality(SummedKeys)

=============================================================================
