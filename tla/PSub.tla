-------------------------------- MODULE PSub --------------------------------
(***************************************************************************)
(* PString::p_sub (src/src/types/trs.rs) under                             *)
(* PStringIncorrect::Bounded { low, high, weight }: the probability of     *)
(* substituting the atom y for the atom x is weight * mass_y / z, where    *)
(* n_x and n_y are the numbers the atoms display as.  All arithmetic is on *)
(* usize: a subtraction below zero panics in a debug build and wraps       *)
(* modulo 2^64 in a release build.  The result is kept as the two          *)
(* integers mass_y and z, so weight is left out.                          *)
(*                                                                         *)
(* One p_sub call is one step; the state records the results of the calls *)
(* made so far for one x, so that the distribution p_sub(x, .) can be     *)
(* compared with what PStringDist's documentation asks of it.             *)
(***************************************************************************)
EXTENDS Naturals, FiniteSets, FiniteSetsExt, TLC

CONSTANTS
    Bound,       \* the numbers low, high, n_x and n_y range over 0..Bound
    Builds,      \* the builds checked: a subset of {"debug", "release"}
    NotANumber   \* the display of an atom that does not parse as a usize

Numbers == 0..Bound

ASSUME NotANumber \notin Numbers /\ Builds \subseteq {"debug", "release"}

VARIABLES
    low, high,   \* the Bounded configuration
    nx,          \* x.display(sig).parse::<usize>()
    build,       \* how the crate was built
    results      \* n_y -> the outcome of p_sub(x, y) for a y displaying as n_y

vars == <<low, high, nx, build, results>>

\* A usize subtraction in the current build: "ok" and its value, "panic"
\* (debug) or "wrap" (release: the value is 2^64 - (b - a), not kept).
USub(a, b, bld) ==
    IF a >= b THEN [st |-> "ok", v |-> a - b]
    ELSE [st |-> IF bld = "debug" THEN "panic" ELSE "wrap", v |-> 0]

\* range = high + 1 - low, computed whether or not peak uses it.
RangeOf(lo, hi, bld) == USub(hi + 1, lo, bld)

\* The greater of two usize results, or the first of them that failed.
MaxOf(u, v) ==
    CASE u.st # "ok" -> u
      [] v.st # "ok" -> v
      [] OTHER       -> [st |-> "ok", v |-> IF u.v > v.v THEN u.v ELSE v.v]

\* peak: range when n_x is low or high, else (high + 1 - n_x).max(n_x + 1
\* - low), both operands of max computed.
Peak(lo, hi, x, bld) ==
    IF x = lo \/ x = hi THEN RangeOf(lo, hi, bld)
    ELSE MaxOf(USub(hi + 1, x, bld), USub(x + 1, lo, bld))

\* z = (1..peak).sum() + (1..peak).rev().take(k).sum(): the sum of 1 ..
\* peak - 1, then its k largest terms once more.
TriangularZ(p, k) ==
    (p * (p - 1)) \div 2 + SumSet({i \in 1..(p - 1) : i >= p - k})

\* p_sub(x, y) for distinct atoms whose displays parse as n_x and n_y, as
\* the Bounded arm computes it, in the order it computes it.  Outcomes:
\*   "value" with mass and z: the result is weight * mass / z;
\*   "zero"  a display does not parse: 0.0;
\*   "panic" a subtraction below zero in a debug build;
\*   "wrap"  a wrapped peak or mass_y in a release build: a mass near 2^64,
\*           or (1..peak).sum() over 2^64 terms.
\* A wrapped take(high - n_x) in a release build takes every term.
PSubOutcome(lo, hi, x, y, bld) ==
    IF x = NotANumber \/ y = NotANumber THEN [out |-> "zero", mass |-> 0, z |-> 0]
    ELSE LET d_xy == IF x > y THEN x - y ELSE y - x
             peak == Peak(lo, hi, x, bld)
             mass == USub(peak.v, d_xy, bld)
             take == USub(hi, x, bld)
             Fails(st) == [out |-> st, mass |-> 0, z |-> 0]
         IN  CASE RangeOf(lo, hi, bld).st = "panic" -> Fails("panic")
               [] peak.st # "ok"                  -> Fails(peak.st)
               [] mass.st # "ok"                  -> Fails(mass.st)
               [] take.st = "panic"               -> Fails("panic")
               [] OTHER -> [out |-> "value", mass |-> mass.v,
                            z |-> TriangularZ(peak.v, IF take.st = "ok" THEN take.v ELSE peak.v)]

Init ==
    /\ low \in Numbers /\ high \in Numbers
    /\ nx \in Numbers \cup {NotANumber}
    /\ build \in Builds
    /\ results = <<>>

\* One call p_sub(x, y) for an atom y different from x that displays as ny
\* (ny = nx when two operators share a name).
PSubCall(ny) ==
    /\ ny \notin DOMAIN results
    /\ results' = results @@ (ny :> PSubOutcome(low, high, nx, ny, build))
    /\ UNCHANGED <<low, high, nx, build>>

Next == \E ny \in Numbers \cup {NotANumber} : PSubCall(ny)

Spec == Init /\ [][Next]_vars

(***************************************************************************)
(* Properties.                                                             *)
(***************************************************************************)

\* p_sub(x, .) is a distribution of total weight over the incorrect
\* substitutions (PStringDist: "p_deletion + p_correct_sub + sum(all values
\* of p_incorrect_sub) must equal 1.0"; spec 8.12: compute is in [0, 1]):
\* every call gives a value with z > 0 and no panic or wrap, and once every
\* y in [low, high] other than n_x has been asked for, their masses sum to z.
PSubDistribution ==
    LET others == (low..high) \ {nx}
    IN  /\ \A ny \in DOMAIN results :
               results[ny].out \in {"value", "zero"}
               /\ (results[ny].out = "value" => results[ny].z > 0)
        /\ (nx \in Numbers /\ nx \in low..high /\ others # {} /\ others \subseteq DOMAIN results) =>
               MapThenSumSet(LAMBDA ny : results[ny].mass, others)
                   = results[CHOOSE ny \in others : TRUE].z

=============================================================================
