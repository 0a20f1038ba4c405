-------------------------------- MODULE Usize --------------------------------
(***************************************************************************)
(* Rust's usize on a 64-bit target, for the usize arithmetic of            *)
(* src/src/types/trs.rs that can leave 64 bits: num_to_usize's             *)
(* sigs * 10 + digit and normalizer's products.  TLC's integers stop at    *)
(* 2^31, so a usize is four 16-bit limbs, least significant first, and a   *)
(* multiply-add carries from limb to limb.  The carry out of the top limb  *)
(* is the overflow: a debug build panics on it, a release build drops it   *)
(* (the value wraps modulo 2^64).  The crate sets no profile, so both      *)
(* builds have Rust's default overflow-checks.                             *)
(***************************************************************************)
EXTENDS Naturals, Sequences

LimbBase == 2^16

\* The usize of a natural number below 2^31.
FromNat(n) == <<n % LimbBase, n \div LimbBase, 0, 0>>

\* u * c + a in usize, limb by limb with the carry: [v |-> the low 64
\* bits, over |-> a carry left the top limb].  c and a stay below 2^14, so
\* no limb product reaches 2^31.
MulAdd(u, c, a) ==
    LET p1 == u[1] * c + a
        p2 == u[2] * c + p1 \div LimbBase
        p3 == u[3] * c + p2 \div LimbBase
        p4 == u[4] * c + p3 \div LimbBase
    IN  [v    |-> <<p1 % LimbBase, p2 % LimbBase, p3 % LimbBase, p4 % LimbBase>>,
         over |-> p4 \div LimbBase # 0]

\* u < n, for n at most one limb.
LessThan(u, n) == u[2] = 0 /\ u[3] = 0 /\ u[4] = 0 /\ u[1] < n

\* The number a usize below 2^16 stands for.
ToNat(u) == u[1]

=============================================================================
