# TLA+ models of term-rewriting-rs

This directory holds TLA+ models of the term-rewriting library
(`src/src/types/trs.rs`, `src/src/types/atom.rs`) and the TLC configurations
that check them. Only `atom.rs` and `trs.rs` are under `src/`. The signature,
term, rule and unifier code (`signature.rs`, `term.rs`, `rule.rs`) is not. Its
behaviour is taken from `spec.md`, and PROJECT.json marks those definitions
`spec_modelled`.

## 1. Inventory of the system

| Part | State it keeps | Operations that change state | Interacts with |
|---|---|---|---|
| Signature (C1) | Behind one `Arc<RwLock<..>>`: the operators (arity and optional name) and the variables (optional name). Ids are dense. | `new_op`, `new_var`. Lookups take the read lock (`atom.rs` 26-111). | Every atom and term holds a handle to it. `TRS::num_to_atom` adds operators to it. |
| Atom and Term (C2) | Immutable values: a variable, or an operator applied to arguments. | None. `substitute` and `replace` return new terms. | The unifier; `Rule`. |
| Unifier (C3) | None. It is pure. | `pmatch`, `unify`, `alpha`. | Rule matching; the TRS's alpha checks. |
| Rule (C4) | An LHS application and a non-empty list of clauses. | `merge`, `discard`, `add`, `canonicalize`. | TRS mutations; `Rule::rewrite`. |
| TRS (C5) | `rules: Vec<Rule>` with alpha-unique LHSs, and `is_deterministic` (trs.rs 30-34). | `make_deterministic`/`make_nondeterministic`, `remove`, `remove_idx`, `remove_clauses`, `insert`, `insert_idx`, `inserts_idx`, `insert_clauses`, `push`, `pushes`, `move_rule`, `replace`, `canonicalize`. | Rules; the rewrite engine reads `rules`. |
| Rewrite engine (C6) | One call's state: the `TRSRewrites` iterator. It holds a buffered vector (Eager, All, String) or a `Normal` record: a stack of (op, arg index, slice) frames plus the found rewrites. | `TRSRewrites::new`, `Normal::new` (its search loop), `next`. | TRS rules; the String strategy converts terms to strings and back, and may create operators in the signature. |
| String strategy (C6) | None beyond the call: term↔string conversion, pattern splitting and matching. | `rewrite_as_string` and its helpers (trs.rs 562-765); `num_to_atom` mutates the signature. | Signature (C1). |
| Edit distance (C7) | The `PString` memo table `cache[m][n]` and the input strings. | `PString::new`, `compute`, `query` (it fills the cache). | Atoms' display names (`p_sub`). |

The hard behaviours of this code, listed as hazards in PROJECT.json:

* **Composite mutators that are not atomic.** `push` is `insert`, then `get`, then `move_rule`. `move_rule` is `remove_idx`, then `insert`. `replace` is `remove_clauses`, then `insert`. The second step can fail after the first has already changed the TRS.
* **A long sequence of legal calls** (mode switches, merges, removes, moves) must keep the TRS invariants: alpha-unique LHSs, one clause per rule in deterministic mode, no empty rule.
* **Normal's explicit-stack search** (trs.rs 1493-1538). The same stack serves as the search work-list and, after a redex is found, as the context the rewrite is folded back through. Its edge cases are nullary terms, variable arguments and depth ≥ 2.
* **Rule order.** `rewrite_head` stops at the first matching rule.
* **Numeric edges in `p_sub`'s usize arithmetic** and in `normalizer`'s product.
* **A check-then-act race** on the shared signature in `num_to_atom`. It reaches what `p_list` returns, through `p_sub`'s `==` on atoms.
* **Partial failure in `rewrite_as_string`.** A `?` discards every rewrite already collected.

## 2. Modules

| Module | Models | State (VARIABLES) | Actions |
|---|---|---|---|
| `Terms` | Terms, substitution, one-step replace and `pmatch`, from the spec. | none (operators only) | none |
| `TRS` | The `TRS` struct, `TRS::new` (as `Init`) and all of its mutators. | `rules`, `is_deterministic`, `last` (the last call and its result) | `MakeDeterministic`, `MakeNondeterministic`, `RemoveLhs` (`remove`), `RemoveIdx`, `RemoveClauses`, `InsertIdx`, `InsertsIdx`, `InsertClauses`, `Insert`, `Push`, `Pushes`, `MoveRule`, `Replace` |
| `RewriteEngine` | One call of `TRS::rewrite` under Normal, Eager and All. | `term`, `strategy`, `pc`, `stack`, `it`, `out` | `NewBuffered`, `NormalHead`, `NormalStep`, `NormalNone`, `Yield`, `Exhausted` |
| `StringRewrite` | Strategy::String: `rewrite_as_string` and the conversions and pattern matching it calls. | `term`, `pc`, `ri` (the next rule), `acc` (rewrites so far), `status` (`Some`/`None`), `it`, `out` | `ConvertTerm`, `RuleStep` (one rule of the loop, with all its `?` exits), `RulesDone`, `Yield`, `Exhausted` |
| `PString` | `PString::new`, `compute` and the memoised `query`. | `x`, `y`, `t_max`, `d_max`, `pc`, `t`, `t_end`, `cache`, `terms` (what compute has summed) | `Start`, `Iterate` (a t that passes the filter, with its query), `Filtered` |
| `PStringSpec` | What `compute` promises (spec 4.8): one step that sums the fresh edit recurrence over the feasible insertion counts of the spec's range. `PString` implements it except where the code clamps t_end (run compute_clamp). | `x`, `y`, `t_max`, `d_max`, `done`, `total` | `Compute` |
| `ListConversion` | `p_list` run by several threads on one shared Signature, each call with its own arguments: `convert_list_to_string` for x and then y, with `num_to_usize` and `num_to_atom` (snapshot, find, `new_op`), then `PString::new` and `compute` over the two strings. | `args` (each call's x and y), `ops` (the Signature's operators), `creators`, and per thread `pc`, `li`, `pos`, `snap`, `cur`, `strings`, `result` | `Cell`, `Find`, `Create`, `PList` |
| `PSub` | `p_sub`'s Bounded arm in usize arithmetic. | `low`, `high`, `nx`, `build` (debug or release), `results` (p_sub per n_y) | `PSubCall(ny)` |
| `Usize` | Rust's 64-bit usize as four 16-bit limbs (TLC's integers stop at 2^31): `MulAdd` returns the wrapped value and whether it overflowed. | none (operators only) | none |
| `MC_TRS`, `MC_RewriteEngine`, `MC_StringRewrite`, `MC_PString`, `MC_PSub`, `MC_ListConversion` | Model values and constant definitions for TLC. | | |

**TRS.** Each mutator is written twice:
* as a pure operator `XxxT(t, ...)` on a value `[rules, det]`, which returns `[t, res]`;
* as an action that applies it.

Composite mutators therefore call their parts exactly as the Rust does. `InsertsIdxT` and `PushesT` fold `InsertIdxT` and `PushT` over the reversed batch and stop at the first error (a `FoldLeft` that keeps the first non-`Ok` result), as `for rule in rules.into_iter().rev() { ...? }` does. `Init` is `TRS::new` over the empty batch or a batch of two rules, which is `pushes` on the empty TRS. `MoveRuleT` calls `RemoveIdxT`, then `InsertT`. `PushT` calls `InsertT`, then `Get`, then `MoveRuleT`. `ReplaceT` calls `RemoveClausesT`, then `InsertT`.

A failing call returns its error together with whatever state the code had reached before the `?` returned. The action records the call in `last`.

Data abstraction:
* An LHS is a model value of `Lhs` that stands for an alpha-equivalence class, so `alphas` becomes equality.
* A clause is a model value of `Rhs`.
* `Rule::merge` and `Rule::discard` are modelled from the spec.
* Rule indices range over `0..|Lhs|+1`, so every out-of-range case occurs.
* A batch for `pushes` and `inserts_idx` is any pair of rules, repeated LHSs included.
* `canonicalize` only renames variables; at this abstraction it is the identity and is not an action.

**RewriteEngine.** Terms are `[sym, args]` records.
* Eager and All are computed at once in `TRSRewrites::new`, as in the code (`NewBuffered`). They are defined by the recursive operators `RewriteHead`, `RewriteArgs`/`EagerRewrites` and `RewriteAll`.
* Normal is modelled one loop iteration per step:
  * `NormalHead` is the head check and the initial frame.
  * `NormalStep` is one pop of the while-let: the panic when the index is past the slice, the variable arm, the redex arm (push back and reverse) and the push arm.
  * `NormalNone` is the empty stack.
* `Yield` is one `next()`, including the fold through the stack.
* `NormalReference` defines leftmost-outermost rewriting as spec 4.6 states it. It is the reference the code is compared with.

**StringRewrite.** Strings are sequences of atoms, and an atom is the model value of its symbol.
* `ConvertTermToString`, `ConvertToTerm`, `RuleToStrings`, `GenBreaks` (with itertools' `combinations` in lexicographic order), `ValidOption`, `MatchPattern` and `SubstitutePattern` translate the functions of trs.rs 631-765. Their `Option` result is the record `[ok, v]`.
* `RuleStringRewrites` is the body of the loop over the rules. It returns None at the first `?` that fails.
* The spec's definition of string rewriting, `SpecStringRewrites`, enumerates every assignment of substrings (the empty one included) to the LHS variables. It is the reference the code is compared with.
* The model assumes one operator named `"."`. It therefore does not cover the open question of spec section 9 (several such operators).

**PString.** Each probability is a natural-number weight.
* `query` only adds and multiplies, so sums of products that read different characters have different values when the weights are distinct.
* `Query(k, c, x, y)` is the code's recursion with the cache threaded through it. On a miss it sums the arms of `QuerySteps` in the code's order. The seven guarded arms of the `match` are exactly the combinations of t, d and s being zero or positive.
* The reference `Generate` is the edit model of spec 4.8 written forwards. It consumes x and y from the front with explicit positions, so it shares none of query's index arithmetic.
* `PStringSpec` states spec 4.8: one step that sums `Generate` over the feasible counts of the spec's range `[max(0, n-m), min(t_max, d_max + n - m)]`, in integers. `Abs` maps PString to it: `done` is `pc = "done"`, and `total` is the sum of the summed terms' query values once compute has returned. `ComputeImplementsSpec` checks `Abs!Spec`. It fails only where the code's `saturating_sub` clamps t_end (run compute_clamp). Elsewhere, `CacheAgreesWithFreshQuery` and `ComputeSumsSpecRange` together give what it states.
* `rho_t` and `normalizer` (f64) multiply each term but do not affect which terms are summed or what the cache holds, so the sum leaves them out.
* `normalizer`'s two usize products, `(1..=min_mt)` and `(max_mt+1..=m+t)`, are modelled in 64-bit usize (`NormalizerProducts`, with `UsizeProduct` multiplying left to right as `product::<usize>()` does). Their overflow is what `NormalizerExactForShortStrings` is about. The f64 division after them is not modelled.

**ListConversion.** A list element is its numeral, the sequence of its decimal digits, or `Malformed`. `NumToUsize` is `num_to_usize`: `sigs * 10 + digit` for each digit, in 64-bit usize. Its overflow panics the thread in a debug build (`Panics`, pc `panic`) and wraps in a release build. The constant `Build` says which. The crate sets no profile, so these are Rust's defaults. The table `Parsed` holds `num_to_usize` of every list element, so each one is computed once. Each lock acquisition of the Signature is one step: `Cell` converts one cell (NIL ends the list, a malformed cell or a number of 100 or more makes the result None, otherwise it takes the `sig.operators()` snapshot); `Find` scans the snapshot for a nullary operator named n; `Create` is `new_op`, which appends under the write lock. The threads share one Signature because `sig.clone()` shares its `Arc`. A digit is a nullary operator named "0" to "9" (`digit_to_usize`, trs.rs 591-605), and every numeral is built from such operators. So `Init` requires the Signature to hold a nullary operator for each digit of the calls' numerals. `find` therefore always hits for a number below 10, and only a number of two or more digits can be created. Besides the ten digits, the initial Signature holds nothing, an operator 55 of arity 1 (not a match), or a nullary operator 77.
`PList` is the end of `p_list`, which composes the conversion with the edit distance. It returns NEG_INFINITY when a conversion returned None. Otherwise its result is `Distance` of the two strings: the query value of every key (t, d, s) that `compute` sums. `Distance` takes `ComputeKeys` and `Query` (with a cold cache) from `PString` through a named `INSTANCE`. `p_sub` uses the Constant distribution (`PSubConstant`): it compares atoms with `==`. The factors `rho_t(t)` and `normalizer(t)` depend on t and the lengths only, and are left out as in `PString`.

**PSub.** `p_sub` is computed in the code's order.
* Every usize subtraction is a `USub`: below zero it panics (debug) or wraps (release).
* The result is the pair (mass_y, z) of integers; `weight` is left out.
* A wrapped peak or mass is kept as the outcome "wrap", not as a number: its value is near 2^64, or `(1..peak).sum()` would run 2^64 steps.
* A wrapped `take` count takes every term, as the code does.

## 3. Runs

| Run | cfg | Checks | Result |
|---|---|---|---|
| trs_invariants | `MC_TRS.cfg` | `TypeOK`, `UniqueLhs`, `DeterministicRulesHaveOneClause`, `NoEmptyRule`, `PushPutsRuleFirst` (action), `NoClauseLost` (action), `PushesPutsRulesFirstInOrder` (action: a successful `pushes` leaves the batch, without repeats, at the front in its own order) | pass (2748 distinct states) |
| trs_failed_mutation | `MC_TRS_failed.cfg` | `FailedMutationLeavesTRSUnchanged` | violation: `insert_idx(0, l1=[c1])` then `move_rule(0, 1)` returns InvalidIndex with an empty TRS. The property also fails for `inserts_idx(0, [l1 = c1, l1 = c2])`. It inserts the batch in reverse (`.rev()`, trs.rs 1105), so it inserts l1 = c2, returns AlreadyInTRS for l1 = c1, and leaves l1 = c2 behind. |
| rewrite_safety | `MC_RewriteEngine.cfg` | `YieldsWellFormed`, `EagerWithinAll`, `CallEnds` (liveness: every call is exhausted or panics) | pass (3991 states) |
| strategies_follow_spec | `MC_RewriteEngine_spec.cfg` | `StrategiesFollowSpec` (`NormalIsLeftmostOutermost` and `AllYieldsEveryMatchingRule`) | violation. TLC's shortest trace is Normal's panic on the nullary term `A`. The property also fails on `J(J(C, A), A)` (wrong context), on `J(y, C)` (siblings skipped after a variable), and for All on `F(A)` (only the first matching rule). |
| string_safety | `MC_StringRewrite.cfg` | `StringRewritesSound`, `ConversionRoundTrip` | pass (3558 states) |
| string_spec_rewrites | `MC_StringRewrite_spec.cfg` | `StringYieldsSpecRewrites` | violation. The shortest trace: on `B`, `x_ B x_ = x_` gives an empty RHS string, the call returns None, and the rewrite `A` of `x_ B = x_ A` is lost. It also fails on `A B`, where `A x_ B = C` never lets x_ match the empty segment. |
| pstring_query | `MC_PString.cfg` | `CacheAgreesWithFreshQuery`, `ComputeSumsSpecRange` (exactly spec 4.8's counts, each once, whenever the spec's range is not empty), `NormalizerExactForShortStrings` (no usize overflow in `normalizer` when m + n ≤ 29; with 30 the property fails at m = t = 15) | pass (12358 states) |
| compute_clamp | `MC_PString_clamp.cfg` | `ComputeImplementsSpec` (compute implements spec 4.8, module `PStringSpec`) | violation: x = [a], y = [], t_max = d_max = 0. The code's t_end is `0.min((0 + 0).saturating_sub(1)) = 0`, so compute sums query((0, 1, 0)) = p_deletion, where the spec's range is empty. |
| psub_distribution | `MC_PSub_distribution.cfg` | `PSubDistribution` | violation. The shortest trace: low = high = n_y = n_x gives z = 0. It also fails for low = 0, high = 1, n_x = 0 (mass 1 against z = 2), and for numbers outside [low, high] (usize underflow). |

| list_conversion | `MC_ListConversion.cfg` (debug build) | `TypeOK`, `AtomNamedForNumber`, `OneCreationPerThreadAndNumber` | pass (15289 states) |
| signature_race | `MC_ListConversion_race.cfg` (debug build) | `PListDependsOnNumbers` (what `p_list` returns is `compute` over the numbers' names) | violation. t2's call has x = [77, 55] and y = [055]. Its snapshot misses 55, t1 registers 55, and t2 registers a second 55. t2's `055` is then found as t1's operator, so the two 55s are different atoms. With p_deletion 3, p_correct_sub 5 and p_incorrect_sub 7, the term for key (0, 1, 1) is 42, where the numbers give 36. |
| numeral_wraps | `MC_ListConversion_release.cfg` (release build) | `AtomNamedForNumber` | violation: the numeral 18446744073709551621 = 2^64 + 5 wraps to 5, passes `n < 100`, and gets the operator named "5" |

PROJECT.json's `findings` explain each violation against the code lines.

**Bounds.**

MC_TRS:
* There are 3 LHS classes and 2 clauses, and a rule holds at most 2 clauses.
* Two distinct clauses are enough for merge, discard and truncation to differ.
* Three LHSs are enough for `push` to move a rule past another and for an index to fall one past the end.
* Symmetry over both sets is sound: the model compares LHSs and clauses only for equality.

MC_RewriteEngine:
* The signature is J/2, F/1 and constants A, B, C, D, with variables x, y.
* There are four rules, chosen so that the interesting cases happen:
  * a nondeterministic rule (`C = A | B`);
  * two overlapping rules in the order that makes the first shadow the second (`F(x_) = J(x_ x_)` before `F(A) = B`);
  * a non-linear LHS (`J(x_ x_) = D`).
* Every term over {J, F, A, C, y} up to height 2 is an input, with every strategy.
* Height 2 is the least height with a redex below depth 1, so the stack holds frames that are not the parent.

MC_StringRewrite:
* The signature is `.`/2, F/1 and A, B, C, with variables x, y.
* The inputs are every term of height ≤ 2. They include strings of 1-4 atoms nested in both directions, and terms with no string (F).
* The three rules are listed in `MC_StringRewrite.tla`. Between them they have:
  * a variable between two operators;
  * a non-linear pattern whose RHS can be empty;
  * a variable that can match the empty prefix.
* The round trip is checked on the string of every input, which covers every string of 1-4 atoms over A, B, C and y.

MC_PString:
* The strings are every string of up to 3 atoms over {a, b}, for both x and y.
* t_max and d_max each range over 0..3. This covers empty strings, m > n + d_max, t_max below n - m, and t beyond n (the filter).
* The weights are p_insertion = 2, p_deletion = 3, p_sub = 5 (equal atoms) and 7 (different atoms).

MC_PSub (run psub_distribution):
* low, high, n_x and n_y each range over 0..4, plus a display that is not a number, for both builds.
* This covers n_x at either end of [low, high], in each half, outside the range, and low = high.

MC_ListConversion:
* Two threads. Each thread's call gets one of three argument pairs (`MC_Calls`): x = `[55, 055]` with y = `[77, Malformed]`; x = `[77, 55, 100]` with y = `[18446744073709551621]`; and x = `[77, 55]` with y = `[055]`. The Signature starts with the ten digit operators, and possibly one more operator. Both threads may get the same pair.
* This covers:
  * a repeated number in one list, written with a leading zero the second time (it finds the first's operator);
  * the same number in both threads (the race);
  * a malformed cell, and a number at the limit, after earlier cells registered operators;
  * an initial operator of the right name but the wrong arity;
  * a numeral that overflows usize. It has 20 digits and equals 2^64 + 5, so in a release build it wraps into the accepted range.
* `p_list` is called with t_max = d_max = 1, p_insertion 2, p_deletion 3, p_correct_sub 5 and p_incorrect_sub 7. For x = [77, 55] and y = [055] this sums the key (0, 1, 1), which substitutes y's 55 for each of x's elements in turn. The weights are distinct primes, so a substitution that is scored wrongly changes the value.

**Fairness.** One call runs on one thread with no blocking. Once a step is enabled it stays enabled until it is taken, so weak fairness of each action models sequential execution. `CallEnds` is checked for every strategy. Eager's and All's buffers are computed once per input (the constant table `Buffered`), so `NewBuffered` is one step, as the code's `TRSRewrites::new` is. The safety runs set `CHECK_DEADLOCK FALSE` (and String has no liveness run: it has no loop that is not over a finite sequence), because a finished call (`done`, `returned` or `panic`) is meant to stop.

## 4. Not modelled, and the plan for the next sittings

* **Signature beyond `num_to_atom`.** `new_var` and the other accessors are not used concurrently by anything under `src/`.
* **The f64 arithmetic of `rho_t`, `normalizer`'s division and `ln`** (trs.rs 1399-1415): TLC has no floats. `normalizer`'s usize products are modelled.
* **Queries and equivalence predicates** (`len`, `size`, `get_idx`, `get_clause`, `unifies`, `pmatches`, `alphas`, `same_shape`): they change no state. `TRS` abstracts an LHS to its alpha-equivalence class, so matching and unification between different classes cannot be expressed, and at this abstraction these predicates reduce to equality of the rule sequences. `clauses` is modelled as `Clauses`, the set of (LHS, clause) pairs over which `NoClauseLost` is stated.
* **Display, pretty-printing and the text of errors**: pure formatting.
* **The bool that `make_deterministic` and `make_nondeterministic` return** (whether the flag changed): the model records `Ok` for both, and no property reads it.

Further work: an abstract TRS (a map from LHS to a set of clauses) refined by `TRS` for the mutators that succeed; String rewriting over a Signature shared with `p_list`; a third thread in the list conversion, which the two-thread race already covers in kind.
