------------------------- MODULE MC_ListConversion -------------------------
(***************************************************************************)
(* Two threads call p_list on one Signature, each with one of three      *)
(* argument pairs: x = [55, 055], y = [77, Malformed]; x = [77, 55, 100],  *)
(* y = [18446744073709551621] (2^64 + 5); and x = [77, 55], y = [055].     *)
(* The Signature starts with the ten digit operators, and besides them    *)
(* nothing, an operator 55 of arity 1 (which find must pass over), or the *)
(* nullary operator 77 already registered.                                *)
(***************************************************************************)
EXTENDS ListConversion

CONSTANTS t1, t2, Bad

MC_Threads == {t1, t2}

\* The numeral 18446744073709551621 = 2^64 + 5: twenty digits.
TwoTo64Plus5 == <<1, 8, 4, 4, 6, 7, 4, 4, 0, 7, 3, 7, 0, 9, 5, 5, 1, 6, 2, 1>>

\* The argument pairs <<x, y>> of the p_list calls.
MC_Calls ==
    { << << <<5, 5>>, <<0, 5, 5>> >>,          << <<7, 7>>, Bad >> >>,
      << << <<7, 7>>, <<5, 5>>, <<1, 0, 0>> >>, << TwoTo64Plus5 >> >>,
      << << <<7, 7>>, <<5, 5>> >>,             << <<0, 5, 5>> >> >> }

\* The digit operators "0" .. "9", nullary, in the order a parser meets them.
DigitOps == [d \in 1..10 |-> [arity |-> 0, name |-> d - 1]]

MC_InitialSignatures ==
    { DigitOps,
      DigitOps \o << [arity |-> 1, name |-> 55] >>,
      DigitOps \o << [arity |-> 0, name |-> 77] >> }

=============================================================================
