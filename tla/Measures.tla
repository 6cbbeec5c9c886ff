------------------------------- MODULE Measures -------------------------------
(* Rounding to the digits that are stored, and units of weight.  Weights are whole multiples
   of the smallest one stored; decimal.js is told to round half to even. *)
EXTENDS Integers

CONSTANTS Num, Den     \* the grams in one unit of each weight unit: Num[u] / Den[u]

HalfEven(n, d) ==
    LET q == n \div d
        r == 2 * (n % d)
    IN  IF r < d \/ (r = d /\ q % 2 = 0) THEN q ELSE q + 1

ToGrams(m, u) == HalfEven(m * Num[u], Den[u])
FromGrams(w, u) == HalfEven(w * Den[u], Num[u])

\* Converted without rounding in between.
convertWeightDisplay(m, from, to) == HalfEven(m * Num[from] * Den[to], Den[from] * Num[to])
===============================================================================
