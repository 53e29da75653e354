----------------------------- MODULE FixedPoint -----------------------------
(***************************************************************************)
(* The fixed-point numbers of threads/fixed-point.h, as their integer      *)
(* representation (value * FIX_F).  FIX_F is 65536 in the code.            *)
(***************************************************************************)
EXTENDS Integers

CONSTANT FIX_F

ASSUME FixAssumption == FIX_F \in Nat \ {0}

\* C division truncates toward zero.
Quot(a, b) ==
  LET abs(x) == IF x < 0 THEN -x ELSE x
      q == abs(a) \div abs(b)
  IN  IF (a < 0) = (b < 0) THEN q ELSE -q

fix_int(n) == n * FIX_F
fix_frac(n, d) == Quot(n * FIX_F, d)
fix_trunc(x) == Quot(x, FIX_F)
fix_mul(x, y) == Quot(x * y, FIX_F)
fix_div(x, y) == Quot(x * FIX_F, y)
fix_unscale(x, n) == Quot(x, n)
=============================================================================
