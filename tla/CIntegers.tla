--------------------------------- MODULE CIntegers ---------------------------------
(***************************************************************************)
(* C's arithmetic of integers, where it is not that of the numbers.          *)
(***************************************************************************)
EXTENDS Integers

Magnitude(n) == IF n < 0 THEN -n ELSE n

(* Division truncates; the remainder has the sign of what is divided. *)
Quotient(x, y) ==
  LET q == Magnitude(x) \div Magnitude(y) IN IF (x < 0) = (y < 0) THEN q ELSE -q
Remainder(x, y) ==
  LET r == Magnitude(x) % Magnitude(y) IN IF x < 0 THEN -r ELSE r

(* What an integer becomes that counts from -half to half - 1. *)
Signed(n, half) == ((n + half) % (2 * half)) - half
===============================================================================
