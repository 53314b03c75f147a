---------------------------- MODULE PowersOfTwo ----------------------------
(* Shifts and masks of the program are taken for what they do to numbers.  *)
EXTENDS Integers

\* Two to the power of w.
Pow2(w) == LET power[k \in 0 .. w] == IF k = 0 THEN 1 ELSE 2 * power[k - 1] IN power[w]
=============================================================================
