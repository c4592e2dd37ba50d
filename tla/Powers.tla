-------------------------------- MODULE Powers --------------------------------
(* Powers of two, as a recursive function: the provers know no exponentiation. *)
EXTENDS Integers

Pow2[i \in Nat] == IF i = 0 THEN 1 ELSE 2 * Pow2[i - 1]
==============================================================================
