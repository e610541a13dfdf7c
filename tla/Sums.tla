-------------------------------- MODULE Sums --------------------------------
(* Sums of the first values of a function, by recursion so that they can be *)
(* reasoned about.                                                          *)
EXTENDS Integers

\* f[1] + ... + f[n]
Total(f, n) == LET upTo[k \in Nat] == IF k = 0 THEN 0 ELSE upTo[k - 1] + f[k] IN upTo[n]
=============================================================================
