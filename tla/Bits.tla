-------------------------------- MODULE Bits --------------------------------
(***************************************************************************)
(* Powers, and with them the shifts and masks of the C code: a shift right *)
(* by n divides by TwoTo(n), a mask of n bits is the remainder by it; and  *)
(* sums.                                                                   *)
(***************************************************************************)
EXTENDS Integers

\* By its recursion, which the provers can unfold: they know nothing of ^.
Raised(base, n) == LET power[i \in 0..n] == IF i = 0 THEN 1 ELSE base * power[i - 1] IN power[n]

TwoTo(n) == Raised(2, n)

\* f[1] + ... + f[n]
SumTo(f, n) == LET sum[i \in 0..n] == IF i = 0 THEN 0 ELSE sum[i - 1] + f[i] IN sum[n]

\* The number whose digits to this base are f[1], the least, to f[n].
Positional(f, base, n) == SumTo([i \in 1..n |-> f[i] * Raised(base, i - 1)], n)
=============================================================================
