------------------------------ MODULE PrefixSums ------------------------------
(***************************************************************************)
(* Totals over rows numbered 1..n.  The rows of a table that belong to one *)
(* organization (reservations, purchases, corrections) are numbered, so a  *)
(* SUM(...) over them is the last entry of a function of partial sums.     *)
(* The folds of the community modules would do for TLC; this form is one   *)
(* the lemmas of PrefixSumsProofs can be proved about.                     *)
(***************************************************************************)
EXTENDS Integers

PartialSums(f, n) ==
  LET s[i \in 0..n] == IF i = 0 THEN 0 ELSE s[i - 1] + f[i] IN s

(* f[1] + ... + f[n] *)
SumTo(f, n) == PartialSums(f, n)[n]
===============================================================================
