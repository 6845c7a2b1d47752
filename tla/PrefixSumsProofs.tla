--------------------------- MODULE PrefixSumsProofs ---------------------------
(***************************************************************************)
(* What SumTo does, for every number of rows: a sum of integers is one, a  *)
(* single entry moves it by that entry's own change, sums add up entry by  *)
(* entry, and no entry of a sum of naturals exceeds the sum.  Each is a    *)
(* proof by the least counterexample, because a partial sum is defined by  *)
(* the one before it.                                                      *)
(***************************************************************************)
EXTENDS PrefixSums, TLAPS, WellFoundedInduction

(* A set of numbers that is not empty has a least one. *)
LEMMA LeastNumber ==
  ASSUME NEW T \in SUBSET Nat, T # {}
  PROVE  \E n \in T : \A m \in T : n <= m
<1> DEFINE R == {ss \in Nat \X Nat : ss[1] < ss[2]}
<1>1. IsWellFoundedOn(R, Nat)
  BY NatLessThanWellFounded, Zenon DEF OpToRel
<1>2. \A m, n \in Nat : <<m, n>> \in R <=> m < n
  OBVIOUS
<1> HIDE DEF R
<1>3. \E n \in T : \A m \in T : ~(<<m, n>> \in R)
  BY <1>1, WFMin
<1>4. PICK n \in T : \A m \in T : ~(<<m, n>> \in R)
  BY <1>3
<1>5. \A m \in T : ~(m < n)
  BY <1>2, <1>4, Zenon
<1>6. \A m \in T : n <= m
  BY <1>5, T \subseteq Nat
<1> QED
  BY <1>6

(* s is the function of partial sums of f up to n *)
IsPartialSums(s, f, n) ==
  s = [i \in 0..n |-> IF i = 0 THEN 0 ELSE s[i - 1] + f[i]]

(* Partial sums exist for every number of entries. *)
LEMMA PartialSumsExist ==
  ASSUME NEW n \in Nat, NEW f \in [1..n -> Int]
  PROVE  \E s : IsPartialSums(s, f, n)
<1> DEFINE T == {m \in 0..n : ~ \E s : IsPartialSums(s, f, m)}
<1>1. n \in 0..n
  OBVIOUS
<1>2. SUFFICES ASSUME T # {} PROVE FALSE
  BY <1>1
<1>3. PICK m \in T : \A k \in T : m <= k
  BY <1>2, LeastNumber, T \in SUBSET Nat
<1>4. CASE m = 0
  <2> DEFINE s == [i \in 0..0 |-> 0]
  <2>1. IsPartialSums(s, f, 0)
    BY DEF IsPartialSums
  <2> QED BY <2>1, <1>3, <1>4
<1>5. CASE m # 0
  <2>1. m - 1 \in 0..n /\ m - 1 \notin T
    BY <1>3, <1>5
  <2>2. PICK s : IsPartialSums(s, f, m - 1)
    BY <2>1
  <2> DEFINE t == [i \in 0..m |-> IF i = m THEN s[m - 1] + f[m] ELSE s[i]]
  <2>3. IsPartialSums(t, f, m)
    <3>1. \A i \in 0..m : t[i] = IF i = 0 THEN 0 ELSE t[i - 1] + f[i]
      BY <2>2, <1>3, <1>5 DEF IsPartialSums
    <3> QED BY <3>1, Zenon DEF IsPartialSums
  <2> QED BY <2>3, <1>3
<1> QED BY <1>4, <1>5

(* PartialSums is the function its recursive definition describes. *)
LEMMA PartialSumsDef ==
  ASSUME NEW n \in Nat, NEW f \in [1..n -> Int]
  PROVE  IsPartialSums(PartialSums(f, n), f, n)
<1>1. \E s : IsPartialSums(s, f, n)
  BY PartialSumsExist
<1>2. PartialSums(f, n) = CHOOSE s : IsPartialSums(s, f, n)
  BY Zenon DEF PartialSums, IsPartialSums
<1> QED BY <1>1, <1>2, Zenon

(* The two equations of a partial sum. *)
LEMMA PartialSumsStep ==
  ASSUME NEW n \in Nat, NEW f \in [1..n -> Int]
  PROVE  /\ PartialSums(f, n)[0] = 0
         /\ \A i \in 1..n : PartialSums(f, n)[i] = PartialSums(f, n)[i - 1] + f[i]
<1> DEFINE s == PartialSums(f, n)
<1>1. s = [i \in 0..n |-> IF i = 0 THEN 0 ELSE s[i - 1] + f[i]]
  BY PartialSumsDef, Zenon DEF IsPartialSums
<1> HIDE DEF s
<1>2. \A i \in 0..n : s[i] = IF i = 0 THEN 0 ELSE s[i - 1] + f[i]
  BY <1>1
<1>3. s[0] = 0 /\ \A i \in 1..n : s[i] = s[i - 1] + f[i]
  BY <1>2
<1> QED
  BY <1>3 DEF s

(* What holds at 0 and is passed on by every step holds up to n. *)
LEMMA UpTo ==
  ASSUME NEW n \in Nat, NEW good \in SUBSET (0..n),
         0 \in good, \A i \in 1..n : i - 1 \in good => i \in good
  PROVE  \A i \in 0..n : i \in good
<1> DEFINE T == (0..n) \ good
<1>1. SUFFICES ASSUME T # {} PROVE FALSE
  OBVIOUS
<1>2. PICK m \in T : \A k \in T : m <= k
  BY <1>1, LeastNumber, T \in SUBSET Nat
<1>3. m \in 1..n /\ m - 1 \in 0..n /\ m - 1 \notin T
  BY <1>2
<1> QED
  BY <1>2, <1>3

(* A sum of integers is an integer, at every prefix. *)
LEMMA PartialSumsType ==
  ASSUME NEW n \in Nat, NEW f \in [1..n -> Int]
  PROVE  \A i \in 0..n : PartialSums(f, n)[i] \in Int
<1> DEFINE good == {i \in 0..n : PartialSums(f, n)[i] \in Int}
<1>1. 0 \in good
  BY PartialSumsStep
<1>2. ASSUME NEW i \in 1..n, i - 1 \in good PROVE i \in good
  <2>1. PartialSums(f, n)[i] = PartialSums(f, n)[i - 1] + f[i]
    BY PartialSumsStep
  <2>2. f[i] \in Int
    OBVIOUS
  <2> QED
    BY <1>2, <2>1, <2>2
<1> QED
  BY <1>1, <1>2, UpTo

LEMMA SumToType ==
  ASSUME NEW n \in Nat, NEW f \in [1..n -> Int]
  PROVE  SumTo(f, n) \in Int
BY PartialSumsType DEF SumTo

(* One row moves the total by its own change. *)
LEMMA SumToChange ==
  ASSUME NEW n \in Nat, NEW f \in [1..n -> Int], NEW g \in [1..n -> Int],
         NEW k \in 1..n, \A i \in 1..n : i # k => g[i] = f[i]
  PROVE  SumTo(g, n) = SumTo(f, n) + g[k] - f[k]
<1> DEFINE s == PartialSums(f, n)
           t == PartialSums(g, n)
           good == {i \in 0..n : t[i] = s[i] + (IF i < k THEN 0 ELSE g[k] - f[k])}
<1>1. /\ s[0] = 0 /\ t[0] = 0
      /\ \A i \in 1..n : s[i] = s[i - 1] + f[i] /\ t[i] = t[i - 1] + g[i]
      /\ \A i \in 0..n : s[i] \in Int /\ t[i] \in Int
  BY PartialSumsStep, PartialSumsType
<1>2. f[k] \in Int /\ g[k] \in Int
  OBVIOUS
<1>3. 0 \in good
  BY <1>1
<1>4. ASSUME NEW i \in 1..n, i - 1 \in good PROVE i \in good
  <2>1. f[i] \in Int /\ g[i] \in Int /\ i - 1 \in 0..n
    OBVIOUS
  <2>2. /\ s[i] = s[i - 1] + f[i] /\ t[i] = t[i - 1] + g[i]
        /\ s[i - 1] \in Int /\ t[i - 1] \in Int
    BY <1>1, <2>1
  <2> HIDE DEF s, t
  <2>3. t[i - 1] = s[i - 1] + (IF i - 1 < k THEN 0 ELSE g[k] - f[k])
    BY <1>4
  <2>4. t[i] = s[i] + (IF i < k THEN 0 ELSE g[k] - f[k])
    <3>1. CASE i < k
      BY <2>1, <2>2, <2>3, <3>1
    <3>2. CASE i = k
      BY <1>2, <2>2, <2>3, <3>2
    <3>3. CASE i > k
      BY <1>2, <2>1, <2>2, <2>3, <3>3
    <3> QED
      BY <3>1, <3>2, <3>3
  <2> QED
    BY <2>4
<1>5. n \in good
  <2>1. good \in SUBSET (0..n) /\ n \in 0..n
    OBVIOUS
  <2> HIDE DEF good
  <2> QED
    BY <1>3, <1>4, <2>1, UpTo
<1> QED
  BY <1>1, <1>2, <1>5 DEF SumTo

(* A sum of zeros is zero. *)
LEMMA SumToZero ==
  ASSUME NEW n \in Nat, NEW f \in [1..n -> Int], \A i \in 1..n : f[i] = 0
  PROVE  SumTo(f, n) = 0
<1> DEFINE good == {i \in 0..n : PartialSums(f, n)[i] = 0}
<1>1. 0 \in good
  BY PartialSumsStep
<1>2. ASSUME NEW i \in 1..n, i - 1 \in good PROVE i \in good
  BY <1>2, PartialSumsStep
<1>3. n \in good
  <2>1. good \in SUBSET (0..n) /\ n \in 0..n
    OBVIOUS
  <2> HIDE DEF good
  <2> QED
    BY <1>1, <1>2, <2>1, UpTo
<1> QED
  BY <1>3 DEF SumTo

(* Totals add up row by row. *)
LEMMA SumToAdd ==
  ASSUME NEW n \in Nat, NEW f \in [1..n -> Int], NEW g \in [1..n -> Int],
         NEW h \in [1..n -> Int], \A i \in 1..n : h[i] = f[i] + g[i]
  PROVE  SumTo(h, n) = SumTo(f, n) + SumTo(g, n)
<1> DEFINE s == PartialSums(f, n)
           t == PartialSums(g, n)
           u == PartialSums(h, n)
           good == {i \in 0..n : u[i] = s[i] + t[i]}
<1>1. /\ s[0] = 0 /\ t[0] = 0 /\ u[0] = 0
      /\ \A i \in 1..n : /\ s[i] = s[i - 1] + f[i]
                         /\ t[i] = t[i - 1] + g[i]
                         /\ u[i] = u[i - 1] + h[i]
      /\ \A i \in 0..n : s[i] \in Int /\ t[i] \in Int /\ u[i] \in Int
  BY PartialSumsStep, PartialSumsType
<1>2. 0 \in good
  BY <1>1
<1>3. ASSUME NEW i \in 1..n, i - 1 \in good PROVE i \in good
  <2>1. f[i] \in Int /\ g[i] \in Int /\ h[i] = f[i] + g[i] /\ i - 1 \in 0..n
    OBVIOUS
  <2>2. /\ s[i] = s[i - 1] + f[i] /\ t[i] = t[i - 1] + g[i] /\ u[i] = u[i - 1] + h[i]
        /\ s[i - 1] \in Int /\ t[i - 1] \in Int /\ u[i - 1] \in Int
    BY <1>1, <2>1
  <2> HIDE DEF s, t, u
  <2>3. u[i - 1] = s[i - 1] + t[i - 1]
    BY <1>3
  <2> QED
    BY <2>1, <2>2, <2>3
<1>4. n \in good
  <2>1. good \in SUBSET (0..n) /\ n \in 0..n
    OBVIOUS
  <2> HIDE DEF good
  <2> QED
    BY <1>2, <1>3, <2>1, UpTo
<1> QED
  BY <1>4 DEF SumTo

(* In a sum of naturals every partial sum is natural and bounds the entries. *)
LEMMA SumToBounds ==
  ASSUME NEW n \in Nat, NEW f \in [1..n -> Nat]
  PROVE  /\ SumTo(f, n) \in Nat
         /\ \A k \in 1..n : f[k] <= SumTo(f, n)
<1> DEFINE s == PartialSums(f, n)
           good == {i \in 0..n : s[i] \in Nat /\ \A k \in 1..i : f[k] <= s[i]}
<1>0. f \in [1..n -> Int]
  OBVIOUS
<1>1. /\ s[0] = 0
      /\ \A i \in 1..n : s[i] = s[i - 1] + f[i]
  BY <1>0, PartialSumsStep
<1>2. 0 \in good
  BY <1>1
<1>3. ASSUME NEW i \in 1..n, i - 1 \in good PROVE i \in good
  <2>1. s[i] = s[i - 1] + f[i] /\ f[i] \in Nat
    BY <1>1
  <2> HIDE DEF s
  <2>2. s[i - 1] \in Nat /\ \A k \in 1..(i - 1) : f[k] <= s[i - 1]
    BY <1>3
  <2>3. s[i] \in Nat
    BY <2>1, <2>2
  <2>4. ASSUME NEW k \in 1..i PROVE f[k] <= s[i]
    <3>1. k = i \/ k \in 1..(i - 1)
      OBVIOUS
    <3>2. f[k] \in Nat
      OBVIOUS
    <3> QED
      BY <2>1, <2>2, <3>1, <3>2
  <2> QED
    BY <2>3, <2>4
<1>4. n \in good
  <2>1. good \in SUBSET (0..n) /\ n \in 0..n
    OBVIOUS
  <2> HIDE DEF good
  <2> QED
    BY <1>2, <1>3, <2>1, UpTo
<1> QED
  BY <1>4 DEF SumTo
===============================================================================
