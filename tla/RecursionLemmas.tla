--------------------------- MODULE RecursionLemmas ---------------------------
(***************************************************************************)
(* What the recursive functions of the modules compute: running sums and   *)
(* running concatenations exist, have the type one expects and grow.       *)
(*                                                                         *)
(* A recursive function f[k \in S] == e stands for a CHOOSE of a function  *)
(* that satisfies the equation f = [k \in S |-> e], so that nothing can be *)
(* said of it before some function is shown to satisfy the equation.       *)
(* Induction is by the least counterexample.                               *)
(***************************************************************************)
EXTENDS Integers, Sequences, WellFoundedInduction, TLAPS

(* Every set of natural numbers that is not empty has a least member.       *)
LEMMA LeastNumber ==
  ASSUME NEW T, T \subseteq Nat, T # {}
  PROVE  \E n \in T : \A k \in T : n <= k
<1>1. PICK n \in T : \A k \in T : ~(<<k, n>> \in OpToRel(<, Nat))
  BY WFMin, NatLessThanWellFounded
<1>2. \A k \in T : ~(k < n)
  BY <1>1 DEF OpToRel
<1> QED
  BY <1>2

(* A set that contains 0 and with every number the next one contains all    *)
(* numbers.                                                                 *)
LEMMA EveryNumber ==
  ASSUME NEW T, 0 \in T, \A n \in Nat : n \in T => n + 1 \in T
  PROVE  Nat \subseteq T
<1> SUFFICES ASSUME Nat \ T # {} PROVE FALSE
  OBVIOUS
<1>1. PICK n \in Nat \ T : \A k \in Nat \ T : n <= k
  <2>1. Nat \ T \subseteq Nat
    OBVIOUS
  <2> QED
    BY <2>1, LeastNumber
<1>2. n # 0
  BY <1>1
<1>3. n - 1 \in Nat /\ n - 1 \in T
  BY <1>1, <1>2
<1>4. (n - 1) + 1 \in T
  BY <1>3
<1> QED
  BY <1>1, <1>4

-----------------------------------------------------------------------------
(* Running sums.                                                           *)

(* s[k] is the sum of the first k of n numbers.                             *)
IsSums(s, a, n) == s = [k \in 0..n |-> IF k = 0 THEN 0 ELSE s[k - 1] + a[k]]

(* Running sums exist for any numbers.                                      *)
LEMMA SumsExist ==
  ASSUME NEW a, NEW n \in Nat
  PROVE  \E s : IsSums(s, a, n)
<1> DEFINE Summed == {m \in Nat : \E s : IsSums(s, a, m)}
<1>1. 0 \in Summed
  <2> DEFINE s == [k \in 0..0 |-> 0]
  <2>1. IsSums(s, a, 0)
    BY DEF IsSums
  <2> QED
    BY <2>1
<1>2. ASSUME NEW m \in Nat, m \in Summed PROVE m + 1 \in Summed
  <2>1. PICK s : IsSums(s, a, m)
    BY <1>2
  <2> DEFINE t == [k \in 0..(m + 1) |-> IF k = m + 1 THEN s[m] + a[m + 1] ELSE s[k]]
  <2>2. ASSUME NEW k \in 0..(m + 1) PROVE t[k] = IF k = 0 THEN 0 ELSE t[k - 1] + a[k]
    BY <2>1, <2>2 DEF IsSums
  <2>3. t = [k \in 0..(m + 1) |-> IF k = 0 THEN 0 ELSE t[k - 1] + a[k]]
    BY <2>2
  <2>4. IsSums(t, a, m + 1)
    BY <2>3 DEF IsSums
  <2> QED
    BY <2>4
<1> HIDE DEF Summed
<1>3. Nat \subseteq Summed
  BY <1>1, <1>2, EveryNumber
<1> QED
  BY <1>3 DEF Summed

(* Running sums of natural numbers are natural numbers and never fall.      *)
LEMMA SumsGrow ==
  ASSUME NEW a, NEW n \in Nat, \A k \in 1..n : a[k] \in Nat, NEW s, IsSums(s, a, n)
  PROVE  /\ \A k \in 0..n : s[k] \in Nat
         /\ \A j, k \in 0..n : j <= k => s[j] <= s[k]
<1>e. /\ s[0] = 0
      /\ \A k \in 0..n : k # 0 => s[k] = s[k - 1] + a[k]
  BY DEF IsSums
<1>1. \A k \in 0..n : s[k] \in Nat
  <2> DEFINE T == {k \in Nat : k <= n => s[k] \in Nat}
  <2>1. 0 \in T
    BY <1>e
  <2>2. ASSUME NEW k \in Nat, k \in T PROVE k + 1 \in T
    <3> SUFFICES ASSUME k + 1 <= n PROVE s[k + 1] \in Nat
      OBVIOUS
    <3>1. s[k] \in Nat /\ a[k + 1] \in Nat
      BY <2>2
    <3>2. s[k + 1] = s[(k + 1) - 1] + a[k + 1] /\ (k + 1) - 1 = k
      BY <1>e
    <3> QED
      BY <3>1, <3>2
  <2> HIDE DEF T
  <2>3. Nat \subseteq T
    BY <2>1, <2>2, EveryNumber
  <2> QED
    BY <2>3 DEF T
<1>2. ASSUME NEW j \in 0..n PROVE \A k \in 0..n : j <= k => s[j] <= s[k]
  <2> DEFINE T == {m \in Nat : j + m <= n => s[j] <= s[j + m]}
  <2>1. 0 \in T
    BY <1>1
  <2>2. ASSUME NEW m \in Nat, m \in T PROVE m + 1 \in T
    <3> SUFFICES ASSUME j + (m + 1) <= n PROVE s[j] <= s[j + (m + 1)]
      OBVIOUS
    <3> DEFINE k == j + (m + 1)
    <3>1. k \in 1..n /\ k - 1 = j + m /\ k - 1 \in 0..n
      OBVIOUS
    <3>2. s[j] <= s[k - 1]
      BY <2>2, <3>1
    <3>3. s[k] = s[k - 1] + a[k] /\ a[k] \in Nat /\ s[k - 1] \in Nat /\ s[j] \in Nat
      BY <1>1, <1>e, <3>1
    <3> HIDE DEF k
    <3>4. s[j] <= s[k]
      BY <3>2, <3>3
    <3> QED
      BY <3>4 DEF k
  <2> HIDE DEF T
  <2>3. Nat \subseteq T
    BY <2>1, <2>2, EveryNumber
  <2>4. ASSUME NEW k \in 0..n, j <= k PROVE s[j] <= s[k]
    <3>1. k - j \in Nat /\ j + (k - j) = k
      BY <2>4
    <3>2. k - j \in T
      BY <2>3, <3>1
    <3> QED
      BY <3>1, <3>2 DEF T
  <2> QED
    BY <2>4
<1> QED
  BY <1>1, <1>2

(* Two functions have the same values between two numbers.                 *)
Agree(f, g, first, last) == \A k \in first..last : f[k] = g[k]

(* Running sums of the same numbers agree, however many are summed.         *)
LEMMA SumsAgree ==
  ASSUME NEW a, NEW b, NEW m \in Nat, NEW n \in Nat, NEW s, NEW t,
         m <= n, Agree(a, b, 1, m), IsSums(s, a, m), IsSums(t, b, n)
  PROVE  Agree(s, t, 0, m)
<1> DEFINE T == {k \in Nat : k <= m => s[k] = t[k]}
<1>1. s[0] = 0 /\ \A k \in 1..m : s[k] = s[k - 1] + a[k]
  BY DEF IsSums
<1>2. t[0] = 0 /\ \A k \in 1..n : t[k] = t[k - 1] + b[k]
  BY DEF IsSums
<1>3. 0 \in T
  BY <1>1, <1>2
<1>4. ASSUME NEW k \in Nat, k \in T PROVE k + 1 \in T
  <2> SUFFICES ASSUME k + 1 <= m PROVE s[k + 1] = t[k + 1]
    OBVIOUS
  <2>1. k + 1 \in 1..m /\ k + 1 \in 1..n /\ (k + 1) - 1 = k /\ s[k] = t[k]
    BY <1>4
  <2>2. s[k + 1] = s[k] + a[k + 1] /\ t[k + 1] = t[k] + b[k + 1] /\ a[k + 1] = b[k + 1]
    BY <1>1, <1>2, <2>1 DEF Agree
  <2> QED
    BY <2>1, <2>2
<1> HIDE DEF T
<1>5. Nat \subseteq T
  BY <1>3, <1>4, EveryNumber
<1> QED
  BY <1>5 DEF T, Agree

-----------------------------------------------------------------------------
(* Running concatenations.                                                 *)

(* s[k] is the concatenation of those of the first k of n sequences that    *)
(* come after the first `skip' ones.                                        *)
IsJoins(s, a, skip, n) ==
  s = [k \in 0..n |-> IF k <= skip THEN << >> ELSE s[k - 1] \o a[k]]

(* Running concatenations exist for any sequences.                          *)
LEMMA JoinsExist ==
  ASSUME NEW a, NEW skip \in Nat, NEW n \in Nat
  PROVE  \E s : IsJoins(s, a, skip, n)
<1> DEFINE Joined == {m \in Nat : \E s : IsJoins(s, a, skip, m)}
<1>1. 0 \in Joined
  <2> DEFINE s == [k \in 0..0 |-> << >>]
  <2>1. IsJoins(s, a, skip, 0)
    BY DEF IsJoins
  <2> QED
    BY <2>1
<1>2. ASSUME NEW m \in Nat, m \in Joined PROVE m + 1 \in Joined
  <2>1. PICK s : IsJoins(s, a, skip, m)
    BY <1>2
  <2> DEFINE t == [k \in 0..(m + 1) |-> IF k = m + 1
                                           THEN IF k <= skip THEN << >> ELSE s[m] \o a[m + 1]
                                           ELSE s[k]]
  <2>2. ASSUME NEW k \in 0..(m + 1) PROVE t[k] = IF k <= skip THEN << >> ELSE t[k - 1] \o a[k]
    BY <2>1, <2>2 DEF IsJoins
  <2>3. t = [k \in 0..(m + 1) |-> IF k <= skip THEN << >> ELSE t[k - 1] \o a[k]]
    BY <2>2
  <2>4. IsJoins(t, a, skip, m + 1)
    BY <2>3 DEF IsJoins
  <2> QED
    BY <2>4
<1> HIDE DEF Joined
<1>3. Nat \subseteq Joined
  BY <1>1, <1>2, EveryNumber
<1> QED
  BY <1>3 DEF Joined

(* The concatenations of sequences over S are sequences over S.             *)
LEMMA JoinsType ==
  ASSUME NEW S, NEW a, NEW skip \in Nat, NEW n \in Nat,
         \A k \in 1..n : a[k] \in Seq(S),
         NEW s, IsJoins(s, a, skip, n)
  PROVE  \A k \in 0..n : s[k] \in Seq(S)
<1>e. \A k \in 0..n : s[k] = IF k <= skip THEN << >> ELSE s[k - 1] \o a[k]
  BY DEF IsJoins
<1> DEFINE T == {k \in Nat : k <= n => s[k] \in Seq(S)}
<1>0. << >> \in Seq(S)
  OBVIOUS
<1>1. 0 \in T
  <2>1. s[0] = << >>
    BY <1>e
  <2> QED
    BY <1>0, <2>1
<1>2. ASSUME NEW k \in Nat, k \in T PROVE k + 1 \in T
  <2> SUFFICES ASSUME k + 1 <= n PROVE s[k + 1] \in Seq(S)
    OBVIOUS
  <2>1. s[k] \in Seq(S) /\ a[k + 1] \in Seq(S)
    BY <1>2
  <2>2. (k + 1) - 1 = k /\ k + 1 \in 0..n
    OBVIOUS
  <2>3. s[k + 1] = << >> \/ s[k + 1] = s[k] \o a[k + 1]
    BY <1>e, <2>2
  <2>4. s[k] \o a[k + 1] \in Seq(S)
    BY <2>1
  <2> QED
    BY <1>0, <2>3, <2>4
<1> HIDE DEF T
<1>3. Nat \subseteq T
  BY <1>1, <1>2, EveryNumber
<1> QED
  BY <1>3 DEF T

(* The concatenations depend only on the sequences that are not skipped.    *)
LEMMA JoinsUnique ==
  ASSUME NEW a, NEW b, NEW skip \in Nat, NEW n \in Nat,
         \A k \in 1..n : k > skip => a[k] = b[k],
         NEW s, IsJoins(s, a, skip, n), NEW t, IsJoins(t, b, skip, n)
  PROVE  s = t
<1>s. \A k \in 0..n : s[k] = IF k <= skip THEN << >> ELSE s[k - 1] \o a[k]
  BY DEF IsJoins
<1>t. \A k \in 0..n : t[k] = IF k <= skip THEN << >> ELSE t[k - 1] \o b[k]
  BY DEF IsJoins
<1> DEFINE T == {k \in Nat : k <= n => s[k] = t[k]}
<1>1. 0 \in T
  <2>1. s[0] = << >> /\ t[0] = << >>
    BY <1>s, <1>t
  <2> QED
    BY <2>1
<1>2. ASSUME NEW k \in Nat, k \in T PROVE k + 1 \in T
  <2> SUFFICES ASSUME k + 1 <= n PROVE s[k + 1] = t[k + 1]
    OBVIOUS
  <2>1. (k + 1) - 1 = k /\ k + 1 \in 0..n /\ k + 1 \in 1..n /\ s[k] = t[k]
    BY <1>2
  <2>2. CASE k + 1 <= skip
    BY <1>s, <1>t, <2>1, <2>2
  <2>3. CASE k + 1 > skip
    <3> DEFINE m == k + 1
    <3>0. m \in 0..n /\ ~(m <= skip) /\ m - 1 = k
      BY <2>1, <2>3
    <3> HIDE DEF m
    <3>s. s[m] = s[m - 1] \o a[m]
      BY <1>s, <3>0, Zenon
    <3>t. t[m] = t[m - 1] \o b[m]
      BY <1>t, <3>0, Zenon
    <3>1. s[k + 1] = s[k] \o a[k + 1] /\ t[k + 1] = t[k] \o b[k + 1]
      BY <3>0, <3>s, <3>t DEF m
    <3>2. a[k + 1] = b[k + 1]
      BY <2>1, <2>3
    <3> QED
      BY <2>1, <3>1, <3>2
  <2> QED
    BY <2>2, <2>3
<1> HIDE DEF T
<1>3. Nat \subseteq T
  BY <1>1, <1>2, EveryNumber
<1>4. \A k \in 0..n : s[k] = t[k]
  BY <1>3 DEF T
<1>5. s = [k \in 0..n |-> s[k]] /\ t = [k \in 0..n |-> t[k]]
  BY DEF IsJoins
<1>6. [k \in 0..n |-> s[k]] = [k \in 0..n |-> t[k]]
  BY <1>4
<1> QED
  BY <1>5, <1>6, Zenon

-----------------------------------------------------------------------------
(* What the elements of a sequence weigh together.                         *)

Weights(seq, w) == [k \in 1..Len(seq) |-> w[seq[k]]]
Total(seq, w) == (CHOOSE t : IsSums(t, Weights(seq, w), Len(seq)))[Len(seq)]

(* It is a running sum of natural numbers.                                  *)
LEMMA TotalIs ==
  ASSUME NEW E, NEW seq \in Seq(E), NEW w \in [E -> Nat]
  PROVE  /\ \E t : IsSums(t, Weights(seq, w), Len(seq)) /\ Total(seq, w) = t[Len(seq)]
         /\ \A k \in 1..Len(seq) : Weights(seq, w)[k] = w[seq[k]] /\ w[seq[k]] \in Nat
         /\ Total(seq, w) \in Nat
<1> DEFINE a == Weights(seq, w)
           n == Len(seq)
           t == CHOOSE u : IsSums(u, a, n)
<1>1. n \in Nat
  OBVIOUS
<1>2. \A k \in 1..n : a[k] = w[seq[k]] /\ w[seq[k]] \in Nat
  BY DEF Weights
<1>3. Total(seq, w) = t[n]
  BY DEF Total
<1> HIDE DEF a, n
<1>4. IsSums(t, a, n)
  BY <1>1, SumsExist
<1> HIDE DEF t
<1>5. \A k \in 0..n : t[k] \in Nat
  <2>1. \A k \in 1..n : a[k] \in Nat
    BY <1>2
  <2> QED
    BY <1>1, <1>4, <2>1, SumsGrow
<1>6. t[n] \in Nat
  BY <1>1, <1>5
<1> QED
  BY <1>2, <1>3, <1>4, <1>6 DEF a, n

(* Nothing weighs nothing.                                                  *)
LEMMA TotalOfNone ==
  ASSUME NEW E, NEW w \in [E -> Nat]
  PROVE  Total(<< >>, w) = 0
<1>1. << >> \in Seq(E) /\ Len(<< >>) = 0
  OBVIOUS
<1>2. PICK t : IsSums(t, Weights(<< >>, w), Len(<< >>)) /\ Total(<< >>, w) = t[Len(<< >>)]
  BY <1>1, TotalIs
<1> QED
  BY <1>1, <1>2 DEF IsSums

(* One sequence after another weighs what the two weigh.                    *)
LEMMA TotalOfBoth ==
  ASSUME NEW E, NEW a \in Seq(E), NEW b \in Seq(E), NEW w \in [E -> Nat]
  PROVE  a \o b \in Seq(E) /\ Total(a \o b, w) = Total(a, w) + Total(b, w)
<1> DEFINE c == a \o b
           l == Len(a)
           n == Len(b)
           m == Len(c)
           x == Weights(a, w)
           y == Weights(b, w)
           z == Weights(c, w)
<1>1. /\ l \in Nat /\ n \in Nat /\ c \in Seq(E) /\ m \in Nat /\ m = l + n
      /\ \A k \in 1..l : c[k] = a[k]
      /\ \A k \in 1..n : c[l + k] = b[k]
  OBVIOUS
<1> HIDE DEF c
<1>2. /\ \E s : IsSums(s, x, l) /\ Total(a, w) = s[l]
      /\ \E t : IsSums(t, y, n) /\ Total(b, w) = t[n]
      /\ \E u : IsSums(u, z, m) /\ Total(c, w) = u[m]
  BY <1>1, TotalIs, ZenonT(60)
<1>3. /\ \A k \in 1..l : x[k] = w[a[k]] /\ w[a[k]] \in Nat
      /\ \A k \in 1..n : y[k] = w[b[k]] /\ w[b[k]] \in Nat
      /\ \A k \in 1..m : z[k] = w[c[k]]
  BY <1>1, TotalIs, ZenonT(60)
<1> HIDE DEF l, n, m, x, y, z
<1>4. PICK s : IsSums(s, x, l) /\ Total(a, w) = s[l]
  BY <1>2
<1>5. PICK t : IsSums(t, y, n) /\ Total(b, w) = t[n]
  BY <1>2
<1>6. PICK u : IsSums(u, z, m) /\ Total(c, w) = u[m]
  BY <1>2
<1>7. \A k \in 1..l : z[k] = x[k] /\ x[k] \in Nat
  <2> SUFFICES ASSUME NEW k \in 1..l PROVE z[k] = x[k] /\ x[k] \in Nat
    OBVIOUS
  <2>1. k \in 1..m
    BY <1>1
  <2>2. c[k] = a[k] /\ z[k] = w[c[k]]
    BY <1>1, <1>3, <2>1
  <2> QED
    BY <1>3, <2>2
<1>8. \A k \in 1..n : l + k \in 1..m /\ z[l + k] = y[k] /\ y[k] \in Nat
  <2> SUFFICES ASSUME NEW k \in 1..n
               PROVE  l + k \in 1..m /\ z[l + k] = y[k] /\ y[k] \in Nat
    OBVIOUS
  <2>1. l + k \in 1..m
    BY <1>1
  <2>2. c[l + k] = b[k] /\ z[l + k] = w[c[l + k]]
    BY <1>1, <1>3, <2>1
  <2> QED
    BY <1>3, <2>1, <2>2
<1>9. u[l] = s[l]
  <2>1. Agree(x, z, 1, l)
    BY <1>7 DEF Agree
  <2>2. l \in Nat /\ m \in Nat /\ l <= m
    BY <1>1
  <2>3. IsSums(s, x, l) /\ IsSums(u, z, m)
    BY <1>4, <1>6
  <2>4. Agree(s, u, 0, l)
    BY <2>1, <2>2, <2>3, SumsAgree
  <2> QED
    BY <2>2, <2>4 DEF Agree
<1>10. /\ t[0] = 0
       /\ \A k \in 1..n : t[k] = t[k - 1] + y[k]
       /\ \A k \in 1..m : u[k] = u[k - 1] + z[k]
  <2>1. t[0] = 0 /\ \A k \in 1..n : t[k] = t[k - 1] + y[k]
    BY <1>1, <1>5 DEF IsSums
  <2>2. \A k \in 1..m : u[k] = u[k - 1] + z[k]
    BY <1>1, <1>6 DEF IsSums
  <2> QED
    BY <2>1, <2>2
<1>11. \A k \in 0..n : t[k] \in Nat
  <2>1. \A k \in 1..n : y[k] \in Nat
    BY <1>8
  <2> QED
    BY <1>1, <1>5, <2>1, SumsGrow
<1>12. s[l] \in Nat
  BY <1>4, TotalIs
<1> DEFINE T == {k \in Nat : k <= n => u[l + k] = s[l] + t[k]}
<1>13. 0 \in T
  BY <1>1, <1>9, <1>10, <1>12
<1>14. ASSUME NEW k \in Nat, k \in T PROVE k + 1 \in T
  <2> SUFFICES ASSUME k + 1 <= n PROVE u[l + (k + 1)] = s[l] + t[k + 1]
    OBVIOUS
  <2>1. /\ k + 1 \in 1..n /\ (k + 1) - 1 = k /\ k \in 0..n
        /\ l + (k + 1) \in 1..m /\ (l + (k + 1)) - 1 = l + k
    BY <1>1
  <2>2. u[l + k] = s[l] + t[k]
    BY <1>14, <2>1
  <2>3. t[k + 1] = t[k] + y[k + 1] /\ u[l + (k + 1)] = u[l + k] + z[l + (k + 1)]
    BY <1>10, <2>1
  <2>4. z[l + (k + 1)] = y[k + 1] /\ y[k + 1] \in Nat /\ t[k] \in Nat
    BY <1>8, <1>11, <2>1
  <2> QED
    BY <1>12, <2>2, <2>3, <2>4
<1> HIDE DEF T
<1>15. Nat \subseteq T
  BY <1>13, <1>14, EveryNumber
<1>16. u[l + n] = s[l] + t[n]
  BY <1>1, <1>15 DEF T
<1> QED
  BY <1>1, <1>4, <1>5, <1>6, <1>16 DEF c

(* One element weighs what it weighs.                                       *)
LEMMA TotalOfOne ==
  ASSUME NEW E, NEW e \in E, NEW w \in [E -> Nat]
  PROVE  <<e>> \in Seq(E) /\ Total(<<e>>, w) = w[e] /\ w[e] \in Nat
<1>1. <<e>> \in Seq(E) /\ Len(<<e>>) = 1 /\ <<e>>[1] = e /\ 1 \in 1..1
  OBVIOUS
<1> DEFINE x == Weights(<<e>>, w)
<1>2. PICK t : IsSums(t, x, 1) /\ Total(<<e>>, w) = t[1]
  <2>1. \E t : IsSums(t, Weights(<<e>>, w), Len(<<e>>)) /\ Total(<<e>>, w) = t[Len(<<e>>)]
    BY <1>1, TotalIs
  <2> QED
    BY <1>1, <2>1
<1>3. x[1] = w[e] /\ w[e] \in Nat
  BY <1>1 DEF Weights
<1> HIDE DEF x
<1>4. t[1] = t[0] + x[1] /\ t[0] = 0
  BY <1>2 DEF IsSums
<1> QED
  BY <1>1, <1>2, <1>3, <1>4

(* The first element and the others weigh what all do.                      *)
LEMMA TotalOfFirst ==
  ASSUME NEW E, NEW a \in Seq(E), a # << >>, NEW w \in [E -> Nat]
  PROVE  /\ Head(a) \in E /\ Tail(a) \in Seq(E)
         /\ Total(a, w) = w[Head(a)] + Total(Tail(a), w)
<1>1. Head(a) \in E /\ Tail(a) \in Seq(E)
  OBVIOUS
<1>2. a = <<Head(a)>> \o Tail(a)
  OBVIOUS
<1> DEFINE h == Head(a)
           r == Tail(a)
<1> HIDE DEF h, r
<1>3. Total(<<h>> \o r, w) = Total(<<h>>, w) + Total(r, w)
  <2>1. r \in Seq(E) /\ <<h>> \in Seq(E)
    BY <1>1 DEF h, r
  <2> DEFINE f == <<h>>
  <2> HIDE DEF f
  <2>2. f \in Seq(E)
    BY <2>1 DEF f
  <2>3. Total(f \o r, w) = Total(f, w) + Total(r, w)
    BY <2>1, <2>2, TotalOfBoth
  <2> QED
    BY <2>3 DEF f
<1>4. Total(<<h>>, w) = w[h]
  BY <1>1, TotalOfOne DEF h
<1> QED
  BY <1>1, <1>2, <1>3, <1>4 DEF h, r

(* A sequence weighs the same backwards.                                    *)
LEMMA TotalBackwards ==
  ASSUME NEW E, NEW a \in Seq(E), NEW b \in Seq(E), Len(b) = Len(a),
         \A k \in 1..Len(a) : b[k] = a[(Len(a) - k) + 1], NEW w \in [E -> Nat]
  PROVE  Total(b, w) = Total(a, w)
<1> DEFINE n == Len(a)
           x == Weights(a, w)
           y == Weights(b, w)
<1>1. n \in Nat
  OBVIOUS
<1>2. /\ \E s : IsSums(s, x, n) /\ Total(a, w) = s[n]
      /\ \E t : IsSums(t, y, Len(b)) /\ Total(b, w) = t[Len(b)]
      /\ \A k \in 1..n : x[k] = w[a[k]] /\ w[a[k]] \in Nat
      /\ \A k \in 1..Len(b) : y[k] = w[b[k]]
  BY TotalIs
<1>3. \A k \in 1..n : b[k] = a[(n - k) + 1]
  OBVIOUS
<1> HIDE DEF x, y
<1>4. PICK s : IsSums(s, x, n) /\ Total(a, w) = s[n]
  BY <1>2
<1>5. PICK t : IsSums(t, y, n) /\ Total(b, w) = t[n]
  BY <1>2
<1>6. \A k \in 1..n : y[k] = w[b[k]]
  BY <1>2
<1> HIDE DEF n
<1>7. /\ \A k \in 1..n : s[k] = s[k - 1] + x[k] /\ x[k] \in Nat
      /\ s[0] = 0 /\ \A k \in 0..n : s[k] \in Nat
  <2>1. \A k \in 1..n : x[k] \in Nat
    BY <1>2
  <2>2. \A k \in 0..n : s[k] \in Nat
    BY <1>1, <1>4, <2>1, SumsGrow
  <2>3. s[0] = 0 /\ \A k \in 1..n : s[k] = s[k - 1] + x[k]
    BY <1>1, <1>4 DEF IsSums
  <2> QED
    BY <2>1, <2>2, <2>3
<1>8. t[0] = 0 /\ \A k \in 1..n : t[k] = t[k - 1] + y[k]
  BY <1>1, <1>5 DEF IsSums
<1> DEFINE T == {k \in Nat : k <= n => t[k] \in Nat /\ t[k] + s[n - k] = s[n]}
<1>9. 0 \in T
  <2>1. n - 0 = n /\ s[n] \in Nat
    BY <1>1, <1>7
  <2> QED
    BY <1>8, <2>1
<1>10. ASSUME NEW k \in Nat, k \in T PROVE k + 1 \in T
  <2> SUFFICES ASSUME k + 1 <= n
               PROVE  t[k + 1] \in Nat /\ t[k + 1] + s[n - (k + 1)] = s[n]
    OBVIOUS
  <2> DEFINE j == n - k
  <2>0. k <= n /\ t[k] \in Nat /\ t[k] + s[n - k] = s[n]
    <3>1. k <= n
      BY <1>1
    <3> QED
      BY <1>10, <3>1
  <2>1. /\ j \in 1..n /\ j - 1 = n - (k + 1) /\ j - 1 \in 0..n /\ j \in 0..n
        /\ k + 1 \in 1..n /\ (k + 1) - 1 = k /\ (n - (k + 1)) + 1 = j
    BY <1>1
  <2>2. t[k] \in Nat /\ t[k] + s[j] = s[n]
    BY <2>0
  <2> HIDE DEF j
  <2>3. s[j] = s[j - 1] + x[j] /\ x[j] \in Nat /\ s[j - 1] \in Nat /\ x[j] = w[a[j]]
    BY <1>2, <1>7, <2>1
  <2>4. t[k + 1] = t[k] + y[k + 1]
    BY <1>8, <2>1
  <2>5. y[k + 1] = w[a[j]]
    <3>1. y[k + 1] = w[b[k + 1]] /\ b[k + 1] = a[(n - (k + 1)) + 1]
      BY <1>3, <1>6, <2>1
    <3> QED
      BY <2>1, <3>1
  <2>6. t[k + 1] \in Nat /\ t[k + 1] + s[j - 1] = s[n]
    BY <2>2, <2>3, <2>4, <2>5
  <2> QED
    BY <2>1, <2>6
<1> HIDE DEF T
<1>11. Nat \subseteq T
  BY <1>9, <1>10, EveryNumber
<1>12. t[n] \in Nat /\ t[n] + s[n - n] = s[n] /\ n - n = 0
  BY <1>1, <1>11 DEF T
<1>13. t[n] = s[n]
  BY <1>7, <1>12
<1> QED
  BY <1>4, <1>5, <1>13

(* Sums begin with nothing and go on number by number.                      *)
LEMMA SumsAre ==
  ASSUME NEW a, NEW n \in Nat, NEW s, IsSums(s, a, n)
  PROVE  s[0] = 0 /\ \A k \in 1..n : s[k] = s[k - 1] + a[k]
<1>1. \A k \in 0..n : s[k] = IF k = 0 THEN 0 ELSE s[k - 1] + a[k]
  BY DEF IsSums
<1>2. 0 \in 0..n /\ \A k \in 1..n : k \in 0..n /\ k # 0
  OBVIOUS
<1> QED
  BY <1>1, <1>2, Zenon

(* Concatenations begin with nothing and go on sequence by sequence.        *)
LEMMA JoinsAre ==
  ASSUME NEW a, NEW n \in Nat, NEW s, IsJoins(s, a, 0, n)
  PROVE  s[0] = << >> /\ \A k \in 1..n : s[k] = s[k - 1] \o a[k]
<1>1. \A k \in 0..n : s[k] = IF k <= 0 THEN << >> ELSE s[k - 1] \o a[k]
  BY DEF IsJoins
<1>2. 0 \in 0..n /\ 0 <= 0 /\ \A k \in 1..n : k \in 0..n /\ ~(k <= 0)
  OBVIOUS
<1>3. s[0] = << >>
  BY <1>1, <1>2, Zenon
<1> QED
  BY <1>1, <1>2, <1>3, Zenon

-----------------------------------------------------------------------------
(* FlattenSeq, as the community modules define it.                         *)

IsFlat(f, ss, n) == f = [k \in 1..n |-> IF k = 1 THEN ss[k] ELSE f[k - 1] \o ss[k]]
FlatOf(ss) == IF Len(ss) = 0 THEN ss ELSE (CHOOSE f : IsFlat(f, ss, Len(ss)))[Len(ss)]

(* It is a running concatenation.                                           *)
LEMMA FlatIs ==
  ASSUME NEW S, NEW ss \in Seq(Seq(S))
  PROVE  \E s : IsJoins(s, ss, 0, Len(ss)) /\ FlatOf(ss) = s[Len(ss)]
<1> DEFINE n == Len(ss)
<1>1. n \in Nat /\ \A k \in 1..n : ss[k] \in Seq(S)
  OBVIOUS
<1>2. n = 0 => ss = << >>
  OBVIOUS
<1>3. FlatOf(ss) = IF n = 0 THEN ss ELSE (CHOOSE f : IsFlat(f, ss, n))[n]
  BY DEF FlatOf
<1> HIDE DEF n
<1>4. PICK s : IsJoins(s, ss, 0, n)
  BY <1>1, JoinsExist
<1>5. s[0] = << >> /\ \A k \in 1..n : s[k] = s[k - 1] \o ss[k]
  BY <1>1, <1>4, JoinsAre
<1>6. CASE n = 0
  BY <1>2, <1>3, <1>4, <1>5, <1>6 DEF n
<1>7. CASE n # 0
  <2> DEFINE g == [k \in 1..n |-> s[k]]
             f == CHOOSE h : IsFlat(h, ss, n)
  <2>1. s[1] = ss[1] /\ 1 \in 1..n
    <3>1. 1 \in 1..n
      BY <1>1, <1>7
    <3>a. 1 - 1 = 0
      OBVIOUS
    <3>b. s[1] = s[1 - 1] \o ss[1] /\ s[0] = << >>
      BY <1>5, <3>1, Zenon
    <3>c. ss[1] \in Seq(S)
      BY <1>1, <3>1, Zenon
    <3>2. s[1] = s[0] \o ss[1] /\ s[0] = << >> /\ ss[1] \in Seq(S)
      BY <3>a, <3>b, <3>c, Zenon
    <3>3. \A x \in Seq(S) : << >> \o x = x
      OBVIOUS
    <3> QED
      BY <3>1, <3>2, <3>3
  <2>2. IsFlat(g, ss, n)
    <3>1. ASSUME NEW k \in 1..n PROVE g[k] = IF k = 1 THEN ss[k] ELSE g[k - 1] \o ss[k]
      <4>1. CASE k = 1
        BY <2>1, <4>1
      <4>2. CASE k # 1
        <5>1. k - 1 \in 1..n /\ g[k - 1] = s[k - 1] /\ g[k] = s[k]
          BY <1>1, <4>2
        <5> HIDE DEF g
        <5> QED
          BY <1>5, <4>2, <5>1
      <4> QED
        BY <4>1, <4>2
    <3>2. g = [k \in 1..n |-> IF k = 1 THEN ss[k] ELSE g[k - 1] \o ss[k]]
      BY <3>1
    <3> HIDE DEF g
    <3> QED
      BY <3>2 DEF IsFlat
  <2> HIDE DEF g
  <2>3. IsFlat(f, ss, n)
    BY <2>2
  <2>4. FlatOf(ss) = f[n]
    BY <1>3, <1>7
  <2> HIDE DEF f
  <2>5. \A k \in 1..n : f[k] = IF k = 1 THEN ss[k] ELSE f[k - 1] \o ss[k]
    BY <2>3 DEF IsFlat
  <2> DEFINE T == {k \in Nat : k + 1 <= n => f[k + 1] = s[k + 1]}
  <2>6. 0 \in T
    BY <2>1, <2>5
  <2>7. ASSUME NEW k \in Nat, k \in T PROVE k + 1 \in T
    <3> SUFFICES ASSUME (k + 1) + 1 <= n PROVE f[(k + 1) + 1] = s[(k + 1) + 1]
      OBVIOUS
    <3> DEFINE j == (k + 1) + 1
    <3>1. j \in 1..n /\ j # 1 /\ j - 1 = k + 1 /\ k + 1 <= n
      BY <1>1
    <3>2. f[k + 1] = s[k + 1]
      BY <2>7, <3>1
    <3> HIDE DEF j
    <3>3. f[j] = f[j - 1] \o ss[j] /\ s[j] = s[j - 1] \o ss[j]
      BY <1>5, <2>5, <3>1
    <3>4. f[j] = s[j]
      BY <3>1, <3>2, <3>3
    <3> QED
      BY <3>4 DEF j
  <2> HIDE DEF T
  <2>8. Nat \subseteq T
    BY <2>6, <2>7, EveryNumber
  <2>9. f[n] = s[n]
    <3>1. n - 1 \in Nat /\ (n - 1) + 1 = n
      BY <1>1, <1>7
    <3>2. n - 1 \in T
      BY <2>8, <3>1
    <3> QED
      BY <1>1, <3>1, <3>2 DEF T
  <2> QED
    BY <1>4, <2>4, <2>9 DEF n
<1> QED
  BY <1>6, <1>7

(* It weighs what the sequences weigh together.                             *)
LEMMA TotalOfFlat ==
  ASSUME NEW E, NEW ss \in Seq(Seq(E)), NEW w \in [E -> Nat], NEW v, NEW u,
         \A k \in 1..Len(ss) : v[k] = Total(ss[k], w), IsSums(u, v, Len(ss))
  PROVE  FlatOf(ss) \in Seq(E) /\ Total(FlatOf(ss), w) = u[Len(ss)]
<1> DEFINE n == Len(ss)
<1>1. n \in Nat /\ \A k \in 1..n : ss[k] \in Seq(E)
  OBVIOUS
<1>2. PICK s : IsJoins(s, ss, 0, n) /\ FlatOf(ss) = s[n]
  BY FlatIs
<1>3. \A k \in 1..n : v[k] = Total(ss[k], w)
  OBVIOUS
<1>4. IsSums(u, v, n)
  OBVIOUS
<1> HIDE DEF n
<1>5. s[0] = << >> /\ \A k \in 1..n : s[k] = s[k - 1] \o ss[k]
  BY <1>1, <1>2, JoinsAre
<1>6. u[0] = 0 /\ \A k \in 1..n : u[k] = u[k - 1] + v[k]
  BY <1>1, <1>4, SumsAre
<1> DEFINE T == {k \in Nat : k <= n => s[k] \in Seq(E) /\ Total(s[k], w) = u[k]}
<1>7. 0 \in T
  <2>1. << >> \in Seq(E) /\ Total(<< >>, w) = 0
    BY TotalOfNone
  <2> QED
    BY <1>5, <1>6, <2>1
<1>8. ASSUME NEW k \in Nat, k \in T PROVE k + 1 \in T
  <2> SUFFICES ASSUME k + 1 <= n
               PROVE  s[k + 1] \in Seq(E) /\ Total(s[k + 1], w) = u[k + 1]
    OBVIOUS
  <2>1. k + 1 \in 1..n /\ (k + 1) - 1 = k /\ k <= n
    BY <1>1
  <2>2. s[k] \in Seq(E) /\ Total(s[k], w) = u[k] /\ ss[k + 1] \in Seq(E)
    BY <1>1, <1>8, <2>1
  <2>3. s[k + 1] = s[k] \o ss[k + 1] /\ u[k + 1] = u[k] + Total(ss[k + 1], w)
    BY <1>3, <1>5, <1>6, <2>1
  <2>4. /\ s[k] \o ss[k + 1] \in Seq(E)
        /\ Total(s[k] \o ss[k + 1], w) = Total(s[k], w) + Total(ss[k + 1], w)
    BY <2>2, TotalOfBoth
  <2> QED
    BY <2>2, <2>3, <2>4
<1> HIDE DEF T
<1>9. Nat \subseteq T
  BY <1>7, <1>8, EveryNumber
<1>10. s[n] \in Seq(E) /\ Total(s[n], w) = u[n]
  BY <1>1, <1>9 DEF T
<1> QED
  BY <1>2, <1>10 DEF n

(* One sequence more is added at the end.                                   *)
LEMMA FlatOfMore ==
  ASSUME NEW S, NEW ss \in Seq(Seq(S)), NEW more \in Seq(S)
  PROVE  FlatOf(ss) \in Seq(S) /\ FlatOf(Append(ss, more)) = FlatOf(ss) \o more
<1> DEFINE n == Len(ss)
           tt == Append(ss, more)
<1>1. /\ n \in Nat /\ tt \in Seq(Seq(S)) /\ Len(tt) = n + 1
      /\ \A k \in 1..n : ss[k] \in Seq(S) /\ tt[k] = ss[k]
      /\ tt[n + 1] = more
  OBVIOUS
<1>2. PICK s : IsJoins(s, ss, 0, n) /\ FlatOf(ss) = s[n]
  BY FlatIs
<1> HIDE DEF tt
<1>3. PICK t : IsJoins(t, tt, 0, Len(tt)) /\ FlatOf(tt) = t[Len(tt)]
  BY <1>1, FlatIs
<1>4. IsJoins(t, tt, 0, n + 1) /\ FlatOf(tt) = t[n + 1]
  BY <1>1, <1>3
<1> HIDE DEF n
<1>5. \A k \in 0..n : s[k] \in Seq(S)
  <2>1. \A k \in 1..n : ss[k] \in Seq(S)
    BY <1>1
  <2> QED
    BY <1>1, <1>2, <2>1, JoinsType
<1> DEFINE r == [k \in 0..n |-> t[k]]
<1>6. /\ t[n + 1] = t[n] \o more
      /\ r = [k \in 0..n |-> IF k <= 0 THEN << >> ELSE r[k - 1] \o tt[k]]
  <2>1. \A k \in 0..(n + 1) : t[k] = IF k <= 0 THEN << >> ELSE t[k - 1] \o tt[k]
    BY <1>4 DEF IsJoins
  <2>2. t[n + 1] = t[(n + 1) - 1] \o tt[n + 1] /\ (n + 1) - 1 = n
    <3>1. n + 1 \in 0..(n + 1) /\ ~(n + 1 <= 0) /\ (n + 1) - 1 = n
      BY <1>1
    <3> QED
      BY <2>1, <3>1, Zenon
  <2>3. ASSUME NEW k \in 0..n PROVE r[k] = IF k <= 0 THEN << >> ELSE r[k - 1] \o tt[k]
    <3>1. k \in 0..(n + 1) /\ r[k] = t[k] /\ (~(k <= 0) => r[k - 1] = t[k - 1])
      BY <1>1
    <3> HIDE DEF r
    <3> QED
      BY <2>1, <3>1
  <2>4. r = [k \in 0..n |-> IF k <= 0 THEN << >> ELSE r[k - 1] \o tt[k]]
    BY <2>3
  <2> HIDE DEF r
  <2> QED
    BY <1>1, <2>2, <2>4
<1>7. r[n] = t[n]
  BY <1>1
<1> HIDE DEF r
<1>8. r = s
  <2>1. IsJoins(r, tt, 0, n)
    BY <1>6, Zenon DEF IsJoins
  <2>2. \A k \in 1..n : k > 0 => tt[k] = ss[k]
    BY <1>1
  <2> QED
    BY <1>1, <1>2, <2>1, <2>2, JoinsUnique
<1>9. FlatOf(tt) = FlatOf(ss) \o more
  BY <1>2, <1>4, <1>6, <1>7, <1>8
<1>10. s[n] \in Seq(S)
  BY <1>1, <1>5
<1> QED
  BY <1>2, <1>9, <1>10 DEF tt
=============================================================================
