--------------------------- MODULE SelectionProofs ---------------------------
(***************************************************************************)
(* Proofs about the selection of streams: for any AdaptationSets and any   *)
(* Representations, and any preferences.                                   *)
(***************************************************************************)
EXTENDS Planning, Integers, Sequences, FiniteSetTheorems, RecursionLemmas, TLAPS

(* A set of numbers with a least one has it as its minimum.                 *)
LEMMA MinIsLeast ==
  ASSUME NEW T, T \subseteq Nat, T # {}
  PROVE  Select!Min(T) \in T /\ \A y \in T : Select!Min(T) <= y
<1>1. \E x \in T : \A y \in T : x =< y
  BY LeastNumber
<1> QED
  BY <1>1 DEF Select!Min

(* One of the members of a set has the least key.                           *)
LEMMA LeastKey ==
  ASSUME NEW S, NEW key, S # {}, \A x \in S : key[x] \in Nat
  PROVE  LET least == Select!Min({key[x] : x \in S})
         IN  (\E x \in S : key[x] = least) /\ \A x \in S : least <= key[x]
<1> DEFINE T == {key[x] : x \in S}
<1>1. T \subseteq Nat /\ T # {}
  OBVIOUS
<1> HIDE DEF T
<1>2. Select!Min(T) \in T /\ \A y \in T : Select!Min(T) <= y
  BY <1>1, MinIsLeast
<1> QED
  BY <1>2 DEF T

(* One of the members of a finite set has the greatest key.                 *)
LEMMA GreatestExists ==
  ASSUME NEW S, IsFiniteSet(S), NEW key, S # {}, \A x \in S : key[x] \in Nat
  PROVE  \E x \in S : \A y \in S : key[y] <= key[x]
<1> DEFINE Has(T) == \E x \in T : \A y \in T : key[y] <= key[x]
           M == {m \in Nat : \A T \in SUBSET S : T # {} /\ Cardinality(T) = m => Has(T)}
<1>1. 0 \in M
  <2> SUFFICES ASSUME NEW T \in SUBSET S, T # {}, Cardinality(T) = 0 PROVE FALSE
    OBVIOUS
  <2>1. IsFiniteSet(T)
    BY FS_Subset
  <2> QED
    BY <2>1, FS_EmptySet
<1>2. ASSUME NEW m \in Nat, m \in M PROVE m + 1 \in M
  <2> SUFFICES ASSUME NEW T \in SUBSET S, T # {}, Cardinality(T) = m + 1 PROVE Has(T)
    OBVIOUS
  <2>1. PICK x \in T : TRUE
    OBVIOUS
  <2>2. IsFiniteSet(T)
    BY FS_Subset
  <2> DEFINE U == T \ {x}
  <2>3. Cardinality(U) = m
    <3>1. Cardinality(U) = Cardinality(T) - 1
      BY <2>1, <2>2, FS_RemoveElement
    <3> QED
      BY <3>1
  <2>4. CASE U = {}
    <3>1. \A y \in T : y = x
      BY <2>4
    <3>2. key[x] <= key[x]
      BY <2>1
    <3> QED
      BY <2>1, <3>1, <3>2
  <2>5. CASE U # {}
    <3>1. PICK z \in U : \A y \in U : key[y] <= key[z]
      BY <1>2, <2>3, <2>5
    <3>2. key[x] \in Nat /\ key[z] \in Nat /\ z \in T
      BY <2>1, <3>1
    <3>3. CASE key[x] <= key[z]
      BY <3>1, <3>2, <3>3
    <3>4. CASE key[z] <= key[x]
      <4>1. ASSUME NEW y \in T PROVE key[y] <= key[x]
        <5>1. CASE y = x
          BY <3>2, <5>1
        <5>2. CASE y # x
          <6>1. key[y] <= key[z] /\ key[y] \in Nat
            BY <3>1, <5>2
          <6> QED
            BY <3>2, <3>4, <6>1
        <5> QED
          BY <5>1, <5>2
      <4> QED
        BY <2>1, <4>1
    <3> QED
      BY <3>2, <3>3, <3>4
  <2> QED
    BY <2>4, <2>5
<1> HIDE DEF M
<1>3. Nat \subseteq M
  BY <1>1, <1>2, EveryNumber
<1>4. Cardinality(S) \in Nat
  BY FS_CardinalityType
<1> QED
  BY <1>3, <1>4 DEF M

(* The greatest key is the one Max takes.                                   *)
LEMMA GreatestKey ==
  ASSUME NEW S, IsFiniteSet(S), NEW key, S # {}, \A x \in S : key[x] \in Nat
  PROVE  LET greatest == Select!Max({key[x] : x \in S})
         IN  (\E x \in S : key[x] = greatest) /\ \A x \in S : key[x] <= greatest
<1> DEFINE T == {key[x] : x \in S}
<1>1. PICK x \in S : \A y \in S : key[y] <= key[x]
  BY GreatestExists
<1>2. key[x] \in T /\ \A y \in T : key[x] >= y
  BY <1>1
<1> HIDE DEF T
<1>3. Select!Max(T) \in T /\ \A y \in T : Select!Max(T) >= y
  BY <1>2 DEF Select!Max
<1>4. T \subseteq Nat
  BY DEF T
<1> QED
  BY <1>3, <1>4 DEF T

(* Half of the members have a lower key than the middle one, at most, and  *)
(* more than half have that one or a lower one.                            *)
IsMiddle(v, S, key) ==
  /\ Cardinality({x \in S : key[x] < v}) <= Cardinality(S) \div 2
  /\ Cardinality({x \in S : key[x] <= v}) > Cardinality(S) \div 2

(* One of the members of a finite set has the middle key.                   *)
LEMMA MiddleKey ==
  ASSUME NEW S, IsFiniteSet(S), NEW key, S # {}, \A x \in S : key[x] \in Nat
  PROVE  \E x \in S : IsMiddle(key[x], S, key)
<1> DEFINE n == Cardinality(S)
           Upto(v) == {x \in S : key[x] <= v}
           V == {key[x] : x \in {y \in S : Cardinality(Upto(key[y])) > n \div 2}}
<1>1. n \in Nat /\ n > 0
  <2>1. n \in Nat
    BY FS_CardinalityType
  <2>2. n # 0
    BY FS_EmptySet
  <2> QED
    BY <2>1, <2>2
<1>2. V # {}
  <2>1. PICK x \in S : \A y \in S : key[y] <= key[x]
    BY GreatestExists
  <2>2. Upto(key[x]) = S
    BY <2>1
  <2>3. n > n \div 2
    <3> HIDE DEF n
    <3> QED
      BY <1>1
  <2> QED
    BY <2>2, <2>3
<1>3. PICK v \in V : \A w \in V : v <= w
  <2>1. V \subseteq Nat
    OBVIOUS
  <2> HIDE DEF V
  <2> QED
    BY <1>2, <2>1, LeastNumber
<1>4. v \in {key[x] : x \in S} /\ Cardinality(Upto(v)) > n \div 2 /\ v \in Nat
  BY <1>3
<1> DEFINE L == {x \in S : key[x] < v}
<1>5. Cardinality(L) <= n \div 2
  <2>0. IsFiniteSet(L) /\ Cardinality(L) \in Nat
    <3>1. L \in SUBSET S
      OBVIOUS
    <3>2. IsFiniteSet(L)
      BY <3>1, FS_Subset
    <3> QED
      BY <3>2, FS_CardinalityType
  <2>1. CASE L = {}
    <3>1. Cardinality(L) = 0
      BY <2>1, FS_EmptySet
    <3>2. 0 <= n \div 2
      <4> HIDE DEF n
      <4> QED
        BY <1>1
    <3> QED
      BY <3>1, <3>2
  <2>2. CASE L # {}
    <3>1. \A x \in L : key[x] \in Nat
      OBVIOUS
    <3> HIDE DEF L
    <3>2. PICK y \in L : \A x \in L : key[x] <= key[y]
      BY <2>0, <2>2, <3>1, GreatestExists
    <3>3. y \in S /\ key[y] < v /\ key[y] \in Nat
      BY <3>2 DEF L
    <3>4. Upto(key[y]) = L
      <4>1. ASSUME NEW x \in S PROVE key[x] <= key[y] <=> x \in L
        <5>1. key[x] \in Nat
          OBVIOUS
        <5>2. key[x] <= key[y] => key[x] < v
          BY <1>4, <3>3, <5>1
        <5> QED
          BY <3>2, <5>2 DEF L
      <4> QED
        BY <4>1 DEF L
    <3>5. ~(Cardinality(Upto(key[y])) > n \div 2)
      <4>1. ~(v <= key[y])
        BY <1>4, <3>3
      <4>2. key[y] \notin V
        BY <1>3, <4>1
      <4> QED
        BY <3>3, <4>2
    <3>6. n \div 2 \in Nat
      <4> HIDE DEF n
      <4> QED
        BY <1>1
    <3> QED
      BY <2>0, <3>4, <3>5, <3>6
  <2> QED
    BY <2>1, <2>2
<1>6. IsMiddle(v, S, key)
  BY <1>4, <1>5 DEF IsMiddle
<1>7. \E x \in S : key[x] = v
  BY <1>4
<1> QED
  BY <1>6, <1>7

-----------------------------------------------------------------------------
(* Positions.                                                              *)

(* The first of some Representations is one of them.                        *)
LEMMA FirstIsMember ==
  ASSUME NEW S, S \subseteq Nat \X Nat, S # {}
  PROVE  Select!FirstOf(S) \in S
<1> DEFINE A == {c[1] : c \in S}
<1>1. PICK a \in A : \A b \in A : a <= b
  <2>1. A \subseteq Nat /\ A # {}
    OBVIOUS
  <2> HIDE DEF A
  <2> QED
    BY <2>1, LeastNumber
<1> DEFINE B == {c[2] : c \in {d \in S : d[1] = a}}
<1>2. PICK r \in B : \A q \in B : r <= q
  <2>1. B \subseteq Nat /\ B # {}
    BY <1>1
  <2> HIDE DEF B
  <2> QED
    BY <2>1, LeastNumber
<1>3. PICK c \in S : c[1] = a /\ c[2] = r
  BY <1>2
<1>4. ASSUME NEW d \in S PROVE d = c \/ Select!Before(c, d)
  <2>1. /\ c = <<a, r>> /\ d = <<d[1], d[2]>> /\ a \in Nat /\ r \in Nat
        /\ d[1] \in Nat /\ d[2] \in Nat
    BY <1>3
  <2>2. a <= d[1]
    BY <1>1
  <2>3. d[1] = a => r <= d[2]
    BY <1>2
  <2>4. (d[1] = a /\ d[2] = r) \/ a < d[1] \/ (a = d[1] /\ r < d[2])
    BY <2>1, <2>2, <2>3
  <2>5. d[1] = a /\ d[2] = r => d = c
    BY <2>1
  <2> QED
    BY <1>3, <2>4, <2>5 DEF Select!Before
<1> QED
  BY <1>4 DEF Select!FirstOf

(* The last of some Representations is one of them.                         *)
LEMMA LastIsMember ==
  ASSUME NEW S, S \subseteq Nat \X Nat, S # {}, IsFiniteSet(S)
  PROVE  Select!LastOf(S) \in S
<1> DEFINE one == [c \in S |-> c[1]]
           two == [c \in S |-> c[2]]
<1>0. /\ \A c \in S : one[c] = c[1] /\ two[c] = c[2]
      /\ \A c \in S : one[c] \in Nat /\ two[c] \in Nat /\ c = <<one[c], two[c]>>
  OBVIOUS
<1> HIDE DEF one, two
<1>1. PICK b \in S : \A d \in S : one[d] <= one[b]
  BY <1>0, GreatestExists
<1> DEFINE T == {d \in S : one[d] = one[b]}
<1>2. T # {} /\ T \subseteq S /\ IsFiniteSet(T) /\ \A x \in T : two[x] \in Nat
  <2>1. T \in SUBSET S
    OBVIOUS
  <2>2. IsFiniteSet(T)
    BY <2>1, FS_Subset
  <2> QED
    BY <1>0, <1>1, <2>2
<1>3. PICK c \in T : \A d \in T : two[d] <= two[c]
  <2> HIDE DEF T
  <2> QED
    BY <1>2, GreatestExists
<1>4. ASSUME NEW d \in S PROVE d = c \/ Select!Before(d, c)
  <2>1. one[c] = one[b] /\ c \in S
    BY <1>3
  <2>2. one[d] <= one[c] /\ (one[d] = one[c] => two[d] <= two[c])
    BY <1>1, <1>3, <2>1
  <2>3. (one[d] = one[c] /\ two[d] = two[c]) \/ one[d] < one[c] \/ (one[d] = one[c] /\ two[d] < two[c])
    BY <1>0, <2>1, <2>2
  <2>4. one[d] = one[c] /\ two[d] = two[c] => d = c
    BY <1>0, <2>1
  <2> QED
    BY <1>0, <2>1, <2>3, <2>4 DEF Select!Before
<1>5. c \in S
  BY <1>3
<1> QED
  BY <1>4, <1>5 DEF Select!LastOf

-----------------------------------------------------------------------------
(* Roles.                                                                  *)

(* What binary_search does with `size' elements from `base' on, given what *)
(* it does with fewer.                                                     *)
Search(found, list, role, early, size) ==
  [base \in Nat |->
     LET half == size \div 2
         at   == list[base + half + 1]
     IN  IF size = 0 THEN Select!Absent
         ELSE IF early
           THEN IF at = role THEN base + half
                ELSE IF at < role THEN found[size - half - 1][base + half + 1]
                ELSE found[half][base]
         ELSE IF size = 1 THEN IF at = role THEN base ELSE Select!Absent
         ELSE found[size - half][IF at > role THEN base ELSE base + half]]
IsSearch(found, list, role, early, n) ==
  found = [size \in 0..n |-> Search(found, list, role, early, size)]

(* What is done with an element more looks only at what is done with fewer. *)
LEMMA SearchExtends ==
  ASSUME NEW list, NEW role, NEW early \in BOOLEAN, NEW size \in Nat, NEW f, NEW g,
         \A k \in Nat : k < size => f[k] = g[k]
  PROVE  Search(f, list, role, early, size) = Search(g, list, role, early, size)
<1>1. /\ size \div 2 \in Nat
      /\ size > 0 => size \div 2 < size /\ size - (size \div 2) - 1 \in Nat /\ size - (size \div 2) - 1 < size
      /\ size > 1 => size - (size \div 2) \in Nat /\ size - (size \div 2) < size
  OBVIOUS
<1> DEFINE half == size \div 2
<1>2. CASE size = 0
  BY <1>2 DEF Search
<1>3. CASE size > 0 /\ early
  <2>1. f[size - half - 1] = g[size - half - 1] /\ f[half] = g[half]
    BY <1>1, <1>3
  <2> QED
    BY <1>3, <2>1 DEF Search
<1>4. CASE size = 1 /\ ~early
  BY <1>4 DEF Search
<1>5. CASE size > 1 /\ ~early
  <2>1. f[size - half] = g[size - half]
    BY <1>1, <1>5
  <2> QED
    BY <1>5, <2>1 DEF Search
<1> QED
  BY <1>2, <1>3, <1>4, <1>5

(* There is such a function for lists of any length.                        *)
LEMMA SearchExists ==
  ASSUME NEW list, NEW role, NEW early \in BOOLEAN, NEW n \in Nat
  PROVE  \E found : IsSearch(found, list, role, early, n)
<1> DEFINE Done == {m \in Nat : \E found : IsSearch(found, list, role, early, m)}
<1>1. 0 \in Done
  <2> DEFINE f == [size \in 0..0 |-> Search(0, list, role, early, size)]
  <2>1. ASSUME NEW size \in 0..0 PROVE Search(0, list, role, early, size) = Search(f, list, role, early, size)
    BY SearchExtends
  <2>2. IsSearch(f, list, role, early, 0)
    BY <2>1 DEF IsSearch
  <2> QED
    BY <2>2
<1>2. ASSUME NEW m \in Nat, m \in Done PROVE m + 1 \in Done
  <2>1. PICK f : IsSearch(f, list, role, early, m)
    BY <1>2
  <2> DEFINE g == [size \in 0..(m + 1) |->
                     IF size = m + 1 THEN Search(f, list, role, early, size) ELSE f[size]]
  <2>2. \A k \in Nat : k < m + 1 => f[k] = g[k]
    OBVIOUS
  <2> HIDE DEF g
  <2>3. ASSUME NEW size \in 0..(m + 1)
        PROVE  Search(f, list, role, early, size) = Search(g, list, role, early, size)
    <3>1. \A k \in Nat : k < size => f[k] = g[k]
      BY <2>2
    <3> QED
      BY <3>1, SearchExtends
  <2>4. \A size \in 0..m : f[size] = Search(f, list, role, early, size)
    BY <2>1 DEF IsSearch
  <2>5. ASSUME NEW size \in 0..(m + 1) PROVE g[size] = Search(g, list, role, early, size)
    <3>1. CASE size = m + 1
      <4>1. g[size] = Search(f, list, role, early, size)
        BY <3>1 DEF g
      <4> QED
        BY <2>3, <4>1, Zenon
    <3>2. CASE size # m + 1
      <4>1. size \in 0..m
        BY <3>2
      <4>2. g[size] = f[size]
        BY <3>2 DEF g
      <4> QED
        BY <2>3, <2>4, <4>1, <4>2, Zenon
    <3> QED
      BY <3>1, <3>2
  <2>6. g = [size \in 0..(m + 1) |-> Search(g, list, role, early, size)]
    <3>1. g = [size \in 0..(m + 1) |-> g[size]]
      BY DEF g
    <3> QED
      BY <2>5, <3>1, Zenon
  <2> QED
    BY <2>6 DEF IsSearch
<1> HIDE DEF Done
<1>3. Nat \subseteq Done
  BY <1>1, <1>2, EveryNumber
<1> QED
  BY <1>3 DEF Done

(* In `size' elements from `base' on, the role is found where it is.        *)
Right(found, list, role, size) ==
  \A base \in Nat : base + size <= Len(list) =>
    /\ \A k \in (base + 1)..(base + size) : list[k] = role => found[size][base] = k - 1
    /\ (\A k \in (base + 1)..(base + size) : list[k] # role) => found[size][base] = Select!Absent

Alphabetic(list) == \A j, k \in DOMAIN list : j < k => list[j] < list[k]

(* Both ways of searching find a role if what is smaller is right.          *)
LEMMA SearchStep ==
  ASSUME NEW list \in Seq(Nat), Alphabetic(list), NEW role \in Nat, NEW early \in BOOLEAN,
         NEW found, IsSearch(found, list, role, early, Len(list)),
         NEW size \in 0..Len(list), \A k \in Nat : k < size => Right(found, list, role, k)
  PROVE  Right(found, list, role, size)
<1> SUFFICES ASSUME NEW base \in Nat, base + size <= Len(list)
             PROVE  /\ \A k \in (base + 1)..(base + size) : list[k] = role => found[size][base] = k - 1
                    /\ (\A k \in (base + 1)..(base + size) : list[k] # role)
                          => found[size][base] = Select!Absent
  BY DEF Right
<1> DEFINE half == size \div 2
           mid == base + half
           at == list[mid + 1]
           n == Len(list)
<1>1. found[size][base] =
        IF size = 0 THEN Select!Absent
        ELSE IF early
          THEN IF at = role THEN base + half
               ELSE IF at < role THEN found[size - half - 1][base + half + 1]
               ELSE found[half][base]
        ELSE IF size = 1 THEN IF at = role THEN base ELSE Select!Absent
        ELSE found[size - half][IF at > role THEN base ELSE base + half]
  <2>1. found[size] = Search(found, list, role, early, size)
    BY DEF IsSearch
  <2> QED
    BY <2>1 DEF Search
<1>2. /\ half \in Nat
      /\ size > 0 => half < size /\ size - half - 1 \in Nat /\ size - half - 1 < size
      /\ size > 1 => size - half \in Nat /\ size - half < size /\ half > 0 /\ half <= size - half
      /\ size = 1 => half = 0
  OBVIOUS
<1>3. /\ n \in Nat /\ DOMAIN list = 1..n /\ \A k \in 1..n : list[k] \in Nat
      /\ \A j, k \in 1..n : j < k => list[j] < list[k]
  BY DEF Alphabetic
<1>4. /\ size > 0 => mid + 1 \in 1..n /\ at \in Nat /\ mid \in Nat
      /\ \A k \in (base + 1)..(base + size) : k \in 1..n /\ list[k] \in Nat
      /\ \A k \in Nat : base + size <= n
  <2> HIDE DEF half
  <2>1. size > 0 => mid + 1 \in 1..n /\ mid \in Nat
    BY <1>2, <1>3
  <2>2. \A k \in (base + 1)..(base + size) : k \in 1..n
    BY <1>3
  <2> QED
    BY <1>3, <2>1, <2>2
<1> HIDE DEF half
<1>5. size > 0 => \A k \in (base + 1)..(base + size) :
        /\ k < mid + 1 => list[k] < at
        /\ mid + 1 < k => at < list[k]
  BY <1>3, <1>4
<1>6. size > 0 => mid + 1 \in (base + 1)..(base + size)
  BY <1>2
<1> HIDE DEF at, mid
<1>7. CASE size = 0
  BY <1>1, <1>7
<1>8. CASE size > 0 /\ early /\ at = role
  <2>1. found[size][base] = base + half
    BY <1>1, <1>8
  <2>2. ASSUME NEW k \in (base + 1)..(base + size), list[k] = role PROVE k = mid + 1
    BY <1>4, <1>5, <1>8, <2>2
  <2>3. list[mid + 1] = role /\ found[size][base] = (mid + 1) - 1
    BY <1>4, <1>8, <2>1 DEF mid, at
  <2> QED
    BY <1>6, <1>8, <2>2, <2>3, Zenon
<1>9. CASE size > 0 /\ early /\ at # role /\ at < role
  <2>1. found[size][base] = found[size - half - 1][base + half + 1]
    BY <1>1, <1>9
  <2> DEFINE rest == size - half - 1
  <2>2. /\ Right(found, list, role, rest) /\ rest \in Nat
        /\ base + half + 1 \in Nat /\ (base + half + 1) + rest = base + size
    BY <1>2, <1>9
  <2>3. ASSUME NEW k \in (base + 1)..(base + size), list[k] = role
        PROVE  k \in ((base + half + 1) + 1)..((base + half + 1) + rest)
    <3>1. ~(k < mid + 1) /\ k # mid + 1
      BY <1>3, <1>4, <1>5, <1>9, <2>3 DEF at
    <3> QED
      BY <1>2, <2>2, <3>1 DEF mid
  <2>4. \A k \in ((base + half + 1) + 1)..((base + half + 1) + rest) : k \in (base + 1)..(base + size)
    BY <1>2, <2>2
  <2> HIDE DEF rest
  <2>5. /\ \A k \in ((base + half + 1) + 1)..((base + half + 1) + rest) :
             list[k] = role => found[rest][base + half + 1] = k - 1
        /\ (\A k \in ((base + half + 1) + 1)..((base + half + 1) + rest) : list[k] # role)
             => found[rest][base + half + 1] = Select!Absent
    BY <2>2 DEF Right
  <2>6. found[size][base] = found[rest][base + half + 1]
    BY <2>1 DEF rest
  <2> QED
    BY <2>3, <2>4, <2>5, <2>6, Zenon
<1>10. CASE size > 0 /\ early /\ at # role /\ ~(at < role)
  <2>1. found[size][base] = found[half][base]
    BY <1>1, <1>10
  <2>2. Right(found, list, role, half) /\ base + half <= n
    BY <1>2, <1>10
  <2>3. ASSUME NEW k \in (base + 1)..(base + size), list[k] = role
        PROVE  k \in (base + 1)..(base + half)
    <3>1. ~(mid + 1 < k) /\ k # mid + 1
      BY <1>3, <1>4, <1>5, <1>10, <2>3 DEF at
    <3> QED
      BY <1>2, <3>1 DEF mid
  <2>4. \A k \in (base + 1)..(base + half) : k \in (base + 1)..(base + size)
    BY <1>2, <1>10
  <2>5. /\ \A k \in (base + 1)..(base + half) : list[k] = role => found[half][base] = k - 1
        /\ (\A k \in (base + 1)..(base + half) : list[k] # role) => found[half][base] = Select!Absent
    BY <2>2 DEF Right
  <2> QED
    BY <2>1, <2>3, <2>4, <2>5, Zenon
<1>11. CASE size = 1 /\ ~early
  <2>1. mid = base /\ (base + 1)..(base + size) = {base + 1}
    BY <1>2, <1>11 DEF mid
  <2>2. found[size][base] = IF at = role THEN base ELSE Select!Absent
    BY <1>1, <1>11
  <2> QED
    BY <2>1, <2>2 DEF at
<1>12. CASE size > 1 /\ ~early /\ at > role
  <2> DEFINE rest == size - half
  <2>1. found[size][base] = found[rest][base]
    BY <1>1, <1>12
  <2>2. Right(found, list, role, rest) /\ base + rest <= n /\ rest \in Nat /\ half <= rest /\ rest < size
    BY <1>2, <1>12
  <2>3. ASSUME NEW k \in (base + 1)..(base + size), list[k] = role
        PROVE  k \in (base + 1)..(base + rest)
    <3>1. ~(mid + 1 < k) /\ k # mid + 1
      BY <1>3, <1>4, <1>5, <1>12, <2>3 DEF at
    <3> QED
      BY <1>2, <2>2, <3>1 DEF mid
  <2> HIDE DEF rest
  <2>4. \A k \in (base + 1)..(base + rest) : k \in (base + 1)..(base + size)
    BY <2>2
  <2>5. /\ \A k \in (base + 1)..(base + rest) : list[k] = role => found[rest][base] = k - 1
        /\ (\A k \in (base + 1)..(base + rest) : list[k] # role) => found[rest][base] = Select!Absent
    BY <2>2 DEF Right
  <2> QED
    BY <2>1, <2>3, <2>4, <2>5, Zenon
<1>13. CASE size > 1 /\ ~early /\ ~(at > role)
  <2> DEFINE rest == size - half
  <2>1. found[size][base] = found[rest][mid]
    BY <1>1, <1>13 DEF mid
  <2>2. Right(found, list, role, rest) /\ mid + rest = base + size /\ rest \in Nat /\ mid \in Nat
    BY <1>2, <1>13 DEF mid
  <2>3. ASSUME NEW k \in (base + 1)..(base + size), list[k] = role
        PROVE  k \in (mid + 1)..(mid + rest)
    <3>1. ~(k < mid + 1)
      BY <1>3, <1>4, <1>5, <1>13, <2>3 DEF at
    <3> QED
      BY <1>2, <2>2, <3>1
  <2> HIDE DEF rest
  <2>4. \A k \in (mid + 1)..(mid + rest) : k \in (base + 1)..(base + size)
    BY <1>2, <2>2 DEF mid
  <2>5. /\ \A k \in (mid + 1)..(mid + rest) : list[k] = role => found[rest][mid] = k - 1
        /\ (\A k \in (mid + 1)..(mid + rest) : list[k] # role) => found[rest][mid] = Select!Absent
    BY <2>2 DEF Right
  <2> QED
    BY <2>1, <2>3, <2>4, <2>5, Zenon
<1>14. at < role \/ ~(at < role)
  OBVIOUS
<1> QED
  <2>1. size = 0 \/ (size > 0 /\ (size = 1 \/ size > 1))
    OBVIOUS
  <2> QED
    BY <1>7, <1>8, <1>9, <1>10, <1>11, <1>12, <1>13, <2>1, Zenon

(* A role is found in a list in alphabetical order, whatever the standard  *)
(* library does.                                                           *)
LEMMA SearchFinds ==
  ASSUME NEW list \in Seq(Nat), Alphabetic(list), NEW role \in Nat, NEW early \in BOOLEAN
  PROVE  LET found == Select!binary_search(list, role, early)
         IN  /\ \A k \in DOMAIN list : list[k] = role => found = k - 1
             /\ (\A k \in DOMAIN list : list[k] # role) => found = Select!Absent
<1> DEFINE n == Len(list)
           Is(f) == f = [size \in 0..n |-> Search(f, list, role, early, size)]
           found == CHOOSE f : Is(f)
<1>0. n \in Nat /\ DOMAIN list = 1..n
  OBVIOUS
<1>1. Select!binary_search(list, role, early) = found[n][0]
  BY DEF Select!binary_search, Search
<1>2. IsSearch(found, list, role, early, n)
  <2>1. \E f : Is(f)
    <3>1. PICK f : IsSearch(f, list, role, early, n)
      BY <1>0, SearchExists
    <3>2. Is(f)
      BY <3>1 DEF IsSearch
    <3> QED
      BY <3>2
  <2> HIDE DEF Is
  <2>2. Is(found)
    BY <2>1
  <2> QED
    BY <2>2 DEF Is, IsSearch
<1> HIDE DEF found
<1> DEFINE T == {m \in Nat : \A size \in 0..n : size <= m => Right(found, list, role, size)}
<1>3. 0 \in T
  <2>1. 0 \in 0..n /\ \A k \in Nat : ~(k < 0)
    BY <1>0
  <2>2. Right(found, list, role, 0)
    BY <1>2, <2>1, SearchStep
  <2>3. \A size \in 0..n : size <= 0 => size = 0
    BY <1>0
  <2> QED
    BY <2>2, <2>3
<1>4. ASSUME NEW m \in Nat, m \in T PROVE m + 1 \in T
  <2> SUFFICES ASSUME NEW size \in 0..n, size <= m + 1 PROVE Right(found, list, role, size)
    OBVIOUS
  <2>1. ASSUME NEW k \in Nat, k < size PROVE Right(found, list, role, k)
    <3>1. k \in 0..n /\ k <= m
      BY <1>0, <2>1
    <3> QED
      BY <1>4, <3>1
  <2> QED
    BY <1>2, <2>1, SearchStep
<1> HIDE DEF T
<1>5. Nat \subseteq T
  BY <1>3, <1>4, EveryNumber
<1>6. Right(found, list, role, n)
  BY <1>0, <1>5 DEF T
<1>7. /\ \A k \in (0 + 1)..(0 + n) : list[k] = role => found[n][0] = k - 1
      /\ (\A k \in (0 + 1)..(0 + n) : list[k] # role) => found[n][0] = Select!Absent
  <2>1. 0 + n <= Len(list)
    BY <1>0
  <2> QED
    BY <1>6, <2>1 DEF Right
<1>8. (0 + 1)..(0 + n) = DOMAIN list
  BY <1>0
<1> QED
  BY <1>1, <1>7, <1>8, Zenon

(* What is found is a place or nothing, in any list.                        *)
LEMMA SearchType ==
  ASSUME NEW list, Len(list) \in Nat, NEW role, NEW early \in BOOLEAN
  PROVE  Select!binary_search(list, role, early) \in Nat \cup {Select!Absent}
<1> DEFINE n == Len(list)
           Is(f) == f = [size \in 0..n |-> Search(f, list, role, early, size)]
           found == CHOOSE f : Is(f)
           Typed(f, size) == \A base \in Nat : f[size][base] \in Nat \cup {Select!Absent}
<1>1. Select!binary_search(list, role, early) = found[n][0]
  BY DEF Select!binary_search, Search
<1>2. \A size \in 0..n : found[size] = Search(found, list, role, early, size)
  <2>1. \E f : Is(f)
    <3>1. PICK f : IsSearch(f, list, role, early, n)
      BY SearchExists
    <3>2. Is(f)
      BY <3>1 DEF IsSearch
    <3> QED
      BY <3>2
  <2> HIDE DEF Is
  <2>2. Is(found)
    BY <2>1
  <2> QED
    BY <2>2 DEF Is
<1> HIDE DEF found
<1> DEFINE T == {m \in Nat : \A size \in 0..n : size <= m => Typed(found, size)}
<1>3. ASSUME NEW size \in 0..n, \A k \in Nat : k < size => Typed(found, k)
      PROVE  Typed(found, size)
  <2> SUFFICES ASSUME NEW base \in Nat PROVE found[size][base] \in Nat \cup {Select!Absent}
    OBVIOUS
  <2> DEFINE half == size \div 2
             at == list[base + half + 1]
  <2>1. found[size][base] =
          IF size = 0 THEN Select!Absent
          ELSE IF early
            THEN IF at = role THEN base + half
                 ELSE IF at < role THEN found[size - half - 1][base + half + 1]
                 ELSE found[half][base]
          ELSE IF size = 1 THEN IF at = role THEN base ELSE Select!Absent
          ELSE found[size - half][IF at > role THEN base ELSE base + half]
    BY <1>2, ZenonT(60) DEF Search
  <2>2. /\ half \in Nat
        /\ size > 0 => half < size /\ size - half - 1 \in Nat /\ size - half - 1 < size
        /\ size > 1 => size - half \in Nat /\ size - half < size
    OBVIOUS
  <2> HIDE DEF half, at
  <2>3. CASE size = 0
    BY <2>1, <2>3
  <2>4. CASE size > 0 /\ early
    <3>1. Typed(found, size - half - 1) /\ Typed(found, half)
      BY <1>3, <2>2, <2>4
    <3>2. base + half \in Nat /\ base + half + 1 \in Nat
      BY <2>2
    <3>3. found[size - half - 1][base + half + 1] \in Nat \cup {Select!Absent}
      BY <3>1, <3>2, Zenon
    <3>4. found[half][base] \in Nat \cup {Select!Absent}
      BY <3>1, Zenon
    <3> QED
      BY <2>1, <2>4, <3>2, <3>3, <3>4
  <2>5. CASE size = 1 /\ ~early
    BY <2>1, <2>5
  <2>6. CASE size > 1 /\ ~early
    <3>1. Typed(found, size - half)
      BY <1>3, <2>2, <2>6
    <3>2. (IF at > role THEN base ELSE base + half) \in Nat
      BY <2>2
    <3>3. found[size - half][IF at > role THEN base ELSE base + half] \in Nat \cup {Select!Absent}
      BY <3>1, <3>2, Zenon
    <3> QED
      BY <2>1, <2>6, <3>3
  <2>7. size = 0 \/ (size > 0 /\ (size = 1 \/ size > 1))
    OBVIOUS
  <2> QED
    BY <2>3, <2>4, <2>5, <2>6, <2>7, Zenon
<1> HIDE DEF Typed
<1>4. 0 \in T
  <2>1. \A k \in Nat : ~(k < 0)
    OBVIOUS
  <2>2. Typed(found, 0)
    BY <1>3, <2>1
  <2>3. \A size \in 0..n : size <= 0 => size = 0
    OBVIOUS
  <2> QED
    BY <2>2, <2>3
<1>5. ASSUME NEW m \in Nat, m \in T PROVE m + 1 \in T
  <2> SUFFICES ASSUME NEW size \in 0..n, size <= m + 1 PROVE Typed(found, size)
    OBVIOUS
  <2>1. ASSUME NEW k \in Nat, k < size PROVE Typed(found, k)
    <3>1. k \in 0..n /\ k <= m
      BY <2>1
    <3> QED
      BY <1>5, <3>1
  <2> QED
    BY <1>3, <2>1
<1> HIDE DEF T
<1>6. Nat \subseteq T
  BY <1>4, <1>5, EveryNumber
<1>7. Typed(found, n)
  BY <1>6 DEF T
<1> QED
  BY <1>1, <1>7 DEF Typed

-----------------------------------------------------------------------------
(* AdaptationSets.                                                         *)

(* What a call is made of.                                                  *)
LEMMA CallTypes ==
  ASSUME Select!SelectionAssumption, call \in Calls
  PROVE  /\ call.kind \in {"audio", "video", "subs"} /\ call.language \in BOOLEAN
         /\ call.roles \in Seq(Nat) /\ call.codecs \in Seq(Seq(STRING) \ {<< >>})
         /\ call.width \in Nat \cup {-1} /\ call.height \in Nat \cup {-1}
         /\ call.quality \in {"lowest", "intermediate", "highest"}
         /\ Len(call.adaptations) \in Nat /\ DOMAIN call.adaptations = 1..Len(call.adaptations)
         /\ \A a \in DOMAIN call.adaptations : Select!Set(a) \in Select!AdaptationSet
<1>1. call \in Select!Call
  BY DEF Select!SelectionAssumption
<1>2. call.adaptations \in Seq(Select!AdaptationSet)
  BY <1>1 DEF Select!Call
<1> QED
  BY <1>1, <1>2 DEF Select!Call, Select!Set, Select!Optional, Select!Absent

(* Distances of languages are numbers.                                      *)
LEMMA LanguageDistance ==
  ASSUME Select!SelectionAssumption, call \in Calls, NEW a \in DOMAIN call.adaptations
  PROVE  Select!lang_distance(a) \in Nat
<1>1. Select!Set(a).lang \in Nat \cup {-1}
  BY CallTypes DEF Select!AdaptationSet, Select!Optional, Select!Absent
<1>2. CASE Select!Set(a).lang = -1
  BY <1>2 DEF Select!lang_distance, Select!Absent
<1>3. CASE Select!Set(a).lang \in Nat
  <2> DEFINE T == {Select!Set(a).lang, 255}
  <2>1. T \subseteq Nat /\ T # {}
    BY <1>3
  <2> HIDE DEF T
  <2>2. Select!Min(T) \in Nat
    BY <2>1, MinIsLeast
  <2> QED
    BY <1>3, <2>2 DEF Select!lang_distance, Select!Absent, T
<1> QED
  BY <1>1, <1>2, <1>3

(* So are distances of roles, which are in the order of the places that    *)
(* roles have among the preferences, if those are in alphabetical order.   *)
LEMMA RoleDistance ==
  ASSUME Select!SelectionAssumption, call \in Calls, NEW a \in DOMAIN call.adaptations,
         NEW early \in BOOLEAN
  PROVE  /\ Select!role_distance(a, early) \in 0..255
         /\ Select!AlphabeticRoles =>
              Select!RolePlace(a) = IF Select!role_distance(a, early) >= 254 THEN 255
                                    ELSE Select!role_distance(a, early) + 1
<1> DEFINE roles == Select!Set(a).roles
           bs(i) == Select!binary_search(call.roles, roles[i], early)
           D == {255} \cup {Select!Or(bs(i), 255) : i \in DOMAIN roles}
           d == Select!role_distance(a, early)
<1>1. call.roles \in Seq(Nat) /\ roles \in Seq(Nat) /\ Len(call.roles) \in Nat
  BY CallTypes DEF Select!AdaptationSet
<1>2. ASSUME NEW i \in DOMAIN roles PROVE bs(i) \in Nat \cup {-1}
  BY <1>1, SearchType DEF Select!Absent
<1> HIDE DEF bs
<1>3. D \subseteq Nat /\ 255 \in D
  BY <1>2 DEF Select!Or, Select!Absent
<1>4. d = Select!Min(D)
  BY DEF Select!role_distance, bs
<1> HIDE DEF D, d
<1>5. d \in D /\ (\A y \in D : d <= y) /\ d \in Nat /\ d <= 255
  <2>1. d \in D /\ \A y \in D : d <= y
    BY <1>3, <1>4, MinIsLeast
  <2> QED
    BY <1>3, <2>1
<1>6. ASSUME Select!AlphabeticRoles
      PROVE  Select!RolePlace(a) = IF d >= 254 THEN 255 ELSE d + 1
  <2> DEFINE K == {k \in DOMAIN call.roles : \E i \in DOMAIN roles : roles[i] = call.roles[k]}
             P == {255} \cup K
             p == Select!RolePlace(a)
  <2>1. p = Select!Min(P)
    BY DEF Select!RolePlace
  <2>2. P \subseteq Nat /\ 255 \in P
    BY <1>1
  <2>3. ASSUME NEW i \in DOMAIN roles
        PROVE  /\ \A k \in DOMAIN call.roles : call.roles[k] = roles[i] => bs(i) = k - 1
               /\ (\A k \in DOMAIN call.roles : call.roles[k] # roles[i]) => bs(i) = -1
    <3>1. Alphabetic(call.roles) /\ roles[i] \in Nat
      BY <1>1, <1>6 DEF Alphabetic, Select!AlphabeticRoles
    <3> QED
      BY <1>1, <3>1, SearchFinds DEF bs, Select!Absent
  <2> HIDE DEF P, p, K
  <2>4. p \in P /\ (\A y \in P : p <= y) /\ p \in Nat /\ p <= 255
    <3>1. p \in P /\ \A y \in P : p <= y
      BY <2>1, <2>2, MinIsLeast
    <3> QED
      BY <2>2, <3>1
  <2>5. ASSUME NEW k \in K PROVE k - 1 \in D /\ k \in Nat /\ k >= 1
    <3>1. PICK i \in DOMAIN roles : roles[i] = call.roles[k]
      BY DEF K
    <3>2. bs(i) = k - 1 /\ k \in Nat /\ k >= 1
      BY <1>1, <2>3, <3>1 DEF K
    <3>3. Select!Or(bs(i), 255) = k - 1
      BY <3>2 DEF Select!Or, Select!Absent
    <3> QED
      BY <3>2, <3>3 DEF D
  <2>6. ASSUME NEW y \in D, y # 255 PROVE y + 1 \in K
    <3>1. PICK i \in DOMAIN roles : y = Select!Or(bs(i), 255)
      BY <2>6 DEF D
    <3>2. bs(i) # -1 /\ y = bs(i)
      BY <2>6, <3>1 DEF Select!Or, Select!Absent
    <3>3. PICK k \in DOMAIN call.roles : call.roles[k] = roles[i]
      BY <2>3, <3>2
    <3>4. y = k - 1 /\ k \in Nat
      BY <1>1, <2>3, <3>2, <3>3
    <3>5. y + 1 = k
      BY <3>4
    <3> QED
      BY <3>3, <3>5 DEF K
  <2>7. CASE p = 255
    <3>1. d >= 254
      <4> SUFFICES ASSUME d < 254 PROVE FALSE
        BY <1>5
      <4>1. d + 1 \in P
        BY <1>5, <2>6 DEF P
      <4> QED
        BY <1>5, <2>4, <2>7, <4>1
    <3> QED
      BY <2>7, <3>1 DEF p
  <2>8. CASE p # 255
    <3>1. p \in K /\ p < 255
      BY <2>4, <2>8 DEF P
    <3>2. d <= p - 1
      BY <1>5, <2>5, <3>1
    <3>3. d + 1 \in P
      BY <1>5, <2>4, <2>6, <3>1, <3>2 DEF P
    <3>4. p <= d + 1
      BY <2>4, <3>3
    <3> QED
      BY <1>5, <2>4, <3>1, <3>2, <3>4 DEF p
  <2> QED
    BY <2>7, <2>8
<1> QED
  BY <1>5, <1>6 DEF d

(* The AdaptationSets that select_preferred_adaptations leaves are nearest *)
(* to the language wanted and, among those, first by role.                 *)
LEMMA Preferred ==
  ASSUME Select!SelectionAssumption, call \in Calls, NEW S \in SUBSET DOMAIN call.adaptations,
         NEW early \in BOOLEAN
  PROVE  LET P == Select!select_preferred_adaptations(S, early)
         IN  /\ P \subseteq S /\ (S # {} => P # {})
             /\ \A a \in P, b \in S :
                  /\ call.language => Select!lang_distance(a) <= Select!lang_distance(b)
                  /\ (call.language => Select!lang_distance(b) = Select!lang_distance(a))
                       => Select!role_distance(a, early) <= Select!role_distance(b, early)
<1> DEFINE lang == [a \in S |-> Select!lang_distance(a)]
           role == [a \in S |-> Select!role_distance(a, early)]
           L == Select!ByLanguage(S)
           P == Select!ByRole(L, early)
<1>1. Select!select_preferred_adaptations(S, early) = P
  BY DEF Select!select_preferred_adaptations
<1>2. /\ \A a \in S : lang[a] = Select!lang_distance(a) /\ role[a] = Select!role_distance(a, early)
      /\ \A a \in S : lang[a] \in Nat /\ role[a] \in Nat
  BY LanguageDistance, RoleDistance
<1>3. /\ L \subseteq S
      /\ call.language => L = {a \in S : lang[a] = Select!Min({lang[b] : b \in S})}
      /\ ~call.language => L = S
  <2>1. {lang[b] : b \in S} = {Select!lang_distance(b) : b \in S}
    OBVIOUS
  <2>2. call.language => L = {a \in S : lang[a] = Select!Min({lang[b] : b \in S})}
    BY <2>1 DEF Select!ByLanguage, Select!With, Select!Least
  <2>3. ~call.language => L = S
    BY DEF Select!ByLanguage
  <2> QED
    BY <2>2, <2>3
<1>4. P = {a \in L : role[a] = Select!Min({role[b] : b \in L})}
  <2>1. {role[b] : b \in L} = {Select!role_distance(b, early) : b \in L}
    BY <1>2, <1>3
  <2> HIDE DEF L
  <2>2. P = {a \in L : Select!role_distance(a, early) = Select!Min({Select!role_distance(b, early) : b \in L})}
    BY DEF Select!ByRole, Select!With, Select!Least
  <2> QED
    BY <1>2, <1>3, <2>1, <2>2
<1> HIDE DEF lang, role, L, P
<1>5. S # {} => /\ \E x \in S : lang[x] = Select!Min({lang[y] : y \in S})
                /\ \A x \in S : Select!Min({lang[y] : y \in S}) <= lang[x]
  BY <1>2, LeastKey
<1>6. L # {} => /\ \E x \in L : role[x] = Select!Min({role[y] : y \in L})
                /\ \A x \in L : Select!Min({role[y] : y \in L}) <= role[x]
  <2>1. \A x \in L : role[x] \in Nat
    BY <1>2, <1>3
  <2> QED
    BY <2>1, LeastKey
<1>7. P \subseteq S /\ (S # {} => P # {})
  <2>1. S # {} => L # {}
    BY <1>3, <1>5
  <2> QED
    BY <1>3, <1>4, <1>6, <2>1
<1>8. ASSUME NEW a \in P, NEW b \in S
      PROVE  /\ call.language => lang[a] <= lang[b]
             /\ (call.language => lang[b] = lang[a]) => role[a] <= role[b]
  <2>1. a \in L /\ a \in S /\ S # {} /\ L # {}
    BY <1>3, <1>4
  <2>2. call.language => lang[a] <= lang[b]
    BY <1>3, <1>5, <2>1
  <2>3. ASSUME call.language => lang[b] = lang[a] PROVE role[a] <= role[b]
    <3>1. b \in L
      BY <1>3, <2>1, <2>3
    <3> QED
      BY <1>4, <1>6, <3>1
  <2> QED
    BY <2>2, <2>3
<1> QED
  BY <1>1, <1>2, <1>7, <1>8

(* The number of the first AdaptationSet with an equal Representation is   *)
(* that of the Representation itself, if no two are equal.                 *)
ParentOf(c) ==
  Select!Min({a \in DOMAIN call.adaptations :
                \E r \in DOMAIN Select!Set(a).representations : Select!Repr(<<a, r>>) = Select!Repr(c)})

(* See ParentOf.                                                            *)
LEMMA ParentFound ==
  ASSUME Select!SelectionAssumption, call \in Calls, Select!DistinctReprs,
         NEW a \in DOMAIN call.adaptations, NEW c \in Select!ReprsOf(a)
  PROVE  ParentOf(c) = a
<1> DEFINE T == {b \in DOMAIN call.adaptations :
                   \E r \in DOMAIN Select!Set(b).representations : Select!Repr(<<b, r>>) = Select!Repr(c)}
<1>1. PICK r \in DOMAIN Select!Set(a).representations : c = <<a, r>>
  BY DEF Select!ReprsOf
<1>2. a \in T
  BY <1>1
<1>3. ASSUME NEW b \in T PROVE b = a
  <2>1. PICK q \in DOMAIN Select!Set(b).representations : Select!Repr(<<b, q>>) = Select!Repr(c)
    OBVIOUS
  <2>2. <<b, q>> \in Select!ReprsOf(b) /\ b \in DOMAIN call.adaptations
    BY DEF Select!ReprsOf
  <2>3. <<b, q>> \in Select!AllReprs /\ c \in Select!AllReprs
    BY <2>2 DEF Select!AllReprs
  <2>4. <<b, q>> = c
    BY <2>1, <2>3 DEF Select!DistinctReprs
  <2> QED
    BY <1>1, <2>4
<1>4. T \subseteq Nat
  BY CallTypes
<1>5. ParentOf(c) = Select!Min(T)
  BY DEF ParentOf
<1> HIDE DEF T
<1>6. Select!Min(T) \in T
  BY <1>2, <1>4, MinIsLeast
<1> QED
  BY <1>3, <1>5, <1>6

-----------------------------------------------------------------------------
(* The course of a selection.                                              *)

(* What is left after each filter.                                         *)
Preferences(early) == Select!select_preferred_adaptations(Select!Served, early)
Suitable == {c \in offered : Select!Wanted(c)}
WideEnough == Select!Nearest(Suitable, "width", call.width)
HighEnough == Select!Nearest(WideEnough, "height", call.height)
OfCodec == Select!ByCodec(HighEnough)
OfQuality == Select!ByQuality(OfCodec)

(* The first one that is left, or the one that select_preferred_           *)
(* representation returns.                                                 *)
Choice ==
  IF call.kind = "video"
    THEN IF OfQuality = {} THEN << >> ELSE Select!FirstOf(OfQuality)
    ELSE IF offered = {} THEN << >> ELSE Select!select_preferred_representation(offered)

(* Where an audio or video stream is, and where subtitles are.             *)
StreamInv ==
  /\ \E early \in BOOLEAN : adaptations = Preferences(early)
  /\ offered = UNION {Select!ReprsOf(a) : a \in adaptations}
  /\ IF call.kind = "video"
       THEN \/ pc = "id" /\ candidates = offered
            \/ pc = "width" /\ candidates = Suitable
            \/ pc = "height" /\ candidates = WideEnough
            \/ pc = "codec" /\ candidates = HighEnough
            \/ pc = "quality" /\ candidates = OfCodec
            \/ pc = "first" /\ candidates = OfQuality
            \/ pc \in {"parent", "ok"}
       ELSE (pc = "audio" /\ candidates = offered) \/ pc \in {"parent", "ok"}
  /\ chosen = IF pc \in {"parent", "ok"} THEN Choice ELSE << >>
  /\ pc = "parent" => chosen # << >>
  /\ pc = "ok" /\ chosen # << >> => parent = ParentOf(chosen)
SubtitlesInv ==
  /\ pc = "ok"
  /\ IF Select!Served = {} THEN offered = {} /\ chosen = << >>
     ELSE /\ parent = Select!Min(Select!ByLanguage(Select!Served))
          /\ offered = Select!ReprsOf(parent)
          /\ chosen = IF offered = {} THEN << >> ELSE Select!FirstOf(offered)
SelectInv ==
  /\ call \in Calls
  /\ pc \in {"kind", "adaptations"} => chosen = << >> /\ offered = {}
  /\ pc = "adaptations" => adaptations = Select!Served
  /\ pc \notin {"kind", "adaptations"} => IF call.kind = "subs" THEN SubtitlesInv ELSE StreamInv

-----------------------------------------------------------------------------
(* Representations.                                                        *)

(* The Representations of some AdaptationSets are finitely many.            *)
LEMMA OfferedTypes ==
  ASSUME Select!SelectionAssumption, call \in Calls, NEW A \in SUBSET DOMAIN call.adaptations
  PROVE  LET R == UNION {Select!ReprsOf(a) : a \in A}
         IN  /\ R \subseteq Nat \X Nat /\ IsFiniteSet(R)
             /\ \A c \in R : Select!Repr(c) \in Select!Representation /\ c # << >>
<1> DEFINE reprs == [a \in A |-> Select!Set(a).representations]
           length == [a \in A |-> Len(reprs[a])]
           R == UNION {Select!ReprsOf(a) : a \in A}
<1>1. A \subseteq Nat /\ IsFiniteSet(A)
  <2>1. A \subseteq 1..Len(call.adaptations) /\ Len(call.adaptations) \in Nat
    BY CallTypes
  <2>2. IsFiniteSet(1..Len(call.adaptations))
    BY <2>1, FS_Interval
  <2>3. IsFiniteSet(A)
    BY <2>1, <2>2, FS_Subset
  <2> QED
    BY <2>1, <2>3
<1>2. ASSUME NEW a \in A
      PROVE  /\ length[a] \in Nat
             /\ \A r \in DOMAIN reprs[a] : r \in 1..length[a] /\ reprs[a][r] \in Select!Representation
             /\ Select!ReprsOf(a) = {<<a, r>> : r \in DOMAIN reprs[a]}
  <2>1. reprs[a] \in Seq(Select!Representation)
    BY CallTypes DEF Select!AdaptationSet
  <2> QED
    BY <2>1 DEF Select!ReprsOf
<1>3. ASSUME NEW c \in R
      PROVE  \E a \in A : \E r \in 1..length[a] :
               /\ c = <<a, r>> /\ Select!Repr(c) \in Select!Representation
  <2>1. PICK a \in A : c \in Select!ReprsOf(a)
    OBVIOUS
  <2>2. PICK r \in DOMAIN reprs[a] : c = <<a, r>>
    BY <1>2, <2>1
  <2>3. Select!Repr(c) = reprs[a][r]
    BY <2>2 DEF Select!Repr
  <2> QED
    BY <1>2, <2>2, <2>3
<1> HIDE DEF R, length, reprs
<1>4. CASE A = {}
  <2>1. R = {}
    BY <1>4 DEF R
  <2> QED
    BY <2>1, FS_EmptySet DEF R
<1>5. CASE A # {}
  <2>1. PICK b \in A : \A a \in A : length[a] <= length[b]
    BY <1>1, <1>2, <1>5, GreatestExists
  <2>2. length[b] \in Nat
    BY <1>2
  <2>3. R \subseteq A \X (1..length[b])
    <3> SUFFICES ASSUME NEW c \in R PROVE c \in A \X (1..length[b])
      OBVIOUS
    <3>1. PICK a \in A : \E r \in 1..length[a] : c = <<a, r>>
      BY <1>3
    <3>2. PICK r \in 1..length[a] : c = <<a, r>>
      BY <3>1
    <3>3. r \in 1..length[b]
      BY <1>2, <2>1, <2>2
    <3> QED
      BY <3>2, <3>3
  <2>4. IsFiniteSet(A \X (1..length[b]))
    <3>1. IsFiniteSet(1..length[b])
      BY <2>2, FS_Interval
    <3> QED
      BY <1>1, <3>1, FS_Product
  <2>5. IsFiniteSet(R)
    BY <2>3, <2>4, FS_Subset
  <2>6. \A c \in R : c \in Nat \X Nat
    BY <1>1, <2>2, <2>3
  <2>7. \A c \in R : Select!Repr(c) \in Select!Representation
    BY <1>3
  <2>8. \A c \in Nat \X Nat : c # << >>
    OBVIOUS
  <2>9. R \subseteq Nat \X Nat
    BY <2>6
  <2> QED
    BY <2>5, <2>7, <2>8, <2>9, Zenon DEF R
<1> QED
  BY <1>4, <1>5

(* What a set of Representations is in the proofs below.                    *)
Some(S) == /\ S \subseteq Nat \X Nat /\ IsFiniteSet(S)
           /\ \A c \in S : Select!Repr(c) \in Select!Representation /\ c # << >>

(* The attributes and keys of Representations.                              *)
LEMMA Keys ==
  ASSUME Select!SelectionAssumption, call \in Calls, NEW S, Some(S), NEW c \in S
  PROVE  /\ Select!Repr(c).width \in Nat \cup {-1} /\ Select!Repr(c).height \in Nat \cup {-1}
         /\ Select!Ranking(c) \in Nat \cup {-1}
         /\ Select!Repr(c).bandwidth \in Nat \cup {-1}
         /\ Select!Repr(c).bandwidth # -1 =>
              0 < Select!Repr(c).bandwidth /\ Select!Repr(c).bandwidth < Select!Large
         /\ Select!Repr(c).codecs \in Seq(STRING)
         /\ Select!LowBandwidth(c) \in Nat /\ Select!HighBandwidth(c) \in Nat
         /\ Select!MediumBandwidth(c) \in Nat
         /\ Select!CodecPlace(c) \in Nat
<1>1. Select!Repr(c) \in Select!Representation
  BY DEF Some
<1>2. /\ Select!Repr(c).width \in Nat \cup {-1} /\ Select!Repr(c).height \in Nat \cup {-1}
      /\ Select!Repr(c).ranking \in Nat \cup {-1}
      /\ Select!Repr(c).bandwidth \in {b \in Nat : 0 < b /\ b < Select!Large} \cup {-1}
      /\ Select!Repr(c).codecs \in Seq(STRING)
  BY <1>1 DEF Select!Representation, Select!Optional, Select!Absent
<1>3. /\ Select!LowBandwidth(c) \in Nat /\ Select!HighBandwidth(c) \in Nat
      /\ Select!MediumBandwidth(c) \in Nat
  BY <1>2 DEF Select!LowBandwidth, Select!HighBandwidth, Select!MediumBandwidth, Select!Or,
              Select!Large, Select!Absent
<1>4. Select!CodecPlace(c) \in Nat
  <2> DEFINE met == {k \in DOMAIN call.codecs : Select!StartsWith(Select!Repr(c).codecs, call.codecs[k])}
  <2>1. Select!CodecPlace(c) = IF met = {} THEN Select!Farthest ELSE Select!Min(met)
    BY DEF Select!CodecPlace
  <2>2. met \subseteq Nat
    BY CallTypes
  <2> HIDE DEF met
  <2>3. met # {} => Select!Min(met) \in Nat
    BY <2>2, MinIsLeast
  <2> QED
    BY <2>1, <2>3 DEF Select!Farthest
<1> QED
  BY <1>2, <1>3, <1>4 DEF Select!Ranking

(* The first member with the least key has the least key.                   *)
LEMMA LeastMember ==
  ASSUME NEW S, S \subseteq Nat \X Nat, S # {}, NEW key, \A x \in S : key[x] \in Nat
  PROVE  LET first == Select!FirstOf({x \in S : key[x] = Select!Min({key[y] : y \in S})})
         IN  first \in S /\ \A x \in S : key[first] <= key[x]
<1> DEFINE least == Select!Min({key[y] : y \in S})
           T == {x \in S : key[x] = least}
<1>1. (\E x \in S : key[x] = least) /\ \A x \in S : least <= key[x]
  BY LeastKey
<1> HIDE DEF least
<1>2. T \subseteq Nat \X Nat /\ T # {} /\ T \subseteq S
  BY <1>1
<1>3. Select!FirstOf(T) \in T
  <2> HIDE DEF T
  <2> QED
    BY <1>2, FirstIsMember
<1>4. Select!FirstOf(T) \in S /\ key[Select!FirstOf(T)] = least
  BY <1>3
<1> QED
  BY <1>1, <1>4 DEF least

(* Those that the filters by width and height leave are nearest, and are   *)
(* all that are alike.                                                     *)
LEMMA NearestOnes ==
  ASSUME Select!SelectionAssumption, call \in Calls, NEW S, Some(S),
         NEW attribute \in {"width", "height"}, NEW want \in Nat \cup {-1}
  PROVE  LET N == Select!Nearest(S, attribute, want)
         IN  /\ N \subseteq S /\ (S # {} => N # {})
             /\ \A c \in N : /\ N = {d \in S : Select!Alike(d, c, attribute, want)}
                             /\ \A d \in S : Select!Nearer(c, d, attribute, want)
<1> DEFINE value == [c \in S |-> Select!Repr(c)[attribute]]
           off == [c \in S |-> Select!Distance(value[c], want)]
           N == Select!Nearest(S, attribute, want)
           best == Select!FirstOf({x \in S : off[x] = Select!Min({off[y] : y \in S})})
<1>1. ASSUME NEW c \in S
      PROVE  value[c] \in Nat \cup {-1} /\ value[c] = Select!Repr(c)[attribute]
  BY Keys
<1>2. CASE want = -1 \/ S = {}
  <2>1. N = S
    BY <1>2 DEF Select!Nearest, Select!Absent
  <2> QED
    BY <1>2, <2>1 DEF Select!Alike, Select!Nearer, Select!Absent
<1>3. CASE want \in Nat /\ S # {}
  <2>1. ASSUME NEW c \in S PROVE off[c] \in Nat /\ off[c] = Select!Distance(Select!Repr(c)[attribute], want)
    BY <1>1, <1>3 DEF Select!Distance, Select!Farthest, Select!Absent
  <2>2. N = {x \in S : Select!Repr(x)[attribute] = Select!Repr(best)[attribute]}
    <3>1. best = Select!FirstOf({x \in S : Select!Distance(Select!Repr(x)[attribute], want) =
                   Select!Min({Select!Distance(Select!Repr(y)[attribute], want) : y \in S})})
      <4>1. {off[y] : y \in S} = {Select!Distance(Select!Repr(y)[attribute], want) : y \in S}
        BY <2>1
      <4> HIDE DEF off
      <4>2. {x \in S : off[x] = Select!Min({off[y] : y \in S})} =
              {x \in S : Select!Distance(Select!Repr(x)[attribute], want) =
                   Select!Min({Select!Distance(Select!Repr(y)[attribute], want) : y \in S})}
        BY <2>1, <4>1
      <4> QED
        BY <4>2
    <3>2. want # Select!Absent /\ S # {}
      BY <1>3 DEF Select!Absent
    <3> HIDE DEF best
    <3> QED
      BY <3>1, <3>2 DEF Select!Nearest, Select!MinByKey, Select!With, Select!Least
  <2>3. best \in S /\ \A x \in S : off[best] <= off[x]
    <3>1. S \subseteq Nat \X Nat
      BY DEF Some
    <3> HIDE DEF off
    <3> QED
      BY <1>3, <2>1, <3>1, LeastMember
  <2> HIDE DEF best, N, value
  <2>4. N \subseteq S /\ best \in N
    BY <2>2, <2>3
  <2>5. ASSUME NEW c \in N
        PROVE  /\ N = {d \in S : Select!Alike(d, c, attribute, want)}
               /\ \A d \in S : Select!Nearer(c, d, attribute, want)
    <3>1. Select!Repr(c)[attribute] = Select!Repr(best)[attribute] /\ c \in S
      BY <2>2
    <3>2. want # -1
      BY <1>3
    <3>3. N = {d \in S : Select!Alike(d, c, attribute, want)}
      BY <2>2, <3>1, <3>2 DEF Select!Alike, Select!Absent
    <3> HIDE DEF off
    <3>4. ASSUME NEW d \in S PROVE Select!Nearer(c, d, attribute, want)
      BY <2>1, <2>3, <3>1 DEF Select!Nearer
    <3> QED
      BY <3>3, <3>4
  <2> QED
    BY <2>4, <2>5 DEF N
<1> QED
  BY <1>2, <1>3

(* Those that the filter by codec leaves are of the family of the first    *)
(* preference that any meets.                                              *)
LEMMA CodecOnes ==
  ASSUME Select!SelectionAssumption, call \in Calls, NEW S, Some(S)
  PROVE  LET N     == Select!ByCodec(S)
             Coded == {c \in S : Select!CodecPlace(c) < Select!Farthest}
         IN  /\ N \subseteq S /\ (S # {} => N # {})
             /\ call.codecs = << >> => N = S
             /\ call.codecs # << >> /\ Coded # {} =>
                  \A c \in N : /\ N = {d \in S : Select!Family(d) = Select!Family(c)}
                               /\ \A d \in Coded : \E e \in N : Select!CodecPlace(e) <= Select!CodecPlace(d)
<1> DEFINE place == [c \in S |-> Select!CodecPlace(c)]
           N == Select!ByCodec(S)
           Coded == {c \in S : Select!CodecPlace(c) < Select!Farthest}
           best == Select!FirstOf({x \in S : place[x] = Select!Min({place[y] : y \in S})})
<1>1. ASSUME NEW c \in S PROVE place[c] \in Nat /\ place[c] = Select!CodecPlace(c)
  BY Keys
<1>2. CASE call.codecs = << >> \/ S = {}
  <2>1. N = S
    BY <1>2 DEF Select!ByCodec
  <2> QED
    BY <1>2, <2>1
<1>3. CASE call.codecs # << >> /\ S # {}
  <2>1. best = Select!MinByKey(S, Select!CodecPlace)
    <3>1. {place[y] : y \in S} = {Select!CodecPlace(y) : y \in S}
      BY <1>1
    <3> HIDE DEF place
    <3>2. {x \in S : place[x] = Select!Min({place[y] : y \in S})} =
            {x \in S : Select!CodecPlace(x) = Select!Min({Select!CodecPlace(y) : y \in S})}
      BY <1>1, <3>1
    <3> QED
      BY <3>2 DEF Select!MinByKey, Select!With, Select!Least
  <2>2. best \in S /\ \A x \in S : place[best] <= place[x]
    <3>1. S \subseteq Nat \X Nat
      BY DEF Some
    <3> HIDE DEF place
    <3> QED
      BY <1>1, <1>3, <3>1, LeastMember
  <2> HIDE DEF best, place
  <2>3. CASE Select!Repr(best).codecs = << >>
    <3>1. N = S
      BY <2>1, <2>3 DEF Select!ByCodec
    <3>2. Select!CodecPlace(best) = Select!Farthest
      <4>1. ASSUME NEW k \in DOMAIN call.codecs
            PROVE  ~Select!StartsWith(Select!Repr(best).codecs, call.codecs[k])
        <5>1. call.codecs[k] \in Seq(STRING) \ {<< >>}
          BY CallTypes
        <5>2. Len(call.codecs[k]) > 0 /\ Len(Select!Repr(best).codecs) = 0
          BY <2>3, <5>1
        <5> QED
          BY <5>2 DEF Select!StartsWith
      <4> QED
        BY <4>1 DEF Select!CodecPlace
    <3>3. Coded = {}
      <4> SUFFICES ASSUME NEW c \in S, Select!CodecPlace(c) < Select!Farthest PROVE FALSE
        OBVIOUS
      <4>1. place[best] <= place[c] /\ place[c] \in Nat /\ place[best] = Select!Farthest
        BY <1>1, <2>2, <3>2
      <4> QED
        BY <1>1, <4>1 DEF Select!Farthest
    <3> QED
      BY <1>3, <3>1, <3>3
  <2>4. CASE Select!Repr(best).codecs # << >>
    <3>1. N = {d \in S : Select!Family(d) = Select!Family(best)}
      BY <1>3, <2>1, <2>4 DEF Select!ByCodec, Select!With
    <3>2. best \in N
      BY <2>2, <3>1
    <3>3. \A d \in Coded : Select!CodecPlace(best) <= Select!CodecPlace(d)
      BY <1>1, <2>2
    <3> HIDE DEF N, Coded
    <3>4. \A c \in N : N = {d \in S : Select!Family(d) = Select!Family(c)}
      BY <3>1
    <3> QED
      BY <1>3, <3>1, <3>2, <3>3, <3>4 DEF N, Coded
  <2> QED
    BY <2>3, <2>4
<1> QED
  BY <1>2, <1>3

-----------------------------------------------------------------------------
(* Qualities.                                                              *)

(* Members of a set with the least, the greatest and the middle key.        *)
LeastOf(S, key) == {x \in S : key[x] = Select!Min({key[y] : y \in S})}
GreatestOf(S, key) == {x \in S : key[x] = Select!Max({key[y] : y \in S})}
AreMiddle(M, S, key) == M \subseteq S /\ M # {} /\ \A c \in M : IsMiddle(key[c], S, key)

(* Among some Representations there are such members.                       *)
LEMMA ByKeys ==
  ASSUME NEW S, Some(S), S # {}, NEW key, \A x \in S : key[x] \in Nat
  PROVE  /\ LeastOf(S, key) # {} /\ \A c \in LeastOf(S, key), d \in S : key[c] <= key[d]
         /\ GreatestOf(S, key) # {} /\ \A c \in GreatestOf(S, key), d \in S : key[d] <= key[c]
         /\ \E x \in S : IsMiddle(key[x], S, key)
<1>1. IsFiniteSet(S)
  BY DEF Some
<1>2. LeastOf(S, key) # {} /\ \A c \in LeastOf(S, key), d \in S : key[c] <= key[d]
  <2> DEFINE least == Select!Min({key[y] : y \in S})
  <2>1. (\E x \in S : key[x] = least) /\ \A x \in S : least <= key[x]
    BY LeastKey
  <2>2. LeastOf(S, key) = {x \in S : key[x] = least}
    BY DEF LeastOf
  <2> HIDE DEF least
  <2> QED
    BY <2>1, <2>2
<1>3. GreatestOf(S, key) # {} /\ \A c \in GreatestOf(S, key), d \in S : key[d] <= key[c]
  <2> DEFINE greatest == Select!Max({key[y] : y \in S})
  <2>1. (\E x \in S : key[x] = greatest) /\ \A x \in S : key[x] <= greatest
    BY <1>1, GreatestKey, ZenonT(60)
  <2>2. GreatestOf(S, key) = {x \in S : key[x] = greatest}
    BY DEF GreatestOf
  <2> HIDE DEF greatest
  <2> QED
    BY <2>1, <2>2
<1>4. \E x \in S : IsMiddle(key[x], S, key)
  BY <1>1, MiddleKey
<1> QED
  BY <1>2, <1>3, <1>4

(* The keys that Representations are compared by.                           *)
rankings(S) == [c \in S |-> Select!Ranking(c)]
lows(S) == [c \in S |-> Select!LowBandwidth(c)]
highs(S) == [c \in S |-> Select!HighBandwidth(c)]
mediums(S) == [c \in S |-> Select!MediumBandwidth(c)]

(* Selection counts as FiniteSets does.                                     *)
LEMMA Counting ==
  \A S : Select!Cardinality(S) = Cardinality(S)
BY Zenon DEF Select!Cardinality, Cardinality

(* What the code compares by them.                                          *)
LEMMA Comparisons ==
  ASSUME NEW S, Some(S), S # {}
  PROVE  /\ Select!With(S, Select!Ranking, Select!Least(S, Select!Ranking)) = LeastOf(S, rankings(S))
         /\ Select!With(S, Select!Ranking, Select!Greatest(S, Select!Ranking)) = GreatestOf(S, rankings(S))
         /\ (\A c \in S : rankings(S)[c] \in Nat) =>
              AreMiddle(Select!With(S, Select!Ranking, Select!Middle(S, Select!Ranking)), S, rankings(S))
         /\ Select!With(S, Select!LowBandwidth, Select!Least(S, Select!LowBandwidth)) = LeastOf(S, lows(S))
         /\ (\A c \in S : lows(S)[c] \in Nat) =>
              AreMiddle(Select!With(S, Select!LowBandwidth, Select!Middle(S, Select!LowBandwidth)), S, lows(S))
         /\ Select!With(S, Select!HighBandwidth, Select!Greatest(S, Select!HighBandwidth))
               = GreatestOf(S, highs(S))
         /\ (\A c \in S : mediums(S)[c] \in Nat) =>
              AreMiddle(Select!With(S, Select!MediumBandwidth, Select!Middle(S, Select!MediumBandwidth)), S, mediums(S))
<1> DEFINE rank == rankings(S)
           low == lows(S)
           high == highs(S)
           medium == mediums(S)
<1>1. /\ \A c \in S : rank[c] = Select!Ranking(c) /\ low[c] = Select!LowBandwidth(c)
      /\ \A c \in S : high[c] = Select!HighBandwidth(c) /\ medium[c] = Select!MediumBandwidth(c)
  BY DEF rankings, lows, highs, mediums
<1> HIDE DEF rank, low, high, medium
<1>2. /\ {rank[y] : y \in S} = {Select!Ranking(y) : y \in S}
      /\ {low[y] : y \in S} = {Select!LowBandwidth(y) : y \in S}
      /\ {high[y] : y \in S} = {Select!HighBandwidth(y) : y \in S}
      /\ {medium[y] : y \in S} = {Select!MediumBandwidth(y) : y \in S}
  BY <1>1
<1>3. \A v : {x \in S : Select!Ranking(x) = v} = {x \in S : rank[x] = v}
  BY <1>1
<1>4. \A v : {x \in S : Select!LowBandwidth(x) = v} = {x \in S : low[x] = v}
  BY <1>1
<1>5. \A v : {x \in S : Select!HighBandwidth(x) = v} = {x \in S : high[x] = v}
  BY <1>1
<1>6. /\ Select!With(S, Select!Ranking, Select!Least(S, Select!Ranking)) = LeastOf(S, rank)
      /\ Select!With(S, Select!Ranking, Select!Greatest(S, Select!Ranking)) = GreatestOf(S, rank)
  <2>1. Select!With(S, Select!Ranking, Select!Least(S, Select!Ranking)) = LeastOf(S, rank)
    BY <1>2, <1>3, ZenonT(60) DEF Select!With, Select!Least, LeastOf
  <2>2. Select!With(S, Select!Ranking, Select!Greatest(S, Select!Ranking)) = GreatestOf(S, rank)
    BY <1>2, <1>3, ZenonT(60) DEF Select!With, Select!Greatest, GreatestOf
  <2> QED
    BY <2>1, <2>2
<1>7. Select!With(S, Select!LowBandwidth, Select!Least(S, Select!LowBandwidth)) = LeastOf(S, low)
  BY <1>2, <1>4, Zenon DEF Select!With, Select!Least, LeastOf
<1>8. Select!With(S, Select!HighBandwidth, Select!Greatest(S, Select!HighBandwidth)) = GreatestOf(S, high)
  BY <1>2, <1>5, Zenon DEF Select!With, Select!Greatest, GreatestOf
<1>9. (\A c \in S : rank[c] \in Nat) =>
        AreMiddle(Select!With(S, Select!Ranking, Select!Middle(S, Select!Ranking)), S, rank)
  <2> SUFFICES ASSUME \A c \in S : rank[c] \in Nat
               PROVE  AreMiddle(Select!With(S, Select!Ranking, Select!Middle(S, Select!Ranking)), S, rank)
    OBVIOUS
  <2> DEFINE V == {Select!Ranking(x) : x \in S}
             Mid(u) == /\ Cardinality({x \in S : Select!Ranking(x) < u}) <= Cardinality(S) \div 2
                       /\ Cardinality({x \in S : Select!Ranking(x) <= u}) > Cardinality(S) \div 2
             v == CHOOSE u \in V : Mid(u)
  <2>1. ASSUME NEW u PROVE Mid(u) <=> IsMiddle(u, S, rank)
    <3>1. /\ {x \in S : Select!Ranking(x) < u} = {x \in S : rank[x] < u}
          /\ {x \in S : Select!Ranking(x) <= u} = {x \in S : rank[x] <= u}
      BY <1>1
    <3> QED
      BY <3>1, Zenon DEF IsMiddle
  <2>2. \E x \in S : IsMiddle(rank[x], S, rank)
    BY ByKeys
  <2>3. Select!With(S, Select!Ranking, Select!Middle(S, Select!Ranking)) = {x \in S : Select!Ranking(x) = v}
    BY Counting, Zenon DEF Select!With, Select!Middle
  <2> HIDE DEF Mid
  <2>4. v \in V /\ IsMiddle(v, S, rank)
    <3>1. \E u \in V : Mid(u)
      BY <1>2, <2>1, <2>2
    <3> HIDE DEF V
    <3>2. v \in V /\ Mid(v)
      BY <3>1
    <3> QED
      BY <2>1, <3>2
  <2> HIDE DEF v
  <2>5. {x \in S : Select!Ranking(x) = v} = {x \in S : rank[x] = v}
    BY <1>1
  <2>6. \E x \in S : rank[x] = v
    BY <1>1, <2>4
  <2> QED
    BY <2>3, <2>4, <2>5, <2>6 DEF AreMiddle
<1>10. (\A c \in S : low[c] \in Nat) =>
        AreMiddle(Select!With(S, Select!LowBandwidth, Select!Middle(S, Select!LowBandwidth)), S, low)
  <2> SUFFICES ASSUME \A c \in S : low[c] \in Nat
               PROVE  AreMiddle(Select!With(S, Select!LowBandwidth, Select!Middle(S, Select!LowBandwidth)), S, low)
    OBVIOUS
  <2> DEFINE V == {Select!LowBandwidth(x) : x \in S}
             Mid(u) == /\ Cardinality({x \in S : Select!LowBandwidth(x) < u}) <= Cardinality(S) \div 2
                       /\ Cardinality({x \in S : Select!LowBandwidth(x) <= u}) > Cardinality(S) \div 2
             v == CHOOSE u \in V : Mid(u)
  <2>1. ASSUME NEW u PROVE Mid(u) <=> IsMiddle(u, S, low)
    <3>1. /\ {x \in S : Select!LowBandwidth(x) < u} = {x \in S : low[x] < u}
          /\ {x \in S : Select!LowBandwidth(x) <= u} = {x \in S : low[x] <= u}
      BY <1>1
    <3> QED
      BY <3>1, Zenon DEF IsMiddle
  <2>2. \E x \in S : IsMiddle(low[x], S, low)
    BY ByKeys
  <2>3. Select!With(S, Select!LowBandwidth, Select!Middle(S, Select!LowBandwidth)) = {x \in S : Select!LowBandwidth(x) = v}
    BY Counting, Zenon DEF Select!With, Select!Middle
  <2> HIDE DEF Mid
  <2>4. v \in V /\ IsMiddle(v, S, low)
    <3>1. \E u \in V : Mid(u)
      BY <1>2, <2>1, <2>2
    <3> HIDE DEF V
    <3>2. v \in V /\ Mid(v)
      BY <3>1
    <3> QED
      BY <2>1, <3>2
  <2> HIDE DEF v
  <2>5. {x \in S : Select!LowBandwidth(x) = v} = {x \in S : low[x] = v}
    BY <1>1
  <2>6. \E x \in S : low[x] = v
    BY <1>1, <2>4
  <2> QED
    BY <2>3, <2>4, <2>5, <2>6 DEF AreMiddle
<1>11. (\A c \in S : medium[c] \in Nat) =>
        AreMiddle(Select!With(S, Select!MediumBandwidth, Select!Middle(S, Select!MediumBandwidth)), S, medium)
  <2> SUFFICES ASSUME \A c \in S : medium[c] \in Nat
               PROVE  AreMiddle(Select!With(S, Select!MediumBandwidth, Select!Middle(S, Select!MediumBandwidth)), S, medium)
    OBVIOUS
  <2> DEFINE V == {Select!MediumBandwidth(x) : x \in S}
             Mid(u) == /\ Cardinality({x \in S : Select!MediumBandwidth(x) < u}) <= Cardinality(S) \div 2
                       /\ Cardinality({x \in S : Select!MediumBandwidth(x) <= u}) > Cardinality(S) \div 2
             v == CHOOSE u \in V : Mid(u)
  <2>1. ASSUME NEW u PROVE Mid(u) <=> IsMiddle(u, S, medium)
    <3>1. /\ {x \in S : Select!MediumBandwidth(x) < u} = {x \in S : medium[x] < u}
          /\ {x \in S : Select!MediumBandwidth(x) <= u} = {x \in S : medium[x] <= u}
      BY <1>1
    <3> QED
      BY <3>1, Zenon DEF IsMiddle
  <2>2. \E x \in S : IsMiddle(medium[x], S, medium)
    BY ByKeys
  <2>3. Select!With(S, Select!MediumBandwidth, Select!Middle(S, Select!MediumBandwidth)) = {x \in S : Select!MediumBandwidth(x) = v}
    BY Counting, Zenon DEF Select!With, Select!Middle
  <2> HIDE DEF Mid
  <2>4. v \in V /\ IsMiddle(v, S, medium)
    <3>1. \E u \in V : Mid(u)
      BY <1>2, <2>1, <2>2
    <3> HIDE DEF V
    <3>2. v \in V /\ Mid(v)
      BY <3>1
    <3> QED
      BY <2>1, <3>2
  <2> HIDE DEF v
  <2>5. {x \in S : Select!MediumBandwidth(x) = v} = {x \in S : medium[x] = v}
    BY <1>1
  <2>6. \E x \in S : medium[x] = v
    BY <1>1, <2>4
  <2> QED
    BY <2>3, <2>4, <2>5, <2>6 DEF AreMiddle
<1> QED
  BY <1>6, <1>7, <1>8, <1>9, <1>10, <1>11 DEF rank, low, high, medium

(* A Representation is best by the keys that the code compares.             *)
Best(c, S) ==
  /\ Select!Ranked(S) =>
       /\ call.quality = "lowest" => \A d \in S : rankings(S)[d] <= rankings(S)[c]
       /\ call.quality = "highest" => \A d \in S : rankings(S)[c] <= rankings(S)[d]
       /\ call.quality = "intermediate" => IsMiddle(rankings(S)[c], S, rankings(S))
  /\ ~Select!Ranked(S) =>
       /\ call.quality = "lowest" => \A d \in S : lows(S)[c] <= lows(S)[d]
       /\ call.quality = "highest" => \A d \in S : highs(S)[d] <= highs(S)[c]
       /\ call.quality = "intermediate" =>
            \/ IsMiddle(lows(S)[c], S, lows(S))
            \/ IsMiddle(mediums(S)[c], S, mediums(S))

(* Keys are numbers; those by bandwidth are the bandwidth, if it is given.  *)
LEMMA KeyTypes ==
  ASSUME Select!SelectionAssumption, call \in Calls, NEW S, Some(S), NEW c \in S
  PROVE  /\ Select!Large \in Nat
         /\ lows(S)[c] \in Nat /\ highs(S)[c] \in Nat /\ mediums(S)[c] \in Nat
         /\ rankings(S)[c] = Select!Ranking(c)
         /\ Select!Ranked(S) => rankings(S)[c] \in Nat
         /\ Select!Repr(c).bandwidth = -1 => lows(S)[c] = Select!Large /\ highs(S)[c] = 0
         /\ Select!Repr(c).bandwidth # -1 =>
              /\ lows(S)[c] = Select!Repr(c).bandwidth /\ highs(S)[c] = Select!Repr(c).bandwidth
              /\ mediums(S)[c] = Select!Repr(c).bandwidth
              /\ 0 < lows(S)[c] /\ lows(S)[c] < Select!Large
<1>1. /\ lows(S)[c] = Select!LowBandwidth(c) /\ highs(S)[c] = Select!HighBandwidth(c)
      /\ mediums(S)[c] = Select!MediumBandwidth(c) /\ rankings(S)[c] = Select!Ranking(c)
  BY DEF lows, highs, mediums, rankings
<1>2. Select!Ranked(S) => Select!Ranking(c) \in Nat
  BY Keys DEF Select!Ranked, Select!Absent
<1>3. /\ Select!LowBandwidth(c) = IF Select!Repr(c).bandwidth = -1 THEN Select!Large ELSE Select!Repr(c).bandwidth
      /\ Select!HighBandwidth(c) = IF Select!Repr(c).bandwidth = -1 THEN 0 ELSE Select!Repr(c).bandwidth
      /\ Select!Repr(c).bandwidth # -1 => Select!MediumBandwidth(c) = Select!Repr(c).bandwidth
  BY DEF Select!LowBandwidth, Select!HighBandwidth, Select!MediumBandwidth, Select!Or,
         Select!Absent
<1>4. Select!Large \in Nat
  BY DEF Select!Large
<1> QED
  BY <1>1, <1>2, <1>3, <1>4, Keys

(* No more than half are above the middle, nor below it.                    *)
LEMMA Halves ==
  ASSUME NEW S, Some(S), NEW key, \A x \in S : key[x] \in Nat, NEW v \in Nat, IsMiddle(v, S, key)
  PROVE  /\ 2 * Cardinality({x \in S : key[x] < v}) <= Cardinality(S)
         /\ 2 * Cardinality({x \in S : key[x] > v}) <= Cardinality(S)
<1> DEFINE n == Cardinality(S)
           A == {x \in S : key[x] < v}
           B == {x \in S : key[x] <= v}
           C == {x \in S : key[x] > v}
<1>1. IsFiniteSet(S) /\ A \in SUBSET S /\ B \in SUBSET S /\ C \in SUBSET S
  BY DEF Some
<1>2. Cardinality(A) <= n \div 2 /\ Cardinality(B) > n \div 2
  BY DEF IsMiddle
<1>3. C = S \ B /\ S \cap B = B
  OBVIOUS
<1> HIDE DEF A, B, C
<1>4. n \in Nat /\ Cardinality(A) \in Nat /\ Cardinality(B) \in Nat /\ Cardinality(C) \in Nat
  BY <1>1, FS_Subset, FS_CardinalityType
<1>5. Cardinality(C) = n - Cardinality(B)
  BY <1>1, <1>3, FS_Difference, ZenonT(60)
<1> HIDE DEF n
<1>6. n \div 2 \in Nat /\ 2 * (n \div 2) <= n /\ n <= 2 * (n \div 2) + 1
  BY <1>4
<1>7. 2 * Cardinality(A) <= n /\ 2 * Cardinality(C) <= n
  BY <1>2, <1>4, <1>5, <1>6
<1> QED
  BY <1>7 DEF n, A, C

(* The best one fits.                                                      *)
LEMMA BestFits ==
  ASSUME Select!SelectionAssumption, call \in Calls, NEW S, Some(S), NEW c \in S, Best(c, S)
  PROVE  Select!Fits(c, S)
<1> DEFINE known == {d \in S : Select!Ranked(S) \/ Select!Repr(d).bandwidth # Select!Absent}
           low == lows(S)
           high == highs(S)
           medium == mediums(S)
           rank == rankings(S)
           bandwidth(d) == Select!Repr(d).bandwidth
<1>1. \A d \in S :
        /\ Select!Large \in Nat
        /\ low[d] \in Nat /\ high[d] \in Nat /\ medium[d] \in Nat /\ rank[d] = Select!Ranking(d)
        /\ Select!Ranked(S) => rank[d] \in Nat
        /\ bandwidth(d) = -1 => low[d] = Select!Large /\ high[d] = 0
        /\ bandwidth(d) # -1 => /\ low[d] = bandwidth(d) /\ high[d] = bandwidth(d)
                                /\ medium[d] = bandwidth(d) /\ 0 < low[d] /\ low[d] < Select!Large
  BY KeyTypes
<1>2. \A d, e \in S : Select!Ranked(S) => (Select!Worse(d, e, S) <=> rank[d] > rank[e])
  BY <1>1 DEF Select!Worse
<1>3. \A d, e \in S : ~Select!Ranked(S) =>
        (Select!Worse(d, e, S) <=> /\ bandwidth(e) # -1
                                   /\ bandwidth(d) = -1 \/ bandwidth(d) < bandwidth(e))
  BY DEF Select!Worse, Select!Absent
<1>4. /\ call.quality = "highest" => (Select!Fits(c, S) <=> ~\E d \in S : Select!Worse(c, d, S))
      /\ call.quality = "lowest" =>
           (Select!Fits(c, S) <=> (known # {} => c \in known) /\ ~\E d \in known : Select!Worse(d, c, S))
      /\ call.quality = "intermediate" /\ known = S =>
           (Select!Fits(c, S) <=>
              /\ 2 * Select!Cardinality({d \in S : Select!Worse(d, c, S)}) <= Select!Cardinality(S)
              /\ 2 * Select!Cardinality({d \in S : Select!Worse(c, d, S)}) <= Select!Cardinality(S))
      /\ call.quality = "intermediate" /\ known # S => Select!Fits(c, S)
  BY DEF Select!Fits
<1>5. known = {d \in S : Select!Ranked(S) \/ bandwidth(d) # -1}
  BY DEF Select!Absent
<1> HIDE DEF known, low, high, medium, rank, bandwidth
<1>6. CASE call.quality = "highest"
  <2>1. ~\E d \in S : Select!Worse(c, d, S)
    <3> SUFFICES ASSUME NEW d \in S, Select!Worse(c, d, S) PROVE FALSE
      OBVIOUS
    <3>1. CASE Select!Ranked(S)
      <4>1. rank[c] <= rank[d]
        BY <1>6, <3>1 DEF Best, rank
      <4> QED
        BY <1>1, <1>2, <3>1, <4>1
    <3>2. CASE ~Select!Ranked(S)
      <4>1. high[d] <= high[c]
        BY <1>6, <3>2 DEF Best, high
      <4> QED
        BY <1>1, <1>3, <3>2, <4>1
    <3> QED
      BY <3>1, <3>2
  <2> QED
    BY <1>4, <1>6, <2>1
<1>7. CASE call.quality = "lowest"
  <2>1. known # {} => c \in known
    <3> SUFFICES ASSUME NEW d \in known, c \notin known PROVE FALSE
      OBVIOUS
    <3>1. ~Select!Ranked(S) /\ bandwidth(c) = -1 /\ bandwidth(d) # -1 /\ d \in S
      BY <1>5
    <3>2. low[c] <= low[d]
      BY <1>7, <3>1 DEF Best, low
    <3> QED
      BY <1>1, <3>1, <3>2
  <2>2. ~\E d \in known : Select!Worse(d, c, S)
    <3> SUFFICES ASSUME NEW d \in known, Select!Worse(d, c, S) PROVE FALSE
      OBVIOUS
    <3>0. d \in S /\ (Select!Ranked(S) \/ bandwidth(d) # -1)
      BY <1>5
    <3>1. CASE Select!Ranked(S)
      <4>1. rank[d] <= rank[c]
        BY <1>7, <3>0, <3>1 DEF Best, rank
      <4> QED
        BY <1>1, <1>2, <3>0, <3>1, <4>1
    <3>2. CASE ~Select!Ranked(S)
      <4>1. low[c] <= low[d]
        BY <1>7, <3>0, <3>2 DEF Best, low
      <4> QED
        BY <1>1, <1>3, <3>0, <3>2, <4>1
    <3> QED
      BY <3>1, <3>2
  <2>3. call.quality # "highest"
    BY <1>7
  <2> QED
    BY <1>4, <1>7, <2>1, <2>2, <2>3
<1>8. CASE call.quality = "intermediate" /\ known = S
  <2> DEFINE Below == {d \in S : Select!Worse(d, c, S)}
             Above == {d \in S : Select!Worse(c, d, S)}
  <2>1. 2 * Cardinality(Below) <= Cardinality(S) /\ 2 * Cardinality(Above) <= Cardinality(S)
    <3>1. CASE Select!Ranked(S)
      <4>1. IsMiddle(rank[c], S, rank)
        BY <1>8, <3>1 DEF Best, rank
      <4>2. Below = {d \in S : rank[d] > rank[c]} /\ Above = {d \in S : rank[d] < rank[c]}
        BY <1>1, <1>2, <3>1
      <4> HIDE DEF Below, Above
      <4> QED
        BY <1>1, <3>1, <4>1, <4>2, Halves
    <3>2. CASE ~Select!Ranked(S)
      <4>1. IsMiddle(low[c], S, low) \/ IsMiddle(medium[c], S, medium)
        BY <1>8, <3>2 DEF Best, low, medium
      <4>2. \A d \in S : bandwidth(d) # -1
        BY <1>5, <1>8, <3>2
      <4>3. /\ Below = {d \in S : low[d] < low[c]} /\ Above = {d \in S : low[d] > low[c]}
            /\ Below = {d \in S : medium[d] < medium[c]} /\ Above = {d \in S : medium[d] > medium[c]}
        <5>1. \A d, e \in S : /\ Select!Worse(d, e, S) <=> low[d] < low[e]
                              /\ Select!Worse(d, e, S) <=> medium[d] < medium[e]
          BY <1>1, <1>3, <3>2, <4>2
        <5>2. \A d, e \in S : /\ low[d] < low[e] <=> low[e] > low[d]
                              /\ medium[d] < medium[e] <=> medium[e] > medium[d]
          BY <1>1
        <5> QED
          BY <5>1, <5>2
      <4> HIDE DEF Below, Above
      <4>4. \A d \in S : low[d] \in Nat /\ medium[d] \in Nat
        BY <1>1
      <4> QED
        BY <4>1, <4>3, <4>4, Halves, SMTT(60)
    <3> QED
      BY <3>1, <3>2
  <2>2. /\ 2 * Select!Cardinality(Below) <= Select!Cardinality(S)
        /\ 2 * Select!Cardinality(Above) <= Select!Cardinality(S)
    BY <2>1, Counting, Zenon
  <2> QED
    BY <1>4, <1>8, <2>2, Zenon
<1>9. CASE call.quality = "intermediate" /\ known # S
  BY <1>4, <1>9
<1>10. call.quality \in {"lowest", "highest", "intermediate"}
  BY CallTypes
<1> QED
  BY <1>6, <1>7, <1>8, <1>9, <1>10

(* The filter by quality leaves the best ones.                             *)
LEMMA QualityOnes ==
  ASSUME Select!SelectionAssumption, call \in Calls, NEW S, Some(S)
  PROVE  LET N == Select!ByQuality(S)
         IN  N \subseteq S /\ (S # {} => N # {}) /\ \A c \in N : Best(c, S)
<1> DEFINE N == Select!ByQuality(S)
<1>1. CASE S = {}
  BY <1>1 DEF Select!ByQuality
<1>2. CASE S # {}
  <2>1. /\ \A c \in S : lows(S)[c] \in Nat /\ highs(S)[c] \in Nat /\ mediums(S)[c] \in Nat
        /\ Select!Ranked(S) => \A c \in S : rankings(S)[c] \in Nat
    BY KeyTypes
  <2>2. call.quality \in {"lowest", "highest", "intermediate"}
    BY CallTypes
  <2>3. CASE Select!Ranked(S)
    <3>1. /\ call.quality = "lowest" => N = GreatestOf(S, rankings(S))
          /\ call.quality = "highest" => N = LeastOf(S, rankings(S))
          /\ call.quality = "intermediate" => AreMiddle(N, S, rankings(S))
      BY <1>2, <2>1, <2>3, Comparisons DEF Select!ByQuality
    <3> HIDE DEF N
    <3>2. CASE call.quality = "lowest"
      <4>1. N = GreatestOf(S, rankings(S))
        BY <3>1, <3>2
      <4>2. N # {} /\ \A c \in N, d \in S : rankings(S)[d] <= rankings(S)[c]
        BY <1>2, <2>1, <2>3, <4>1, ByKeys
      <4> QED
        BY <2>3, <3>2, <4>1, <4>2 DEF Best, N, GreatestOf
    <3>3. CASE call.quality = "highest"
      <4>1. N = LeastOf(S, rankings(S))
        BY <3>1, <3>3
      <4>2. N # {} /\ \A c \in N, d \in S : rankings(S)[c] <= rankings(S)[d]
        BY <1>2, <2>1, <2>3, <4>1, ByKeys
      <4> QED
        BY <2>3, <3>3, <4>1, <4>2 DEF Best, N, LeastOf
    <3>4. CASE call.quality = "intermediate"
      BY <2>3, <3>1, <3>4 DEF Best, N, AreMiddle
    <3> QED
      BY <2>2, <3>2, <3>3, <3>4
  <2>4. CASE ~Select!Ranked(S)
    <3>1. /\ call.quality = "lowest" => N = LeastOf(S, lows(S))
          /\ call.quality = "highest" => N = GreatestOf(S, highs(S))
          /\ call.quality = "intermediate" => AreMiddle(N, S, lows(S))
      BY <1>2, <2>1, <2>4, Comparisons DEF Select!ByQuality
    <3> HIDE DEF N
    <3>2. CASE call.quality = "lowest"
      <4>1. N = LeastOf(S, lows(S))
        BY <3>1, <3>2
      <4>2. N # {} /\ \A c \in N, d \in S : lows(S)[c] <= lows(S)[d]
        BY <1>2, <2>1, <4>1, ByKeys
      <4> QED
        BY <2>4, <3>2, <4>1, <4>2 DEF Best, N, LeastOf
    <3>3. CASE call.quality = "highest"
      <4>1. N = GreatestOf(S, highs(S))
        BY <3>1, <3>3
      <4>2. N # {} /\ \A c \in N, d \in S : highs(S)[d] <= highs(S)[c]
        BY <1>2, <2>1, <4>1, ByKeys
      <4> QED
        BY <2>4, <3>3, <4>1, <4>2 DEF Best, N, GreatestOf
    <3>4. CASE call.quality = "intermediate"
      BY <2>4, <3>1, <3>4 DEF Best, N, AreMiddle
    <3> QED
      BY <2>2, <3>2, <3>3, <3>4
  <2> QED
    BY <2>3, <2>4
<1> QED
  BY <1>1, <1>2

(* So does select_preferred_representation.                                *)
LEMMA AudioOne ==
  ASSUME Select!SelectionAssumption, call \in Calls, NEW S, Some(S), S # {}
  PROVE  LET c == Select!select_preferred_representation(S)
         IN  c \in S /\ Best(c, S)
<1> DEFINE c == Select!select_preferred_representation(S)
<1>0. \A key : LeastOf(S, key) \in SUBSET S /\ GreatestOf(S, key) \in SUBSET S
  BY DEF LeastOf, GreatestOf
<1>1. /\ \A d \in S : lows(S)[d] \in Nat /\ highs(S)[d] \in Nat /\ mediums(S)[d] \in Nat
      /\ Select!Ranked(S) => \A d \in S : rankings(S)[d] \in Nat
  BY KeyTypes
<1>2. call.quality \in {"lowest", "highest", "intermediate"}
  BY CallTypes
<1>3. ASSUME NEW T \in SUBSET S, T # {}
      PROVE  Select!FirstOf(T) \in T /\ Select!LastOf(T) \in T
  <2>1. T \subseteq Nat \X Nat /\ IsFiniteSet(T)
    BY FS_Subset DEF Some
  <2> QED
    BY <1>3, <2>1, FirstIsMember, LastIsMember
<1>4. CASE Select!Ranked(S)
  <2> DEFINE mid == Select!With(S, Select!Ranking, Select!Middle(S, Select!Ranking))
  <2>1. /\ call.quality = "lowest" => c = Select!LastOf(GreatestOf(S, rankings(S)))
        /\ call.quality = "highest" => c = Select!FirstOf(LeastOf(S, rankings(S)))
        /\ call.quality = "intermediate" => c = Select!FirstOf(mid) /\ AreMiddle(mid, S, rankings(S))
    BY <1>1, <1>4, Comparisons DEF Select!select_preferred_representation, Select!MaxByKey, Select!MinByKey
  <2> HIDE DEF c, mid
  <2>2. CASE call.quality = "lowest"
    <3>1. /\ GreatestOf(S, rankings(S)) # {} /\ GreatestOf(S, rankings(S)) \in SUBSET S
          /\ \A x \in GreatestOf(S, rankings(S)), d \in S : rankings(S)[d] <= rankings(S)[x]
      BY <1>0, <1>1, <1>4, ByKeys
    <3>2. c \in GreatestOf(S, rankings(S))
      BY <1>3, <2>1, <2>2, <3>1
    <3> QED
      BY <1>4, <2>2, <3>1, <3>2 DEF Best, c
  <2>3. CASE call.quality = "highest"
    <3>1. /\ LeastOf(S, rankings(S)) # {} /\ LeastOf(S, rankings(S)) \in SUBSET S
          /\ \A x \in LeastOf(S, rankings(S)), d \in S : rankings(S)[x] <= rankings(S)[d]
      BY <1>0, <1>1, <1>4, ByKeys
    <3>2. c \in LeastOf(S, rankings(S))
      BY <1>3, <2>1, <2>3, <3>1
    <3> QED
      BY <1>4, <2>3, <3>1, <3>2 DEF Best, c
  <2>4. CASE call.quality = "intermediate"
    <3>1. AreMiddle(mid, S, rankings(S)) /\ c = Select!FirstOf(mid)
      BY <2>1, <2>4
    <3>2. c \in mid
      BY <1>3, <3>1 DEF AreMiddle
    <3> QED
      BY <1>4, <2>4, <3>1, <3>2 DEF Best, c, AreMiddle
  <2> QED
    BY <1>2, <2>2, <2>3, <2>4
<1>5. CASE ~Select!Ranked(S)
  <2> DEFINE mid == Select!With(S, Select!MediumBandwidth, Select!Middle(S, Select!MediumBandwidth))
  <2>1. /\ call.quality = "lowest" => c = Select!FirstOf(LeastOf(S, lows(S)))
        /\ call.quality = "highest" => c = Select!LastOf(GreatestOf(S, highs(S)))
        /\ call.quality = "intermediate" => c = Select!FirstOf(mid) /\ AreMiddle(mid, S, mediums(S))
    BY <1>1, <1>5, Comparisons DEF Select!select_preferred_representation, Select!MaxByKey, Select!MinByKey
  <2> HIDE DEF c, mid
  <2>2. CASE call.quality = "lowest"
    <3>1. /\ LeastOf(S, lows(S)) # {} /\ LeastOf(S, lows(S)) \in SUBSET S
          /\ \A x \in LeastOf(S, lows(S)), d \in S : lows(S)[x] <= lows(S)[d]
      BY <1>0, <1>1, ByKeys
    <3>2. c \in LeastOf(S, lows(S))
      BY <1>3, <2>1, <2>2, <3>1
    <3> QED
      BY <1>5, <2>2, <3>1, <3>2 DEF Best, c
  <2>3. CASE call.quality = "highest"
    <3>1. /\ GreatestOf(S, highs(S)) # {} /\ GreatestOf(S, highs(S)) \in SUBSET S
          /\ \A x \in GreatestOf(S, highs(S)), d \in S : highs(S)[d] <= highs(S)[x]
      BY <1>0, <1>1, ByKeys
    <3>2. c \in GreatestOf(S, highs(S))
      BY <1>3, <2>1, <2>3, <3>1
    <3> QED
      BY <1>5, <2>3, <3>1, <3>2 DEF Best, c
  <2>4. CASE call.quality = "intermediate"
    <3>1. AreMiddle(mid, S, mediums(S)) /\ c = Select!FirstOf(mid)
      BY <2>1, <2>4
    <3>2. c \in mid
      BY <1>3, <3>1 DEF AreMiddle
    <3> QED
      BY <1>5, <2>4, <3>1, <3>2 DEF Best, c, AreMiddle
  <2> QED
    BY <1>2, <2>2, <2>3, <2>4
<1> QED
  BY <1>4, <1>5

-----------------------------------------------------------------------------
(* The invariant.                                                          *)

(* What is served, preferred and left over depends on the call and on what *)
(* is offered.                                                             *)
LEMMA Frozen ==
  ASSUME UNCHANGED call
  PROVE  /\ Select!Served' = Select!Served
         /\ \A early : Preferences(early)' = Preferences(early)
         /\ \A c : ParentOf(c)' = ParentOf(c)
         /\ \A a : Select!ReprsOf(a)' = Select!ReprsOf(a)
<1>1. Select!Served' = Select!Served
  BY DEF Select!Served, Select!Set, Select!IsOfKind
<1>2. \A early : Preferences(early)' = Preferences(early)
  BY DEF Preferences, Select!Served, Select!Set, Select!select_preferred_adaptations, Select!ByRole,
     Select!ByLanguage, Select!With, Select!Least, Select!role_distance, Select!lang_distance,
     Select!binary_search
<1>3. \A c : ParentOf(c)' = ParentOf(c)
  BY DEF ParentOf, Select!Set, Select!Repr
<1>4. \A a : Select!ReprsOf(a)' = Select!ReprsOf(a)
  BY DEF Select!ReprsOf, Select!Set
<1> QED
  BY <1>1, <1>2, <1>3, <1>4

(* See Frozen.                                                             *)
LEMMA FrozenChoice ==
  ASSUME UNCHANGED <<call, offered>>
  PROVE  /\ Suitable' = Suitable /\ WideEnough' = WideEnough /\ HighEnough' = HighEnough
         /\ OfCodec' = OfCodec /\ OfQuality' = OfQuality /\ Choice' = Choice
<1>1. Suitable' = Suitable
  BY DEF Suitable, Select!Wanted, Select!Repr, Select!Set
<1>2. WideEnough' = WideEnough
  BY <1>1 DEF WideEnough, Select!Nearest, Select!MinByKey, Select!With, Select!Least, Select!Repr, Select!Set
<1>3. HighEnough' = HighEnough
  BY <1>2 DEF HighEnough, Select!Nearest, Select!MinByKey, Select!With, Select!Least, Select!Repr, Select!Set
<1>4. OfCodec' = OfCodec
  BY <1>3 DEF OfCodec, Select!ByCodec, Select!MinByKey, Select!With, Select!Least, Select!CodecPlace,
     Select!Family, Select!StartsWith, Select!Repr, Select!Set
<1>5. OfQuality' = OfQuality
  BY <1>4 DEF OfQuality, Select!ByQuality, Select!With, Select!Least, Select!Greatest, Select!Middle,
     Select!Ranked, Select!Ranking, Select!LowBandwidth, Select!HighBandwidth, Select!Repr, Select!Set
<1>6. (Select!select_preferred_representation(offered))' = Select!select_preferred_representation(offered)
  BY DEF Select!select_preferred_representation, Select!MinByKey, Select!MaxByKey, Select!With,
     Select!Least, Select!Greatest, Select!Middle, Select!Ranked, Select!Ranking, Select!LowBandwidth,
     Select!HighBandwidth, Select!MediumBandwidth, Select!Repr, Select!Set
<1>7. Choice' = Choice
  BY <1>5, <1>6 DEF Choice
<1> QED
  BY <1>1, <1>2, <1>3, <1>4, <1>5, <1>7

(* The AdaptationSets preferred are some of those of the kind, and none is *)
(* left out that ranks like them.                                          *)
LEMMA PreferredOfKind ==
  ASSUME Select!SelectionAssumption, call \in Calls, NEW early \in BOOLEAN
  PROVE  /\ Preferences(early) \subseteq Select!Served
         /\ Select!Served \subseteq DOMAIN call.adaptations
         /\ \A a \in Preferences(early), b \in Select!Served :
              /\ call.language => Select!lang_distance(a) <= Select!lang_distance(b)
              /\ (call.language => Select!lang_distance(b) = Select!lang_distance(a))
                   => Select!role_distance(a, early) <= Select!role_distance(b, early)
<1>1. Select!Served \in SUBSET DOMAIN call.adaptations
  BY DEF Select!Served
<1> QED
  BY <1>1, Preferred DEF Preferences

(* Each filter leaves some of those that it is given.                       *)
LEMMA Chain ==
  ASSUME Select!SelectionAssumption, call \in Calls, Some(offered)
  PROVE  /\ Some(Suitable) /\ Some(WideEnough) /\ Some(HighEnough) /\ Some(OfCodec) /\ Some(OfQuality)
         /\ OfQuality \subseteq OfCodec /\ OfCodec \subseteq HighEnough
         /\ HighEnough \subseteq WideEnough /\ WideEnough \subseteq Suitable
         /\ Suitable \subseteq offered
         /\ Suitable # {} => OfQuality # {}
<1>1. ASSUME NEW S, Some(S), NEW T, T \subseteq S PROVE Some(T)
  BY <1>1, FS_Subset DEF Some
<1>2. Suitable \subseteq offered /\ Some(Suitable)
  BY <1>1 DEF Suitable
<1>3. call.width \in Nat \cup {-1} /\ call.height \in Nat \cup {-1}
  BY CallTypes
<1>4. WideEnough \subseteq Suitable /\ (Suitable # {} => WideEnough # {}) /\ Some(WideEnough)
  <2>1. WideEnough \subseteq Suitable /\ (Suitable # {} => WideEnough # {})
    BY <1>2, <1>3, NearestOnes DEF WideEnough
  <2> QED
    BY <1>1, <1>2, <2>1
<1>5. HighEnough \subseteq WideEnough /\ (WideEnough # {} => HighEnough # {}) /\ Some(HighEnough)
  <2>1. HighEnough \subseteq WideEnough /\ (WideEnough # {} => HighEnough # {})
    BY <1>3, <1>4, NearestOnes DEF HighEnough
  <2> QED
    BY <1>1, <1>4, <2>1
<1>6. OfCodec \subseteq HighEnough /\ (HighEnough # {} => OfCodec # {}) /\ Some(OfCodec)
  <2>1. OfCodec \subseteq HighEnough /\ (HighEnough # {} => OfCodec # {})
    BY <1>5, CodecOnes DEF OfCodec
  <2> QED
    BY <1>1, <1>5, <2>1
<1>7. OfQuality \subseteq OfCodec /\ (OfCodec # {} => OfQuality # {}) /\ Some(OfQuality)
  <2>1. OfQuality \subseteq OfCodec /\ (OfCodec # {} => OfQuality # {})
    BY <1>6, QualityOnes DEF OfQuality
  <2> QED
    BY <1>1, <1>6, <2>1
<1> QED
  BY <1>2, <1>4, <1>5, <1>6, <1>7

(* What is chosen is one of those offered, of quality.                      *)
LEMMA ChoiceIsOffered ==
  ASSUME Select!SelectionAssumption, call \in Calls, Some(offered), call.kind \in {"audio", "video"}
  PROVE  /\ Choice # << >> => Choice \in offered
         /\ call.kind = "video" => /\ Choice # << >> => Choice \in OfQuality
                                   /\ Choice = << >> <=> OfQuality = {}
         /\ call.kind = "audio" => /\ Choice # << >> => Best(Choice, offered)
                                   /\ Choice = << >> <=> offered = {}
<1>1. CASE call.kind = "video"
  <2>1. OfQuality # {} => Select!FirstOf(OfQuality) \in OfQuality
    BY Chain, FirstIsMember DEF Some
  <2>2. OfQuality \subseteq offered
    BY Chain
  <2>3. \A c \in offered : c # << >>
    BY DEF Some
  <2> QED
    BY <1>1, <2>1, <2>2, <2>3 DEF Choice
<1>2. CASE call.kind = "audio"
  <2> DEFINE c == Select!select_preferred_representation(offered)
  <2>1. offered # {} => c \in offered /\ Best(c, offered)
    BY AudioOne
  <2>2. Choice = IF offered = {} THEN << >> ELSE c
    BY <1>2 DEF Choice
  <2> HIDE DEF c
  <2>3. \A d \in offered : d # << >>
    BY DEF Some
  <2> QED
    BY <1>2, <2>1, <2>2, <2>3
<1> QED
  BY <1>1, <1>2

(* What StreamInv says of the Representations offered.                      *)
LEMMA OfferedInv ==
  ASSUME Select!SelectionAssumption, call \in Calls, StreamInv
  PROVE  Some(offered)
<1>1. PICK early \in BOOLEAN : adaptations = Preferences(early)
  BY DEF StreamInv
<1>2. adaptations \in SUBSET DOMAIN call.adaptations
  BY <1>1, PreferredOfKind
<1>3. offered = UNION {Select!ReprsOf(a) : a \in adaptations}
  BY DEF StreamInv
<1> QED
  BY <1>2, <1>3, OfferedTypes DEF Some

(* A selection starts with nothing chosen.                                  *)
LEMMA SelectInit ==
  Select!Init => SelectInv
BY DEF Select!Init, SelectInv

(* Filters.                                                                *)
LEMMA FilterStep ==
  ASSUME Select!SelectionAssumption, SelectInv,
         \/ Select!FilterId \/ Select!FilterWidth \/ Select!FilterHeight
         \/ Select!FilterCodec \/ Select!FilterQuality
  PROVE  SelectInv'
<1>1. /\ UNCHANGED <<call, adaptations, offered, chosen, parent>> /\ call \in Calls
      /\ pc \in {"id", "width", "height", "codec", "quality"}
      /\ pc' \in {"width", "height", "codec", "quality", "first"}
  BY DEF Select!FilterId, Select!FilterWidth, Select!FilterHeight, Select!FilterCodec,
         Select!FilterQuality, Select!Filter, Select!Goto, SelectInv
<1>2. call.kind # "subs" /\ StreamInv
  BY <1>1 DEF SelectInv, SubtitlesInv
<1>3. /\ Suitable' = Suitable /\ WideEnough' = WideEnough /\ HighEnough' = HighEnough
      /\ OfCodec' = OfCodec /\ OfQuality' = OfQuality /\ Choice' = Choice
  BY <1>1, FrozenChoice
<1>4. call.kind = "video"
  BY <1>1, <1>2 DEF StreamInv
<1>5. \/ pc' = "width" /\ candidates' = Suitable
      \/ pc' = "height" /\ candidates' = WideEnough
      \/ pc' = "codec" /\ candidates' = HighEnough
      \/ pc' = "quality" /\ candidates' = OfCodec
      \/ pc' = "first" /\ candidates' = OfQuality
  <2>1. CASE Select!FilterId
    <3>1. pc = "id" /\ pc' = "width" /\ candidates' = {c \in candidates : Select!Wanted(c)}
      BY <2>1 DEF Select!FilterId, Select!Filter, Select!Goto
    <3> QED
      BY <1>2, <1>4, <3>1 DEF StreamInv, Suitable
  <2>2. CASE Select!FilterWidth
    <3>1. /\ pc = "width" /\ pc' = "height"
          /\ candidates' = Select!Nearest(candidates, "width", call.width)
      BY <2>2 DEF Select!FilterWidth, Select!Filter, Select!Goto
    <3>2. candidates = Suitable
      BY <1>2, <1>4, <3>1 DEF StreamInv
    <3> QED
      BY <3>1, <3>2 DEF WideEnough
  <2>3. CASE Select!FilterHeight
    <3>1. /\ pc = "height" /\ pc' = "codec"
          /\ candidates' = Select!Nearest(candidates, "height", call.height)
      BY <2>3 DEF Select!FilterHeight, Select!Filter, Select!Goto
    <3>2. candidates = WideEnough
      BY <1>2, <1>4, <3>1 DEF StreamInv
    <3> QED
      BY <3>1, <3>2 DEF HighEnough
  <2>4. CASE Select!FilterCodec
    <3>1. pc = "codec" /\ pc' = "quality" /\ candidates' = Select!ByCodec(candidates)
      BY <2>4 DEF Select!FilterCodec, Select!Filter, Select!Goto
    <3>2. candidates = HighEnough
      BY <1>2, <1>4, <3>1 DEF StreamInv
    <3> QED
      BY <3>1, <3>2 DEF OfCodec
  <2>5. CASE Select!FilterQuality
    <3>1. pc = "quality" /\ pc' = "first" /\ candidates' = Select!ByQuality(candidates)
      BY <2>5 DEF Select!FilterQuality, Select!Filter, Select!Goto
    <3>2. candidates = OfCodec
      BY <1>2, <1>4, <3>1 DEF StreamInv
    <3> QED
      BY <3>1, <3>2 DEF OfQuality
  <2> QED
    BY <2>1, <2>2, <2>3, <2>4, <2>5
<1>6. (\E early \in BOOLEAN : adaptations = Preferences(early))'
  <2>1. PICK early \in BOOLEAN : adaptations = Preferences(early)
    BY <1>2 DEF StreamInv
  <2>2. adaptations' = Preferences(early)'
    BY <1>1, <2>1, Frozen
  <2> QED
    BY <2>2
<1>7. (offered = UNION {Select!ReprsOf(a) : a \in adaptations})'
  <2>1. offered = UNION {Select!ReprsOf(a) : a \in adaptations}
    BY <1>2 DEF StreamInv
  <2> QED
    BY <1>1, <2>1 DEF Select!ReprsOf, Select!Set
<1>8. chosen = << >>
  BY <1>1, <1>2 DEF StreamInv
<1>9. StreamInv'
  BY <1>1, <1>3, <1>4, <1>5, <1>6, <1>7, <1>8 DEF StreamInv
<1> QED
  BY <1>1, <1>2, <1>9 DEF SelectInv

(* An invariant of streams stays true of what is not changed.               *)
LEMMA StreamFrame ==
  ASSUME UNCHANGED <<call, adaptations, offered>>, StreamInv
  PROVE  /\ (\E early \in BOOLEAN : adaptations = Preferences(early))'
         /\ (offered = UNION {Select!ReprsOf(a) : a \in adaptations})'
         /\ Choice' = Choice /\ Suitable' = Suitable /\ WideEnough' = WideEnough
         /\ HighEnough' = HighEnough /\ OfCodec' = OfCodec /\ OfQuality' = OfQuality
<1>1. PICK early \in BOOLEAN : adaptations = Preferences(early)
  BY DEF StreamInv
<1>2. adaptations' = Preferences(early)'
  BY <1>1, Frozen
<1>3. offered = UNION {Select!ReprsOf(a) : a \in adaptations}
  BY DEF StreamInv
<1>4. (offered = UNION {Select!ReprsOf(a) : a \in adaptations})'
  BY <1>3 DEF Select!ReprsOf, Select!Set
<1> QED
  BY <1>2, <1>4, FrozenChoice

(* AdaptationSets.                                                         *)
LEMMA AdaptationsStep ==
  ASSUME Select!SelectionAssumption, SelectInv,
         Select!OfKind \/ Select!SelectAdaptations \/ Select!SelectSubtitles
  PROVE  SelectInv'
<1>1. UNCHANGED call /\ call \in Calls /\ call.kind \in {"audio", "video", "subs"}
  BY CallTypes DEF Select!OfKind, Select!SelectAdaptations, Select!SelectSubtitles, SelectInv
<1>2. CASE Select!OfKind
  <2>1. /\ pc = "kind" /\ pc' = "adaptations" /\ adaptations' = Select!Served
        /\ UNCHANGED <<chosen, offered>>
    BY <1>2 DEF Select!OfKind, Select!Goto
  <2>2. Select!Served' = Select!Served
    BY <1>1, Frozen
  <2> QED
    BY <1>1, <2>1, <2>2 DEF SelectInv
<1>3. CASE Select!SelectAdaptations
  <2>1. PICK early \in BOOLEAN : adaptations' = Select!select_preferred_adaptations(adaptations, early)
    BY <1>3 DEF Select!SelectAdaptations
  <2>2. /\ pc = "adaptations" /\ call.kind # "subs"
        /\ offered' = UNION {Select!ReprsOf(a) : a \in adaptations'} /\ candidates' = offered'
        /\ pc' = (IF call.kind = "video" THEN "id" ELSE "audio") /\ UNCHANGED <<chosen, parent>>
    BY <1>3 DEF Select!SelectAdaptations, Select!Goto
  <2>3. adaptations = Select!Served /\ chosen = << >>
    BY <2>2 DEF SelectInv
  <2>4. adaptations' = Preferences(early)'
    <3>1. Preferences(early)' = Preferences(early)
      BY <1>1, Frozen
    <3>2. Preferences(early) = adaptations'
      BY <2>1, <2>3 DEF Preferences
    <3> QED
      BY <3>1, <3>2
  <2>5. (offered = UNION {Select!ReprsOf(a) : a \in adaptations})'
    BY <1>1, <2>2 DEF Select!ReprsOf, Select!Set
  <2>6. StreamInv'
    BY <1>1, <2>2, <2>3, <2>4, <2>5 DEF StreamInv
  <2> QED
    BY <1>1, <2>2, <2>6 DEF SelectInv
<1>4. CASE Select!SelectSubtitles
  <2>1. pc = "adaptations" /\ call.kind = "subs" /\ pc' = "ok"
    BY <1>4 DEF Select!SelectSubtitles, Select!Goto
  <2>2. adaptations = Select!Served /\ offered = {} /\ chosen = << >>
    BY <2>1 DEF SelectInv
  <2>3. Select!Served' = Select!Served
    BY <1>1, Frozen
  <2>4. CASE Select!Served = {}
    <3>1. UNCHANGED <<offered, chosen>>
      BY <1>4, <2>2, <2>4 DEF Select!SelectSubtitles
    <3>2. SubtitlesInv'
      BY <2>1, <2>2, <2>3, <2>4, <3>1 DEF SubtitlesInv
    <3> QED
      BY <1>1, <2>1, <3>2 DEF SelectInv
  <2>5. CASE Select!Served # {}
    <3>1. /\ parent' = Select!Min(Select!ByLanguage(Select!Served))
          /\ offered' = Select!ReprsOf(parent')
          /\ chosen' = IF offered' = {} THEN << >> ELSE Select!FirstOf(offered')
      BY <1>4, <2>2, <2>5 DEF Select!SelectSubtitles
    <3>2. (parent = Select!Min(Select!ByLanguage(Select!Served)))'
      <4>1. (Select!Min(Select!ByLanguage(Select!Served)))' = Select!Min(Select!ByLanguage(Select!Served))
        BY <1>1, <2>3 DEF Select!ByLanguage, Select!With, Select!Least, Select!lang_distance, Select!Set
      <4> QED
        BY <3>1, <4>1
    <3>3. (offered = Select!ReprsOf(parent))'
      BY <1>1, <3>1 DEF Select!ReprsOf, Select!Set
    <3>4. SubtitlesInv'
      BY <2>1, <2>3, <2>5, <3>1, <3>2, <3>3 DEF SubtitlesInv
    <3> QED
      BY <1>1, <2>1, <3>4 DEF SelectInv
  <2> QED
    BY <2>4, <2>5
<1> QED
  BY <1>2, <1>3, <1>4

(* The choice of a Representation, and of the AdaptationSet it is in.       *)
LEMMA ChoiceStep ==
  ASSUME Select!SelectionAssumption, SelectInv,
         Select!TakeFirst \/ Select!SelectAudio \/ Select!FindParent
  PROVE  SelectInv'
<1>1. /\ UNCHANGED <<call, adaptations, offered, candidates>> /\ call \in Calls
      /\ pc \in {"first", "audio", "parent"} /\ pc' \in {"parent", "ok"}
  BY DEF Select!TakeFirst, Select!SelectAudio, Select!FindParent, Select!Goto, SelectInv
<1>2. call.kind \in {"audio", "video"} /\ StreamInv
  BY <1>1, CallTypes DEF SelectInv, SubtitlesInv
<1>3. /\ (\E early \in BOOLEAN : adaptations = Preferences(early))'
      /\ (offered = UNION {Select!ReprsOf(a) : a \in adaptations})'
      /\ Choice' = Choice
  BY <1>1, <1>2, StreamFrame
<1>4. Some(offered)
  BY <1>1, <1>2, OfferedInv
<1>5. /\ chosen' = Choice
      /\ pc' = "parent" => Choice # << >>
      /\ pc' = "ok" /\ chosen' # << >> => parent' = ParentOf(chosen)'
  <2>1. CASE Select!TakeFirst
    <3>1. /\ pc = "first"
          /\ candidates = {} => UNCHANGED chosen /\ pc' = "ok"
          /\ candidates # {} => chosen' = Select!FirstOf(candidates) /\ pc' = "parent"
      BY <2>1 DEF Select!TakeFirst, Select!Goto
    <3>2. call.kind = "video" /\ candidates = OfQuality /\ chosen = << >>
      BY <1>2, <3>1 DEF StreamInv
    <3>3. chosen' = Choice
      BY <3>1, <3>2 DEF Choice
    <3>4. Choice = << >> <=> candidates = {}
      BY <1>1, <1>2, <1>4, <3>2, ChoiceIsOffered
    <3> QED
      BY <3>1, <3>3, <3>4
  <2>2. CASE Select!SelectAudio
    <3>1. /\ pc = "audio"
          /\ candidates = {} => UNCHANGED chosen /\ pc' = "ok"
          /\ candidates # {} =>
               chosen' = Select!select_preferred_representation(candidates) /\ pc' = "parent"
      BY <2>2 DEF Select!SelectAudio, Select!Goto
    <3>2. call.kind = "audio" /\ candidates = offered /\ chosen = << >>
      BY <1>2, <3>1 DEF StreamInv
    <3>3. chosen' = Choice
      BY <3>1, <3>2 DEF Choice
    <3>4. Choice = << >> <=> candidates = {}
      BY <1>1, <1>2, <1>4, <3>2, ChoiceIsOffered
    <3> QED
      BY <3>1, <3>3, <3>4
  <2>3. CASE Select!FindParent
    <3>1. pc = "parent" /\ pc' = "ok" /\ parent' = ParentOf(chosen) /\ UNCHANGED chosen
      BY <2>3 DEF Select!FindParent, Select!Goto, ParentOf
    <3>2. chosen = Choice
      BY <1>2, <3>1 DEF StreamInv
    <3>3. ParentOf(chosen)' = ParentOf(chosen)
      BY <1>1, <3>1 DEF ParentOf, Select!Set, Select!Repr
    <3> QED
      BY <3>1, <3>2, <3>3
  <2> QED
    BY <2>1, <2>2, <2>3
<1>6. StreamInv'
  BY <1>1, <1>2, <1>3, <1>5 DEF StreamInv
<1> QED
  BY <1>1, <1>2, <1>6 DEF SelectInv

(* The invariant is kept.                                                   *)
LEMMA SelectStep ==
  ASSUME Select!SelectionAssumption, SelectInv, [Select!Next]_(Select!vars)
  PROVE  SelectInv'
<1>1. CASE Select!Next
  BY <1>1, AdaptationsStep, FilterStep, ChoiceStep DEF Select!Next
<1>2. CASE UNCHANGED Select!vars
  <2>1. UNCHANGED <<call, pc, adaptations, offered, candidates, chosen, parent>>
    BY <1>2 DEF Select!vars
  <2>2. Select!Served' = Select!Served
    BY <2>1, Frozen
  <2>3. StreamInv => StreamInv'
    <3> SUFFICES ASSUME StreamInv PROVE StreamInv'
      OBVIOUS
    <3>1. ParentOf(chosen)' = ParentOf(chosen)
      BY <2>1 DEF ParentOf, Select!Set, Select!Repr
    <3>2. /\ (\E early \in BOOLEAN : adaptations = Preferences(early))'
          /\ (offered = UNION {Select!ReprsOf(a) : a \in adaptations})'
          /\ Choice' = Choice /\ Suitable' = Suitable /\ WideEnough' = WideEnough
          /\ HighEnough' = HighEnough /\ OfCodec' = OfCodec /\ OfQuality' = OfQuality
      BY <2>1, StreamFrame
    <3> QED
      BY <2>1, <3>1, <3>2 DEF StreamInv
  <2>4. SubtitlesInv => SubtitlesInv'
    <3>1. (Select!Min(Select!ByLanguage(Select!Served)))' = Select!Min(Select!ByLanguage(Select!Served))
      BY <2>1, <2>2 DEF Select!ByLanguage, Select!With, Select!Least, Select!lang_distance, Select!Set
    <3>2. Select!ReprsOf(parent)' = Select!ReprsOf(parent)
      BY <2>1 DEF Select!ReprsOf, Select!Set
    <3> QED
      BY <2>1, <2>2, <3>1, <3>2 DEF SubtitlesInv
  <2> QED
    BY <2>1, <2>2, <2>3, <2>4 DEF SelectInv
<1> QED
  BY <1>1, <1>2

-----------------------------------------------------------------------------
(* What is selected.                                                       *)

(* Of subtitles, the first AdaptationSet of the nearest language is taken.  *)
LEMMA FirstByLanguage ==
  ASSUME Select!SelectionAssumption, call \in Calls, Select!Served # {}
  PROVE  LET a == Select!Min(Select!ByLanguage(Select!Served))
         IN  /\ a \in Select!Served
             /\ call.language => \A b \in Select!Served : Select!lang_distance(a) <= Select!lang_distance(b)
<1> DEFINE S == Select!Served
           lang == [a \in S |-> Select!lang_distance(a)]
           L == Select!ByLanguage(S)
<1>1. S \subseteq DOMAIN call.adaptations /\ S \subseteq Nat
  BY CallTypes DEF Select!Served
<1>2. \A a \in S : lang[a] = Select!lang_distance(a) /\ lang[a] \in Nat
  BY <1>1, LanguageDistance
<1>3. /\ call.language => L = {a \in S : lang[a] = Select!Min({lang[b] : b \in S})}
      /\ ~call.language => L = S
  <2>1. {lang[b] : b \in S} = {Select!lang_distance(b) : b \in S}
    OBVIOUS
  <2> QED
    BY <2>1 DEF Select!ByLanguage, Select!With, Select!Least
<1> HIDE DEF lang, L, S
<1>4. /\ \E x \in S : lang[x] = Select!Min({lang[y] : y \in S})
      /\ \A x \in S : Select!Min({lang[y] : y \in S}) <= lang[x]
  BY <1>2, LeastKey DEF S
<1>5. L # {} /\ L \subseteq Nat /\ L \subseteq S
  BY <1>1, <1>3, <1>4
<1>6. Select!Min(L) \in L
  BY <1>5, MinIsLeast
<1>7. call.language => \A b \in S : lang[Select!Min(L)] <= lang[b]
  BY <1>3, <1>4, <1>6
<1> QED
  BY <1>2, <1>5, <1>6, <1>7 DEF L, S

(* The AdaptationSet of what is selected.                                  *)
LEMMA ParentInv ==
  ASSUME Select!SelectionAssumption, SelectInv, Select!Selected, Select!DistinctReprs
  PROVE  /\ parent \in Select!Served
         /\ call.language => \A b \in Select!Served : Select!lang_distance(parent) <= Select!lang_distance(b)
         /\ call.kind # "subs" =>
              \E early \in BOOLEAN : \A b \in Select!Served :
                (call.language => Select!lang_distance(b) = Select!lang_distance(parent))
                  => Select!role_distance(parent, early) <= Select!role_distance(b, early)
<1>1. pc = "ok" /\ chosen # << >> /\ call \in Calls
  BY DEF Select!Selected, SelectInv
<1>2. CASE call.kind = "subs"
  <2>1. SubtitlesInv
    BY <1>1, <1>2 DEF SelectInv
  <2>2. Select!Served # {} /\ parent = Select!Min(Select!ByLanguage(Select!Served))
    BY <1>1, <2>1 DEF SubtitlesInv
  <2> QED
    BY <1>1, <1>2, <2>2, FirstByLanguage
<1>3. CASE call.kind # "subs"
  <2>1. StreamInv /\ call.kind \in {"audio", "video"}
    BY <1>1, <1>3, CallTypes DEF SelectInv
  <2>2. chosen = Choice /\ parent = ParentOf(chosen)
    BY <1>1, <2>1 DEF StreamInv
  <2>3. chosen \in offered
    BY <1>1, <2>1, <2>2, OfferedInv, ChoiceIsOffered
  <2>4. PICK early \in BOOLEAN : adaptations = Preferences(early)
    BY <2>1 DEF StreamInv
  <2>5. PICK a \in adaptations : chosen \in Select!ReprsOf(a)
    <3>1. offered = UNION {Select!ReprsOf(a) : a \in adaptations}
      BY <2>1 DEF StreamInv
    <3> QED
      BY <2>3, <3>1
  <2>6. a \in Preferences(early) /\ a \in Select!Served /\ a \in DOMAIN call.adaptations
    BY <1>1, <2>4, PreferredOfKind
  <2>7. parent = a
    BY <1>1, <2>2, <2>5, <2>6, ParentFound
  <2> QED
    BY <1>1, <2>6, <2>7, PreferredOfKind
<1> QED
  BY <1>2, <1>3

(* The AdaptationSet used is the preferred one.                             *)
LEMMA PreferredHolds ==
  ASSUME Select!SelectionAssumption, SelectInv
  PROVE  Select!PreferredAdaptation
<1> SUFFICES ASSUME Select!Selected, Select!DistinctReprs
             PROVE  /\ Select!IsOfKind(call.kind, Select!Set(parent))
                    /\ call.language => \A a \in Select!Served :
                         Select!lang_distance(parent) <= Select!lang_distance(a)
                    /\ Select!AlphabeticRoles => Select!RolesInOrder
  BY DEF Select!PreferredAdaptation
<1>1. Select!IsOfKind(call.kind, Select!Set(parent))
  BY ParentInv DEF Select!Served
<1>2. ASSUME Select!AlphabeticRoles PROVE Select!RolesInOrder
  <2> SUFFICES ASSUME call.kind # "subs", NEW a \in Select!Served, Select!SameLanguage(a)
               PROVE  Select!RolePlace(parent) <= Select!RolePlace(a)
    BY DEF Select!RolesInOrder
  <2>1. PICK early \in BOOLEAN : Select!role_distance(parent, early) <= Select!role_distance(a, early)
    <3>1. call.language => Select!lang_distance(a) = Select!lang_distance(parent)
      BY DEF Select!SameLanguage
    <3> QED
      BY <3>1, ParentInv
  <2>2. call \in Calls /\ parent \in DOMAIN call.adaptations /\ a \in DOMAIN call.adaptations
    BY ParentInv DEF Select!Served, SelectInv
  <2> DEFINE d == Select!role_distance(parent, early)
             e == Select!role_distance(a, early)
  <2>3. /\ d \in 0..255 /\ e \in 0..255
        /\ Select!RolePlace(parent) = IF d >= 254 THEN 255 ELSE d + 1
        /\ Select!RolePlace(a) = IF e >= 254 THEN 255 ELSE e + 1
    BY <1>2, <2>2, RoleDistance
  <2>4. d <= e
    BY <2>1
  <2> HIDE DEF d, e
  <2> QED
    BY <2>3, <2>4
<1> QED
  BY <1>1, <1>2, ParentInv

(* A stream that is wanted is found.                                        *)
LEMMA SomethingHolds ==
  ASSUME Select!SelectionAssumption, SelectInv
  PROVE  Select!SomethingSelected
<1> SUFFICES ASSUME pc = "ok" PROVE chosen = << >> <=> ~\E c \in offered : Select!Wanted(c)
  BY DEF Select!SomethingSelected
<1>1. call \in Calls /\ call.kind \in {"audio", "video", "subs"}
  BY CallTypes DEF SelectInv
<1>2. CASE call.kind = "subs"
  <2>1. SubtitlesInv
    BY <1>2 DEF SelectInv
  <2>2. \A c : Select!Wanted(c)
    BY <1>2 DEF Select!Wanted
  <2>3. CASE Select!Served = {}
    BY <2>1, <2>2, <2>3 DEF SubtitlesInv
  <2>4. CASE Select!Served # {}
    <3>1. /\ offered = Select!ReprsOf(parent)
          /\ chosen = IF offered = {} THEN << >> ELSE Select!FirstOf(offered)
          /\ parent = Select!Min(Select!ByLanguage(Select!Served))
      BY <2>1, <2>4 DEF SubtitlesInv
    <3>2. parent \in DOMAIN call.adaptations
      BY <1>1, <2>4, <3>1, FirstByLanguage DEF Select!Served
    <3>3. Some(UNION {Select!ReprsOf(a) : a \in {parent}})
      BY <1>1, <3>2, OfferedTypes DEF Some
    <3>4. UNION {Select!ReprsOf(a) : a \in {parent}} = offered
      BY <3>1
    <3>5. Some(offered)
      BY <3>3, <3>4
    <3>6. offered # {} => chosen \in offered
      BY <3>1, <3>5, FirstIsMember DEF Some
    <3> QED
      BY <2>2, <3>1, <3>5, <3>6 DEF Some
  <2> QED
    BY <2>3, <2>4
<1>3. CASE call.kind # "subs"
  <2>1. StreamInv /\ call.kind \in {"audio", "video"}
    BY <1>1, <1>3 DEF SelectInv
  <2>2. chosen = Choice
    BY <2>1 DEF StreamInv
  <2>3. Some(offered)
    BY <1>1, <2>1, OfferedInv
  <2>4. CASE call.kind = "video"
    <3>1. chosen = << >> <=> OfQuality = {}
      BY <1>1, <2>1, <2>2, <2>3, <2>4, ChoiceIsOffered
    <3>2. OfQuality = {} <=> Suitable = {}
      BY <1>1, <2>3, Chain
    <3> QED
      BY <3>1, <3>2 DEF Suitable
  <2>5. CASE call.kind = "audio"
    <3>1. chosen = << >> <=> offered = {}
      BY <1>1, <2>1, <2>2, <2>3, <2>5, ChoiceIsOffered
    <3> QED
      BY <2>5, <3>1 DEF Select!Wanted
  <2> QED
    BY <2>1, <2>4, <2>5
<1> QED
  BY <1>2, <1>3

(* No preference is passed over.                                            *)
LEMMA BestHolds ==
  ASSUME Select!SelectionAssumption, SelectInv
  PROVE  Select!BestRepresentation
<1> SUFFICES ASSUME Select!Selected, call.kind # "subs" PROVE Select!BestRepresentation
  BY DEF Select!BestRepresentation
<1>1. /\ call \in Calls /\ call.kind \in {"audio", "video"} /\ chosen = Choice /\ chosen # << >>
      /\ Some(offered)
  <2>1. pc = "ok" /\ chosen # << >> /\ call \in Calls /\ StreamInv
    BY DEF Select!Selected, SelectInv
  <2>2. call.kind \in {"audio", "video"}
    BY <2>1, CallTypes
  <2> QED
    BY <2>1, <2>2, OfferedInv DEF StreamInv
<1> DEFINE video == call.kind = "video"
           Suit  == {c \in offered : Select!Wanted(c)}
           Wide  == {c \in Suit : video => Select!Alike(c, chosen, "width", call.width)}
           High  == {c \in Wide : video => Select!Alike(c, chosen, "height", call.height)}
           Coded == {c \in High : Select!CodecPlace(c) < Select!Farthest}
           Kin   == {c \in High : video /\ call.codecs # << >> => Select!Family(c) = Select!Family(chosen)}
<1>2. SUFFICES /\ video => /\ \A c \in Suit : Select!Nearer(chosen, c, "width", call.width)
                           /\ \A c \in Wide : Select!Nearer(chosen, c, "height", call.height)
                           /\ \A c \in Coded : \E d \in Kin : Select!CodecPlace(d) <= Select!CodecPlace(c)
               /\ ~video \/ call.codecs = << >> \/ Coded # {} => Select!Fits(chosen, Kin)
  BY DEF Select!BestRepresentation
<1>3. CASE call.kind = "audio"
  <2>1. \A c \in offered : Select!Wanted(c)
    BY <1>3 DEF Select!Wanted
  <2>2. Kin = offered
    BY <1>3, <2>1
  <2> HIDE DEF Kin
  <2>3. chosen \in offered /\ Best(chosen, offered)
    BY <1>1, <1>3, ChoiceIsOffered
  <2>4. Select!Fits(chosen, offered)
    BY <1>1, <2>3, BestFits
  <2> QED
    BY <1>3, <2>2, <2>4
<1>4. CASE call.kind = "video"
  <2>1. /\ Some(Suitable) /\ Some(WideEnough) /\ Some(HighEnough) /\ Some(OfCodec) /\ Some(OfQuality)
        /\ OfQuality \subseteq OfCodec /\ OfCodec \subseteq HighEnough
        /\ HighEnough \subseteq WideEnough /\ WideEnough \subseteq Suitable
    BY <1>1, Chain
  <2>2. chosen \in OfQuality
    BY <1>1, <1>4, ChoiceIsOffered
  <2>3. chosen \in OfCodec /\ chosen \in HighEnough /\ chosen \in WideEnough
    BY <2>1, <2>2
  <2>4. call.width \in Nat \cup {-1} /\ call.height \in Nat \cup {-1}
    BY <1>1, CallTypes
  <2>5. Suit = Suitable
    BY DEF Suitable
  <2>6. /\ WideEnough = {d \in Suitable : Select!Alike(d, chosen, "width", call.width)}
        /\ \A d \in Suitable : Select!Nearer(chosen, d, "width", call.width)
    BY <1>1, <2>1, <2>3, <2>4, NearestOnes DEF WideEnough
  <2>7. Wide = WideEnough
    BY <1>4, <2>5, <2>6
  <2>8. /\ HighEnough = {d \in WideEnough : Select!Alike(d, chosen, "height", call.height)}
        /\ \A d \in WideEnough : Select!Nearer(chosen, d, "height", call.height)
    BY <1>1, <2>1, <2>3, <2>4, NearestOnes DEF HighEnough
  <2> HIDE DEF Suit, Wide
  <2>9. High = HighEnough
    BY <1>4, <2>7, <2>8
  <2> HIDE DEF High
  <2>10. Coded = {c \in HighEnough : Select!CodecPlace(c) < Select!Farthest}
    BY <2>9
  <2>11. Best(chosen, OfCodec) /\ Select!Fits(chosen, OfCodec)
    <3>1. Best(chosen, OfCodec)
      BY <1>1, <2>1, <2>2, QualityOnes DEF OfQuality
    <3> QED
      BY <1>1, <2>1, <2>3, <3>1, BestFits
  <2>12. CASE call.codecs = << >>
    <3>1. OfCodec = HighEnough
      BY <1>1, <2>1, <2>12, CodecOnes DEF OfCodec
    <3>2. Kin = HighEnough
      BY <2>9, <2>12
    <3> HIDE DEF Kin
    <3>3. \A c \in Coded : \E d \in Kin : Select!CodecPlace(d) <= Select!CodecPlace(c)
      <4> SUFFICES ASSUME NEW c \in Coded PROVE \E d \in Kin : Select!CodecPlace(d) <= Select!CodecPlace(c)
        OBVIOUS
      <4>1. c \in Kin /\ c \in HighEnough
        BY <2>10, <3>2
      <4>2. Select!CodecPlace(c) \in Nat
        BY <1>1, <2>1, <4>1, Keys
      <4>3. Select!CodecPlace(c) <= Select!CodecPlace(c)
        BY <4>2
      <4> QED
        BY <4>1, <4>3
    <3> QED
      BY <2>5, <2>6, <2>7, <2>8, <2>11, <3>1, <3>2, <3>3
  <2>13. CASE call.codecs # << >> /\ Coded # {}
    <3>1. /\ OfCodec = {d \in HighEnough : Select!Family(d) = Select!Family(chosen)}
          /\ \A d \in Coded : \E e \in OfCodec : Select!CodecPlace(e) <= Select!CodecPlace(d)
      <4>1. OfCodec = Select!ByCodec(HighEnough)
        BY DEF OfCodec
      <4> HIDE DEF Coded
      <4> QED
        BY <1>1, <2>1, <2>3, <2>10, <2>13, <4>1, CodecOnes
    <3>2. Kin = OfCodec
      BY <1>4, <2>9, <2>13, <3>1
    <3> HIDE DEF Kin, Coded
    <3> QED
      BY <2>5, <2>6, <2>7, <2>8, <2>11, <3>1, <3>2
  <2>14. CASE call.codecs # << >> /\ Coded = {}
    <3> HIDE DEF Kin, Coded
    <3> QED
      BY <1>4, <2>5, <2>6, <2>7, <2>8, <2>14
  <2> QED
    BY <2>12, <2>13, <2>14
<1> QED
  BY <1>1, <1>3, <1>4

(* An AdaptationSet about one medium is of one kind, but for subtitles in  *)
(* a file that has the MIME type of video.                                 *)
LEMMA OneKind ==
  ASSUME NEW a, Select!OneMedium(a),
         NEW j \in {"audio", "video", "subs"}, NEW k \in {"audio", "video", "subs"}, j # k,
         Select!IsOfKind(j, a), Select!IsOfKind(k, a)
  PROVE  /\ {j, k} = {"video", "subs"}
         /\ \/ a.mime = "video"
            \/ \E i \in DOMAIN a.representations :
                 a.representations[i].mime = "video" /\ a.representations[i].codecs = << >>
<1> DEFINE reprs == DOMAIN a.representations
           r(i) == a.representations[i]
<1>1. PICK medium \in {"audio", "video", "text"} :
        /\ Select!SaysOnly(medium, a) /\ (a.text => medium = "text")
        /\ \A i \in reprs : Select!SaysOnly(medium, r(i))
  BY DEF Select!OneMedium
<1>2. Select!is_audio_adaptation(a) => medium = "audio"
  BY <1>1 DEF Select!is_audio_adaptation, Select!SaysAudio, Select!SaysOnly, Select!SubtitleMimes,
     Select!is_audio_codec
<1>3. Select!is_subtitle_adaptation(a) => medium = "text"
  BY <1>1 DEF Select!is_subtitle_adaptation, Select!SaysSubtitles, Select!SaysOnly, Select!SubtitleMimes,
     Select!is_subtitle_codec, Select!is_subtitle_mimetype
<1>4. Select!is_video_adaptation(a) =>
        \/ medium = "video"
        \/ /\ medium = "text"
           /\ a.mime = "video" \/ \E i \in reprs : r(i).mime = "video" /\ r(i).codecs = << >>
  <2> SUFFICES ASSUME Select!is_video_adaptation(a), medium # "video"
               PROVE  /\ medium = "text"
                      /\ a.mime = "video" \/ \E i \in reprs : r(i).mime = "video" /\ r(i).codecs = << >>
    OBVIOUS
  <2>1. a.contentType # "video" /\ (a.mime = "video" => medium = "text")
    BY <1>1 DEF Select!SaysOnly
  <2>2. CASE a.mime = "video"
    BY <2>1, <2>2
  <2>3. CASE a.mime # "video"
    <3>1. PICK i \in reprs : Select!RepresentationIsVideo(a, i)
      BY <2>1, <2>3 DEF Select!is_video_adaptation
    <3>2. Select!SaysOnly(medium, r(i))
      BY <1>1
    <3>3. r(i).mime = "video" /\ ~Select!is_subtitle_codec(r(i).codecs)
      BY <3>1, <3>2 DEF Select!RepresentationIsVideo, Select!SaysOnly
    <3>4. medium = "text"
      BY <3>2, <3>3 DEF Select!SaysOnly
    <3>5. r(i).codecs = << >>
      BY <3>2, <3>3, <3>4 DEF Select!SaysOnly
    <3> QED
      BY <3>3, <3>4, <3>5
  <2> QED
    BY <2>2, <2>3
<1>5. /\ Select!IsOfKind("audio", a) => medium = "audio"
      /\ Select!IsOfKind("subs", a) => medium = "text"
      /\ Select!IsOfKind("video", a) => Select!is_video_adaptation(a)
  BY <1>2, <1>3 DEF Select!IsOfKind
<1> QED
  BY <1>4, <1>5

(* No stream is fetched under two kinds.                                    *)
LEMMA ServedOnceHolds ==
  ASSUME Select!SelectionAssumption, SelectInv
  PROVE  Select!ServedOnce
<1> SUFFICES ASSUME Select!Selected, Select!DistinctReprs, Select!OneMedium(Select!Set(parent)),
                    NEW kind \in {"audio", "video", "subs"} \ {call.kind},
                    Select!IsOfKind(kind, Select!Set(parent))
             PROVE  /\ {kind, call.kind} = {"video", "subs"}
                    /\ \/ Select!Set(parent).mime = "video"
                       \/ \E i \in DOMAIN Select!Set(parent).representations :
                            Select!Set(parent).representations[i].mime = "video"
                              /\ Select!Set(parent).representations[i].codecs = << >>
  BY DEF Select!ServedOnce
<1>1. parent \in Select!Served
  BY ParentInv
<1>2. /\ call \in Calls /\ parent \in DOMAIN call.adaptations
      /\ Select!IsOfKind(call.kind, Select!Set(parent))
  BY <1>1 DEF Select!Served, SelectInv
<1>3. call.kind \in {"audio", "video", "subs"}
  BY <1>2, CallTypes
<1> QED
  BY <1>2, <1>3, OneKind

(* Whatever a period offers and whatever is preferred, the AdaptationSet   *)
(* that is used is of the kind, of the language nearest to the one wanted  *)
(* and, if preferences are in alphabetical order, of the first role        *)
(* preferred among those (fetch.rs:1316-1356, 2477-2481): by either way    *)
(* that binary_search may take.                                            *)
THEOREM PreferencesAreMet ==
  ASSUME Select!SelectionAssumption
  PROVE  Spec => []PreferredAdaptation
<1> DEFINE Inv == procedure = "select" => SelectInv
<1>1. Init => Inv
  BY SelectInit DEF Init
<1>2. Inv /\ [Next]_vars => Inv'
  BY SelectStep DEF Next, vars, selectVars, Select!vars
<1>3. Inv => PreferredAdaptation
  BY PreferredHolds DEF PreferredAdaptation
<1> QED
  BY <1>1, <1>2, <1>3, PTL DEF Spec

(* No preference but the @id makes a period lose a stream                  *)
(* (fetch.rs:1361-1649).                                                   *)
THEOREM StreamsAreFound ==
  ASSUME Select!SelectionAssumption
  PROVE  Spec => []SomethingSelected
<1> DEFINE Inv == procedure = "select" => SelectInv
<1>1. Init => Inv
  BY SelectInit DEF Init
<1>2. Inv /\ [Next]_vars => Inv'
  BY SelectStep DEF Next, vars, selectVars, Select!vars
<1>3. Inv => SomethingSelected
  BY SomethingHolds DEF SomethingSelected
<1> QED
  BY <1>1, <1>2, <1>3, PTL DEF Spec

(* The Representation chosen is the best by each preference in turn, among *)
(* any number of them, whichever of their attributes are given             *)
(* (fetch.rs:1361-1649, 2908-2950).                                        *)
THEOREM BestIsChosen ==
  ASSUME Select!SelectionAssumption
  PROVE  Spec => []BestRepresentation
<1> DEFINE Inv == procedure = "select" => SelectInv
<1>1. Init => Inv
  BY SelectInit DEF Init
<1>2. Inv /\ [Next]_vars => Inv'
  BY SelectStep DEF Next, vars, selectVars, Select!vars
<1>3. Inv => BestRepresentation
  BY BestHolds DEF BestRepresentation
<1> QED
  BY <1>1, <1>2, <1>3, PTL DEF Spec

(* A stream whose labels are about one medium is not fetched as audio,     *)
(* video and subtitles at once, with the one exception that the code       *)
(* leaves (lib.rs:2257-2420).                                              *)
THEOREM StreamsAreServedOnce ==
  ASSUME Select!SelectionAssumption
  PROVE  Spec => []ServedOnce
<1> DEFINE Inv == procedure = "select" => SelectInv
<1>1. Init => Inv
  BY SelectInit DEF Init
<1>2. Inv /\ [Next]_vars => Inv'
  BY SelectStep DEF Next, vars, selectVars, Select!vars
<1>3. Inv => ServedOnce
  BY ServedOnceHolds DEF ServedOnce
<1> QED
  BY <1>1, <1>2, <1>3, PTL DEF Spec
=============================================================================
