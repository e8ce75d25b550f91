---------------------------- MODULE NumberLemmas ----------------------------
(* Facts about natural numbers that the proofs of several components rest  *)
(* on: remainders, induction, and functions defined by recursion.          *)
(* Induction and recursion are stated of sets instead of operators: a      *)
(* proof uses them on the set of the numbers of which it shows something.  *)
EXTENDS Integers, WellFoundedInduction, TLAPS

LEMMA Quotient ==
  ASSUME NEW n \in Nat \ {0}, NEW a \in Nat
  PROVE  a % n \in 0 .. n - 1 /\ a \div n \in Int /\ a = n * (a \div n) + (a % n)
OBVIOUS

(* Multiples of n that are less than two apart.                            *)
LEMMA SmallMultiple ==
  ASSUME NEW n \in Nat \ {0}, NEW d \in Int, -n < n * d, n * d < 2 * n
  PROVE  d = 0 \/ d = 1
<1>1. ~(d <= -1)
  <2>1. ASSUME d <= -1 PROVE n * d <= n * (-1)
    BY <2>1
  <2> QED
    BY <2>1
<1>2. ~(d >= 2)
  <2>1. ASSUME d >= 2 PROVE n * d >= n * 2
    BY <2>1
  <2> QED
    BY <2>1
<1> QED
  BY <1>1, <1>2

(* A number is known from its remainder and any multiple.                  *)
LEMMA Remainders ==
  ASSUME NEW n \in Nat \ {0}, NEW a \in Nat, NEW r \in 0 .. n - 1, NEW k \in Int, a = n * k + r
  PROVE  a % n = r
<1>1. PICK s : s = a % n
  OBVIOUS
<1>2. PICK q : q = a \div n
  OBVIOUS
<1>3. s \in 0 .. n - 1 /\ q \in Int /\ a = n * q + s
  BY <1>1, <1>2, Quotient
<1>4. PICK d \in Int : d = k - q
  BY <1>3
<1>5. n * d = s - r
  <2>1. n * (k - q) = n * k - n * q
    BY <1>3
  <2>2. n * k \in Int /\ n * q \in Int
    BY <1>3
  <2> QED
    BY <1>3, <1>4, <2>1, <2>2
<1>6. -n < n * d /\ n * d < 2 * n
  BY <1>3, <1>5
<1>7. d = 0 \/ d = 1
  BY <1>6, SmallMultiple
<1>8. n * 0 = 0 /\ n * 1 = n
  OBVIOUS
<1> QED
  BY <1>1, <1>3, <1>5, <1>7, <1>8

LEMMA SmallRemainder ==
  ASSUME NEW n \in Nat \ {0}, NEW s \in 0 .. n - 1
  PROVE  s % n = s
<1>1. s = n * 0 + s
  OBVIOUS
<1> QED
  BY <1>1, Remainders

------------------------------------------------------------------------------
(* Induction *)

(* Every set of natural numbers that is not empty has a least element.     *)
LEMMA LeastNumber ==
  ASSUME NEW S, S \subseteq Nat, S # {}
  PROVE  \E n \in S : \A m \in S : n <= m
<1> DEFINE R == {r \in Nat \X Nat : r[1] < r[2]}
<1>1. IsWellFoundedOn(R, Nat)
  BY NatLessThanWellFounded DEF OpToRel
<1>2. \A x, y \in Nat : <<y, x>> \in R <=> y < x
  OBVIOUS
<1> HIDE DEF R
<1>3. PICK n \in S : \A m \in S : ~(<<m, n>> \in R)
  BY <1>1, WFMin
<1>4. ASSUME NEW m \in S PROVE n <= m
  <2>1. n \in Nat /\ m \in Nat
    OBVIOUS
  <2>2. ~(m < n)
    BY <1>2, <1>3, <2>1
  <2> QED
    BY <2>1, <2>2
<1> QED
  BY <1>4

(* A set that has 0, and with a number the next, has all.                  *)
LEMMA SetInduction ==
  ASSUME NEW S, 0 \in S, \A n \in Nat : n \in S => n + 1 \in S
  PROVE  \A n \in Nat : n \in S
<1> SUFFICES ASSUME NEW k \in Nat, k \notin S PROVE FALSE
  OBVIOUS
<1> DEFINE T == {n \in Nat : n \notin S}
<1>1. PICK n \in T : \A m \in T : n <= m
  <2>1. T \subseteq Nat /\ T # {}
    OBVIOUS
  <2> HIDE DEF T
  <2> QED
    BY <2>1, LeastNumber
<1>2. n \in Nat /\ n # 0
  OBVIOUS
<1>3. n - 1 \in Nat /\ ~(n <= n - 1) /\ (n - 1) + 1 = n
  BY <1>2
<1>4. n - 1 \in S
  BY <1>1, <1>3
<1> QED
  BY <1>3, <1>4

(* A set that has a number as soon as it has all that are less, has all.   *)
LEMMA SetStrongInduction ==
  ASSUME NEW S, \A n \in Nat : (\A m \in 0 .. n - 1 : m \in S) => n \in S
  PROVE  \A n \in Nat : n \in S
<1> SUFFICES ASSUME NEW k \in Nat, k \notin S PROVE FALSE
  OBVIOUS
<1> DEFINE T == {n \in Nat : n \notin S}
<1>1. PICK n \in T : \A m \in T : n <= m
  <2>1. T \subseteq Nat /\ T # {}
    OBVIOUS
  <2> HIDE DEF T
  <2> QED
    BY <2>1, LeastNumber
<1>2. n \in Nat /\ n \notin S
  OBVIOUS
<1>3. ASSUME NEW m \in 0 .. n - 1 PROVE m \in S
  <2>1. m \in Nat /\ ~(n <= m)
    BY <1>2
  <2> QED
    BY <1>1, <2>1
<1> QED
  BY <1>2, <1>3

(* The same where the members of a set are taken in the order of a rank.   *)
LEMMA RankedInduction ==
  ASSUME NEW D, NEW rank \in [D -> Nat], NEW S,
         \A d \in D : (\A e \in D : rank[e] < rank[d] => e \in S) => d \in S
  PROVE  \A d \in D : d \in S
<1> DEFINE T == {n \in Nat : \A d \in D : rank[d] = n => d \in S}
<1>1. ASSUME NEW n \in Nat, \A m \in 0 .. n - 1 : m \in T PROVE n \in T
  <2>1. ASSUME NEW d \in D, rank[d] = n PROVE d \in S
    <3>1. ASSUME NEW e \in D, rank[e] < rank[d] PROVE e \in S
      <4>1. rank[e] \in 0 .. n - 1
        BY <2>1, <3>1
      <4> QED
        BY <1>1, <4>1
    <3> QED
      BY <3>1
  <2> QED
    BY <2>1
<1>2. \A n \in Nat : n \in T
  <2> HIDE DEF T
  <2> QED
    BY <1>1, SetStrongInduction
<1> QED
  BY <1>2

(* A value for 0, and for each number one made of the number before and    *)
(* its value: some function has these values.                              *)
Successors(V) == [Nat -> [V -> V]]
IsRecursive(f, V, v, s) ==
  f \in [Nat -> V] /\ f[0] = v /\ \A n \in Nat : f[n + 1] = s[n][f[n]]

LEMMA PrimitiveRecursion ==
  ASSUME NEW V, NEW v \in V, NEW s \in Successors(V)
  PROVE  \E f : IsRecursive(f, V, v, s)
<1> USE DEF Successors
<1> DEFINE Up(g, n) == /\ g \in [Nat -> V] /\ g[0] = v
                       /\ \A i \in Nat : i < n => g[i + 1] = s[i][g[i]]
           S == {n \in Nat : \E g \in [Nat -> V] : Up(g, n)}
<1>1. \A n \in Nat : n \in S
  <2>1. 0 \in S
    <3>1. Up([n \in Nat |-> v], 0)
      OBVIOUS
    <3> QED
      BY <3>1
  <2>2. ASSUME NEW n \in Nat, n \in S PROVE n + 1 \in S
    <3>1. PICK g \in [Nat -> V] : Up(g, n)
      BY <2>2
    <3>2. s[n][g[n]] \in V
      OBVIOUS
    <3> DEFINE h == [g EXCEPT ![n + 1] = s[n][g[n]]]
    <3>3. h \in [Nat -> V] /\ h[n + 1] = s[n][g[n]] /\ \A i \in Nat : i # n + 1 => h[i] = g[i]
      BY <3>2
    <3> HIDE DEF h
    <3>4. h[0] = v
      BY <3>1, <3>3
    <3>5. ASSUME NEW i \in Nat, i < n + 1 PROVE h[i + 1] = s[i][h[i]]
      <4>1. h[i] = g[i]
        BY <3>3, <3>5
      <4>2. CASE i = n
        BY <3>3, <4>1, <4>2
      <4>3. CASE i < n
        BY <3>1, <3>3, <4>1, <4>3
      <4> QED
        BY <3>5, <4>2, <4>3
    <3>6. Up(h, n + 1)
      BY <3>3, <3>4, <3>5
    <3> QED
      BY <3>3, <3>6
  <2> HIDE DEF S
  <2> QED
    BY <2>1, <2>2, SetInduction
<1>2. ASSUME NEW n \in Nat, NEW m \in Nat, NEW g, NEW h, Up(g, n), Up(h, m)
      PROVE  \A i \in Nat : i <= n /\ i <= m => g[i] = h[i]
  <2> DEFINE T == {i \in Nat : i <= n /\ i <= m => g[i] = h[i]}
  <2>1. 0 \in T
    BY <1>2
  <2>2. ASSUME NEW i \in Nat, i \in T PROVE i + 1 \in T
    <3>1. SUFFICES ASSUME i + 1 <= n, i + 1 <= m PROVE g[i + 1] = h[i + 1]
      OBVIOUS
    <3>2. i < n /\ i < m /\ g[i] = h[i]
      BY <2>2, <3>1
    <3> QED
      BY <1>2, <3>2
  <2>3. \A i \in Nat : i \in T
    <3> HIDE DEF T
    <3> QED
      BY <2>1, <2>2, SetInduction
  <2> QED
    BY <2>3
<1> DEFINE G == [n \in Nat |-> CHOOSE g \in [Nat -> V] : Up(g, n)]
<1>3. \A n \in Nat : G[n] \in [Nat -> V] /\ Up(G[n], n)
  BY <1>1
<1> HIDE DEF G, Up, S
<1> DEFINE f == [n \in Nat |-> G[n][n]]
<1>4. f \in [Nat -> V]
  BY <1>3
<1>5. f[0] = v
  BY <1>3 DEF Up
<1>6. ASSUME NEW n \in Nat PROVE f[n + 1] = s[n][f[n]]
  <2>1. Up(G[n + 1], n + 1) /\ Up(G[n], n) /\ n + 1 \in Nat /\ n < n + 1 /\ n <= n
    BY <1>3
  <2>2. G[n + 1][n] = G[n][n]
    <3>1. \A i \in Nat : i <= n + 1 /\ i <= n => G[n + 1][i] = G[n][i]
      BY <1>2, <2>1
    <3> QED
      BY <2>1, <3>1
  <2>3. G[n + 1][n + 1] = s[n][G[n + 1][n]]
    BY <2>1 DEF Up
  <2> QED
    BY <2>1, <2>2, <2>3
<1>7. IsRecursive(f, V, v, s)
  BY <1>4, <1>5, <1>6 DEF IsRecursive
<1> QED
  BY <1>7

(* A value for each member of a set, made of the values of members whose   *)
(* rank is less: some function has these values.                           *)
LooksDown(F, D, rank, V) ==
  /\ rank \in [D -> Nat] /\ F \in [D -> [[D -> V] -> V]]
  /\ \A d \in D : \A g, h \in [D -> V] :
       (\A e \in D : rank[e] < rank[d] => g[e] = h[e]) => F[d][g] = F[d][h]
IsMadeBy(f, F, D, V) == f \in [D -> V] /\ \A d \in D : f[d] = F[d][f]

LEMMA RankedRecursion ==
  ASSUME NEW D, NEW V, NEW v \in V, NEW rank, NEW F, LooksDown(F, D, rank, V)
  PROVE  \E f : IsMadeBy(f, F, D, V)
<1> DEFINE W == [D -> V]
           s == [n \in Nat |-> [g \in W |-> [d \in D |-> F[d][g]]]]
           w == [d \in D |-> v]
<1>1. /\ rank \in [D -> Nat] /\ \A d \in D, g \in W : F[d][g] \in V
      /\ \A d \in D : \A g, h \in W :
           (\A e \in D : rank[e] < rank[d] => g[e] = h[e]) => F[d][g] = F[d][h]
  BY DEF LooksDown
<1>2. s \in Successors(W) /\ w \in W
  <2>1. \A g \in W : [d \in D |-> F[d][g]] \in W
    BY <1>1
  <2>2. w \in W
    OBVIOUS
  <2> HIDE DEF W, w
  <2> QED
    BY <2>1, <2>2 DEF Successors
<1>3. PICK G : IsRecursive(G, W, w, s)
  <2> HIDE DEF W, w, s
  <2> QED
    BY <1>2, PrimitiveRecursion
<1>4. \A n \in Nat : G[n] \in W /\ \A d \in D : G[n + 1][d] = F[d][G[n]]
  <2>1. \A n \in Nat : G[n] \in W /\ G[n + 1] = s[n][G[n]]
    BY <1>3 DEF IsRecursive
  <2>2. \A n \in Nat : \A g \in W : \A d \in D : s[n][g][d] = F[d][g]
    OBVIOUS
  <2> HIDE DEF s, W
  <2> QED
    BY <2>1, <2>2
<1> HIDE DEF s, w, W
(* From the step behind its rank on, the value of a member stays.          *)
<1> DEFINE S == {n \in Nat : \A d \in D : rank[d] < n => G[n + 1][d] = G[n][d]}
<1>5. \A n \in Nat : n \in S
  <2>1. 0 \in S
    BY <1>1
  <2>2. ASSUME NEW n \in Nat, n \in S PROVE n + 1 \in S
    <3>1. ASSUME NEW d \in D, rank[d] < n + 1 PROVE G[(n + 1) + 1][d] = G[n + 1][d]
      <4>1. \A e \in D : rank[e] < rank[d] => rank[e] < n
        BY <1>1, <3>1
      <4>2. \A e \in D : rank[e] < rank[d] => G[n + 1][e] = G[n][e]
        BY <2>2, <4>1
      <4>3. G[n] \in W /\ G[n + 1] \in W
        BY <1>4
      <4>4. F[d][G[n + 1]] = F[d][G[n]]
        BY <1>1, <4>2, <4>3
      <4>5. n + 1 \in Nat
        OBVIOUS
      <4> QED
        BY <1>4, <4>4, <4>5
    <3> QED
      BY <3>1
  <2> HIDE DEF S
  <2> QED
    BY <2>1, <2>2, SetInduction
<1> DEFINE T == {n \in Nat : \A d \in D : rank[d] < n => G[n][d] = G[rank[d] + 1][d]}
<1>6. \A n \in Nat : n \in T
  <2>1. 0 \in T
    BY <1>1
  <2>2. ASSUME NEW n \in Nat, n \in T PROVE n + 1 \in T
    <3>1. ASSUME NEW d \in D, rank[d] < n + 1 PROVE G[n + 1][d] = G[rank[d] + 1][d]
      <4>1. CASE rank[d] = n
        BY <4>1
      <4>2. CASE rank[d] < n
        BY <1>5, <2>2, <4>2
      <4> QED
        BY <1>1, <3>1, <4>1, <4>2
    <3> QED
      BY <3>1
  <2> HIDE DEF T
  <2> QED
    BY <2>1, <2>2, SetInduction
<1> DEFINE f == [d \in D |-> G[rank[d] + 1][d]]
<1>7. f \in W
  <2>1. ASSUME NEW d \in D PROVE G[rank[d] + 1][d] \in V
    <3>1. rank[d] + 1 \in Nat
      BY <1>1
    <3> QED
      BY <1>4, <3>1 DEF W
  <2> QED
    BY <2>1 DEF W
<1>8. ASSUME NEW d \in D PROVE f[d] = F[d][f]
  <2>1. PICK r \in Nat : r = rank[d]
    BY <1>1
  <2>2. f[d] = F[d][G[r]] /\ G[r] \in W
    BY <1>4, <2>1
  <2>3. \A e \in D : rank[e] < rank[d] => f[e] = G[r][e]
    BY <1>6, <2>1
  <2> HIDE DEF f
  <2> QED
    BY <1>1, <1>7, <2>2, <2>3
<1> QED
  BY <1>7, <1>8 DEF IsMadeBy, W

=============================================================================
