------------------------------ MODULE Induction ------------------------------
(***************************************************************************)
(* Induction on the natural numbers, and the functions that recursion       *)
(* defines, stated with sets and functions instead of operators.            *)
(***************************************************************************)
EXTENDS Integers, WellFoundedInduction, NaturalsInduction, TLAPS

(* A set of naturals has a least element.                                   *)
LEMMA Least ==
    ASSUME NEW S, S \subseteq Nat, S # {}
    PROVE  \E m \in S : \A k \in S : m <= k
<1> DEFINE R == {ss \in Nat \X Nat : ss[1] < ss[2]}
<1>1. IsWellFoundedOn(R, Nat)
  BY NatLessThanWellFounded, Zenon DEF OpToRel
<1>2. \E x \in S : \A y \in S : ~ (<<y, x>> \in R)
  <2> HIDE DEF R
  <2> QED
    BY <1>1, WFMin, Zenon
<1>3. PICK m \in S : \A y \in S : ~ (<<y, m>> \in R)
  BY <1>2
<1>4. ASSUME NEW k \in S PROVE m <= k
  <2>1. k \in Nat /\ m \in Nat
    OBVIOUS
  <2>2. ~(k < m)
    BY <1>3, <2>1
  <2> QED
    BY <2>1, <2>2
<1> QED
  BY <1>4

(* A set with 0 and with the successor of each of its members has all.      *)
LEMMA Inductive ==
    ASSUME NEW P, P \subseteq Nat, 0 \in P, \A n \in P : n + 1 \in P
    PROVE  P = Nat
<1> SUFFICES ASSUME Nat \ P # {} PROVE FALSE
  OBVIOUS
<1>1. PICK m \in Nat \ P : \A k \in Nat \ P : m <= k
  <2>1. Nat \ P \subseteq Nat
    OBVIOUS
  <2> QED
    BY <2>1, Least
<1>2. m - 1 \in Nat
  BY <1>1
<1>3. m - 1 \in P
  BY <1>1, <1>2
<1> QED
  BY <1>1, <1>2, <1>3

(* A function may be iterated on a set it maps to itself.                   *)
LEMMA Iterated ==
    ASSUME NEW S, NEW s \in S, NEW F \in [S -> S]
    PROVE  \E g \in [Nat -> S] : g[0] = s /\ \A n \in Nat : g[n + 1] = F[g[n]]
<1> DEFINE A(m, g) == /\ g \in [0 .. m -> S] /\ g[0] = s
                      /\ \A i \in 0 .. m - 1 : g[i + 1] = F[g[i]]
<1>1. \A m \in Nat : \E g : A(m, g)
  <2> DEFINE P == {m \in Nat : \E g : A(m, g)}
  <2>1. 0 \in P
    <3>1. A(0, [i \in 0 .. 0 |-> s])
      OBVIOUS
    <3> QED
      BY <3>1
  <2>2. ASSUME NEW m \in P PROVE m + 1 \in P
    <3>1. PICK g : A(m, g)
      OBVIOUS
    <3> DEFINE h == [i \in 0 .. m + 1 |-> IF i = m + 1 THEN F[g[m]] ELSE g[i]]
    <3>2. m \in Nat /\ g[m] \in S
      BY <3>1
    <3>3. h \in [0 .. m + 1 -> S]
      BY <3>1, <3>2
    <3>4. h[0] = s
      BY <3>1, <3>2
    <3>5. \A i \in 0 .. (m + 1) - 1 : h[i + 1] = F[h[i]]
      BY <3>1, <3>2
    <3>6. A(m + 1, h)
      BY <3>3, <3>4, <3>5
    <3>7. \E f : A(m + 1, f)
      BY <3>6, Zenon
    <3> HIDE DEF A
    <3> QED
      BY <3>2, <3>7
  <2>3. P \subseteq Nat
    OBVIOUS
  <2>4. P = Nat
    <3> HIDE DEF P
    <3> QED
      BY <2>1, <2>2, <2>3, Inductive
  <2> QED
    BY <2>4
<1>2. ASSUME NEW m \in Nat, NEW g, A(m, g), NEW h, A(m + 1, h)
      PROVE  \A i \in 0 .. m : g[i] = h[i]
  <2> DEFINE P == {i \in Nat : i \in 0 .. m => g[i] = h[i]}
  <2>1. 0 \in P
    BY <1>2
  <2>2. ASSUME NEW i \in P PROVE i + 1 \in P
    <3>1. CASE i + 1 \in 0 .. m
      <4>1. i \in 0 .. m - 1 /\ i \in 0 .. (m + 1) - 1 /\ i \in 0 .. m
        BY <3>1
      <4>2. g[i + 1] = F[g[i]] /\ h[i + 1] = F[h[i]]
        BY <1>2, <4>1
      <4>3. g[i] = h[i]
        BY <4>1
      <4> QED
        BY <4>2, <4>3
    <3>2. CASE i + 1 \notin 0 .. m
      BY <3>2
    <3> QED
      BY <3>1, <3>2
  <2>3. P = Nat
    <3>1. P \subseteq Nat
      OBVIOUS
    <3> HIDE DEF P
    <3> QED
      BY <2>1, <2>2, <3>1, Inductive
  <2> QED
    BY <2>3
<1> DEFINE c(m) == CHOOSE g : A(m, g)
           G    == [n \in Nat |-> c(n)[n]]
<1>3. \A m \in Nat : A(m, c(m))
  BY <1>1, Zenon
<1>4. G \in [Nat -> S] /\ G[0] = s
  <2>1. ASSUME NEW n \in Nat PROVE c(n)[n] \in S
    <3>1. c(n) \in [0 .. n -> S]
      BY <1>3, Zenon
    <3>2. n \in 0 .. n
      OBVIOUS
    <3> HIDE DEF c
    <3> QED
      BY <3>1, <3>2
  <2>2. c(0)[0] = s
    BY <1>3
  <2> HIDE DEF c
  <2> QED
    BY <2>1, <2>2
<1>5. ASSUME NEW n \in Nat PROVE G[n + 1] = F[G[n]]
  <2>1. n + 1 \in Nat /\ n \in 0 .. n /\ n \in 0 .. (n + 1) - 1
    OBVIOUS
  <2>2. A(n, c(n)) /\ A(n + 1, c(n + 1))
    BY <1>3, <2>1
  <2>3. c(n)[n] = c(n + 1)[n]
    <3>1. \A i \in 0 .. n : c(n)[i] = c(n + 1)[i]
      <4> HIDE DEF A, c
      <4> QED
        BY <1>2, <2>2
    <3> QED
      BY <2>1, <3>1
  <2>4. c(n + 1)[n + 1] = F[c(n + 1)[n]]
    BY <2>1, <2>2
  <2> HIDE DEF c
  <2> QED
    BY <2>1, <2>3, <2>4
<1> HIDE DEF G
<1> QED
  BY <1>4, <1>5

(* A sequence of values made by a step that depends on its number.          *)
KeepsIn(F, S) == \A n \in Nat, q \in S : F[<<n, q>>] \in S

(* The values that the step makes one after the other.                      *)
Iterates(F, g) == \A n \in Nat : g[n + 1] = F[<<n, g[n]>>]

(* So may one that also depends on the number of the step.                  *)
LEMMA IteratedAt ==
    ASSUME NEW S, NEW s \in S, NEW F, KeepsIn(F, S)
    PROVE  \E g \in [Nat -> S] : g[0] = s /\ Iterates(F, g)
<1> DEFINE T == Nat \X S
           G == [t \in T |-> <<t[1] + 1, F[<<t[1], t[2]>>]>>]
           t0 == <<0, s>>
<1>1. t0 \in T /\ G \in [T -> T]
  <2>1. ASSUME NEW t \in T PROVE <<t[1] + 1, F[<<t[1], t[2]>>]>> \in T
    <3>1. t[1] \in Nat /\ t[2] \in S
      OBVIOUS
    <3>2. t[1] + 1 \in Nat /\ F[<<t[1], t[2]>>] \in S
      BY <3>1 DEF KeepsIn
    <3> QED
      BY <3>2
  <2> QED
    BY <2>1
<1>2. PICK f \in [Nat -> T] : f[0] = t0 /\ \A n \in Nat : f[n + 1] = G[f[n]]
  <2> HIDE DEF T, G, t0
  <2> QED
    BY <1>1, Iterated
<1> DEFINE g == [n \in Nat |-> f[n][2]]
<1>3. \A n \in Nat : f[n][1] = n
  <2> DEFINE P == {n \in Nat : f[n][1] = n}
  <2>1. 0 \in P
    BY <1>2
  <2>2. ASSUME NEW n \in P PROVE n + 1 \in P
    <3>1. n \in Nat /\ f[n] \in T /\ f[n][1] = n /\ f[n + 1] = G[f[n]] /\ n + 1 \in Nat
      <4> HIDE DEF T, G
      <4> QED
        BY <1>2
    <3>2. G[f[n]] = <<f[n][1] + 1, F[<<f[n][1], f[n][2]>>]>>
      BY <3>1
    <3> QED
      BY <3>1, <3>2
  <2>3. P \subseteq Nat
    OBVIOUS
  <2>4. P = Nat
    <3> HIDE DEF P
    <3> QED
      BY <2>1, <2>2, <2>3, Inductive
  <2> QED
    BY <2>4
<1>5. g \in [Nat -> S]
  <2>1. \A n \in Nat : f[n] \in T
    <3> HIDE DEF T
    <3> QED
      OBVIOUS
  <2> QED
    BY <2>1
<1>6. g[0] = s
  BY <1>2
<1>7. ASSUME NEW n \in Nat PROVE g[n + 1] = F[<<n, g[n]>>]
  <2>1. n + 1 \in Nat /\ f[n + 1] = G[f[n]] /\ f[n] \in T
    <3> HIDE DEF T, G, g
    <3> QED
      BY <1>2
  <2>2. G[f[n]] = <<f[n][1] + 1, F[<<f[n][1], f[n][2]>>]>>
    BY <2>1
  <2>3. f[n][1] = n /\ f[n][2] = g[n] /\ g[n + 1] = f[n + 1][2]
    BY <1>3, <2>1
  <2>4. f[n + 1][2] = F[<<f[n][1], f[n][2]>>]
    BY <2>1, <2>2
  <2> HIDE DEF g, G, T
  <2> QED
    BY <2>3, <2>4
<1> QED
  BY <1>5, <1>6, <1>7 DEF Iterates
==============================================================================
