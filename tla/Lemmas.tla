------------------------------- MODULE Lemmas -------------------------------
(***************************************************************************)
(* The lemmas that the proofs of several components rest on: induction     *)
(* over the numbers from a fact about finite sets, functions defined by    *)
(* recursion, sequences, range arithmetic, and the terms and constraints,  *)
(* for every sentinel INF, coefficients of any size and any set of         *)
(* variables.                                                              *)
(***************************************************************************)
EXTENDS Constraints, FiniteSetTheorems, TLAPS

LEMMA SetInduction ==
  ASSUME NEW S, 0 \in S, \A n \in Nat : n \in S => n + 1 \in S
  PROVE  Nat \subseteq S
<1> SUFFICES ASSUME NEW n \in Nat, n \notin S
             PROVE  FALSE
  OBVIOUS
<1> DEFINE T == {k \in 0 .. n : k \notin S}
<1>1. IsFiniteSet(T)
  <2>1. 0 \in Int /\ n \in Int
    OBVIOUS
  <2>2. IsFiniteSet(0 .. n)
    BY <2>1, FS_Interval
  <2>3. T \subseteq 0 .. n
    OBVIOUS
  <2> QED
    BY <2>2, <2>3, FS_Subset
<1>2. \A k \in T : k - 1 \in T
  <2> SUFFICES ASSUME NEW k \in 0 .. n, k \notin S
               PROVE  k - 1 \in 0 .. n /\ k - 1 \notin S
    OBVIOUS
  <2>1. k # 0
    OBVIOUS
  <2>2. k - 1 \in Nat /\ (k - 1) + 1 = k
    BY <2>1
  <2> QED
    BY <2>2
<1> DEFINE f == [k \in T |-> k - 1]
<1>3. f \in Injection(T, T)
  BY <1>2 DEF Injection, IsInjective
<1>4. f \in Surjection(T, T)
  BY <1>1, <1>3, FS_Injection
<1>5. n \in T
  OBVIOUS
<1>6. \E k \in T : f[k] = n
  BY <1>4, <1>5 DEF Surjection
<1>7. PICK k \in T : k - 1 = n
  BY <1>6
<1> QED
  BY <1>7

-----------------------------------------------------------------------------
(* Recursion over the numbers: a value, and how each follows from the one  *)
(* before it.                                                              *)

(* g takes the first n steps. *)
Starts(g, n, S, base, G) ==
  /\ g \in [0 .. n -> S]
  /\ g[0] = base
  /\ \A k \in 0 .. n - 1 : g[k + 1] = G[k][g[k]]

LEMMA StartExists ==
  ASSUME NEW S, NEW base \in S, NEW G \in [Nat -> [S -> S]]
  PROVE  \A n \in Nat : \E g : Starts(g, n, S, base, G)
<1> DEFINE Done == {n \in Nat : \E g : Starts(g, n, S, base, G)}
<1>1. 0 \in Done
  <2>1. Starts([k \in 0 .. 0 |-> base], 0, S, base, G)
    BY DEF Starts
  <2> QED
    BY <2>1
<1>2. \A n \in Nat : n \in Done => n + 1 \in Done
  <2> SUFFICES ASSUME NEW n \in Nat, NEW g, Starts(g, n, S, base, G)
               PROVE  \E h : Starts(h, n + 1, S, base, G)
    OBVIOUS
  <2>1. /\ g \in [0 .. n -> S] /\ g[0] = base
        /\ \A k \in 0 .. n - 1 : g[k + 1] = G[k][g[k]]
    BY DEF Starts
  <2>2. g[n] \in S /\ G[n] \in [S -> S]
    BY <2>1
  <2>3. PICK v \in S : v = G[n][g[n]]
    BY <2>2
  <2> DEFINE h == [k \in 0 .. n + 1 |-> IF k = n + 1 THEN v ELSE g[k]]
  <2>4. /\ h \in [0 .. n + 1 -> S] /\ h[0] = base /\ h[n + 1] = v
        /\ \A k \in 0 .. n : h[k] = g[k]
    BY <2>1
  <2>5. \A k \in 0 .. (n + 1) - 1 : h[k + 1] = G[k][h[k]]
    <3> TAKE k \in 0 .. (n + 1) - 1
    <3> HIDE DEF h
    <3>1. CASE k = n
      BY <2>3, <2>4, <3>1
    <3>2. CASE k # n
      <4>1. k \in 0 .. n - 1 /\ k \in 0 .. n /\ k + 1 \in 0 .. n
        BY <3>2
      <4> QED
        BY <2>1, <2>4, <4>1
    <3> QED
      BY <3>1, <3>2
  <2> QED
    BY <2>4, <2>5 DEF Starts
<1>3. Nat \subseteq Done
  <2> HIDE DEF Done
  <2> QED
    BY <1>1, <1>2, SetInduction
<1> QED
  BY <1>3

LEMMA StartsAgree ==
  ASSUME NEW S, NEW base, NEW G, NEW m \in Nat, NEW n \in Nat, m <= n,
         NEW g, Starts(g, m, S, base, G), NEW h, Starts(h, n, S, base, G)
  PROVE  \A k \in 0 .. m : g[k] = h[k]
<1> DEFINE Same == {k \in Nat : k <= m => g[k] = h[k]}
<1>1. 0 \in Same
  BY DEF Starts
<1>2. \A k \in Nat : k \in Same => k + 1 \in Same
  <2> SUFFICES ASSUME NEW k \in Nat, k + 1 <= m, g[k] = h[k]
               PROVE  g[k + 1] = h[k + 1]
    OBVIOUS
  <2>1. k \in 0 .. m - 1 /\ k \in 0 .. n - 1
    OBVIOUS
  <2>2. g[k + 1] = G[k][g[k]] /\ h[k + 1] = G[k][h[k]]
    BY <2>1 DEF Starts
  <2> QED
    BY <2>2
<1>3. Nat \subseteq Same
  <2> HIDE DEF Same
  <2> QED
    BY <1>1, <1>2, SetInduction
<1> QED
  BY <1>3

(* f takes them all. *)
Follows(f, S, base, G) ==
  /\ f \in [Nat -> S]
  /\ f[0] = base
  /\ \A n \in Nat : f[n + 1] = G[n][f[n]]

LEMMA Recursion ==
  ASSUME NEW S, NEW base \in S, NEW G \in [Nat -> [S -> S]]
  PROVE  \E f : Follows(f, S, base, G)
<1>1. \A n \in Nat : \E g : Starts(g, n, S, base, G)
  BY StartExists
<1> DEFINE up(n) == CHOOSE g : Starts(g, n, S, base, G)
           f == [n \in Nat |-> up(n)[n]]
<1>2. \A n \in Nat : Starts(up(n), n, S, base, G)
  BY <1>1
<1> HIDE DEF up
<1>3. f \in [Nat -> S]
  <2> SUFFICES ASSUME NEW n \in Nat
               PROVE  up(n)[n] \in S
    OBVIOUS
  <2>1. up(n) \in [0 .. n -> S]
    BY <1>2 DEF Starts
  <2> QED
    BY <2>1
<1>4. f[0] = base
  <2>1. up(0)[0] = base
    BY <1>2 DEF Starts
  <2> QED
    BY <2>1
<1>5. \A n \in Nat : f[n + 1] = G[n][f[n]]
  <2> SUFFICES ASSUME NEW n \in Nat
               PROVE  up(n + 1)[n + 1] = G[n][up(n)[n]]
    OBVIOUS
  <2>1. Starts(up(n), n, S, base, G) /\ Starts(up(n + 1), n + 1, S, base, G)
    BY <1>2
  <2>2. \A k \in 0 .. n : up(n)[k] = up(n + 1)[k]
    <3>1. n + 1 \in Nat /\ n <= n + 1
      OBVIOUS
    <3> QED
      BY <2>1, <3>1, StartsAgree
  <2>3. n \in 0 .. (n + 1) - 1 /\ n \in 0 .. n
    OBVIOUS
  <2>4. up(n + 1)[n + 1] = G[n][up(n + 1)[n]]
    BY <2>1, <2>3 DEF Starts
  <2> QED
    BY <2>2, <2>3, <2>4
<1> HIDE DEF f
<1>6. Follows(f, S, base, G)
  BY <1>3, <1>4, <1>5 DEF Follows
<1> QED
  BY <1>6

(* The function that f[n \in Nat] == IF n = 0 THEN base ELSE F[f[n - 1]]   *)
(* defines.                                                                *)
Iterates(f, S, base, F) ==
  /\ f \in [Nat -> S]
  /\ f[0] = base
  /\ \A n \in Nat : f[n + 1] = F[f[n]]
  /\ f = [n \in Nat |-> IF n = 0 THEN base ELSE F[f[n - 1]]]

LEMMA Iteration ==
  ASSUME NEW S, NEW base \in S, NEW F \in [S -> S]
  PROVE  \E f : Iterates(f, S, base, F)
<1> DEFINE G == [n \in Nat |-> F]
<1>1. G \in [Nat -> [S -> S]]
  OBVIOUS
<1>2. \A n \in Nat : G[n] = F
  OBVIOUS
<1> HIDE DEF G
<1>3. PICK f : Follows(f, S, base, G)
  BY <1>1, Recursion
<1>4. f \in [Nat -> S] /\ f[0] = base /\ \A n \in Nat : f[n + 1] = F[f[n]]
  BY <1>2, <1>3 DEF Follows
<1>5. \A n \in Nat : f[n] = IF n = 0 THEN base ELSE F[f[n - 1]]
  <2> TAKE n \in Nat
  <2>1. CASE n = 0
    BY <1>4, <2>1
  <2>2. CASE n # 0
    <3>1. n - 1 \in Nat /\ (n - 1) + 1 = n
      BY <2>2
    <3> QED
      BY <1>4, <2>2, <3>1
  <2> QED
    BY <2>1, <2>2
<1> QED
  BY <1>4, <1>5 DEF Iterates

-----------------------------------------------------------------------------
(* A set that only grows, within a finite one, is full after as many steps  *)
(* as the finite one has elements.                                          *)
LEMMA Saturation ==
  ASSUME NEW U, IsFiniteSet(U), NEW F, \A s \in SUBSET U : s \subseteq F[s],
         NEW s0, NEW f, Iterates(f, SUBSET U, s0, F)
  PROVE  F[f[Cardinality(U)]] = f[Cardinality(U)]
<1> DEFINE n == Cardinality(U)
<1>0. f \in [Nat -> SUBSET U] /\ \A k \in Nat : f[k + 1] = F[f[k]]
  BY DEF Iterates
<1>1. n \in Nat
  BY FS_CardinalityType
<1>2. \A s \in SUBSET U : IsFiniteSet(s) /\ Cardinality(s) \in Nat /\ Cardinality(s) <= n
  BY FS_Subset, FS_CardinalityType
<1> HIDE DEF n
<1> SUFFICES ASSUME F[f[n]] # f[n]
             PROVE  FALSE
  BY DEF n
(* Once two successive sets are equal, they all are. *)
<1>3. \A k \in Nat : k <= n => f[k + 1] # f[k]
  <2> SUFFICES ASSUME NEW k \in Nat, k <= n, f[k + 1] = f[k]
               PROVE  FALSE
    OBVIOUS
  <2> DEFINE Same == {j \in Nat : f[k + j] = f[k]}
  <2>1. 0 \in Same
    OBVIOUS
  <2>2. \A j \in Nat : j \in Same => j + 1 \in Same
    <3> SUFFICES ASSUME NEW j \in Nat, f[k + j] = f[k]
                 PROVE  f[k + (j + 1)] = f[k]
      OBVIOUS
    <3>1. k + j \in Nat /\ k + (j + 1) = (k + j) + 1
      OBVIOUS
    <3>2. f[k + (j + 1)] = F[f[k]]
      BY <1>0, <3>1
    <3> QED
      BY <1>0, <3>2
  <2>3. Nat \subseteq Same
    <3> HIDE DEF Same
    <3> QED
      BY <2>1, <2>2, SetInduction
  <2>4. n - k \in Nat /\ k + (n - k) = n
    BY <1>1
  <2>5. f[n] = f[k]
    BY <2>3, <2>4
  <2> QED
    BY <1>0, <1>1, <2>5
(* So each has more elements than the one before it. *)
<1> DEFINE Big == {k \in Nat : k <= n + 1 => Cardinality(f[k]) >= k}
<1>4. 0 \in Big
  BY <1>0, <1>2
<1>5. \A k \in Nat : k \in Big => k + 1 \in Big
  <2> SUFFICES ASSUME NEW k \in Nat, k <= n, Cardinality(f[k]) >= k
               PROVE  Cardinality(f[k + 1]) >= k + 1
    BY <1>0, <1>1, <1>2
  <2>1. f[k] \subseteq f[k + 1] /\ f[k] # f[k + 1]
    BY <1>0, <1>3
  <2>2. IsFiniteSet(f[k + 1]) /\ Cardinality(f[k + 1]) \in Nat /\ Cardinality(f[k]) \in Nat
    BY <1>0, <1>2
  <2>3. Cardinality(f[k]) < Cardinality(f[k + 1])
    BY <2>1, <2>2, FS_Subset
  <2> QED
    BY <2>2, <2>3
<1>6. Nat \subseteq Big
  <2> HIDE DEF Big
  <2> QED
    BY <1>4, <1>5, SetInduction
<1>7. n + 1 \in Nat /\ n + 1 <= n + 1
  BY <1>1
<1>8. Cardinality(f[n + 1]) >= n + 1
  BY <1>6, <1>7
<1> QED
  BY <1>0, <1>1, <1>2, <1>7, <1>8


-----------------------------------------------------------------------------
(* What can be reached along the edges of a finite graph: the recursive     *)
(* definition, and the least set that keeps the edges in.                   *)

ReachedIn(U, edges, x) ==
  LET R[n \in Nat] ==
        IF n = 0 THEN {x}
        ELSE LET near == R[n - 1]
             IN  near \cup {e[2] : e \in {f \in edges : f[1] \in near}}
  IN  R[Cardinality(U)]

KeepsIn(edges, S) == \A e \in edges : e[1] \in S => e[2] \in S

LEMMA ReachedFacts ==
  ASSUME NEW U, IsFiniteSet(U), NEW edges, edges \subseteq U \X U, NEW x \in U
  PROVE  ReachedIn(U, edges, x)
           = {y \in U : \A S \in SUBSET U : x \in S /\ KeepsIn(edges, S) => y \in S}
<1> DEFINE step(near) == near \cup {e[2] : e \in {f \in edges : f[1] \in near}}
           F == [s \in SUBSET U |-> step(s)]
<1>1. \A s \in SUBSET U : step(s) \in SUBSET U
  OBVIOUS
<1>2. F \in [SUBSET U -> SUBSET U] /\ \A s \in SUBSET U : F[s] = step(s)
  BY <1>1
<1> HIDE DEF F
<1>3. PICK f : Iterates(f, SUBSET U, {x}, F)
  BY <1>2, Iteration
<1>4. /\ f \in [Nat -> SUBSET U] /\ f[0] = {x}
      /\ \A n \in Nat : f[n + 1] = step(f[n])
      /\ \A n \in Nat : f[n + 1] = F[f[n]]
      /\ f = [n \in Nat |-> IF n = 0 THEN {x} ELSE F[f[n - 1]]]
  BY <1>2, <1>3 DEF Iterates
(* The recursive function is the iteration. *)
<1> DEFINE Def(R) == R = [n \in Nat |-> IF n = 0 THEN {x}
                            ELSE R[n - 1] \cup {e[2] : e \in {g \in edges : g[1] \in R[n - 1]}}]
           R0 == CHOOSE R : Def(R)
<1>5. Def(f)
  <2>1. \A n \in Nat : n # 0 => n - 1 \in Nat /\ F[f[n - 1]] = step(f[n - 1])
    BY <1>2, <1>4
  <2>2. \A n \in Nat : f[n] = IF n = 0 THEN {x} ELSE step(f[n - 1])
    BY <1>4, <2>1
  <2> QED
    BY <1>4, <2>2
<1>6. ReachedIn(U, edges, x) = R0[Cardinality(U)]
  BY DEF ReachedIn
<1>7. Def(R0)
  BY <1>5
<1>8. R0[0] = {x} /\ \A n \in Nat : R0[n + 1] = step(R0[n])
  <2>1. \A n \in Nat : n + 1 \in Nat /\ n + 1 # 0 /\ (n + 1) - 1 = n
    OBVIOUS
  <2> HIDE DEF R0
  <2> QED
    BY <1>7, <2>1
<1> HIDE DEF R0
<1>9. \A n \in Nat : R0[n] = f[n]
  <2> DEFINE Same == {n \in Nat : R0[n] = f[n]}
  <2>1. 0 \in Same
    BY <1>4, <1>8
  <2>2. \A n \in Nat : n \in Same => n + 1 \in Same
    <3> SUFFICES ASSUME NEW n \in Nat, R0[n] = f[n]
                 PROVE  R0[n + 1] = f[n + 1]
      OBVIOUS
    <3>1. f[n] \in SUBSET U /\ R0[n + 1] = step(R0[n]) /\ f[n + 1] = F[f[n]]
      BY <1>4, <1>8
    <3>2. R0[n + 1] = F[f[n]]
      BY <1>2, <3>1
    <3> QED
      BY <3>1, <3>2
  <2>3. Nat \subseteq Same
    <3> HIDE DEF Same
    <3> QED
      BY <2>1, <2>2, SetInduction
  <2> QED
    BY <2>3
<1>10. PICK n \in Nat : n = Cardinality(U)
  BY FS_CardinalityType
<1>11. ReachedIn(U, edges, x) = f[n]
  BY <1>6, <1>9, <1>10
(* It is full after as many steps as there are nodes. *)
<1>12. step(f[n]) = f[n]
  <2>1. \A s \in SUBSET U : s \subseteq F[s]
    BY <1>2
  <2>2. F[f[n]] = f[n]
    BY <1>3, <1>10, <2>1, Saturation
  <2> QED
    BY <1>2, <1>4, <2>2
<1>13. x \in f[n]
  <2> DEFINE Has == {k \in Nat : x \in f[k]}
  <2>1. 0 \in Has
    BY <1>4
  <2>2. \A k \in Nat : k \in Has => k + 1 \in Has
    <3> SUFFICES ASSUME NEW k \in Nat, x \in f[k]
                 PROVE  x \in f[k + 1]
      OBVIOUS
    <3>1. f[k + 1] = step(f[k])
      BY <1>4
    <3> QED
      BY <3>1
  <2>3. Nat \subseteq Has
    <3> HIDE DEF Has
    <3> QED
      BY <2>1, <2>2, SetInduction
  <2> QED
    BY <2>3
<1>14. \A S \in SUBSET U : x \in S /\ KeepsIn(edges, S) => f[n] \subseteq S
  <2> SUFFICES ASSUME NEW S \in SUBSET U, x \in S, KeepsIn(edges, S)
               PROVE  f[n] \subseteq S
    OBVIOUS
  <2> DEFINE Within == {k \in Nat : f[k] \subseteq S}
  <2>1. 0 \in Within
    BY <1>4
  <2>2. \A k \in Nat : k \in Within => k + 1 \in Within
    <3> SUFFICES ASSUME NEW k \in Nat, f[k] \subseteq S
                 PROVE  f[k + 1] \subseteq S
      OBVIOUS
    <3>1. f[k + 1] = step(f[k])
      BY <1>4
    <3> QED
      BY <3>1 DEF KeepsIn
  <2>3. Nat \subseteq Within
    <3> HIDE DEF Within
    <3> QED
      BY <2>1, <2>2, SetInduction
  <2> QED
    BY <2>3
<1>15. f[n] \in SUBSET U /\ KeepsIn(edges, f[n])
  BY <1>4, <1>12 DEF KeepsIn
<1> QED
  BY <1>11, <1>13, <1>14, <1>15

-----------------------------------------------------------------------------
(* The function that MapThenFoldSet, and with it FoldLeft, takes its value *)
(* from: for positions 1 .. n, G[i] is the step at position i.             *)

Folds(it, n, base, G) ==
  it = [S \in SUBSET (1 .. n) |->
          IF S = {} THEN base ELSE G[Max(S)][it[S \ {Max(S)}]]]

LEMMA MaxOf ==
  ASSUME NEW S \in SUBSET Int, NEW x \in S, \A y \in S : x >= y
  PROVE  Max(S) = x
<1>1. Max(S) \in S /\ \A y \in S : Max(S) >= y
  BY DEF Max
<1>2. Max(S) >= x /\ x >= Max(S) /\ Max(S) \in Int /\ x \in Int
  BY <1>1
<1> QED
  BY <1>2

(* The last of the first k + 1 positions, and those before it. *)
LEMMA LastPosition ==
  ASSUME NEW n \in Nat, NEW k \in 0 .. n - 1
  PROVE  /\ 1 .. k + 1 \in SUBSET (1 .. n) /\ 1 .. k \in SUBSET (1 .. n)
         /\ 1 .. k + 1 # {} /\ Max(1 .. k + 1) = k + 1
         /\ (1 .. k + 1) \ {k + 1} = 1 .. k
<1>1. Max(1 .. k + 1) = k + 1
  <2>1. 1 .. k + 1 \in SUBSET Int /\ k + 1 \in 1 .. k + 1 /\ \A y \in 1 .. k + 1 : k + 1 >= y
    OBVIOUS
  <2> QED
    BY <2>1, MaxOf
<1>2. k + 1 \in 1 .. k + 1
  OBVIOUS
<1> QED
  BY <1>1, <1>2

(* A set of positions has a least element. *)
LEMMA LeastExists ==
  ASSUME NEW n \in Nat, NEW S \in SUBSET (1 .. n), S # {}
  PROVE  \E x \in S : \A y \in S : x <= y
<1> SUFFICES ASSUME \A x \in S : \E y \in S : y < x
             PROVE  FALSE
  BY SMT
<1> DEFINE Below == {k \in Nat : \A x \in S : k < x}
<1>1. 0 \in Below
  OBVIOUS
<1>2. \A k \in Nat : k \in Below => k + 1 \in Below
  <2> SUFFICES ASSUME NEW k \in Nat, k \in Below, NEW x \in S
               PROVE  k + 1 < x
    OBVIOUS
  <2>1. PICK y \in S : y < x
    OBVIOUS
  <2> QED
    BY <2>1
<1>3. Nat \subseteq Below
  <2> HIDE DEF Below
  <2> QED
    BY <1>1, <1>2, SetInduction
<1>4. n \in Below
  BY <1>3
<1>5. PICK x \in S : x \in 1 .. n
  OBVIOUS
<1> QED
  BY <1>4, <1>5

LEMMA MaxExists ==
  ASSUME NEW n \in Nat
  PROVE  \A S \in SUBSET (1 .. n) : S # {} => Max(S) \in S
<1> DEFINE Good == {k \in Nat : \A S \in SUBSET (1 .. k) : S # {} => \E x \in S : \A y \in S : x >= y}
<1>1. 0 \in Good
  <2>1. 1 .. 0 = {}
    OBVIOUS
  <2> QED
    BY <2>1
<1>2. \A k \in Nat : k \in Good => k + 1 \in Good
  <2> SUFFICES ASSUME NEW k \in Nat, k \in Good, NEW S \in SUBSET (1 .. k + 1), S # {}
               PROVE  \E x \in S : \A y \in S : x >= y
    OBVIOUS
  <2>1. CASE k + 1 \in S
    BY <2>1
  <2>2. CASE k + 1 \notin S
    <3>1. S \in SUBSET (1 .. k)
      BY <2>2
    <3> QED
      BY <3>1
  <2> QED
    BY <2>1, <2>2
<1>3. Nat \subseteq Good
  <2> HIDE DEF Good
  <2> QED
    BY <1>1, <1>2, SetInduction
<1>4. \A S \in SUBSET (1 .. n) : S # {} => \E x \in S : \A y \in S : x >= y
  BY <1>3
<1> QED
  BY <1>4 DEF Max

(* A set of integers within bounds has a greatest element and a least one. *)
LEMMA BoundedMax ==
  ASSUME NEW a \in Int, NEW b \in Int, NEW S \in SUBSET (a .. b), S # {}
  PROVE  Max(S) \in S /\ \A y \in S : y <= Max(S)
<1>1. \E x \in S : \A y \in S : x >= y
  <2> SUFFICES ASSUME \A x \in S : \E y \in S : y > x
               PROVE  FALSE
    BY SMT
  <2> DEFINE Has == {k \in Nat : \E x \in S : x >= a + k}
  <2>1. 0 \in Has
    <3>1. PICK x \in S : x \in a .. b
      OBVIOUS
    <3>2. x >= a + 0
      BY <3>1
    <3> QED
      BY <3>2
  <2>2. \A k \in Nat : k \in Has => k + 1 \in Has
    <3> SUFFICES ASSUME NEW k \in Nat, NEW x \in S, x >= a + k
                 PROVE  \E y \in S : y >= a + (k + 1)
      OBVIOUS
    <3>1. PICK y \in S : y > x
      OBVIOUS
    <3> QED
      BY <3>1
  <2>3. Nat \subseteq Has
    <3> HIDE DEF Has
    <3> QED
      BY <2>1, <2>2, SetInduction
  <2>4. PICK x \in S : x \in a .. b
    OBVIOUS
  <2>5. (b - a) + 1 \in Nat
    BY <2>4
  <2>6. PICK y \in S : y >= a + ((b - a) + 1)
    BY <2>3, <2>5
  <2> QED
    BY <2>6
<1>2. \A x, y \in S : x >= y <=> y <= x
  OBVIOUS
<1> QED
  BY <1>1, <1>2 DEF Max

LEMMA BoundedMin ==
  ASSUME NEW a \in Int, NEW b \in Int, NEW S \in SUBSET (a .. b), S # {}
  PROVE  Min(S) \in S /\ \A y \in S : Min(S) <= y
<1> DEFINE T == {-x : x \in S}
<1>1. T \in SUBSET (-b .. -a) /\ T # {} /\ -b \in Int /\ -a \in Int
  <2>1. \A x \in S : -x \in -b .. -a
    OBVIOUS
  <2>2. T # {}
    OBVIOUS
  <2> QED
    BY <2>1, <2>2
<1> HIDE DEF T
<1>2. Max(T) \in T /\ \A y \in T : y <= Max(T)
  BY <1>1, BoundedMax
<1>3. PICK x \in S : -x = Max(T)
  BY <1>2 DEF T
<1>4. \A y \in S : x <= y
  BY <1>2, <1>3 DEF T
<1> QED
  BY <1>4 DEF Min

LEMMA FoldExists ==
  ASSUME NEW n \in Nat, NEW T, NEW base \in T, NEW G \in [1 .. n -> [T -> T]]
  PROVE  \E it : Folds(it, n, base, G) /\ it \in [SUBSET (1 .. n) -> T]
<1> DEFINE P == SUBSET (1 .. n)
           S0 == [P -> T]
           start == [S \in P |-> base]
           last(k, h) == [S \in P |-> IF k + 1 \in S THEN G[k + 1][h[S \ {k + 1}]] ELSE h[S]]
           H == [k \in Nat |-> [h \in S0 |-> IF k < n THEN last(k, h) ELSE h]]
<1>1. \A k \in Nat : k < n => \A h \in S0 : last(k, h) \in S0
  <2> SUFFICES ASSUME NEW k \in Nat, k < n, NEW h \in S0, NEW S \in P
               PROVE  (IF k + 1 \in S THEN G[k + 1][h[S \ {k + 1}]] ELSE h[S]) \in T
    OBVIOUS
  <2>1. k + 1 \in 1 .. n /\ S \ {k + 1} \in P
    OBVIOUS
  <2>2. h[S] \in T /\ h[S \ {k + 1}] \in T /\ G[k + 1] \in [T -> T]
    BY <2>1
  <2> QED
    BY <2>2
<1>2. start \in S0
  OBVIOUS
<1>3. H \in [Nat -> [S0 -> S0]]
  <2> HIDE DEF last, S0
  <2> QED
    BY <1>1
<1>4. \A k \in Nat, h \in S0 : H[k][h] = IF k < n THEN last(k, h) ELSE h
  <2> HIDE DEF last, S0
  <2> QED
    OBVIOUS
<1>5. PICK f : Follows(f, S0, start, H)
  <2> HIDE DEF H, S0, start
  <2> QED
    BY <1>2, <1>3, Recursion
<1>6. f \in [Nat -> S0] /\ f[0] = start /\ \A k \in Nat : f[k + 1] = H[k][f[k]]
  <2> HIDE DEF H, S0, start
  <2> QED
    BY <1>5 DEF Follows
<1>7. \A k \in Nat : k < n => f[k + 1] = last(k, f[k])
  <2> HIDE DEF H, S0, start, last
  <2> QED
    BY <1>4, <1>6
<1> HIDE DEF H, start
<1> DEFINE OneStep(g, S) == IF S = {} THEN base ELSE G[Max(S)][g[S \ {Max(S)}]]
           Fits(k) == \A S \in SUBSET (1 .. k) : f[k][S] = OneStep(f[k], S)
           Right == {k \in Nat : k <= n => Fits(k)}
<1>8. 0 \in Right
  <2> SUFFICES ASSUME NEW S \in SUBSET (1 .. 0)
               PROVE  f[0][S] = OneStep(f[0], S)
    OBVIOUS
  <2>1. S = {} /\ S \in P
    OBVIOUS
  <2> QED
    BY <1>6, <2>1 DEF start
<1>9. \A k \in Nat : k \in Right => k + 1 \in Right
  <2> SUFFICES ASSUME NEW k \in Nat, k < n, Fits(k)
               PROVE  Fits(k + 1)
    <3> HIDE DEF Fits
    <3> QED
      OBVIOUS
  <2> SUFFICES ASSUME NEW S \in SUBSET (1 .. k + 1)
               PROVE  f[k + 1][S] = OneStep(f[k + 1], S)
    <3> HIDE DEF OneStep
    <3> QED
      OBVIOUS
  <2>1. SUBSET (1 .. k) \subseteq P /\ S \in P
    OBVIOUS
  <2>2. \A Q \in SUBSET (1 .. k) : f[k + 1][Q] = f[k][Q]
    <3> SUFFICES ASSUME NEW Q \in SUBSET (1 .. k)
                 PROVE  f[k + 1][Q] = f[k][Q]
      OBVIOUS
    <3>1. k + 1 \notin Q /\ Q \in P
      OBVIOUS
    <3>2. last(k, f[k])[Q] = f[k][Q]
      BY <3>1
    <3>3. f[k + 1] = last(k, f[k])
      BY <1>7
    <3> QED
      BY <3>2, <3>3
  <2>3. CASE k + 1 \in S
    <3>1. Max(S) = k + 1
      BY <2>3, MaxOf
    <3>2. S \ {k + 1} \in SUBSET (1 .. k)
      OBVIOUS
    <3>3. f[k + 1][S] = G[k + 1][f[k][S \ {k + 1}]]
      BY <1>7, <2>1, <2>3
    <3> QED
      BY <2>2, <2>3, <3>1, <3>2, <3>3
  <2>4. CASE k + 1 \notin S
    <3>1. S \in SUBSET (1 .. k)
      BY <2>4
    <3>2. CASE S = {}
      BY <2>2, <3>1, <3>2
    <3>3. CASE S # {}
      <4>1. S \ {Max(S)} \in SUBSET (1 .. k)
        BY <3>1
      <4>2. f[k][S] = G[Max(S)][f[k][S \ {Max(S)}]]
        BY <3>1, <3>3
      <4> QED
        BY <2>2, <3>1, <3>3, <4>1, <4>2
    <3> QED
      BY <3>2, <3>3
  <2> QED
    BY <2>3, <2>4
<1>10. Nat \subseteq Right
  <2> HIDE DEF Right
  <2> QED
    BY <1>8, <1>9, SetInduction
<1>11. \A S \in P : f[n][S] = OneStep(f[n], S)
  <2>1. Fits(n)
    <3> HIDE DEF Fits
    <3> QED
      BY <1>10
  <2> HIDE DEF OneStep
  <2> QED
    BY <2>1
<1>12. f[n] \in S0
  BY <1>6
<1>13. f[n] = [S \in P |-> OneStep(f[n], S)]
  <2> HIDE DEF OneStep
  <2>1. PICK h \in S0 : h = f[n] /\ \A S \in P : h[S] = OneStep(h, S)
    BY <1>11, <1>12
  <2>2. h = [S \in P |-> OneStep(h, S)]
    BY <2>1
  <2> QED
    BY <2>1, <2>2
<1> QED
  BY <1>12, <1>13 DEF Folds

-----------------------------------------------------------------------------
(* h holds what FlattenSeq has joined after each of the n sequences of ss. *)
Flattens(h, n, ss) ==
  /\ h[1] = ss[1]
  /\ \A i \in 2 .. n : h[i] = h[i - 1] \o ss[i]
  /\ FlattenSeq(ss) = h[n]

LEMMA FlattenSteps ==
  ASSUME NEW T, NEW n \in Nat \ {0}, NEW ss \in [1 .. n -> Seq(T)]
  PROVE  \E h \in [1 .. n -> Seq(T)] : Flattens(h, n, ss)
<1> DEFINE S == Seq(T)
           G == [k \in Nat |-> [x \in S |-> IF k < n THEN x \o ss[k + 1] ELSE x]]
           def(f) == f = [i \in 1 .. n |-> IF i = 1 THEN ss[i] ELSE f[i - 1] \o ss[i]]
           h == CHOOSE f : def(f)
<1>0. \A k \in Nat : \A x \in S : k < n => x \o ss[k + 1] \in S
  <2> SUFFICES ASSUME NEW k \in Nat, NEW x \in Seq(T), k < n
               PROVE  x \o ss[k + 1] \in Seq(T)
    OBVIOUS
  <2>1. ss[k + 1] \in Seq(T)
    OBVIOUS
  <2> QED
    BY <2>1
<1>1. G \in [Nat -> [S -> S]]
  <2> HIDE DEF S
  <2> QED
    BY <1>0
<1>2. /\ << >> \in S
      /\ \A k \in Nat, x \in S : G[k][x] = IF k < n THEN x \o ss[k + 1] ELSE x
  OBVIOUS
<1> HIDE DEF G, S
<1>3. PICK g : Follows(g, S, << >>, G)
  BY <1>1, <1>2, Recursion
<1>4. /\ g \in [Nat -> S] /\ g[0] = << >>
      /\ \A k \in Nat : g[k + 1] = G[k][g[k]]
  BY <1>3 DEF Follows
<1>5. \A k \in Nat : k < n => g[k + 1] = g[k] \o ss[k + 1]
  BY <1>2, <1>4
<1>6. g[1] = ss[1]
  <2>0. 0 \in Nat /\ 0 < n /\ 0 + 1 = 1
    OBVIOUS
  <2>1. g[0 + 1] = g[0] \o ss[0 + 1]
    BY <1>5, <2>0
  <2>2. ss[1] \in Seq(T)
    OBVIOUS
  <2>3. << >> \o ss[1] = ss[1]
    BY <2>2
  <2> QED
    BY <1>4, <2>0, <2>1, <2>3
<1> DEFINE r == [i \in 1 .. n |-> g[i]]
<1>7. \A i \in 1 .. n : r[i] = IF i = 1 THEN ss[i] ELSE r[i - 1] \o ss[i]
  <2> TAKE i \in 1 .. n
  <2>1. CASE i = 1
    BY <1>6, <2>1
  <2>2. CASE i # 1
    <3>1. i - 1 \in Nat /\ i - 1 < n /\ (i - 1) + 1 = i /\ i - 1 \in 1 .. n
      BY <2>2
    <3>2. g[i] = g[i - 1] \o ss[i]
      BY <1>5, <3>1
    <3> QED
      BY <2>2, <3>1, <3>2
  <2> QED
    BY <2>1, <2>2
<1>8. def(r)
  <2>1. r = [i \in 1 .. n |-> r[i]]
    OBVIOUS
  <2> HIDE DEF r
  <2> QED
    BY <1>7, <2>1
<1>9. def(h)
  <2> HIDE DEF def
  <2> QED
    BY <1>8
<1>10. FlattenSeq(ss) = h[n]
  <2>1. Len(ss) = n /\ n # 0
    OBVIOUS
  <2> QED
    BY <2>1 DEF FlattenSeq
<1> HIDE DEF h
<1>11. \A i \in 1 .. n : h[i] = IF i = 1 THEN ss[i] ELSE h[i - 1] \o ss[i]
  BY <1>9
<1> DEFINE Typed(k) == \A i \in 1 .. n : i <= k => h[i] \in S
           Good == {k \in Nat : Typed(k)}
<1>12. Typed(0)
  OBVIOUS
<1>13. ASSUME NEW k \in Nat, Typed(k)
       PROVE  Typed(k + 1)
  <2> SUFFICES ASSUME NEW i \in 1 .. n, i <= k + 1
               PROVE  h[i] \in S
    OBVIOUS
  <2>1. CASE i = 1
    <3>1. h[i] = ss[1]
      BY <1>11, <2>1
    <3> QED
      BY <3>1 DEF S
  <2>2. CASE i # 1
    <3>1. i - 1 \in 1 .. n /\ i - 1 <= k
      BY <2>2
    <3>2. h[i - 1] \in S
      BY <1>13, <3>1
    <3>4. ss[i] \in S
      BY DEF S
    <3>3. h[i] = h[i - 1] \o ss[i]
      BY <1>11, <2>2
    <3> QED
      BY <3>2, <3>3, <3>4 DEF S
  <2> QED
    BY <2>1, <2>2
<1>14. Nat \subseteq Good
  <2> HIDE DEF Typed
  <2>1. 0 \in Good /\ \A k \in Nat : k \in Good => k + 1 \in Good
    BY <1>12, <1>13
  <2> HIDE DEF Good
  <2> QED
    BY <2>1, SetInduction
<1>15. \A i \in 1 .. n : h[i] \in S
  <2>1. Typed(n)
    <3> HIDE DEF Typed
    <3> QED
      BY <1>14
  <2> QED
    BY <2>1
<1>16. h \in [1 .. n -> Seq(T)]
  BY <1>9, <1>15 DEF S
<1>17. h[1] = ss[1] /\ \A i \in 2 .. n : h[i] = h[i - 1] \o ss[i]
  <2>1. 1 \in 1 .. n /\ \A i \in 2 .. n : i \in 1 .. n /\ i # 1
    OBVIOUS
  <2> QED
    BY <1>11, <2>1
<1> QED
  BY <1>10, <1>16, <1>17 DEF Flattens

(* FlattenSeq yields the elements of the sequences, and only those. *)
LEMMA FlattenFacts ==
  ASSUME NEW T, NEW n \in Nat, NEW ss \in [1 .. n -> Seq(T)]
  PROVE  /\ FlattenSeq(ss) \in Seq(T)
         /\ \A x : x \in ToSet(FlattenSeq(ss)) <=> \E i \in 1 .. n : x \in ToSet(ss[i])
<1>1. CASE n = 0
  <2>1. Len(ss) = 0 /\ ss \in Seq(T) /\ 1 .. n = {}
    BY <1>1
  <2>2. FlattenSeq(ss) = ss
    BY <2>1 DEF FlattenSeq
  <2> QED
    BY <2>1, <2>2 DEF ToSet
<1>2. CASE n # 0
  <2>0. n \in Nat \ {0}
    BY <1>2
  <2>a. PICK h \in [1 .. n -> Seq(T)] : Flattens(h, n, ss)
    BY <2>0, FlattenSteps
  <2>1. /\ h[1] = ss[1]
        /\ \A i \in 2 .. n : h[i] = h[i - 1] \o ss[i]
        /\ FlattenSeq(ss) = h[n]
    BY <2>a DEF Flattens
  <2> DEFINE Joined(k, x) == x \in ToSet(h[k]) <=> \E i \in 1 .. k : x \in ToSet(ss[i])
             Whole(k) == k \in 1 .. n => \A x : Joined(k, x)
             Good == {k \in Nat : Whole(k)}
  <2>2. Whole(0)
    OBVIOUS
  <2>3. ASSUME NEW k \in Nat, Whole(k)
        PROVE  Whole(k + 1)
    <3> SUFFICES ASSUME k + 1 \in 1 .. n, NEW x
                 PROVE  Joined(k + 1, x)
      OBVIOUS
    <3>1. CASE k = 0
      BY <2>1, <3>1
    <3>2. CASE k # 0
      <4>1. k \in 1 .. n /\ k + 1 \in 2 .. n /\ (k + 1) - 1 = k
        BY <3>2
      <4>2. h[k] \in Seq(T) /\ ss[k + 1] \in Seq(T)
        BY <4>1
      <4>3. h[k + 1] = h[k] \o ss[k + 1]
        BY <2>1, <4>1
      <4>4. ToSet(h[k + 1]) = ToSet(h[k]) \cup ToSet(ss[k + 1])
        <5> DEFINE s == h[k]
                   t == ss[k + 1]
        <5>1. s \in Seq(T) /\ t \in Seq(T)
          BY <4>2
        <5> HIDE DEF s, t
        <5>2. PICK m \in Nat, l \in Nat : m = Len(s) /\ l = Len(t)
          BY <5>1
        <5>3. /\ DOMAIN s = 1 .. m /\ DOMAIN t = 1 .. l /\ DOMAIN (s \o t) = 1 .. m + l
              /\ \A i \in 1 .. m : (s \o t)[i] = s[i]
              /\ \A i \in 1 .. l : (s \o t)[m + i] = t[i]
          BY <5>1, <5>2
        <5>4. \A i \in 1 .. m + l : i \in 1 .. m \/ (i - m \in 1 .. l /\ i = m + (i - m))
          OBVIOUS
        <5>5. ToSet(s \o t) = ToSet(s) \cup ToSet(t)
          <6>1. ASSUME NEW y \in ToSet(s \o t)
                PROVE  y \in ToSet(s) \cup ToSet(t)
            BY <5>3, <5>4 DEF ToSet
          <6>2. ToSet(s) \subseteq ToSet(s \o t)
            BY <5>3 DEF ToSet
          <6>3. ToSet(t) \subseteq ToSet(s \o t)
            <7>1. \A i \in 1 .. l : m + i \in 1 .. m + l
              OBVIOUS
            <7> QED
              BY <5>3, <7>1 DEF ToSet
          <6> QED
            BY <6>1, <6>2, <6>3
        <5> QED
          BY <4>3, <5>5 DEF s, t
      <4>5. Joined(k, x)
        BY <2>3, <4>1
      <4>6. (\E i \in 1 .. k + 1 : x \in ToSet(ss[i]))
              <=> (\E i \in 1 .. k : x \in ToSet(ss[i])) \/ x \in ToSet(ss[k + 1])
        BY <4>1
      <4> QED
        BY <4>4, <4>5, <4>6
    <3> QED
      BY <3>1, <3>2
  <2>4. Nat \subseteq Good
    <3> HIDE DEF Whole
    <3>1. 0 \in Good /\ \A k \in Nat : k \in Good => k + 1 \in Good
      BY <2>2, <2>3
    <3> HIDE DEF Good
    <3> QED
      BY <3>1, SetInduction
  <2>5. \A x : Joined(n, x)
    <3>1. Whole(n)
      <4> HIDE DEF Whole
      <4> QED
        BY <2>4
    <3>2. n \in 1 .. n
      BY <1>2
    <3> HIDE DEF Joined
    <3> QED
      BY <3>1, <3>2
  <2>6. h[n] \in Seq(T)
    BY <1>2
  <2> QED
    BY <2>1, <2>5, <2>6
<1> QED
  BY <1>1, <1>2

-----------------------------------------------------------------------------
(* Sequences. *)

IsList(s) == \E S : s \in Seq(S)

(* One element more. *)
LEMMA AppendFacts ==
  ASSUME NEW s, IsList(s), NEW e,
         NEW t, t = Append(s, e)
  PROVE  /\ IsList(t) /\ DOMAIN t = DOMAIN s \cup {Len(s) + 1}
         /\ \A i \in DOMAIN s : t[i] = s[i]
<1>1. PICK S : s \in Seq(S)
  BY DEF IsList
<1> DEFINE T == S \cup {e}
<1>2. s \in Seq(T) /\ e \in T
  BY <1>1
<1> HIDE DEF T
<1>3. /\ t \in Seq(T) /\ Len(t) = Len(s) + 1 /\ Len(s) \in Nat
      /\ DOMAIN s = 1 .. Len(s) /\ DOMAIN t = 1 .. Len(t)
      /\ \A i \in 1 .. Len(s) : t[i] = s[i]
  BY <1>2
<1>4. 1 .. Len(s) + 1 = 1 .. Len(s) \cup {Len(s) + 1}
  BY <1>3
<1> QED
  BY <1>3, <1>4 DEF IsList

LEMMA AppendLast ==
  ASSUME NEW s, IsList(s), NEW e,
         NEW t, t = Append(s, e)
  PROVE  t[Len(s) + 1] = e
<1>1. PICK S : s \in Seq(S)
  BY DEF IsList
<1>2. PICK T : T = S \cup {e}
  OBVIOUS
<1>3. s \in Seq(T) /\ e \in T
  BY <1>1, <1>2
<1> QED
  BY <1>3

LEMMA ToSetConcat ==
  ASSUME NEW S, NEW r \in Seq(S), NEW s \in Seq(S)
  PROVE  ToSet(r \o s) = ToSet(r) \cup ToSet(s)
<1>1. PICK m \in Nat, n \in Nat : m = Len(r) /\ n = Len(s)
  OBVIOUS
<1>2. PICK q \in Seq(S) : q = r \o s /\ Len(q) = m + n
  <2>1. r \o s \in Seq(S)
    OBVIOUS
  <2>2. Len(r \o s) = m + n
    BY <1>1
  <2> QED
    BY <2>1, <2>2
<1>3. \A i \in 1 .. m : q[i] = r[i]
  BY <1>1, <1>2
<1>4. \A i \in 1 .. n : q[m + i] = s[i]
  BY <1>1, <1>2
<1>5. DOMAIN r = 1 .. m /\ DOMAIN s = 1 .. n
  BY <1>1
<1>6. \A i \in 1 .. m + n : i \in 1 .. m \/ (i - m \in 1 .. n /\ i = m + (i - m))
  OBVIOUS
<1>7. (\A i \in 1 .. m : i \in 1 .. m + n) /\ (\A i \in 1 .. n : m + i \in 1 .. m + n)
  OBVIOUS
<1>8. DOMAIN q = 1 .. m + n
  BY <1>2
<1>9. ToSet(q) \subseteq ToSet(r) \cup ToSet(s)
  <2> SUFFICES ASSUME NEW i \in 1 .. m + n
               PROVE  q[i] \in ToSet(r) \cup ToSet(s)
    BY <1>8 DEF ToSet
  <2>1. CASE i \in 1 .. m
    BY <1>3, <1>5, <2>1 DEF ToSet
  <2>2. CASE i - m \in 1 .. n
    <3>1. PICK j \in 1 .. n : i = m + j
      BY <2>2
    <3>2. q[i] = s[j]
      BY <1>4, <3>1
    <3> QED
      BY <1>5, <3>2 DEF ToSet
  <2> QED
    BY <1>6, <2>1, <2>2
<1>10. ToSet(r) \subseteq ToSet(q) /\ ToSet(s) \subseteq ToSet(q)
  BY <1>3, <1>4, <1>5, <1>7, <1>8 DEF ToSet
<1> QED
  BY <1>2, <1>9, <1>10

LEMMA Parts ==
  ASSUME NEW S, NEW r \in Seq(S), NEW s \in Seq(S), NEW m
  PROVE  /\ ToSet(r) \subseteq ToSet(r \o s \o <<m>>)
         /\ ToSet(s) \subseteq ToSet(r \o s \o <<m>>)
         /\ m \in ToSet(r \o s \o <<m>>)
<1>1. PICK T : T = S \cup {m}
  OBVIOUS
<1>2. r \in Seq(T) /\ s \in Seq(T) /\ <<m>> \in Seq(T)
  BY <1>1
<1>3. PICK q \in Seq(T) : q = r \o s
  <2>1. r \o s \in Seq(T)
    BY <1>2
  <2> QED
    BY <2>1
<1>4. ToSet(q) = ToSet(r) \cup ToSet(s)
  BY <1>2, <1>3, ToSetConcat
<1>5. ToSet(q \o <<m>>) = ToSet(q) \cup ToSet(<<m>>)
  <2>1. PICK last \in Seq(T) : last = <<m>>
    BY <1>2
  <2>2. ToSet(q \o last) = ToSet(q) \cup ToSet(last)
    BY ToSetConcat
  <2> QED
    BY <2>1, <2>2
<1>6. m \in ToSet(<<m>>)
  BY DEF ToSet
<1> QED
  BY <1>3, <1>4, <1>5, <1>6

(* A sequence keeps what it had when it grows. *)
LEMMA Longer ==
  ASSUME NEW S, NEW s \in Seq(S), NEW t \in Seq(S)
  PROVE  ToSet(s) \subseteq ToSet(s \o t) /\ ToSet(t) \subseteq ToSet(s \o t)
BY ToSetConcat

-----------------------------------------------------------------------------
(* Facts about endpoints. *)

LEMMA EndpointFacts ==
  /\ INF \in Int /\ 1 <= INF /\ NEGINF \in Int /\ NEGINF = -INF
  /\ \A x \in Endpoint : x \in Int /\ NEGINF <= x /\ x <= INF
  /\ \A x \in Int : NEGINF <= x /\ x <= INF => x \in Endpoint
BY INFAssumption DEF NEGINF, Endpoint

LEMMA IntervalFacts ==
  ASSUME NEW r \in Interval
  PROVE  /\ r.lo \in Endpoint /\ r.hi \in Endpoint
         /\ r.lo \in Int /\ r.hi \in Int
         /\ NEGINF <= r.lo /\ r.lo <= INF /\ NEGINF <= r.hi /\ r.hi <= INF
BY EndpointFacts DEF Interval

LEMMA ClampFacts ==
  ASSUME NEW x \in Int
  PROVE  /\ Clamp(x) \in Endpoint
         /\ Clamp(x) = INF \/ x <= Clamp(x)
         /\ Clamp(x) = NEGINF \/ Clamp(x) <= x
BY EndpointFacts DEF Clamp, Lesser, Greater

LEMMA ClampMonotone ==
  ASSUME NEW x \in Int, NEW y \in Int, x <= y
  PROVE  Clamp(x) <= Clamp(y)
BY EndpointFacts DEF Clamp, Lesser, Greater

LEMMA AddEpType ==
  ASSUME NEW x \in Endpoint, NEW y \in Endpoint, NEW d \in Endpoint
  PROVE  AddEp(x, y, d) \in Endpoint
BY EndpointFacts, ClampFacts DEF AddEp, Finite

(* A sum of endpoints grows with both. *)
LEMMA AddEpMonotone ==
  ASSUME NEW x \in Endpoint, NEW x2 \in Endpoint,
         NEW y \in Endpoint, NEW y2 \in Endpoint,
         NEW d \in {NEGINF, INF}, x <= x2, y <= y2
  PROVE  AddEp(x, y, d) <= AddEp(x2, y2, d)
<1>1. AddEp(x, y, d) \in Endpoint /\ AddEp(x2, y2, d) \in Endpoint
  BY EndpointFacts, AddEpType
<1>2. CASE Finite(x) /\ Finite(y) /\ Finite(x2) /\ Finite(y2)
  BY <1>2, EndpointFacts, ClampMonotone DEF AddEp
<1>3. CASE ~(Finite(x) /\ Finite(y)) /\ Finite(x2) /\ Finite(y2)
  BY <1>1, <1>3, EndpointFacts DEF AddEp, Finite, InfSign
<1>4. CASE Finite(x) /\ Finite(y) /\ ~(Finite(x2) /\ Finite(y2))
  BY <1>1, <1>4, EndpointFacts DEF AddEp, Finite, InfSign
<1>5. CASE ~(Finite(x) /\ Finite(y)) /\ ~(Finite(x2) /\ Finite(y2))
  BY <1>5, EndpointFacts DEF AddEp, Finite, InfSign
<1> QED
  BY <1>2, <1>3, <1>4, <1>5

-----------------------------------------------------------------------------
(* Facts about products of integers, stated one at a time for the solver. *)

LEMMA ProductGrows ==
  ASSUME NEW c \in Int, NEW x \in Int, NEW y \in Int, c > 0, x <= y
  PROVE  c * x \in Int /\ c * y \in Int /\ c * x <= c * y
BY SMT

LEMMA ProductShrinks ==
  ASSUME NEW c \in Int, NEW x \in Int, NEW y \in Int, c < 0, x <= y
  PROVE  c * x \in Int /\ c * y \in Int /\ c * y <= c * x
BY SMT

(* A factor beyond a bound takes any nonzero integer beyond it. *)
LEMMA ProductBeyond ==
  ASSUME NEW c \in Int, NEW x \in Int, NEW m \in Int, m > 0
  PROVE  /\ c >= m /\ x > 0 => c * x >= m
         /\ c <= -m /\ x < 0 => c * x >= m
         /\ c >= m /\ x < 0 => c * x <= -m
         /\ c <= -m /\ x > 0 => c * x <= -m
BY SMT

LEMMA MulEpType ==
  ASSUME NEW c \in Int, NEW x \in Endpoint
  PROVE  MulEp(c, x) \in Endpoint
<1>1. x \in Int /\ c * x \in Int
  BY EndpointFacts
<1> QED
  BY <1>1, EndpointFacts, ClampFacts DEF MulEp

(* A product grows with its endpoint when the coefficient is positive, and *)
(* shrinks when it is negative.                                            *)
LEMMA MulEpGrows ==
  ASSUME NEW c \in Int, NEW x \in Endpoint, NEW y \in Endpoint, c > 0, x <= y
  PROVE  MulEp(c, x) <= MulEp(c, y)
<1>1. MulEp(c, x) \in Endpoint /\ MulEp(c, y) \in Endpoint
  BY MulEpType
<1>2. Clamp(c * x) <= Clamp(c * y)
  BY EndpointFacts, ProductGrows, ClampMonotone
<1>3. CASE Finite(c)
  <2>1. CASE Finite(x) /\ Finite(y)
    BY <1>2, <1>3, <2>1 DEF MulEp
  <2>2. CASE ~Finite(x)
    <3>1. x = NEGINF \/ (x = INF /\ y = INF)
      BY <2>2, EndpointFacts DEF Finite
    <3>2. x = NEGINF => MulEp(c, x) = NEGINF
      BY <1>3, EndpointFacts DEF MulEp, Finite, InfSign
    <3> QED
      BY <1>1, <3>1, <3>2, EndpointFacts
  <2>3. CASE Finite(x) /\ ~Finite(y)
    <3>1. y = INF
      BY <2>3, EndpointFacts DEF Finite
    <3>2. MulEp(c, y) = INF
      BY <1>3, <3>1, EndpointFacts DEF MulEp, Finite, InfSign
    <3> QED
      BY <1>1, <3>2, EndpointFacts
  <2> QED
    BY <2>1, <2>2, <2>3
<1>4. CASE ~Finite(c)
  <2>1. c >= INF
    BY <1>4, EndpointFacts DEF Finite
  <2>2. InfSign(c) = 2
    BY <2>1 DEF InfSign
  <2>3. \A z \in Endpoint : MulEp(c, z) = IF z > 0 THEN INF ELSE IF z < 0 THEN NEGINF ELSE 0
    BY <1>4, <2>2, EndpointFacts DEF MulEp, InfSign
  <2> QED
    BY <2>3, EndpointFacts
<1> QED
  BY <1>3, <1>4

LEMMA MulEpShrinks ==
  ASSUME NEW c \in Int, NEW x \in Endpoint, NEW y \in Endpoint, c < 0, x <= y
  PROVE  MulEp(c, y) <= MulEp(c, x)
<1>1. MulEp(c, x) \in Endpoint /\ MulEp(c, y) \in Endpoint
  BY MulEpType
<1>2. Clamp(c * y) <= Clamp(c * x)
  BY EndpointFacts, ProductShrinks, ClampMonotone
<1>3. CASE Finite(c)
  <2>1. CASE Finite(x) /\ Finite(y)
    BY <1>2, <1>3, <2>1 DEF MulEp
  <2>2. CASE ~Finite(x)
    <3>1. x = NEGINF \/ (x = INF /\ y = INF)
      BY <2>2, EndpointFacts DEF Finite
    <3>2. x = NEGINF => MulEp(c, x) = INF
      BY <1>3, EndpointFacts DEF MulEp, Finite, InfSign
    <3> QED
      BY <1>1, <3>1, <3>2, EndpointFacts
  <2>3. CASE Finite(x) /\ ~Finite(y)
    <3>1. y = INF
      BY <2>3, EndpointFacts DEF Finite
    <3>2. MulEp(c, y) = NEGINF
      BY <1>3, <3>1, EndpointFacts DEF MulEp, Finite, InfSign
    <3> QED
      BY <1>1, <3>2, EndpointFacts
  <2> QED
    BY <2>1, <2>2, <2>3
<1>4. CASE ~Finite(c)
  <2>1. c <= NEGINF
    BY <1>4, EndpointFacts DEF Finite
  <2>2. InfSign(c) = -2
    BY <2>1, EndpointFacts DEF InfSign
  <2>3. \A z \in Endpoint : MulEp(c, z) = IF z > 0 THEN NEGINF ELSE IF z < 0 THEN INF ELSE 0
    BY <1>4, <2>2, EndpointFacts DEF MulEp, InfSign
  <2> QED
    BY <2>3, EndpointFacts
<1> QED
  BY <1>3, <1>4

(* An endpoint that bounds n from below, and is not +Infinity, is taken by *)
(* a positive coefficient to one that bounds c * n from below; likewise    *)
(* for the other side and the other sign.                                  *)
LEMMA MulEpBounds ==
  ASSUME NEW c \in Int, NEW x \in Endpoint, NEW n \in Int
  PROVE  /\ c > 0 /\ x < INF /\ (x = NEGINF \/ x <= n)
            => MulEp(c, x) = NEGINF \/ MulEp(c, x) <= c * n
         /\ c > 0 /\ x > NEGINF /\ (x = INF \/ n <= x)
            => MulEp(c, x) = INF \/ c * n <= MulEp(c, x)
         /\ c < 0 /\ x < INF /\ (x = NEGINF \/ x <= n)
            => MulEp(c, x) = INF \/ c * n <= MulEp(c, x)
         /\ c < 0 /\ x > NEGINF /\ (x = INF \/ n <= x)
            => MulEp(c, x) = NEGINF \/ MulEp(c, x) <= c * n
<1>1. x \in Int /\ c * x \in Int /\ c * n \in Int /\ Clamp(c * x) \in Int
  BY EndpointFacts, ClampFacts
<1>2. /\ c > 0 /\ x <= n => c * x <= c * n
      /\ c > 0 /\ n <= x => c * n <= c * x
      /\ c < 0 /\ x <= n => c * n <= c * x
      /\ c < 0 /\ n <= x => c * x <= c * n
  BY <1>1, ProductGrows, ProductShrinks
<1>3. /\ Clamp(c * x) = INF \/ c * x <= Clamp(c * x)
      /\ Clamp(c * x) = NEGINF \/ Clamp(c * x) <= c * x
  BY <1>1, ClampFacts
<1>4. CASE Finite(c) /\ Finite(x)
  <2>1. MulEp(c, x) = Clamp(c * x)
    BY <1>4 DEF MulEp
  <2> QED
    BY <1>1, <1>2, <1>3, <1>4, <2>1, EndpointFacts DEF Finite
<1>5. CASE Finite(c) /\ ~Finite(x)
  <2>1. x = INF \/ x = NEGINF
    BY <1>5, EndpointFacts DEF Finite
  <2> QED
    BY <1>1, <1>5, <2>1, EndpointFacts DEF MulEp, Finite, InfSign
<1>6. CASE ~Finite(c)
  <2>1. c >= INF \/ c <= NEGINF
    BY <1>6, EndpointFacts DEF Finite
  <2>2. /\ c >= INF => InfSign(c) = 2
        /\ c <= NEGINF => InfSign(c) = -2
    BY EndpointFacts DEF InfSign
  <2>3. /\ x > 0 => InfSign(x) > 0
        /\ x < 0 => InfSign(x) < 0
        /\ x = 0 => InfSign(x) = 0
    BY <1>1, EndpointFacts DEF InfSign
  <2>4. /\ c >= INF => MulEp(c, x) = IF x > 0 THEN INF ELSE IF x < 0 THEN NEGINF ELSE 0
        /\ c <= NEGINF => MulEp(c, x) = IF x > 0 THEN NEGINF ELSE IF x < 0 THEN INF ELSE 0
    BY <1>1, <1>6, <2>2, EndpointFacts DEF MulEp, InfSign
  <2>5. /\ c >= INF /\ n > 0 => c * n >= INF
        /\ c <= -INF /\ n < 0 => c * n >= INF
        /\ c >= INF /\ n < 0 => c * n <= -INF
        /\ c <= -INF /\ n > 0 => c * n <= -INF
        /\ n = 0 => c * n = 0
    BY EndpointFacts, ProductBeyond
  <2> QED
    BY <1>1, <2>1, <2>4, <2>5, EndpointFacts
<1> QED
  BY <1>4, <1>5, <1>6

-----------------------------------------------------------------------------
(* Facts about ranges: the operations yield ranges ... *)

LEMMA ConstantTypes ==
  /\ Empty \in Interval /\ IsEmpty(Empty)
  /\ \A n \in Int : Singleton(n) \in Interval
BY EndpointFacts, ClampFacts DEF Empty, Singleton, Interval, IsEmpty

LEMMA AddType ==
  ASSUME NEW x \in Interval, NEW y \in Interval
  PROVE  Add(x, y) \in Interval
<1>1. /\ AddEp(x.lo, y.lo, NEGINF) \in Endpoint
      /\ AddEp(x.hi, y.hi, INF) \in Endpoint
  BY EndpointFacts, IntervalFacts, AddEpType
<1> QED
  BY <1>1, ConstantTypes DEF Add, Interval

LEMMA MulType ==
  ASSUME NEW c \in Int, NEW y \in Interval
  PROVE  Mul(c, y) \in Interval
<1>1. MulEp(c, y.lo) \in Endpoint /\ MulEp(c, y.hi) \in Endpoint
  BY IntervalFacts, MulEpType
<1> QED
  BY <1>1, ConstantTypes DEF Mul, Interval

LEMMA RMinType ==
  ASSUME NEW x \in Interval, NEW y \in Interval
  PROVE  RMin(x, y) \in Interval
BY IntervalFacts, ConstantTypes DEF RMin, Interval, Lesser

(* ... they grow with their operands ... *)

LEMMA AddMonotone ==
  ASSUME NEW x \in Interval, NEW x2 \in Interval, Leq(x, x2),
         NEW y \in Interval, NEW y2 \in Interval, Leq(y, y2)
  PROVE  Leq(Add(x, y), Add(x2, y2))
<1>1. CASE IsEmpty(x) \/ IsEmpty(y)
  BY <1>1, ConstantTypes DEF Add, Leq
<1>2. CASE ~IsEmpty(x) /\ ~IsEmpty(y)
  <2>1. /\ x2.lo <= x.lo /\ x.hi <= x2.hi /\ ~IsEmpty(x2)
        /\ y2.lo <= y.lo /\ y.hi <= y2.hi /\ ~IsEmpty(y2)
    BY <1>2, IntervalFacts DEF Leq, IsEmpty
  <2>2. AddEp(x2.lo, y2.lo, NEGINF) <= AddEp(x.lo, y.lo, NEGINF)
    BY <2>1, IntervalFacts, AddEpMonotone
  <2>3. AddEp(x.hi, y.hi, INF) <= AddEp(x2.hi, y2.hi, INF)
    BY <2>1, IntervalFacts, AddEpMonotone
  <2> QED
    BY <1>2, <2>1, <2>2, <2>3 DEF Add, Leq
<1> QED
  BY <1>1, <1>2

LEMMA MulMonotone ==
  ASSUME NEW c \in Int, NEW y \in Interval, NEW y2 \in Interval, Leq(y, y2)
  PROVE  Leq(Mul(c, y), Mul(c, y2))
<1>1. CASE IsEmpty(y)
  BY <1>1, ConstantTypes DEF Mul, Leq
<1>2. CASE ~IsEmpty(y)
  <2>1. y2.lo <= y.lo /\ y.hi <= y2.hi /\ ~IsEmpty(y2)
    BY <1>2, IntervalFacts DEF Leq, IsEmpty
  <2>2. CASE c = 0
    BY <1>2, <2>1, <2>2, ConstantTypes, IntervalFacts DEF Mul, Leq
  <2>3. CASE c > 0
    <3>1. /\ MulEp(c, y2.lo) <= MulEp(c, y.lo)
          /\ MulEp(c, y.hi) <= MulEp(c, y2.hi)
      BY <2>1, <2>3, IntervalFacts, MulEpGrows
    <3> QED
      BY <1>2, <2>1, <2>3, <3>1 DEF Mul, Leq
  <2>4. CASE c < 0
    <3>1. /\ MulEp(c, y2.hi) <= MulEp(c, y.hi)
          /\ MulEp(c, y.lo) <= MulEp(c, y2.lo)
      BY <2>1, <2>4, IntervalFacts, MulEpShrinks
    <3> QED
      BY <1>2, <2>1, <2>4, <3>1 DEF Mul, Leq
  <2> QED
    BY <2>2, <2>3, <2>4
<1> QED
  BY <1>1, <1>2

LEMMA RMinMonotone ==
  ASSUME NEW x \in Interval, NEW x2 \in Interval, Leq(x, x2),
         NEW y \in Interval, NEW y2 \in Interval, Leq(y, y2)
  PROVE  Leq(RMin(x, y), RMin(x2, y2))
<1>1. CASE IsEmpty(x) \/ IsEmpty(y)
  BY <1>1, ConstantTypes DEF RMin, Leq
<1>2. CASE ~IsEmpty(x) /\ ~IsEmpty(y)
  <2>1. /\ x2.lo <= x.lo /\ x.hi <= x2.hi /\ ~IsEmpty(x2)
        /\ y2.lo <= y.lo /\ y.hi <= y2.hi /\ ~IsEmpty(y2)
    BY <1>2, IntervalFacts DEF Leq, IsEmpty
  <2> QED
    BY <1>2, <2>1, IntervalFacts DEF RMin, Leq, Lesser
<1> QED
  BY <1>1, <1>2

(* ... and they contain what the operation yields on their members. *)

LEMMA SingletonContains ==
  ASSUME NEW n \in Int
  PROVE  In(n, Singleton(n))
BY EndpointFacts, ClampFacts DEF In, Singleton, Clamp, Lesser, Greater

LEMMA AddContains ==
  ASSUME NEW x \in Interval, NEW y \in Interval, ~IsEmpty(x), ~IsEmpty(y),
         Proper(x), Proper(y),
         NEW a \in Int, NEW b \in Int, In(a, x), In(b, y)
  PROVE  In(a + b, Add(x, y))
<1> DEFINE lo == AddEp(x.lo, y.lo, NEGINF)
           hi == AddEp(x.hi, y.hi, INF)
<1>1. lo = NEGINF \/ lo <= a + b
  <2>1. CASE Finite(x.lo) /\ Finite(y.lo)
    BY <2>1, IntervalFacts, EndpointFacts, ClampFacts DEF In, AddEp, Finite
  <2>2. CASE ~(Finite(x.lo) /\ Finite(y.lo))
    BY <2>2, IntervalFacts, EndpointFacts DEF Proper, AddEp, Finite, InfSign
  <2> QED
    BY <2>1, <2>2
<1>2. hi = INF \/ a + b <= hi
  <2>1. CASE Finite(x.hi) /\ Finite(y.hi)
    BY <2>1, IntervalFacts, EndpointFacts, ClampFacts DEF In, AddEp, Finite
  <2>2. CASE ~(Finite(x.hi) /\ Finite(y.hi))
    BY <2>2, IntervalFacts, EndpointFacts DEF Proper, AddEp, Finite, InfSign
  <2> QED
    BY <2>1, <2>2
<1>3. Add(x, y) = [lo |-> lo, hi |-> hi] /\ lo \in Int /\ hi \in Int
  BY IntervalFacts, EndpointFacts, AddEpType DEF Add
<1> QED
  BY <1>1, <1>2, <1>3 DEF In

LEMMA MulContains ==
  ASSUME NEW c \in Int, NEW y \in Interval, ~IsEmpty(y), Proper(y),
         NEW n \in Int, In(n, y)
  PROVE  In(c * n, Mul(c, y))
<1>1. /\ y.lo < INF /\ (y.lo = NEGINF \/ y.lo <= n)
      /\ y.hi > NEGINF /\ (y.hi = INF \/ n <= y.hi)
  BY IntervalFacts, EndpointFacts DEF In, Proper
<1>2. /\ c * n \in Int
      /\ MulEp(c, y.lo) \in Int /\ MulEp(c, y.hi) \in Int
  BY IntervalFacts, EndpointFacts, MulEpType
<1>3. CASE c = 0
  <2>1. c * n = 0 /\ Mul(c, y) = Singleton(0)
    BY <1>3 DEF Mul
  <2> QED
    BY <2>1, SingletonContains
<1>4. CASE c > 0
  <2>1. /\ MulEp(c, y.lo) = NEGINF \/ MulEp(c, y.lo) <= c * n
        /\ MulEp(c, y.hi) = INF \/ c * n <= MulEp(c, y.hi)
    BY <1>1, <1>4, IntervalFacts, MulEpBounds
  <2>2. Mul(c, y) = [lo |-> MulEp(c, y.lo), hi |-> MulEp(c, y.hi)]
    BY <1>4 DEF Mul
  <2> QED
    BY <1>2, <2>1, <2>2 DEF In
<1>5. CASE c < 0
  <2>1. /\ MulEp(c, y.hi) = NEGINF \/ MulEp(c, y.hi) <= c * n
        /\ MulEp(c, y.lo) = INF \/ c * n <= MulEp(c, y.lo)
    BY <1>1, <1>5, IntervalFacts, MulEpBounds
  <2>2. Mul(c, y) = [lo |-> MulEp(c, y.hi), hi |-> MulEp(c, y.lo)]
    BY <1>5 DEF Mul
  <2> QED
    BY <1>2, <2>1, <2>2 DEF In
<1> QED
  BY <1>3, <1>4, <1>5

LEMMA RMinContains ==
  ASSUME NEW x \in Interval, NEW y \in Interval, ~IsEmpty(x), ~IsEmpty(y),
         NEW a \in Int, NEW b \in Int, In(a, x), In(b, y)
  PROVE  In(Lesser(a, b), RMin(x, y))
BY IntervalFacts, EndpointFacts DEF In, RMin, Lesser

-----------------------------------------------------------------------------
(* What a constraint reads. *)

ItemVar(it) == IF it.item = "term" THEN <<it.var>> ELSE << >>

LEMMA LhsVarsFacts ==
  ASSUME NEW V, NEW c \in ConstraintOver(V)
  PROVE  /\ LhsVars(c) \in Seq(V) /\ Rhs(c) \in V
         /\ c.form = "subset" =>
              /\ \A i \in DOMAIN c.lhs.terms : c.lhs.terms[i][2] \in ToSet(LhsVars(c))
              /\ \A x \in ToSet(LhsVars(c)) : \E i \in DOMAIN c.lhs.terms : x = c.lhs.terms[i][2]
         /\ c.form = "min" =>
              /\ \A i \in DOMAIN c.items :
                   c.items[i].item = "term" => c.items[i].var \in ToSet(LhsVars(c))
              /\ \A x \in ToSet(LhsVars(c)) : \E i \in DOMAIN c.items :
                   c.items[i].item = "term" /\ x = c.items[i].var
<1>1. CASE c \in [form : {"subset"}, lhs : TermOver(V), var : V]
  <2>1. c.form = "subset" /\ c.lhs.terms \in Seq(EntryOver(V)) /\ c.var \in V
    BY <1>1 DEF TermOver
  <2>2. LhsVars(c) = [i \in DOMAIN c.lhs.terms |-> c.lhs.terms[i][2]]
    BY <2>1 DEF LhsVars
  <2>3. \A i \in DOMAIN c.lhs.terms : c.lhs.terms[i][2] \in V
    BY <2>1 DEF EntryOver
  <2> QED
    BY <2>1, <2>2, <2>3 DEF ToSet, Rhs
<1>2. CASE c \in [form : {"min"}, items : Seq(ItemOver(V)), var : V]
  <2>1. c.form = "min" /\ c.items \in Seq(ItemOver(V)) /\ c.var \in V
    BY <1>2
  <2>2. PICK n \in Nat : n = Len(c.items) /\ DOMAIN c.items = 1 .. n
                         /\ \A i \in 1 .. n : c.items[i] \in ItemOver(V)
    BY <2>1
  <2> DEFINE ss == [i \in 1 .. n |-> ItemVar(c.items[i])]
  <2>3. ss \in [1 .. n -> Seq(V)] /\ \A i \in 1 .. n : ss[i] = ItemVar(c.items[i])
    <3> SUFFICES ASSUME NEW i \in 1 .. n
                 PROVE  ItemVar(c.items[i]) \in Seq(V)
      OBVIOUS
    <3>1. CASE c.items[i].item = "term"
      <4>1. c.items[i].var \in V
        BY <2>2, <3>1 DEF ItemOver
      <4>2. <<c.items[i].var>> \in Seq(V)
        BY <4>1
      <4> QED
        BY <3>1, <4>2 DEF ItemVar
    <3> QED
      BY <3>1 DEF ItemVar
  <2>4. LhsVars(c) = FlattenSeq(ss)
    BY <2>1, <2>2 DEF LhsVars, ItemVar
  <2> HIDE DEF ss
  <2>5. /\ FlattenSeq(ss) \in Seq(V)
        /\ \A x : x \in ToSet(FlattenSeq(ss)) <=> \E i \in 1 .. n : x \in ToSet(ss[i])
    BY <2>3, FlattenFacts
  <2>6. ASSUME NEW i \in 1 .. n, c.items[i].item = "term"
        PROVE  c.items[i].var \in ToSet(LhsVars(c))
    <3>1. ss[i] = <<c.items[i].var>>
      BY <2>3, <2>6 DEF ItemVar
    <3>2. c.items[i].var \in ToSet(ss[i])
      BY <3>1 DEF ToSet
    <3> QED
      BY <2>4, <2>5, <3>2
  <2>7. ASSUME NEW x \in ToSet(LhsVars(c))
        PROVE  \E i \in 1 .. n : c.items[i].item = "term" /\ x = c.items[i].var
    <3>1. PICK i \in 1 .. n : x \in ToSet(ss[i])
      BY <2>4, <2>5
    <3>2. ss[i] = ItemVar(c.items[i])
      BY <2>3
    <3>3. c.items[i].item = "term"
      BY <3>1, <3>2 DEF ItemVar, ToSet
    <3>4. x = c.items[i].var
      BY <3>1, <3>2, <3>3 DEF ItemVar, ToSet
    <3> QED
      BY <3>3, <3>4
  <2> QED
    BY <2>1, <2>2, <2>4, <2>5, <2>6, <2>7 DEF Rhs
<1> QED
  BY <1>1, <1>2 DEF ConstraintOver
-----------------------------------------------------------------------------
(* Evaluation accumulates a range item by item.                            *)

(* f is what is accumulated, from base on, when item i turns x to G[i][x]. *)
Runs(f, n, base, G) ==
  /\ f \in [0 .. n -> Interval]
  /\ f[0] = base
  /\ \A k \in 0 .. n - 1 : f[k + 1] = G[k + 1][f[k]]

LEMMA RunsInside ==
  ASSUME NEW n \in Nat, NEW base, NEW G, NEW f, Runs(f, n, base, G),
         NEW S, base \in S, \A i \in 1 .. n : \A x \in S : G[i][x] \in S
  PROVE  f[n] \in S
<1> DEFINE Good == {k \in Nat : k <= n => f[k] \in S}
<1>1. 0 \in Good
  BY DEF Runs
<1>2. \A k \in Nat : k \in Good => k + 1 \in Good
  <2> SUFFICES ASSUME NEW k \in Nat, k + 1 <= n, f[k] \in S
               PROVE  f[k + 1] \in S
    OBVIOUS
  <2>1. k \in 0 .. n - 1 /\ k + 1 \in 1 .. n
    OBVIOUS
  <2> QED
    BY <2>1 DEF Runs
<1>3. Nat \subseteq Good
  <2> HIDE DEF Good
  <2> QED
    BY <1>1, <1>2, SetInduction
<1> QED
  BY <1>3

Grows(n, G, H) ==
  \A i \in 1 .. n : \A x, y \in Interval : Leq(x, y) => Leq(G[i][x], H[i][y])

LEMMA RunsGrow ==
  ASSUME NEW n \in Nat, NEW base \in Interval, NEW G, NEW H, Grows(n, G, H),
         NEW f, Runs(f, n, base, G), NEW h, Runs(h, n, base, H)
  PROVE  Leq(f[n], h[n])
<1> DEFINE Good == {k \in Nat : k <= n => Leq(f[k], h[k])}
<1>1. 0 \in Good
  BY IntervalFacts DEF Runs, Leq
<1>2. \A k \in Nat : k \in Good => k + 1 \in Good
  <2> SUFFICES ASSUME NEW k \in Nat, k + 1 <= n, Leq(f[k], h[k])
               PROVE  Leq(f[k + 1], h[k + 1])
    OBVIOUS
  <2>1. k \in 0 .. n - 1 /\ k \in 0 .. n /\ k + 1 \in 1 .. n
    OBVIOUS
  <2>2. /\ f[k] \in Interval /\ h[k] \in Interval
        /\ f[k + 1] = G[k + 1][f[k]] /\ h[k + 1] = H[k + 1][h[k]]
    BY <2>1 DEF Runs
  <2> QED
    BY <2>1, <2>2 DEF Grows
<1>3. Nat \subseteq Good
  <2> HIDE DEF Good
  <2> QED
    BY <1>1, <1>2, SetInduction
<1> QED
  BY <1>3

LEMMA RunsAgree ==
  ASSUME NEW n \in Nat, NEW base, NEW G,
         NEW f, Runs(f, n, base, G), NEW h, Runs(h, n, base, G)
  PROVE  f[n] = h[n]
<1> DEFINE Good == {k \in Nat : k <= n => f[k] = h[k]}
<1>1. 0 \in Good
  BY DEF Runs
<1>2. \A k \in Nat : k \in Good => k + 1 \in Good
  <2> SUFFICES ASSUME NEW k \in Nat, k + 1 <= n, f[k] = h[k]
               PROVE  f[k + 1] = h[k + 1]
    OBVIOUS
  <2>1. k \in 0 .. n - 1
    OBVIOUS
  <2> QED
    BY <2>1 DEF Runs
<1>3. Nat \subseteq Good
  <2> HIDE DEF Good
  <2> QED
    BY <1>1, <1>2, SetInduction
<1> QED
  BY <1>3

(* What is accumulated is empty when an item in B has emptied it. *)
LEMMA RunsEmpty ==
  ASSUME NEW n \in Nat, NEW base, ~IsEmpty(base), NEW G, NEW f, Runs(f, n, base, G), NEW B,
         \A i \in 1 .. n : \A x \in Interval : IsEmpty(G[i][x]) <=> IsEmpty(x) \/ i \in B
  PROVE  IsEmpty(f[n]) <=> \E i \in 1 .. n : i \in B
<1> DEFINE Good == {k \in Nat : k <= n => (IsEmpty(f[k]) <=> \E i \in 1 .. k : i \in B)}
<1>1. 0 \in Good
  BY DEF Runs
<1>2. \A k \in Nat : k \in Good => k + 1 \in Good
  <2> SUFFICES ASSUME NEW k \in Nat, k + 1 <= n, IsEmpty(f[k]) <=> \E i \in 1 .. k : i \in B
               PROVE  IsEmpty(f[k + 1]) <=> \E i \in 1 .. k + 1 : i \in B
    OBVIOUS
  <2>1. k \in 0 .. n - 1 /\ k \in 0 .. n /\ k + 1 \in 1 .. n
    OBVIOUS
  <2>2. f[k] \in Interval /\ f[k + 1] = G[k + 1][f[k]]
    BY <2>1 DEF Runs
  <2>3. IsEmpty(f[k + 1]) <=> IsEmpty(f[k]) \/ k + 1 \in B
    BY <2>1, <2>2
  <2>4. \A i \in 1 .. k + 1 : i \in 1 .. k \/ i = k + 1
    OBVIOUS
  <2>5. (\A i \in 1 .. k : i \in 1 .. k + 1) /\ k + 1 \in 1 .. k + 1
    OBVIOUS
  <2> QED
    BY <2>3, <2>4, <2>5
<1>3. Nat \subseteq Good
  <2> HIDE DEF Good
  <2> QED
    BY <1>1, <1>2, SetInduction
<1> QED
  BY <1>3

(* What the entries of a term and the items of a minimum do. *)
TermRun(es, r) ==
  [i \in 1 .. Len(es) |-> [x \in Interval |-> Add(x, Mul(es[i][1], r[es[i][2]]))]]

MinRun(items, r) ==
  [i \in 1 .. Len(items) |-> [x \in Interval |-> RMin(x, EvalItem(items[i], r))]]

LEMMA EntryFacts ==
  ASSUME NEW V, NEW es \in Seq(EntryOver(V)), NEW i \in 1 .. Len(es)
  PROVE  es[i][1] \in Int /\ es[i][2] \in V
<1>1. es[i] \in Int \X V
  BY DEF EntryOver
<1> QED
  BY <1>1

LEMMA TermRunType ==
  ASSUME NEW V, NEW es \in Seq(EntryOver(V)), NEW r \in [V -> Interval]
  PROVE  /\ TermRun(es, r) \in [1 .. Len(es) -> [Interval -> Interval]]
         /\ \A i \in 1 .. Len(es) : \A x \in Interval :
              TermRun(es, r)[i][x] = Add(x, Mul(es[i][1], r[es[i][2]]))
<1>1. \A i \in 1 .. Len(es) : \A x \in Interval :
        Add(x, Mul(es[i][1], r[es[i][2]])) \in Interval
  <2> TAKE i \in 1 .. Len(es)
  <2>1. Mul(es[i][1], r[es[i][2]]) \in Interval
    BY EntryFacts, MulType
  <2> QED
    BY <2>1, AddType
<1> QED
  BY <1>1 DEF TermRun

LEMMA ItemType ==
  ASSUME NEW V, NEW it \in ItemOver(V), NEW r \in [V -> Interval]
  PROVE  EvalItem(it, r) \in Interval
<1>1. CASE it.item = "const"
  BY <1>1, ConstantTypes DEF ItemOver, EvalItem
<1>2. CASE it.item # "const"
  <2>1. it.n \in Int /\ it.var \in V
    BY <1>2 DEF ItemOver
  <2> QED
    BY <1>2, <2>1, MulType DEF EvalItem
<1> QED
  BY <1>1, <1>2

LEMMA MinRunType ==
  ASSUME NEW V, NEW items \in Seq(ItemOver(V)), NEW r \in [V -> Interval]
  PROVE  /\ MinRun(items, r) \in [1 .. Len(items) -> [Interval -> Interval]]
         /\ \A i \in 1 .. Len(items) : \A x \in Interval :
              MinRun(items, r)[i][x] = RMin(x, EvalItem(items[i], r))
<1>1. \A i \in 1 .. Len(items) : \A x \in Interval :
        RMin(x, EvalItem(items[i], r)) \in Interval
  <2> TAKE i \in 1 .. Len(items)
  <2>1. items[i] \in ItemOver(V)
    OBVIOUS
  <2> QED
    BY <2>1, ItemType, RMinType
<1> QED
  BY <1>1 DEF MinRun

(* A term adds up its entries ... *)
LEMMA TermFold ==
  ASSUME NEW V, NEW es \in Seq(EntryOver(V)), NEW k0 \in Int, NEW r \in [V -> Interval]
  PROVE  \E f : Runs(f, Len(es), Singleton(k0), TermRun(es, r)) /\ EvalTerm([terms |-> es, konst |-> k0], r) = f[Len(es)]
<1> DEFINE G == TermRun(es, r)
<1>1. PICK n \in Nat : n = Len(es) /\ DOMAIN es = 1 .. n
  OBVIOUS
<1>2. /\ G \in [1 .. n -> [Interval -> Interval]]
      /\ \A i \in 1 .. n : \A x \in Interval : G[i][x] = Add(x, Mul(es[i][1], r[es[i][2]]))
  BY <1>1, TermRunType
<1>3. Singleton(k0) \in Interval
  BY ConstantTypes, EndpointFacts
<1> HIDE DEF G
<1>4. PICK it : Folds(it, n, Singleton(k0), G) /\ it \in [SUBSET (1 .. n) -> Interval]
  BY <1>2, <1>3, FoldExists
<1>5. it = [S \in SUBSET (1 .. n) |->
              IF S = {} THEN Singleton(k0) ELSE Add(it[S \ {Max(S)}], Mul(es[Max(S)][1], r[es[Max(S)][2]]))]
  <2>1. \A S \in SUBSET (1 .. n) : S # {} =>
          G[Max(S)][it[S \ {Max(S)}]] = Add(it[S \ {Max(S)}], Mul(es[Max(S)][1], r[es[Max(S)][2]]))
    <3> SUFFICES ASSUME NEW S \in SUBSET (1 .. n), S # {}
                 PROVE  G[Max(S)][it[S \ {Max(S)}]] = Add(it[S \ {Max(S)}], Mul(es[Max(S)][1], r[es[Max(S)][2]]))
      OBVIOUS
    <3>1. PICK m \in 1 .. n : m = Max(S)
      BY MaxExists
    <3>2. it[S \ {m}] \in Interval
      BY <1>4
    <3> QED
      BY <1>2, <3>1, <3>2
  <2> QED
    BY <1>4, <2>1 DEF Folds
<1> DEFINE R0 == CHOOSE r0 : r0 = [S \in SUBSET (1 .. n) |->
                   IF S = {} THEN Singleton(k0) ELSE Add(r0[S \ {Max(S)}], Mul(es[Max(S)][1], r[es[Max(S)][2]]))]
<1>6. EvalTerm([terms |-> es, konst |-> k0], r) = R0[1 .. n]
  BY <1>1 DEF EvalTerm, FoldLeft, MapThenFoldSet
<1>7. R0 = [S \in SUBSET (1 .. n) |->
              IF S = {} THEN Singleton(k0) ELSE Add(R0[S \ {Max(S)}], Mul(es[Max(S)][1], r[es[Max(S)][2]]))]
  BY <1>5
<1> HIDE DEF R0
<1> DEFINE f == [k \in 0 .. n |-> R0[1 .. k]]
<1>8. f[0] = Singleton(k0)
  <2>1. 1 .. 0 = {} /\ R0[{}] = Singleton(k0)
    BY <1>7
  <2> QED
    BY <2>1
<1>9. \A k \in 0 .. n - 1 : R0[1 .. k + 1] = Add(R0[1 .. k], Mul(es[k + 1][1], r[es[k + 1][2]]))
  <2> SUFFICES ASSUME NEW k \in 0 .. n - 1
               PROVE  R0[1 .. k + 1] = Add(R0[1 .. k], Mul(es[k + 1][1], r[es[k + 1][2]]))
    OBVIOUS
  <2>1. /\ 1 .. k + 1 \in SUBSET (1 .. n) /\ 1 .. k + 1 # {} /\ Max(1 .. k + 1) = k + 1
        /\ (1 .. k + 1) \ {k + 1} = 1 .. k
    BY LastPosition
  <2>2. PICK S \in SUBSET (1 .. n) : S = 1 .. k + 1
    BY <2>1
  <2>3. R0[S] = Add(R0[S \ {Max(S)}], Mul(es[Max(S)][1], r[es[Max(S)][2]]))
    BY <1>7, <2>1, <2>2
  <2> QED
    BY <2>1, <2>2, <2>3
<1> DEFINE Good == {k \in Nat : k <= n =>
                      /\ R0[1 .. k] \in Interval
                      /\ k > 0 => R0[1 .. k] = G[k][R0[1 .. k - 1]]}
<1>10. 0 \in Good
  BY <1>3, <1>8
<1>11. \A k \in Nat : k \in Good => k + 1 \in Good
  <2> SUFFICES ASSUME NEW k \in Nat, k + 1 <= n, R0[1 .. k] \in Interval
               PROVE  /\ R0[1 .. k + 1] \in Interval
                      /\ R0[1 .. k + 1] = G[k + 1][R0[1 .. (k + 1) - 1]]
    OBVIOUS
  <2>1. k \in 0 .. n - 1 /\ k + 1 \in 1 .. n /\ (k + 1) - 1 = k
    OBVIOUS
  <2>2. R0[1 .. k + 1] = G[k + 1][R0[1 .. k]]
    BY <1>2, <1>9, <2>1
  <2>3. G[k + 1] \in [Interval -> Interval]
    BY <1>2, <2>1
  <2> QED
    BY <2>1, <2>2, <2>3
<1>12. Nat \subseteq Good
  <2> HIDE DEF Good
  <2> QED
    BY <1>10, <1>11, SetInduction
<1>13. \A k \in 0 .. n : f[k] \in Interval
  BY <1>12
<1>14. \A k \in 0 .. n - 1 : f[k + 1] = G[k + 1][f[k]]
  <2> SUFFICES ASSUME NEW k \in 0 .. n - 1
               PROVE  f[k + 1] = G[k + 1][f[k]]
    OBVIOUS
  <2>1. k + 1 \in Nat /\ k + 1 <= n /\ k + 1 > 0 /\ (k + 1) - 1 = k
    OBVIOUS
  <2>2. R0[1 .. k + 1] = G[k + 1][R0[1 .. (k + 1) - 1]]
    BY <1>12, <2>1
  <2> QED
    BY <2>1, <2>2
<1>15. f \in [0 .. n -> Interval] /\ f[n] = R0[1 .. n]
  BY <1>13
<1> HIDE DEF f
<1>16. Runs(f, n, Singleton(k0), G)
  BY <1>8, <1>14, <1>15 DEF Runs
<1> QED
  BY <1>1, <1>6, <1>15, <1>16 DEF G

(* ... and a minimum is taken item by item. *)
LEMMA MinFold ==
  ASSUME NEW V, NEW items \in Seq(ItemOver(V)), NEW v, NEW r \in [V -> Interval]
  PROVE  \E f : Runs(f, Len(items), Singleton(INF), MinRun(items, r)) /\ EvalConstraint(MinSubset(items, v), r) = f[Len(items)]
<1> DEFINE G == MinRun(items, r)
<1>1. PICK n \in Nat : n = Len(items) /\ DOMAIN items = 1 .. n
  OBVIOUS
<1>2. /\ G \in [1 .. n -> [Interval -> Interval]]
      /\ \A i \in 1 .. n : \A x \in Interval : G[i][x] = RMin(x, EvalItem(items[i], r))
  BY <1>1, MinRunType
<1>3. Singleton(INF) \in Interval
  BY ConstantTypes, EndpointFacts
<1> HIDE DEF G
<1>4. PICK it : Folds(it, n, Singleton(INF), G) /\ it \in [SUBSET (1 .. n) -> Interval]
  BY <1>2, <1>3, FoldExists
<1>5. it = [S \in SUBSET (1 .. n) |->
              IF S = {} THEN Singleton(INF) ELSE RMin(it[S \ {Max(S)}], EvalItem(items[Max(S)], r))]
  <2>1. \A S \in SUBSET (1 .. n) : S # {} =>
          G[Max(S)][it[S \ {Max(S)}]] = RMin(it[S \ {Max(S)}], EvalItem(items[Max(S)], r))
    <3> SUFFICES ASSUME NEW S \in SUBSET (1 .. n), S # {}
                 PROVE  G[Max(S)][it[S \ {Max(S)}]] = RMin(it[S \ {Max(S)}], EvalItem(items[Max(S)], r))
      OBVIOUS
    <3>1. PICK m \in 1 .. n : m = Max(S)
      BY MaxExists
    <3>2. it[S \ {m}] \in Interval
      BY <1>4
    <3> QED
      BY <1>2, <3>1, <3>2
  <2> QED
    BY <1>4, <2>1 DEF Folds
<1> DEFINE R0 == CHOOSE r0 : r0 = [S \in SUBSET (1 .. n) |->
                   IF S = {} THEN Singleton(INF) ELSE RMin(r0[S \ {Max(S)}], EvalItem(items[Max(S)], r))]
<1>6. EvalConstraint(MinSubset(items, v), r) = R0[1 .. n]
  BY <1>1 DEF EvalConstraint, MinSubset, FoldLeft, MapThenFoldSet
<1>7. R0 = [S \in SUBSET (1 .. n) |->
              IF S = {} THEN Singleton(INF) ELSE RMin(R0[S \ {Max(S)}], EvalItem(items[Max(S)], r))]
  BY <1>5
<1> HIDE DEF R0
<1> DEFINE f == [k \in 0 .. n |-> R0[1 .. k]]
<1>8. f[0] = Singleton(INF)
  <2>1. 1 .. 0 = {} /\ R0[{}] = Singleton(INF)
    BY <1>7
  <2> QED
    BY <2>1
<1>9. \A k \in 0 .. n - 1 : R0[1 .. k + 1] = RMin(R0[1 .. k], EvalItem(items[k + 1], r))
  <2> SUFFICES ASSUME NEW k \in 0 .. n - 1
               PROVE  R0[1 .. k + 1] = RMin(R0[1 .. k], EvalItem(items[k + 1], r))
    OBVIOUS
  <2>1. /\ 1 .. k + 1 \in SUBSET (1 .. n) /\ 1 .. k + 1 # {} /\ Max(1 .. k + 1) = k + 1
        /\ (1 .. k + 1) \ {k + 1} = 1 .. k
    BY LastPosition
  <2>2. PICK S \in SUBSET (1 .. n) : S = 1 .. k + 1
    BY <2>1
  <2>3. R0[S] = RMin(R0[S \ {Max(S)}], EvalItem(items[Max(S)], r))
    BY <1>7, <2>1, <2>2
  <2> QED
    BY <2>1, <2>2, <2>3
<1> DEFINE Good == {k \in Nat : k <= n =>
                      /\ R0[1 .. k] \in Interval
                      /\ k > 0 => R0[1 .. k] = G[k][R0[1 .. k - 1]]}
<1>10. 0 \in Good
  BY <1>3, <1>8
<1>11. \A k \in Nat : k \in Good => k + 1 \in Good
  <2> SUFFICES ASSUME NEW k \in Nat, k + 1 <= n, R0[1 .. k] \in Interval
               PROVE  /\ R0[1 .. k + 1] \in Interval
                      /\ R0[1 .. k + 1] = G[k + 1][R0[1 .. (k + 1) - 1]]
    OBVIOUS
  <2>1. k \in 0 .. n - 1 /\ k + 1 \in 1 .. n /\ (k + 1) - 1 = k
    OBVIOUS
  <2>2. R0[1 .. k + 1] = G[k + 1][R0[1 .. k]]
    BY <1>2, <1>9, <2>1
  <2>3. G[k + 1] \in [Interval -> Interval]
    BY <1>2, <2>1
  <2> QED
    BY <2>1, <2>2, <2>3
<1>12. Nat \subseteq Good
  <2> HIDE DEF Good
  <2> QED
    BY <1>10, <1>11, SetInduction
<1>13. \A k \in 0 .. n : f[k] \in Interval
  BY <1>12
<1>14. \A k \in 0 .. n - 1 : f[k + 1] = G[k + 1][f[k]]
  <2> SUFFICES ASSUME NEW k \in 0 .. n - 1
               PROVE  f[k + 1] = G[k + 1][f[k]]
    OBVIOUS
  <2>1. k + 1 \in Nat /\ k + 1 <= n /\ k + 1 > 0 /\ (k + 1) - 1 = k
    OBVIOUS
  <2>2. R0[1 .. k + 1] = G[k + 1][R0[1 .. (k + 1) - 1]]
    BY <1>12, <2>1
  <2> QED
    BY <2>1, <2>2
<1>15. f \in [0 .. n -> Interval] /\ f[n] = R0[1 .. n]
  BY <1>13
<1> HIDE DEF f
<1>16. Runs(f, n, Singleton(INF), G)
  BY <1>8, <1>14, <1>15 DEF Runs
<1> QED
  BY <1>1, <1>6, <1>15, <1>16 DEF G

-----------------------------------------------------------------------------
(* The ranges of terms and constraints: they are ranges, and an empty one  *)
(* is always the same; they grow with the ranges of the variables; and     *)
(* they depend on the variables of the left-hand side only.                *)

Tidy == {x \in Interval : IsEmpty(x) => x = Empty}

LEMMA SingletonFull ==
  ASSUME NEW n \in Int
  PROVE  ~IsEmpty(Singleton(n))
BY ClampFacts, EndpointFacts DEF Singleton, IsEmpty

(* An empty operand is the bottom, and nothing else makes an empty range. *)
LEMMA AddEmpty ==
  ASSUME NEW x \in Interval, NEW y \in Interval
  PROVE  IsEmpty(Add(x, y)) <=> IsEmpty(x) \/ IsEmpty(y)
<1>1. CASE IsEmpty(x) \/ IsEmpty(y)
  BY <1>1, ConstantTypes DEF Add
<1>2. CASE ~IsEmpty(x) /\ ~IsEmpty(y)
  <2>1. x.lo <= x.hi /\ y.lo <= y.hi
    BY <1>2, IntervalFacts DEF IsEmpty
  <2>2. AddEp(x.lo, y.lo, NEGINF) <= AddEp(x.hi, y.hi, NEGINF)
    BY <2>1, IntervalFacts, AddEpMonotone
  <2>3. AddEp(x.hi, y.hi, NEGINF) <= AddEp(x.hi, y.hi, INF)
    BY IntervalFacts, EndpointFacts, ClampFacts DEF AddEp
  <2>4. /\ AddEp(x.lo, y.lo, NEGINF) \in Int
        /\ AddEp(x.hi, y.hi, NEGINF) \in Int
        /\ AddEp(x.hi, y.hi, INF) \in Int
    BY IntervalFacts, EndpointFacts, AddEpType
  <2>5. AddEp(x.lo, y.lo, NEGINF) <= AddEp(x.hi, y.hi, INF)
    BY <2>2, <2>3, <2>4
  <2> QED
    BY <1>2, <2>4, <2>5 DEF Add, IsEmpty
<1> QED
  BY <1>1, <1>2

LEMMA MulEmpty ==
  ASSUME NEW c \in Int, NEW y \in Interval
  PROVE  IsEmpty(Mul(c, y)) <=> IsEmpty(y)
<1>1. CASE IsEmpty(y)
  BY <1>1, ConstantTypes DEF Mul
<1>2. CASE ~IsEmpty(y)
  <2>1. y.lo <= y.hi /\ y.lo \in Endpoint /\ y.hi \in Endpoint
    BY <1>2, IntervalFacts DEF IsEmpty
  <2>2. MulEp(c, y.lo) \in Int /\ MulEp(c, y.hi) \in Int
    BY <2>1, MulEpType, EndpointFacts
  <2>3. CASE c = 0
    <3>1. Mul(c, y) = Singleton(0)
      BY <1>2, <2>3 DEF Mul
    <3> QED
      BY <1>2, <3>1, SingletonFull
  <2>4. CASE c > 0
    <3>1. MulEp(c, y.lo) <= MulEp(c, y.hi)
      BY <2>1, <2>4, MulEpGrows
    <3> QED
      BY <1>2, <2>2, <2>4, <3>1 DEF Mul, IsEmpty
  <2>5. CASE c < 0
    <3>1. MulEp(c, y.hi) <= MulEp(c, y.lo)
      BY <2>1, <2>5, MulEpShrinks
    <3> QED
      BY <1>2, <2>2, <2>5, <3>1 DEF Mul, IsEmpty
  <2> QED
    BY <2>3, <2>4, <2>5
<1> QED
  BY <1>1, <1>2

LEMMA RMinEmpty ==
  ASSUME NEW x \in Interval, NEW y \in Interval
  PROVE  IsEmpty(RMin(x, y)) <=> IsEmpty(x) \/ IsEmpty(y)
<1>1. CASE IsEmpty(x) \/ IsEmpty(y)
  BY <1>1, ConstantTypes DEF RMin
<1>2. CASE ~IsEmpty(x) /\ ~IsEmpty(y)
  BY <1>2, IntervalFacts DEF RMin, IsEmpty, Lesser
<1> QED
  BY <1>1, <1>2

LEMMA AddTidy ==
  ASSUME NEW x \in Interval, NEW y \in Interval
  PROVE  Add(x, y) \in Tidy
BY AddEmpty, AddType DEF Add, Tidy

LEMMA RMinTidy ==
  ASSUME NEW x \in Interval, NEW y \in Interval
  PROVE  RMin(x, y) \in Tidy
BY RMinEmpty, RMinType DEF RMin, Tidy

(* t is made of its parts. *)
LEMMA TermParts ==
  ASSUME NEW V, NEW t \in TermOver(V)
  PROVE  /\ t.terms \in Seq(EntryOver(V)) /\ t.konst \in Int
         /\ t = [terms |-> t.terms, konst |-> t.konst]
BY DEF TermOver

LEMMA EvalTermType ==
  ASSUME NEW V, NEW t \in TermOver(V), NEW r \in [V -> Interval]
  PROVE  EvalTerm(t, r) \in Tidy /\ EvalTerm(t, r) \in Interval
<1>1. PICK n \in Nat : n = Len(t.terms)
  BY TermParts
<1>2. PICK f : Runs(f, n, Singleton(t.konst), TermRun(t.terms, r)) /\ EvalTerm(t, r) = f[n]
  BY <1>1, TermParts, TermFold
<1>3. Singleton(t.konst) \in Tidy
  BY TermParts, ConstantTypes, ClampFacts, EndpointFacts DEF Tidy, Singleton, IsEmpty
<1>4. \A i \in 1 .. n : \A x \in Tidy : TermRun(t.terms, r)[i][x] \in Tidy
  <2> SUFFICES ASSUME NEW i \in 1 .. n, NEW x \in Interval
               PROVE  TermRun(t.terms, r)[i][x] \in Tidy
    BY DEF Tidy
  <2>1. t.terms[i][1] \in Int /\ t.terms[i][2] \in V
    BY <1>1, TermParts, EntryFacts
  <2>2. Mul(t.terms[i][1], r[t.terms[i][2]]) \in Interval
    BY <2>1, MulType
  <2>3. TermRun(t.terms, r)[i][x] = Add(x, Mul(t.terms[i][1], r[t.terms[i][2]]))
    BY <1>1, TermParts, TermRunType
  <2> QED
    BY <2>2, <2>3, AddTidy
<1>5. f[n] \in Tidy
  BY <1>2, <1>3, <1>4, RunsInside
<1> QED
  BY <1>2, <1>5 DEF Tidy

LEMMA EvalTermMonotone ==
  ASSUME NEW V, NEW t \in TermOver(V), NEW r \in [V -> Interval], NEW s \in [V -> Interval],
         \A v \in V : Leq(r[v], s[v])
  PROVE  Leq(EvalTerm(t, r), EvalTerm(t, s))
<1>1. PICK n \in Nat : n = Len(t.terms)
  BY TermParts
<1>2. PICK f : Runs(f, n, Singleton(t.konst), TermRun(t.terms, r)) /\ EvalTerm(t, r) = f[n]
  BY <1>1, TermParts, TermFold
<1>3. PICK h : Runs(h, n, Singleton(t.konst), TermRun(t.terms, s)) /\ EvalTerm(t, s) = h[n]
  BY <1>1, TermParts, TermFold
<1>4. Grows(n, TermRun(t.terms, r), TermRun(t.terms, s))
  <2> SUFFICES ASSUME NEW i \in 1 .. n, NEW x \in Interval, NEW y \in Interval, Leq(x, y)
               PROVE  Leq(TermRun(t.terms, r)[i][x], TermRun(t.terms, s)[i][y])
    BY DEF Grows
  <2>1. PICK c \in Int, v \in V : c = t.terms[i][1] /\ v = t.terms[i][2]
    BY <1>1, TermParts, EntryFacts
  <2>2. Mul(c, r[v]) \in Interval /\ Mul(c, s[v]) \in Interval
    BY MulType
  <2>3. Leq(Mul(c, r[v]), Mul(c, s[v]))
    BY MulMonotone
  <2>4. Leq(Add(x, Mul(c, r[v])), Add(y, Mul(c, s[v])))
    BY <2>2, <2>3, AddMonotone
  <2>5. /\ TermRun(t.terms, r)[i][x] = Add(x, Mul(c, r[v]))
        /\ TermRun(t.terms, s)[i][y] = Add(y, Mul(c, s[v]))
    BY <1>1, <2>1, TermParts, TermRunType
  <2> QED
    BY <2>4, <2>5
<1> QED
  BY <1>2, <1>3, <1>4, TermParts, ConstantTypes, RunsGrow

LEMMA EvalTermAgrees ==
  ASSUME NEW V, NEW t \in TermOver(V), NEW r \in [V -> Interval], NEW s \in [V -> Interval],
         \A i \in DOMAIN t.terms : r[t.terms[i][2]] = s[t.terms[i][2]]
  PROVE  EvalTerm(t, r) = EvalTerm(t, s)
<1>1. PICK n \in Nat : n = Len(t.terms) /\ DOMAIN t.terms = 1 .. n
  BY TermParts
<1>2. TermRun(t.terms, r) = TermRun(t.terms, s)
  BY <1>1 DEF TermRun
<1>3. PICK f : Runs(f, n, Singleton(t.konst), TermRun(t.terms, r)) /\ EvalTerm(t, r) = f[n]
  BY <1>1, TermParts, TermFold
<1>4. PICK h : Runs(h, n, Singleton(t.konst), TermRun(t.terms, s)) /\ EvalTerm(t, s) = h[n]
  BY <1>1, TermParts, TermFold
<1>5. Runs(h, n, Singleton(t.konst), TermRun(t.terms, r))
  BY <1>2, <1>4
<1>6. f[n] = h[n]
  BY <1>3, <1>5, RunsAgree
<1> QED
  BY <1>3, <1>4, <1>6

(* A constraint is of one of the two forms. *)
LEMMA ConstraintForms ==
  ASSUME NEW V, NEW c \in ConstraintOver(V)
  PROVE  \/ c.form = "subset" /\ c.lhs \in TermOver(V) /\ c.var \in V
            /\ c = Subset(c.lhs, c.var)
         \/ c.form = "min" /\ c.items \in Seq(ItemOver(V)) /\ c.var \in V
            /\ c = MinSubset(c.items, c.var)
BY DEF ConstraintOver, Subset, MinSubset

LEMMA EvalType ==
  ASSUME NEW V, NEW c \in ConstraintOver(V), NEW r \in [V -> Interval]
  PROVE  EvalConstraint(c, r) \in Interval
<1>1. CASE c.form = "subset" /\ c.lhs \in TermOver(V)
  BY <1>1, EvalTermType DEF EvalConstraint
<1>2. CASE c.items \in Seq(ItemOver(V)) /\ c = MinSubset(c.items, c.var)
  <2>1. PICK n \in Nat : n = Len(c.items)
    BY <1>2
  <2>2. PICK f : Runs(f, n, Singleton(INF), MinRun(c.items, r)) /\ EvalConstraint(c, r) = f[n]
    BY <1>2, <2>1, MinFold
  <2>3. n \in 0 .. n
    OBVIOUS
  <2> QED
    BY <2>2, <2>3 DEF Runs
<1> QED
  BY <1>1, <1>2, ConstraintForms

LEMMA EvalTermEmpty ==
  ASSUME NEW V, NEW t \in TermOver(V), NEW r \in [V -> Interval]
  PROVE  IsEmpty(EvalTerm(t, r)) <=> \E i \in DOMAIN t.terms : IsEmpty(r[t.terms[i][2]])
<1>1. PICK n \in Nat : n = Len(t.terms) /\ DOMAIN t.terms = 1 .. n
  BY TermParts
<1>2. PICK f : Runs(f, n, Singleton(t.konst), TermRun(t.terms, r)) /\ EvalTerm(t, r) = f[n]
  BY <1>1, TermParts, TermFold
<1> DEFINE B == {i \in 1 .. n : IsEmpty(r[t.terms[i][2]])}
<1>3. ~IsEmpty(Singleton(t.konst))
  BY TermParts, SingletonFull
<1>4. ASSUME NEW i \in 1 .. n, NEW x \in Interval
      PROVE  IsEmpty(TermRun(t.terms, r)[i][x]) <=> IsEmpty(x) \/ i \in B
  <2>1. t.terms[i][1] \in Int /\ t.terms[i][2] \in V
    BY <1>1, TermParts, EntryFacts
  <2>2. Mul(t.terms[i][1], r[t.terms[i][2]]) \in Interval
    BY <2>1, MulType
  <2>3. TermRun(t.terms, r)[i][x] = Add(x, Mul(t.terms[i][1], r[t.terms[i][2]]))
    BY <1>1, TermParts, TermRunType
  <2> QED
    BY <2>1, <2>2, <2>3, AddEmpty, MulEmpty
<1> HIDE DEF B
<1>5. IsEmpty(f[n]) <=> \E i \in 1 .. n : i \in B
  BY <1>2, <1>3, <1>4, RunsEmpty
<1> QED
  BY <1>1, <1>2, <1>5 DEF B

(* A constraint sends nothing exactly when it reads a variable that has    *)
(* nothing.                                                                *)
LEMMA EvalEmpty ==
  ASSUME NEW V, NEW c \in ConstraintOver(V), NEW r \in [V -> Interval]
  PROVE  IsEmpty(EvalConstraint(c, r)) <=> \E x \in ToSet(LhsVars(c)) : IsEmpty(r[x])
<1>1. CASE c.form = "subset" /\ c.lhs \in TermOver(V)
  <2>1. IsEmpty(EvalConstraint(c, r)) <=> \E i \in DOMAIN c.lhs.terms : IsEmpty(r[c.lhs.terms[i][2]])
    BY <1>1, EvalTermEmpty DEF EvalConstraint
  <2> QED
    BY <1>1, <2>1, LhsVarsFacts
<1>2. CASE c.form = "min" /\ c.items \in Seq(ItemOver(V)) /\ c = MinSubset(c.items, c.var)
  <2>1. PICK n \in Nat : n = Len(c.items) /\ DOMAIN c.items = 1 .. n
                         /\ \A i \in 1 .. n : c.items[i] \in ItemOver(V)
    BY <1>2
  <2>2. PICK f : Runs(f, n, Singleton(INF), MinRun(c.items, r)) /\ EvalConstraint(c, r) = f[n]
    BY <1>2, <2>1, MinFold
  <2> DEFINE B == {i \in 1 .. n : c.items[i].item = "term" /\ IsEmpty(r[c.items[i].var])}
  <2>3. ~IsEmpty(Singleton(INF))
    BY SingletonFull, EndpointFacts
  <2>4. ASSUME NEW i \in 1 .. n
        PROVE  IsEmpty(EvalItem(c.items[i], r)) <=> i \in B
    <3>1. CASE c.items[i].item = "const"
      <4>1. c.items[i].n \in Int
        BY <2>1, <3>1 DEF ItemOver
      <4> QED
        BY <3>1, <4>1, SingletonFull DEF EvalItem
    <3>2. CASE c.items[i].item = "term"
      <4>1. c.items[i].n \in Int /\ c.items[i].var \in V
        BY <2>1, <3>2 DEF ItemOver
      <4> QED
        BY <3>2, <4>1, MulEmpty DEF EvalItem
    <3> QED
      BY <2>1, <3>1, <3>2 DEF ItemOver
  <2> HIDE DEF B
  <2>5. ASSUME NEW i \in 1 .. n, NEW x \in Interval
        PROVE  IsEmpty(MinRun(c.items, r)[i][x]) <=> IsEmpty(x) \/ i \in B
    <3>1. EvalItem(c.items[i], r) \in Interval
      BY <2>1, ItemType
    <3>2. MinRun(c.items, r)[i][x] = RMin(x, EvalItem(c.items[i], r))
      BY <1>2, <2>1, MinRunType
    <3> QED
      BY <2>4, <3>1, <3>2, RMinEmpty
  <2>6. IsEmpty(f[n]) <=> \E i \in 1 .. n : i \in B
    BY <2>2, <2>3, <2>5, RunsEmpty
  <2>7. (\E i \in 1 .. n : i \in B) <=> \E x \in ToSet(LhsVars(c)) : IsEmpty(r[x])
    BY <1>2, <2>1, LhsVarsFacts DEF B
  <2> QED
    BY <2>2, <2>6, <2>7
<1> QED
  BY <1>1, <1>2, ConstraintForms

(* The range of a constraint, too, is empty in one way only. *)
LEMMA EvalTidy ==
  ASSUME NEW V, NEW c \in ConstraintOver(V), NEW r \in [V -> Interval]
  PROVE  EvalConstraint(c, r) \in Tidy
<1>1. CASE c.form = "subset" /\ c.lhs \in TermOver(V)
  BY <1>1, EvalTermType DEF EvalConstraint
<1>2. CASE c.items \in Seq(ItemOver(V)) /\ c = MinSubset(c.items, c.var)
  <2>1. PICK n \in Nat : n = Len(c.items) /\ \A i \in 1 .. n : c.items[i] \in ItemOver(V)
    BY <1>2
  <2>2. PICK f : Runs(f, n, Singleton(INF), MinRun(c.items, r)) /\ EvalConstraint(c, r) = f[n]
    BY <1>2, <2>1, MinFold
  <2>3. Singleton(INF) \in Tidy
    BY ConstantTypes, ClampFacts, EndpointFacts DEF Tidy, Singleton, IsEmpty
  <2>4. \A i \in 1 .. n : \A x \in Tidy : MinRun(c.items, r)[i][x] \in Tidy
    <3> SUFFICES ASSUME NEW i \in 1 .. n, NEW x \in Interval
                 PROVE  MinRun(c.items, r)[i][x] \in Tidy
      BY DEF Tidy
    <3>1. EvalItem(c.items[i], r) \in Interval
      BY <2>1, ItemType
    <3>2. RMin(x, EvalItem(c.items[i], r)) \in Tidy
      BY <3>1, RMinTidy
    <3>3. MinRun(c.items, r)[i][x] = RMin(x, EvalItem(c.items[i], r))
      BY <1>2, <2>1, MinRunType
    <3> QED
      BY <3>2, <3>3
  <2> QED
    BY <2>2, <2>3, <2>4, RunsInside
<1> QED
  BY <1>1, <1>2, ConstraintForms

LEMMA EvalMonotone ==
  ASSUME NEW V, NEW c \in ConstraintOver(V), NEW r \in [V -> Interval], NEW s \in [V -> Interval],
         \A v \in V : Leq(r[v], s[v])
  PROVE  Leq(EvalConstraint(c, r), EvalConstraint(c, s))
<1>1. CASE c.form = "subset" /\ c.lhs \in TermOver(V)
  BY <1>1, EvalTermMonotone DEF EvalConstraint
<1>2. CASE c.items \in Seq(ItemOver(V)) /\ c = MinSubset(c.items, c.var)
  <2>1. PICK n \in Nat : n = Len(c.items) /\ \A i \in 1 .. n : c.items[i] \in ItemOver(V)
    BY <1>2
  <2>2. PICK f : Runs(f, n, Singleton(INF), MinRun(c.items, r)) /\ EvalConstraint(c, r) = f[n]
    BY <1>2, <2>1, MinFold
  <2>3. PICK h : Runs(h, n, Singleton(INF), MinRun(c.items, s)) /\ EvalConstraint(c, s) = h[n]
    BY <1>2, <2>1, MinFold
  <2>4. ASSUME NEW i \in 1 .. n
        PROVE  Leq(EvalItem(c.items[i], r), EvalItem(c.items[i], s))
    <3>1. CASE c.items[i].item = "const"
      BY <2>1, <3>1, ConstantTypes, IntervalFacts DEF EvalItem, Leq, ItemOver
    <3>2. CASE c.items[i].item # "const"
      <4>1. c.items[i].n \in Int /\ c.items[i].var \in V
        BY <2>1, <3>2 DEF ItemOver
      <4> QED
        BY <3>2, <4>1, MulMonotone DEF EvalItem
    <3> QED
      BY <3>1, <3>2
  <2>5. Grows(n, MinRun(c.items, r), MinRun(c.items, s))
    <3> SUFFICES ASSUME NEW i \in 1 .. n, NEW x \in Interval, NEW y \in Interval, Leq(x, y)
                 PROVE  Leq(MinRun(c.items, r)[i][x], MinRun(c.items, s)[i][y])
      BY DEF Grows
    <3>1. EvalItem(c.items[i], r) \in Interval /\ EvalItem(c.items[i], s) \in Interval
      BY <2>1, ItemType
    <3>2. Leq(RMin(x, EvalItem(c.items[i], r)), RMin(y, EvalItem(c.items[i], s)))
      BY <2>4, <3>1, RMinMonotone
    <3>3. /\ MinRun(c.items, r)[i][x] = RMin(x, EvalItem(c.items[i], r))
          /\ MinRun(c.items, s)[i][y] = RMin(y, EvalItem(c.items[i], s))
      BY <1>2, <2>1, MinRunType
    <3> QED
      BY <3>2, <3>3
  <2>6. Singleton(INF) \in Interval
    BY ConstantTypes, EndpointFacts
  <2> QED
    BY <2>2, <2>3, <2>5, <2>6, RunsGrow
<1> QED
  BY <1>1, <1>2, ConstraintForms

LEMMA EvalAgrees ==
  ASSUME NEW V, NEW c \in ConstraintOver(V), NEW r \in [V -> Interval], NEW s \in [V -> Interval],
         \A v \in ToSet(LhsVars(c)) : r[v] = s[v]
  PROVE  EvalConstraint(c, r) = EvalConstraint(c, s)
<1>1. CASE c.form = "subset" /\ c.lhs \in TermOver(V)
  <2>1. \A i \in DOMAIN c.lhs.terms : r[c.lhs.terms[i][2]] = s[c.lhs.terms[i][2]]
    BY <1>1, LhsVarsFacts
  <2> QED
    BY <1>1, <2>1, EvalTermAgrees DEF EvalConstraint
<1>2. CASE c.form = "min" /\ c.items \in Seq(ItemOver(V)) /\ c = MinSubset(c.items, c.var)
  <2>1. PICK n \in Nat : n = Len(c.items) /\ DOMAIN c.items = 1 .. n
                         /\ \A i \in 1 .. n : c.items[i] \in ItemOver(V)
    BY <1>2
  <2>2. PICK f : Runs(f, n, Singleton(INF), MinRun(c.items, r)) /\ EvalConstraint(c, r) = f[n]
    BY <1>2, <2>1, MinFold
  <2>3. PICK h : Runs(h, n, Singleton(INF), MinRun(c.items, s)) /\ EvalConstraint(c, s) = h[n]
    BY <1>2, <2>1, MinFold
  <2>4. \A i \in 1 .. n : EvalItem(c.items[i], r) = EvalItem(c.items[i], s)
    <3> TAKE i \in 1 .. n
    <3>1. c.items[i].item = "const" \/ c.items[i].item = "term"
      BY <2>1 DEF ItemOver
    <3>2. c.items[i].item = "term" => c.items[i].var \in ToSet(LhsVars(c))
      BY <1>2, <2>1, LhsVarsFacts
    <3> QED
      BY <3>1, <3>2 DEF EvalItem
  <2>5. MinRun(c.items, r) = MinRun(c.items, s)
    BY <2>1, <2>4 DEF MinRun
  <2>6. Runs(h, n, Singleton(INF), MinRun(c.items, r))
    BY <2>3, <2>5
  <2>7. f[n] = h[n]
    BY <2>2, <2>6, RunsAgree
  <2> QED
    BY <2>2, <2>3, <2>7
<1> QED
  BY <1>1, <1>2, ConstraintForms

(* A query that fails for some ranges fails for wider ones. *)
LEMMA FailureGrows ==
  ASSUME NEW a \in Tidy, NEW b \in Tidy, NEW a2 \in Interval, NEW b2 \in Interval,
         Leq(a, a2), Leq(b, b2), ~EpGe(a.lo, b.hi)
  PROVE  ~EpGe(a2.lo, b2.hi)
<1>1. ~IsEmpty(a)
  BY ConstantTypes, EndpointFacts DEF Tidy, Empty, EpGe
<1>2. ~IsEmpty(b)
  BY ConstantTypes, EndpointFacts, IntervalFacts DEF Tidy, Empty, EpGe, Finite
<1>3. a2.lo <= a.lo /\ b.hi <= b2.hi
  BY <1>1, <1>2 DEF Leq
<1>4. a \in Interval /\ b \in Interval
  BY DEF Tidy
<1> QED
  BY <1>3, <1>4, IntervalFacts, EndpointFacts DEF EpGe, Finite

-----------------------------------------------------------------------------
(* The terms that the operations build. *)

LEMMA AddEntryType ==
  ASSUME NEW V, NEW s \in Seq(EntryOver(V)), NEW e \in EntryOver(V)
  PROVE  AddEntry(s, e) \in Seq(EntryOver(V))
<1> DEFINE slots == {i \in DOMAIN s : s[i][2] = e[2] /\ SameSign(s[i][1], e[1])}
<1>1. CASE slots = {}
  <2>1. AddEntry(s, e) = Append(s, e)
    BY <1>1 DEF AddEntry
  <2> QED
    BY <2>1
<1>2. CASE slots # {}
  <2>1. slots \in SUBSET (1 .. Len(s)) /\ Len(s) \in Nat
    OBVIOUS
  <2>2. PICK i \in slots : \A k \in slots : i <= k
    <3> HIDE DEF slots
    <3> QED
      BY <1>2, <2>1, LeastExists
  <2> DEFINE j == CHOOSE x \in slots : \A k \in slots : x <= k
  <2>3. j \in slots
    <3> HIDE DEF slots
    <3> QED
      BY <2>2
  <2>4. AddEntry(s, e) = [s EXCEPT ![j][1] = @ + e[1]]
    BY <1>2 DEF AddEntry
  <2>5. j \in 1 .. Len(s) /\ s[j] \in EntryOver(V)
    BY <2>1, <2>3
  <2> HIDE DEF j
  <2>6. [s[j] EXCEPT ![1] = @ + e[1]] \in EntryOver(V)
    <3>1. PICK c \in Int, v \in V : s[j] = <<c, v>>
      <4>1. \A x \in Int \X V : \E c \in Int, v \in V : x = <<c, v>>
        OBVIOUS
      <4> QED
        BY <2>5, <4>1 DEF EntryOver
    <3>2. e[1] \in Int
      BY DEF EntryOver
    <3>3. [<<c, v>> EXCEPT ![1] = c + e[1]] = <<c + e[1], v>>
      OBVIOUS
    <3>4. [s[j] EXCEPT ![1] = @ + e[1]] = <<c + e[1], v>>
      BY <3>1, <3>3
    <3> QED
      BY <3>2, <3>4 DEF EntryOver
  <2>7. AddEntry(s, e) = [s EXCEPT ![j] = [s[j] EXCEPT ![1] = @ + e[1]]]
    BY <2>4
  <2> QED
    BY <2>5, <2>6, <2>7
<1> QED
  BY <1>1, <1>2

Entries(s, t) == FoldLeft(AddEntry, s, t)

(* AddTerms takes the entries of its second operand one by one. *)
LEMMA AddEntriesSteps ==
  ASSUME NEW V, NEW s \in Seq(EntryOver(V)), NEW t \in Seq(EntryOver(V))
  PROVE  \E f \in [0 .. Len(t) -> Seq(EntryOver(V))] :
            /\ f[0] = s
            /\ \A k \in 0 .. Len(t) - 1 : f[k + 1] = AddEntry(f[k], t[k + 1])
            /\ Entries(s, t) = f[Len(t)]
<1> DEFINE T == Seq(EntryOver(V))
<1>1. PICK n \in Nat : n = Len(t) /\ DOMAIN t = 1 .. n /\ \A i \in 1 .. n : t[i] \in EntryOver(V)
  OBVIOUS
<1> DEFINE G == [i \in 1 .. n |-> [x \in T |-> AddEntry(x, t[i])]]
<1>2. \A i \in 1 .. n, x \in T : AddEntry(x, t[i]) \in T
  BY <1>1, AddEntryType
<1> HIDE DEF T
<1>3. G \in [1 .. n -> [T -> T]] /\ \A i \in 1 .. n, x \in T : G[i][x] = AddEntry(x, t[i])
  BY <1>2
<1> HIDE DEF G
<1>4. s \in T
  BY DEF T
<1>5. PICK it : Folds(it, n, s, G) /\ it \in [SUBSET (1 .. n) -> T]
  BY <1>3, <1>4, FoldExists
<1>6. it = [S \in SUBSET (1 .. n) |-> IF S = {} THEN s ELSE AddEntry(it[S \ {Max(S)}], t[Max(S)])]
  <2>1. \A S \in SUBSET (1 .. n) : S # {} =>
          G[Max(S)][it[S \ {Max(S)}]] = AddEntry(it[S \ {Max(S)}], t[Max(S)])
    <3> SUFFICES ASSUME NEW S \in SUBSET (1 .. n), S # {}
                 PROVE  G[Max(S)][it[S \ {Max(S)}]] = AddEntry(it[S \ {Max(S)}], t[Max(S)])
      OBVIOUS
    <3>1. PICK m \in 1 .. n : m = Max(S)
      BY MaxExists
    <3>2. it[S \ {m}] \in T
      BY <1>5
    <3> QED
      BY <1>3, <3>1, <3>2
  <2> QED
    BY <1>5, <2>1 DEF Folds
<1> DEFINE R0 == CHOOSE r : r = [S \in SUBSET (1 .. n) |-> IF S = {} THEN s
                                    ELSE AddEntry(r[S \ {Max(S)}], t[Max(S)])]
<1>7. Entries(s, t) = R0[1 .. n]
  BY <1>1 DEF Entries, FoldLeft, MapThenFoldSet
<1>8. R0 = [S \in SUBSET (1 .. n) |-> IF S = {} THEN s ELSE AddEntry(R0[S \ {Max(S)}], t[Max(S)])]
  BY <1>6
<1> HIDE DEF R0
<1> DEFINE f == [k \in 0 .. n |-> R0[1 .. k]]
<1>9. f[0] = s
  <2>1. 1 .. 0 = {} /\ R0[{}] = s
    BY <1>8
  <2> QED
    BY <2>1
<1>10. \A k \in 0 .. n - 1 : f[k + 1] = AddEntry(f[k], t[k + 1])
  <2> SUFFICES ASSUME NEW k \in 0 .. n - 1
               PROVE  R0[1 .. k + 1] = AddEntry(R0[1 .. k], t[k + 1])
    OBVIOUS
  <2>1. /\ 1 .. k + 1 \in SUBSET (1 .. n) /\ 1 .. k + 1 # {} /\ Max(1 .. k + 1) = k + 1
        /\ (1 .. k + 1) \ {k + 1} = 1 .. k
    BY LastPosition
  <2>2. PICK S \in SUBSET (1 .. n) : S = 1 .. k + 1
    BY <2>1
  <2>3. R0[S] = AddEntry(R0[S \ {Max(S)}], t[Max(S)])
    BY <1>8, <2>1, <2>2
  <2> QED
    BY <2>1, <2>2, <2>3
<1>11. f \in [0 .. n -> T]
  <2> DEFINE Good == {k \in Nat : k <= n => R0[1 .. k] \in T}
  <2>1. 0 \in Good
    BY <1>4, <1>9
  <2>2. \A k \in Nat : k \in Good => k + 1 \in Good
    <3> SUFFICES ASSUME NEW k \in Nat, k \in Good, k + 1 <= n
                 PROVE  R0[1 .. k + 1] \in T
      OBVIOUS
    <3>1. k \in 0 .. n - 1 /\ k + 1 \in 1 .. n /\ k <= n
      OBVIOUS
    <3>0. R0[1 .. k] \in T
      BY <3>1
    <3>2. f[k] = R0[1 .. k] /\ f[k + 1] = R0[1 .. k + 1]
      BY <3>1
    <3>3. f[k + 1] = AddEntry(f[k], t[k + 1])
      BY <1>10, <3>1
    <3> HIDE DEF f
    <3> QED
      BY <1>2, <3>0, <3>1, <3>2, <3>3
  <2>3. Nat \subseteq Good
    <3> HIDE DEF Good
    <3> QED
      BY <2>1, <2>2, SetInduction
  <2> QED
    BY <2>3
<1>12. Entries(s, t) = f[n]
  BY <1>7
<1> HIDE DEF f
<1> QED
  BY <1>1, <1>9, <1>10, <1>11, <1>12 DEF T


LEMMA AddEntriesType ==
  ASSUME NEW V, NEW s \in Seq(EntryOver(V)), NEW t \in Seq(EntryOver(V))
  PROVE  Entries(s, t) \in Seq(EntryOver(V))
<1>1. PICK f \in [0 .. Len(t) -> Seq(EntryOver(V))] : Entries(s, t) = f[Len(t)]
  BY AddEntriesSteps
<1>2. Len(t) \in 0 .. Len(t)
  OBVIOUS
<1> QED
  BY <1>1, <1>2

LEMMA AddTermsType ==
  ASSUME NEW V, NEW s \in TermOver(V), NEW t \in TermOver(V)
  PROVE  AddTerms(s, t) \in TermOver(V)
<1>1. s.terms \in Seq(EntryOver(V)) /\ t.terms \in Seq(EntryOver(V)) /\ s.konst \in Int /\ t.konst \in Int
  BY DEF TermOver
<1>2. Entries(s.terms, t.terms) \in Seq(EntryOver(V))
  BY <1>1, AddEntriesType
<1> QED
  BY <1>1, <1>2 DEF AddTerms, Entries, TermOver

LEMMA ScaleType ==
  ASSUME NEW V, NEW t \in TermOver(V), NEW c \in Int
  PROVE  Scale(t, c) \in TermOver(V)
<1>1. t.terms \in Seq(EntryOver(V)) /\ t.konst \in Int
  BY DEF TermOver
<1>2. PICK n \in Nat : DOMAIN t.terms = 1 .. n /\ \A i \in 1 .. n : t.terms[i] \in EntryOver(V)
  BY <1>1
<1>3. \A i \in 1 .. n : <<c * t.terms[i][1], t.terms[i][2]>> \in EntryOver(V)
  BY <1>2 DEF EntryOver
<1>4. [i \in 1 .. n |-> <<c * t.terms[i][1], t.terms[i][2]>>] \in Seq(EntryOver(V))
  BY <1>3
<1> QED
  BY <1>1, <1>2, <1>4 DEF Scale, TermOver

LEMMA SubTermsType ==
  ASSUME NEW V, NEW s \in TermOver(V), NEW t \in TermOver(V)
  PROVE  SubTerms(s, t) \in TermOver(V)
BY AddTermsType, ScaleType DEF SubTerms, Negate

LEMMA SimpleTerms ==
  ASSUME NEW V
  PROVE  /\ \A k \in Int : ConstTerm(k) \in TermOver(V)
         /\ \A v \in V : VarTerm(v) \in TermOver(V)
<1>1. << >> \in Seq(EntryOver(V))
  OBVIOUS
<1>2. \A v \in V : <<<<1, v>>>> \in Seq(EntryOver(V))
  BY DEF EntryOver
<1> QED
  BY <1>1, <1>2 DEF ConstTerm, VarTerm, TermOver

LEMMA TheVarType ==
  ASSUME NEW V, NEW t \in TermOver(V), ~IsConstant(t)
  PROVE  TheVar(t) \in V /\ t.terms[1] \in Int \X V
<1>1. t.terms \in Seq(EntryOver(V)) /\ t.terms # << >>
  BY DEF TermOver, IsConstant
<1>2. t.terms[1] \in EntryOver(V)
  BY <1>1
<1> QED
  BY <1>2 DEF TheVar, EntryOver

LEMMA MovedType ==
  ASSUME NEW V, NEW lhs \in TermOver(V), NEW rhs \in TermOver(V), ~IsConstant(rhs)
  PROVE  Moved(lhs, rhs) \in ConstraintOver(V)
<1> DEFINE rest == [terms |-> Tail(rhs.terms), konst |-> rhs.konst]
           eff  == SubTerms(lhs, rest)
           c    == rhs.terms[1][1]
<1>1. rhs.terms \in Seq(EntryOver(V)) /\ rhs.terms # << >> /\ rhs.konst \in Int
  BY DEF TermOver, IsConstant
<1>2. Tail(rhs.terms) \in Seq(EntryOver(V))
  BY <1>1
<1>3. rest \in TermOver(V)
  BY <1>1, <1>2 DEF TermOver
<1>4. eff \in TermOver(V)
  <2> HIDE DEF rest
  <2> QED
    BY <1>3, SubTermsType
<1>5. c \in Int /\ rhs.terms[1][2] \in V
  BY TheVarType
<1>6. (IF c # 1 /\ c # 0 THEN Scale(eff, c) ELSE eff) \in TermOver(V)
  <2> HIDE DEF eff, c
  <2> QED
    BY <1>4, <1>5, ScaleType
<1>7. Moved(lhs, rhs) = Subset(IF c # 1 /\ c # 0 THEN Scale(eff, c) ELSE eff, rhs.terms[1][2])
  BY DEF Moved
<1> HIDE DEF eff, c
<1> QED
  BY <1>5, <1>6, <1>7 DEF Subset, ConstraintOver

LEMMA SubsetOfType ==
  ASSUME NEW V, NEW lhs \in TermOver(V), NEW rhs \in TermOver(V)
  PROVE  SubsetOf(lhs, rhs) \in Seq(ConstraintOver(V))
<1>1. CASE IsConstant(rhs)
  BY <1>1 DEF SubsetOf
<1>2. CASE ~IsConstant(rhs)
  <2>1. PICK m \in ConstraintOver(V) : m = Moved(lhs, rhs)
    BY <1>2, MovedType
  <2>2. <<m>> \in Seq(ConstraintOver(V))
    OBVIOUS
  <2> QED
    BY <1>2, <2>1, <2>2 DEF SubsetOf
<1> QED
  BY <1>1, <1>2

LEMMA MentionedInside ==
  ASSUME NEW V, NEW c \in ConstraintOver(V)
  PROVE  ToSet(LhsVars(c)) \subseteq V /\ Rhs(c) \in V
BY LhsVarsFacts DEF ToSet

(* One variable for the minimum and one for each operand that needs it. *)
LEMMA MinVarsIs ==
  ASSUME NEW x, NEW y
  PROVE  MinVars(x, y) = 1 + (IF NeedsVar(x) THEN 1 ELSE 0) + (IF NeedsVar(y) THEN 1 ELSE 0)
<1> DEFINE P == {t \in {<<1, x>>, <<2, y>>} : NeedsVar(t[2])}
<1>1. /\ Cardinality({}) = 0
      /\ IsFiniteSet({<<1, x>>}) /\ Cardinality({<<1, x>>}) = 1
      /\ IsFiniteSet({<<2, y>>}) /\ Cardinality({<<2, y>>}) = 1
  BY FS_EmptySet, FS_Singleton
<1>2. Cardinality({<<1, x>>, <<2, y>>}) = 2
  <2>1. <<2, y>> \notin {<<1, x>>}
    OBVIOUS
  <2>2. Cardinality({<<1, x>>} \cup {<<2, y>>}) = 2
    <3>1. PICK S, e : S = {<<1, x>>} /\ e = <<2, y>>
      OBVIOUS
    <3>2. Cardinality(S \cup {e}) = Cardinality(S) + 1
      BY <1>1, <2>1, <3>1, FS_AddElement
    <3> QED
      BY <1>1, <3>1, <3>2
  <2>3. {<<1, x>>} \cup {<<2, y>>} = {<<1, x>>, <<2, y>>}
    OBVIOUS
  <2> QED
    BY <2>2, <2>3
<1>3. MinVars(x, y) = 1 + Cardinality(P)
  BY DEF MinVars
<1>4. CASE NeedsVar(x) /\ NeedsVar(y)
  <2>1. P = {<<1, x>>, <<2, y>>}
    BY <1>4
  <2> QED
    BY <1>2, <1>3, <1>4, <2>1
<1>5. CASE NeedsVar(x) /\ ~NeedsVar(y)
  <2>1. P = {<<1, x>>}
    BY <1>5
  <2> QED
    BY <1>1, <1>3, <1>5, <2>1
<1>6. CASE ~NeedsVar(x) /\ NeedsVar(y)
  <2>1. P = {<<2, y>>}
    BY <1>6
  <2> QED
    BY <1>1, <1>3, <1>6, <2>1
<1>7. CASE ~NeedsVar(x) /\ ~NeedsVar(y)
  <2>1. P = {}
    BY <1>7
  <2> QED
    BY <1>1, <1>3, <1>7, <2>1
<1> QED
  BY <1>4, <1>5, <1>6, <1>7

LEMMA TermWider ==
  ASSUME NEW V, NEW W, V \subseteq W
  PROVE  /\ TermOver(V) \subseteq TermOver(W)
         /\ ConstraintOver(V) \subseteq ConstraintOver(W)
         /\ Seq(ConstraintOver(V)) \subseteq Seq(ConstraintOver(W))
<1>1. EntryOver(V) \subseteq EntryOver(W) /\ ItemOver(V) \subseteq ItemOver(W)
  BY DEF EntryOver, ItemOver
<1>2. Seq(EntryOver(V)) \subseteq Seq(EntryOver(W)) /\ Seq(ItemOver(V)) \subseteq Seq(ItemOver(W))
  BY <1>1
<1>3. TermOver(V) \subseteq TermOver(W)
  BY <1>2 DEF TermOver
<1>4. ConstraintOver(V) \subseteq ConstraintOver(W)
  BY <1>2, <1>3 DEF ConstraintOver
<1> QED
  BY <1>3, <1>4

LEMMA MinOfType ==
  ASSUME NEW z \in Nat, NEW x \in TermOver(0 .. z - 1), NEW y \in TermOver(0 .. z - 1)
  PROVE  /\ MinVars(x, y) \in Nat /\ MinVars(x, y) >= 1
         /\ MinOf(x, y, z) \in Seq(ConstraintOver(0 .. z + MinVars(x, y) - 1))
<1> DEFINE W == 0 .. z + MinVars(x, y) - 1
           wx == z + 1
           wy == IF NeedsVar(x) THEN z + 2 ELSE z + 1
           Named1(t, w) == IF IsConstant(t) THEN MinConst(t.konst)
                           ELSE MinTerm(1, IF NeedsVar(t) THEN w ELSE TheVar(t))
           Routed(t, w) == IF NeedsVar(t) THEN SubsetOf(t, VarTerm(w)) ELSE << >>
<1>1. /\ MinVars(x, y) \in Nat /\ MinVars(x, y) >= 1
      /\ z \in W /\ 0 .. z - 1 \subseteq W
      /\ NeedsVar(x) => wx \in W
      /\ NeedsVar(y) => wy \in W
  BY MinVarsIs
<1> HIDE DEF W, wx, wy
<1>2. x \in TermOver(W) /\ y \in TermOver(W)
  BY <1>1, TermWider
<1>3. ASSUME NEW t \in TermOver(W), NEW w, NeedsVar(t) => w \in W
      PROVE  Named1(t, w) \in ItemOver(W) /\ Routed(t, w) \in Seq(ConstraintOver(W))
  <2>1. t.konst \in Int
    BY DEF TermOver
  <2>2. CASE IsConstant(t)
    BY <2>1, <2>2 DEF ItemOver, MinConst, NeedsVar
  <2>3. CASE ~IsConstant(t) /\ NeedsVar(t)
    <3>1. VarTerm(w) \in TermOver(W)
      BY <1>3, <2>3, SimpleTerms
    <3>2. SubsetOf(t, VarTerm(w)) \in Seq(ConstraintOver(W))
      BY <3>1, SubsetOfType
    <3> QED
      BY <1>3, <2>3, <3>2 DEF ItemOver, MinTerm
  <2>4. CASE ~IsConstant(t) /\ ~NeedsVar(t)
    <3>1. TheVar(t) \in W
      BY <2>4, TheVarType
    <3> QED
      BY <2>4, <3>1 DEF ItemOver, MinTerm
  <2> QED
    BY <2>2, <2>3, <2>4
<1>4. PICK ix \in ItemOver(W), iy \in ItemOver(W), rx \in Seq(ConstraintOver(W)), ry \in Seq(ConstraintOver(W)) :
        ix = Named1(x, wx) /\ iy = Named1(y, wy) /\ rx = Routed(x, wx) /\ ry = Routed(y, wy)
  <2> HIDE DEF Named1, Routed
  <2> QED
    BY <1>1, <1>2, <1>3
<1>5. MinOf(x, y, z) = rx \o ry \o <<MinSubset(<<ix, iy>>, z)>>
  BY <1>4 DEF MinOf, wx, wy
<1>6. MinSubset(<<ix, iy>>, z) \in ConstraintOver(W)
  <2>1. <<ix, iy>> \in Seq(ItemOver(W))
    OBVIOUS
  <2> QED
    BY <1>1, <2>1 DEF MinSubset, ConstraintOver
<1>7. PICK m \in ConstraintOver(W) : m = MinSubset(<<ix, iy>>, z)
  BY <1>6
<1>8. rx \o ry \o <<m>> \in Seq(ConstraintOver(W))
  OBVIOUS
<1> QED
  BY <1>1, <1>5, <1>7, <1>8 DEF W

-----------------------------------------------------------------------------
(* Sums: f adds up the n weights w, starting from k.                       *)

Adds(f, n, w, k) ==
  /\ f \in [0 .. n -> Int]
  /\ f[0] = k
  /\ \A i \in 1 .. n : w[i] \in Int /\ f[i] = f[i - 1] + w[i]

LEMMA AddsStep ==
  ASSUME NEW n \in Nat, NEW f, NEW w, NEW k, Adds(f, n, w, k), NEW i \in Nat, i + 1 <= n
  PROVE  /\ f[i + 1] = f[i] + w[i + 1] /\ f[i] \in Int /\ f[i + 1] \in Int /\ w[i + 1] \in Int
         /\ i + 1 \in 1 .. n
<1>1. i + 1 \in 1 .. n /\ (i + 1) - 1 = i /\ i \in 0 .. n /\ i + 1 \in 0 .. n
  OBVIOUS
<1> QED
  BY <1>1 DEF Adds

Scaled(u, n, w, c) == \A i \in 1 .. n : u[i] = c * w[i]

LEMMA AddsScaled ==
  ASSUME NEW n \in Nat, NEW f, NEW w, NEW k \in Int, Adds(f, n, w, k),
         NEW g, NEW u, NEW l \in Int, Adds(g, n, u, l),
         NEW c \in Int, Scaled(u, n, w, c)
  PROVE  g[n] - l = c * (f[n] - k)
<1> DEFINE Good == {i \in Nat : i <= n => g[i] - l = c * (f[i] - k)}
<1>1. 0 \in Good
  BY DEF Adds
<1>2. \A i \in Nat : i \in Good => i + 1 \in Good
  <2> SUFFICES ASSUME NEW i \in Nat, i + 1 <= n, g[i] - l = c * (f[i] - k)
               PROVE  g[i + 1] - l = c * (f[i + 1] - k)
    OBVIOUS
  <2>1. PICK a \in Int, b \in Int, x \in Int, y \in Int :
          /\ a = f[i] /\ b = w[i + 1] /\ f[i + 1] = a + b
          /\ x = g[i] /\ y = u[i + 1] /\ g[i + 1] = x + y
          /\ y = c * b
    BY AddsStep DEF Scaled
  <2>2. (x + y) - l = c * (a - k) + c * b
    <3>1. PICK p \in Int, q \in Int : p = c * (a - k) /\ q = c * b
      OBVIOUS
    <3>2. x - l = p /\ y = q
      BY <2>1, <3>1
    <3>3. (x + y) - l = p + q
      BY <3>2
    <3> QED
      BY <3>1, <3>3
  <2>3. c * ((a + b) - k) = c * (a - k) + c * b
    BY <2>1
  <2> QED
    BY <2>1, <2>2, <2>3
<1>3. Nat \subseteq Good
  <2> HIDE DEF Good
  <2> QED
    BY <1>1, <1>2, SetInduction
<1> QED
  BY <1>3

Changed(u, n, w, j, d) == \A i \in 1 .. n : u[i] = IF i = j THEN w[i] + d ELSE w[i]

LEMMA AddsChanged ==
  ASSUME NEW n \in Nat, NEW f, NEW w, NEW k \in Int, Adds(f, n, w, k),
         NEW g, NEW u, Adds(g, n, u, k),
         NEW d \in Int, NEW j \in 1 .. n, Changed(u, n, w, j, d)
  PROVE  g[n] = f[n] + d
<1> DEFINE Good == {i \in Nat : i <= n => g[i] = IF i < j THEN f[i] ELSE f[i] + d}
<1>1. 0 \in Good
  BY DEF Adds
<1>2. \A i \in Nat : i \in Good => i + 1 \in Good
  <2> SUFFICES ASSUME NEW i \in Nat, i + 1 <= n, g[i] = IF i < j THEN f[i] ELSE f[i] + d
               PROVE  g[i + 1] = IF i + 1 < j THEN f[i + 1] ELSE f[i + 1] + d
    OBVIOUS
  <2>1. PICK a \in Int, b \in Int, x \in Int, y \in Int :
          /\ a = f[i] /\ b = w[i + 1] /\ f[i + 1] = a + b
          /\ x = g[i] /\ y = u[i + 1] /\ g[i + 1] = x + y
          /\ y = IF i + 1 = j THEN b + d ELSE b
    <3>1. /\ f[i + 1] = f[i] + w[i + 1] /\ f[i] \in Int /\ w[i + 1] \in Int /\ i + 1 \in 1 .. n
      BY AddsStep
    <3>2. /\ g[i + 1] = g[i] + u[i + 1] /\ g[i] \in Int /\ u[i + 1] \in Int
      BY AddsStep
    <3>3. u[i + 1] = IF i + 1 = j THEN w[i + 1] + d ELSE w[i + 1]
      BY <3>1 DEF Changed
    <3> QED
      BY <3>1, <3>2, <3>3
  <2> QED
    BY <2>1
<1>3. Nat \subseteq Good
  <2> HIDE DEF Good
  <2> QED
    BY <1>1, <1>2, SetInduction
<1> QED
  BY <1>3

LEMMA AddsTail ==
  ASSUME NEW n \in Nat, NEW f, NEW w, NEW k \in Int, Adds(f, n + 1, w, k),
         NEW g, NEW u, Adds(g, n, u, k),
         \A i \in 1 .. n : u[i] = w[i + 1]
  PROVE  f[n + 1] = w[1] + g[n] /\ w[1] \in Int
<1> DEFINE Good == {i \in Nat : i <= n => f[i + 1] = w[1] + g[i]}
<1>0. w[1] \in Int /\ f[1] = f[0] + w[1] /\ f[0] = k /\ g[0] = k
  <2>1. 1 \in 1 .. n + 1 /\ 1 - 1 = 0
    OBVIOUS
  <2> QED
    BY <2>1 DEF Adds
<1>1. 0 \in Good
  BY <1>0
<1>2. \A i \in Nat : i \in Good => i + 1 \in Good
  <2> SUFFICES ASSUME NEW i \in Nat, i + 1 <= n, f[i + 1] = w[1] + g[i]
               PROVE  f[(i + 1) + 1] = w[1] + g[i + 1]
    OBVIOUS
  <2>1. i + 1 \in Nat /\ (i + 1) + 1 <= n + 1 /\ n + 1 \in Nat
    OBVIOUS
  <2>2. /\ f[(i + 1) + 1] = f[i + 1] + w[(i + 1) + 1]
        /\ f[i + 1] \in Int /\ w[(i + 1) + 1] \in Int
    BY <2>1, AddsStep
  <2>3. /\ g[i + 1] = g[i] + u[i + 1] /\ g[i] \in Int /\ u[i + 1] \in Int
        /\ i + 1 \in 1 .. n
    BY AddsStep
  <2>4. u[i + 1] = w[(i + 1) + 1]
    BY <2>3
  <2> QED
    BY <1>0, <2>2, <2>3, <2>4
<1>3. Nat \subseteq Good
  <2> HIDE DEF Good
  <2> QED
    BY <1>1, <1>2, SetInduction
<1> QED
  BY <1>0, <1>3

-----------------------------------------------------------------------------
(* What a term amounts to when its variables have values.                  *)

Weights(es, val) == [i \in DOMAIN es |-> es[i][1] * val[es[i][2]]]

Total(k, es, val) == FoldLeft(LAMBDA acc, e : acc + e[1] * val[e[2]], k, es)

Valued(V, val) == \A v \in V : val[v] \in Int

LEMMA WeightsFacts ==
  ASSUME NEW V, NEW es \in Seq(EntryOver(V)), NEW val, Valued(V, val)
  PROVE  /\ Len(es) \in Nat /\ DOMAIN es = 1 .. Len(es)
         /\ \A i \in 1 .. Len(es) :
              /\ Weights(es, val)[i] = es[i][1] * val[es[i][2]] /\ Weights(es, val)[i] \in Int
              /\ es[i] \in EntryOver(V) /\ es[i][1] \in Int /\ es[i][2] \in V /\ val[es[i][2]] \in Int
<1>1. Len(es) \in Nat /\ DOMAIN es = 1 .. Len(es)
  OBVIOUS
<1>2. ASSUME NEW i \in 1 .. Len(es)
      PROVE  es[i] \in EntryOver(V) /\ es[i][1] \in Int /\ es[i][2] \in V /\ val[es[i][2]] \in Int
  <2>1. es[i] \in EntryOver(V)
    OBVIOUS
  <2> QED
    BY <2>1 DEF EntryOver, Valued
<1>3. \A a, b \in Int : a * b \in Int
  OBVIOUS
<1> QED
  BY <1>1, <1>2, <1>3 DEF Weights

LEMMA WeightAt ==
  ASSUME NEW V, NEW es \in Seq(EntryOver(V)), NEW val, Valued(V, val),
         NEW n, n = Len(es), NEW w, w = Weights(es, val), NEW i \in 1 .. n
  PROVE  /\ w[i] = es[i][1] * val[es[i][2]] /\ w[i] \in Int
         /\ es[i] \in EntryOver(V) /\ es[i][1] \in Int /\ es[i][2] \in V /\ val[es[i][2]] \in Int
BY WeightsFacts

LEMMA TotalAdds ==
  ASSUME NEW V, NEW es \in Seq(EntryOver(V)), NEW val, Valued(V, val), NEW k \in Int
  PROVE  \E f : Adds(f, Len(es), Weights(es, val), k) /\ Total(k, es, val) = f[Len(es)]
<1>1. PICK n \in Nat : n = Len(es) /\ DOMAIN es = 1 .. n
  OBVIOUS
<1>2. PICK w : w = Weights(es, val)
  OBVIOUS
<1>3. \A i \in 1 .. n : w[i] \in Int /\ w[i] = es[i][1] * val[es[i][2]]
  BY <1>1, <1>2, WeightsFacts
<1> DEFINE G == [i \in 1 .. n |-> [x \in Int |-> x + w[i]]]
<1>4. G \in [1 .. n -> [Int -> Int]] /\ \A i \in 1 .. n, x \in Int : G[i][x] = x + w[i]
  <2>1. \A i \in 1 .. n, x \in Int : x + w[i] \in Int
    BY <1>3
  <2> QED
    BY <2>1
<1> HIDE DEF G
<1>5. PICK it : Folds(it, n, k, G) /\ it \in [SUBSET (1 .. n) -> Int]
  BY <1>4, FoldExists
<1>6. it = [S \in SUBSET (1 .. n) |-> IF S = {} THEN k
              ELSE it[S \ {Max(S)}] + es[Max(S)][1] * val[es[Max(S)][2]]]
  <2>1. \A S \in SUBSET (1 .. n) : S # {} =>
          G[Max(S)][it[S \ {Max(S)}]] = it[S \ {Max(S)}] + es[Max(S)][1] * val[es[Max(S)][2]]
    <3> SUFFICES ASSUME NEW S \in SUBSET (1 .. n), S # {}
                 PROVE  G[Max(S)][it[S \ {Max(S)}]] = it[S \ {Max(S)}] + es[Max(S)][1] * val[es[Max(S)][2]]
      OBVIOUS
    <3>1. PICK m \in 1 .. n : m = Max(S)
      BY MaxExists
    <3>2. it[S \ {m}] \in Int
      BY <1>5
    <3>3. G[m][it[S \ {m}]] = it[S \ {m}] + w[m]
      BY <1>4, <3>2
    <3> QED
      BY <1>3, <3>1, <3>3
  <2> QED
    BY <1>5, <2>1 DEF Folds
<1> DEFINE R0 == CHOOSE r : r = [S \in SUBSET (1 .. n) |-> IF S = {} THEN k
                                   ELSE r[S \ {Max(S)}] + es[Max(S)][1] * val[es[Max(S)][2]]]
<1>7. Total(k, es, val) = R0[1 .. n]
  BY <1>1 DEF Total, FoldLeft, MapThenFoldSet
<1>8. R0 = [S \in SUBSET (1 .. n) |-> IF S = {} THEN k
              ELSE R0[S \ {Max(S)}] + es[Max(S)][1] * val[es[Max(S)][2]]]
  BY <1>6
<1> HIDE DEF R0
<1> DEFINE f == [i \in 0 .. n |-> R0[1 .. i]]
<1>9. f[0] = k
  <2>1. 1 .. 0 = {} /\ R0[{}] = k
    BY <1>8
  <2> QED
    BY <2>1
<1>10. \A i \in Nat : i + 1 <= n => f[i + 1] = f[i] + w[i + 1]
  <2> SUFFICES ASSUME NEW i \in Nat, i + 1 <= n
               PROVE  R0[1 .. i + 1] = R0[1 .. i] + w[i + 1]
    OBVIOUS
  <2>0. i \in 0 .. n - 1 /\ i + 1 \in 1 .. n
    OBVIOUS
  <2>1. /\ 1 .. i + 1 \in SUBSET (1 .. n) /\ 1 .. i + 1 # {} /\ Max(1 .. i + 1) = i + 1
        /\ (1 .. i + 1) \ {i + 1} = 1 .. i
    BY <2>0, LastPosition
  <2>2. PICK S \in SUBSET (1 .. n) : S = 1 .. i + 1
    BY <2>1
  <2>3. R0[S] = R0[S \ {Max(S)}] + es[Max(S)][1] * val[es[Max(S)][2]]
    BY <1>8, <2>1, <2>2
  <2> QED
    BY <1>3, <2>0, <2>1, <2>2, <2>3
<1>11. \A i \in 0 .. n : f[i] \in Int
  <2> DEFINE Good == {i \in Nat : i <= n => f[i] \in Int}
  <2>1. 0 \in Good
    BY <1>9
  <2>2. \A i \in Nat : i \in Good => i + 1 \in Good
    <3> HIDE DEF f
    <3> SUFFICES ASSUME NEW i \in Nat, i + 1 <= n, f[i] \in Int
                 PROVE  f[i + 1] \in Int
      OBVIOUS
    <3>1. i + 1 \in 1 .. n
      OBVIOUS
    <3> QED
      BY <1>3, <1>10, <3>1
  <2>3. Nat \subseteq Good
    <3> HIDE DEF Good
    <3> QED
      BY <2>1, <2>2, SetInduction
  <2> HIDE DEF f
  <2> QED
    BY <2>3
<1>12. Total(k, es, val) = f[n]
  BY <1>7
<1>13. DOMAIN f = 0 .. n /\ f = [i \in 0 .. n |-> f[i]]
  OBVIOUS
<1> HIDE DEF f
<1>14. \A i \in 1 .. n : f[i] = f[i - 1] + w[i]
  <2> SUFFICES ASSUME NEW i \in 1 .. n
               PROVE  f[i] = f[i - 1] + w[i]
    OBVIOUS
  <2>1. i - 1 \in Nat /\ (i - 1) + 1 = i /\ (i - 1) + 1 <= n
    OBVIOUS
  <2> QED
    BY <1>10, <2>1
<1>15. f \in [0 .. n -> Int]
  BY <1>11, <1>13
<1>16. Adds(f, n, w, k)
  BY <1>3, <1>9, <1>14, <1>15 DEF Adds
<1> QED
  BY <1>1, <1>2, <1>12, <1>16

LEMMA TotalType ==
  ASSUME NEW V, NEW es \in Seq(EntryOver(V)), NEW val, Valued(V, val), NEW k \in Int
  PROVE  Total(k, es, val) \in Int
<1>1. PICK f : Adds(f, Len(es), Weights(es, val), k) /\ Total(k, es, val) = f[Len(es)]
  BY TotalAdds
<1>2. Len(es) \in 0 .. Len(es)
  OBVIOUS
<1> QED
  BY <1>1, <1>2 DEF Adds

LEMMA TotalEmpty ==
  ASSUME NEW val, NEW k \in Int
  PROVE  Total(k, << >>, val) = k
<1>1. << >> \in Seq(EntryOver({})) /\ Valued({}, val) /\ Len(<< >>) = 0
  BY DEF Valued
<1>2. PICK es \in Seq(EntryOver({})) : es = << >>
  BY <1>1
<1>3. PICK f : Adds(f, Len(es), Weights(es, val), k) /\ Total(k, es, val) = f[Len(es)]
  BY <1>1, TotalAdds
<1> QED
  BY <1>1, <1>2, <1>3 DEF Adds

(* The same entries, or their multiples, from another start and on values  *)
(* that agree.                                                             *)
LEMMA TotalScaled ==
  ASSUME NEW V, NEW es \in Seq(EntryOver(V)), NEW fs \in Seq(EntryOver(V)), Len(fs) = Len(es),
         NEW val, Valued(V, val), NEW alt, Valued(V, alt), \A v \in V : alt[v] = val[v],
         NEW c \in Int,
         \A i \in 1 .. Len(es) : fs[i][1] = c * es[i][1] /\ fs[i][2] = es[i][2],
         NEW k \in Int, NEW l \in Int
  PROVE  Total(l, fs, alt) - l = c * (Total(k, es, val) - k)
<1>1. PICK f : Adds(f, Len(es), Weights(es, val), k) /\ Total(k, es, val) = f[Len(es)]
  BY TotalAdds
<1>2. PICK g : Adds(g, Len(fs), Weights(fs, alt), l) /\ Total(l, fs, alt) = g[Len(fs)]
  BY TotalAdds
<1>3. PICK n \in Nat : n = Len(es)
  OBVIOUS
<1>4. PICK w, u : w = Weights(es, val) /\ u = Weights(fs, alt)
  OBVIOUS
<1>5. Scaled(u, n, w, c)
  <2> SUFFICES ASSUME NEW i \in 1 .. n
               PROVE  u[i] = c * w[i]
    BY DEF Scaled
  <2>0. /\ w[i] = es[i][1] * val[es[i][2]] /\ es[i][1] \in Int /\ es[i][2] \in V
        /\ val[es[i][2]] \in Int
    BY <1>3, <1>4, WeightAt
  <2>1. PICK a \in Int, v \in V, x \in Int : a = es[i][1] /\ v = es[i][2] /\ x = val[v] /\ w[i] = a * x
    BY <2>0
  <2>2. u[i] = fs[i][1] * alt[fs[i][2]]
    <3>1. n = Len(fs)
      BY <1>3
    <3> QED
      BY <1>4, <3>1, WeightAt
  <2>3. u[i] = (c * a) * x
    BY <1>3, <2>1, <2>2
  <2>4. (c * a) * x = c * (a * x)
    <3>1. \A p, q, r \in Int : (p * q) * r = p * (q * r)
      OBVIOUS
    <3> QED
      BY Zenon, <3>1
  <2> QED
    BY <2>1, <2>3, <2>4
<1>6. g[n] - l = c * (f[n] - k)
  <2>1. Adds(f, n, w, k) /\ Adds(g, n, u, l)
    BY <1>1, <1>2, <1>3, <1>4
  <2> QED
    BY <1>5, <2>1, AddsScaled
<1> QED
  BY <1>1, <1>2, <1>3, <1>6

LEMMA TotalShifted ==
  ASSUME NEW V, NEW es \in Seq(EntryOver(V)), NEW val, Valued(V, val), NEW k \in Int, NEW l \in Int
  PROVE  Total(l, es, val) - l = Total(k, es, val) - k
<1>1. \A i \in 1 .. Len(es) : es[i][1] = 1 * es[i][1] /\ es[i][2] = es[i][2]
  BY WeightsFacts
<1>2. \A v \in V : val[v] = val[v]
  OBVIOUS
<1>3. Total(l, es, val) - l = 1 * (Total(k, es, val) - k)
  BY <1>1, <1>2, TotalScaled
<1>4. Total(k, es, val) \in Int
  BY TotalType
<1> QED
  BY <1>3, <1>4

LEMMA TotalHead ==
  ASSUME NEW V, NEW es \in Seq(EntryOver(V)), es # << >>, NEW val, Valued(V, val), NEW k \in Int
  PROVE  Total(k, es, val) = es[1][1] * val[es[1][2]] + Total(k, Tail(es), val)
<1>1. PICK n \in Nat : Len(es) = n + 1
  <2>1. Len(es) \in Nat /\ Len(es) # 0
    OBVIOUS
  <2>2. Len(es) - 1 \in Nat /\ Len(es) = (Len(es) - 1) + 1
    BY <2>1
  <2> QED
    BY <2>2
<1>2. PICK ts \in Seq(EntryOver(V)) :
        ts = Tail(es) /\ Len(ts) = n /\ \A i \in 1 .. n : ts[i] = es[i + 1]
  <2>1. /\ Tail(es) \in Seq(EntryOver(V)) /\ Len(Tail(es)) = n
        /\ \A i \in 1 .. n : Tail(es)[i] = es[i + 1]
    BY <1>1
  <2> QED
    BY <2>1
<1>3. PICK f : Adds(f, Len(es), Weights(es, val), k) /\ Total(k, es, val) = f[Len(es)]
  BY TotalAdds
<1>4. PICK g : Adds(g, Len(ts), Weights(ts, val), k) /\ Total(k, ts, val) = g[Len(ts)]
  BY TotalAdds
<1>5. PICK w, u : w = Weights(es, val) /\ u = Weights(ts, val)
  OBVIOUS
<1>6. \A i \in 1 .. n : u[i] = w[i + 1]
  <2> SUFFICES ASSUME NEW i \in 1 .. n
               PROVE  u[i] = w[i + 1]
    OBVIOUS
  <2>1. u[i] = ts[i][1] * val[ts[i][2]]
    <3>1. n = Len(ts)
      BY <1>2
    <3> QED
      BY <1>5, <3>1, WeightAt
  <2>2. PICK j \in 1 .. Len(es) : j = i + 1
    BY <1>1
  <2>3. w[j] = es[j][1] * val[es[j][2]]
    BY <1>5, WeightAt
  <2> QED
    BY <1>2, <2>1, <2>2, <2>3
<1>7. f[n + 1] = w[1] + g[n] /\ w[1] \in Int
  <2>1. Adds(f, n + 1, w, k) /\ Adds(g, n, u, k)
    BY <1>1, <1>2, <1>3, <1>4, <1>5
  <2> QED
    BY <1>6, <2>1, AddsTail
<1>8. w[1] = es[1][1] * val[es[1][2]]
  <2>1. 1 \in 1 .. Len(es)
    BY <1>1
  <2> QED
    BY <1>5, <2>1, WeightAt
<1> QED
  BY <1>1, <1>2, <1>3, <1>4, <1>7, <1>8

(* An entry adds its weight, whether it is appended or merged. *)
LEMMA TotalAppend ==
  ASSUME NEW V, NEW es \in Seq(EntryOver(V)), NEW e \in EntryOver(V), NEW val, Valued(V, val), NEW k \in Int
  PROVE  Total(k, Append(es, e), val) = Total(k, es, val) + e[1] * val[e[2]]
<1>1. PICK n \in Nat : Len(es) = n
  OBVIOUS
<1>2. PICK fs \in Seq(EntryOver(V)) :
        /\ fs = Append(es, e) /\ Len(fs) = n + 1 /\ fs[n + 1] = e
        /\ \A i \in 1 .. n : fs[i] = es[i]
  <2>1. Append(es, e) \in Seq(EntryOver(V)) /\ Len(Append(es, e)) = Len(es) + 1
    OBVIOUS
  <2>2. Append(es, e)[Len(es) + 1] = e /\ \A i \in 1 .. Len(es) : Append(es, e)[i] = es[i]
    OBVIOUS
  <2> QED
    BY <1>1, <2>1, <2>2
<1>3. PICK f : Adds(f, n, Weights(es, val), k) /\ Total(k, es, val) = f[n]
  BY <1>1, TotalAdds
<1>4. PICK g : Adds(g, n + 1, Weights(fs, val), k) /\ Total(k, fs, val) = g[n + 1]
  BY <1>2, TotalAdds
<1>5. PICK w, u : w = Weights(es, val) /\ u = Weights(fs, val)
  OBVIOUS
<1>6. Scaled(u, n, w, 1)
  <2> SUFFICES ASSUME NEW i \in 1 .. n
               PROVE  u[i] = 1 * w[i]
    BY DEF Scaled
  <2>1. PICK m \in 1 .. Len(fs) : m = i
    BY <1>2
  <2>2. u[m] = fs[m][1] * val[fs[m][2]]
    BY <1>5, WeightAt
  <2>3. w[i] = es[i][1] * val[es[i][2]] /\ w[i] \in Int
    BY <1>1, <1>5, WeightAt
  <2> QED
    BY <1>2, <2>1, <2>2, <2>3
<1>7. u[n + 1] = e[1] * val[e[2]]
  <2>1. PICK m \in 1 .. Len(fs) : m = n + 1
    BY <1>2
  <2>2. u[m] = fs[m][1] * val[fs[m][2]]
    BY <1>5, WeightAt
  <2> QED
    BY <1>2, <2>1, <2>2
<1> DEFINE h == [i \in 0 .. n |-> g[i]]
<1>8. Adds(h, n, u, k)
  <2>1. \A i \in 0 .. n : i \in 0 .. n + 1
    OBVIOUS
  <2>2. h \in [0 .. n -> Int] /\ h[0] = k
    BY <1>4, <2>1 DEF Adds
  <2>3. \A i \in 1 .. n : i \in 1 .. n + 1 /\ i \in 0 .. n /\ i - 1 \in 0 .. n
    OBVIOUS
  <2>4. \A i \in 1 .. n : u[i] \in Int /\ h[i] = h[i - 1] + u[i]
    BY <1>4, <1>5, <2>3 DEF Adds
  <2> HIDE DEF h
  <2> QED
    BY <2>2, <2>4 DEF Adds
<1>9. h[n] = g[n]
  OBVIOUS
<1> HIDE DEF h
<1>10. h[n] - k = 1 * (f[n] - k)
  <2>1. Adds(f, n, w, k)
    BY <1>3, <1>5
  <2> QED
    BY <1>6, <1>8, <2>1, AddsScaled
<1>11. n \in Nat /\ n + 1 <= n + 1 /\ n + 1 \in Nat
  OBVIOUS
<1>12. g[n + 1] = g[n] + u[n + 1] /\ g[n] \in Int /\ u[n + 1] \in Int
  <2>1. Adds(g, n + 1, u, k)
    BY <1>4, <1>5
  <2>2. n + 1 \in 1 .. n + 1 /\ (n + 1) - 1 = n /\ n \in 0 .. n + 1
    OBVIOUS
  <2>3. u[n + 1] \in Int /\ g[n + 1] = g[(n + 1) - 1] + u[n + 1] /\ g[n] \in Int
    BY <2>1, <2>2 DEF Adds
  <2> QED
    BY <2>2, <2>3
<1>13. f[n] \in Int
  <2>1. n \in 0 .. n
    OBVIOUS
  <2> QED
    BY <1>3, <2>1 DEF Adds
<1>14. g[n + 1] = f[n] + u[n + 1]
  BY <1>9, <1>10, <1>12, <1>13
<1> QED
  BY <1>2, <1>3, <1>4, <1>7, <1>14

LEMMA TotalMerged ==
  ASSUME NEW V, NEW es \in Seq(EntryOver(V)), NEW val, Valued(V, val), NEW k \in Int,
         NEW c \in Int, NEW j \in 1 .. Len(es)
  PROVE  Total(k, [es EXCEPT ![j][1] = @ + c], val) = Total(k, es, val) + c * val[es[j][2]]
<1>1. PICK n \in Nat : Len(es) = n
  OBVIOUS
<1>2. PICK a \in Int, v \in V, x \in Int : es[j] = <<a, v>> /\ val[v] = x
  <2>1. es[j] \in EntryOver(V)
    OBVIOUS
  <2>2. \A e \in Int \X V : \E a \in Int, v \in V : e = <<a, v>>
    OBVIOUS
  <2> QED
    BY <2>1, <2>2 DEF EntryOver, Valued
<1>3. [es EXCEPT ![j][1] = @ + c] = [es EXCEPT ![j] = <<a + c, v>>]
  <2>1. [es[j] EXCEPT ![1] = es[j][1] + c] = <<a + c, v>>
    BY <1>2
  <2>2. [es EXCEPT ![j][1] = @ + c] = [es EXCEPT ![j] = [es[j] EXCEPT ![1] = es[j][1] + c]]
    OBVIOUS
  <2> QED
    BY <2>1, <2>2
<1>4. PICK fs \in Seq(EntryOver(V)) :
        /\ fs = [es EXCEPT ![j][1] = @ + c] /\ Len(fs) = n
        /\ \A i \in 1 .. n : fs[i] = IF i = j THEN <<a + c, v>> ELSE es[i]
  <2>1. <<a + c, v>> \in EntryOver(V)
    BY DEF EntryOver
  <2>2. PICK e \in EntryOver(V) : e = <<a + c, v>>
    BY <2>1
  <2>3. /\ [es EXCEPT ![j] = e] \in Seq(EntryOver(V)) /\ Len([es EXCEPT ![j] = e]) = n
        /\ \A i \in 1 .. n : [es EXCEPT ![j] = e][i] = IF i = j THEN e ELSE es[i]
    BY <1>1
  <2>4. PICK fs \in Seq(EntryOver(V)) : fs = [es EXCEPT ![j] = e]
    BY <2>3
  <2>5. Len(fs) = n /\ \A i \in 1 .. n : fs[i] = IF i = j THEN e ELSE es[i]
    BY <2>3, <2>4
  <2>6. fs = [es EXCEPT ![j][1] = @ + c]
    BY <1>3, <2>2, <2>4
  <2> QED
    BY <2>2, <2>5, <2>6
<1>5. PICK f : Adds(f, n, Weights(es, val), k) /\ Total(k, es, val) = f[n]
  BY <1>1, TotalAdds
<1>6. PICK g : Adds(g, n, Weights(fs, val), k) /\ Total(k, fs, val) = g[n]
  <2>1. n = Len(fs)
    BY <1>4
  <2> QED
    BY <2>1, TotalAdds
<1>7. PICK w, u : w = Weights(es, val) /\ u = Weights(fs, val)
  OBVIOUS
<1>8. PICK d \in Int : d = c * x
  OBVIOUS
<1>9. Changed(u, n, w, j, d)
  <2> SUFFICES ASSUME NEW i \in 1 .. n
               PROVE  u[i] = IF i = j THEN w[i] + d ELSE w[i]
    BY DEF Changed
  <2>1. u[i] = fs[i][1] * val[fs[i][2]]
    <3>1. n = Len(fs)
      BY <1>4
    <3> QED
      BY <1>7, <3>1, WeightAt
  <2>2. w[i] = es[i][1] * val[es[i][2]]
    BY <1>1, <1>7, WeightAt
  <2>3. CASE i = j
    <3>1. u[i] = (a + c) * x /\ w[i] = a * x
      BY <1>2, <1>4, <2>1, <2>2, <2>3
    <3>2. (a + c) * x = a * x + c * x
      OBVIOUS
    <3> QED
      BY <1>8, <2>3, <3>1, <3>2
  <2>4. CASE i # j
    BY <1>4, <2>1, <2>2, <2>4
  <2> QED
    BY <2>3, <2>4
<1>10. j \in 1 .. n
  BY <1>1
<1>11. g[n] = f[n] + d
  <2>1. Adds(f, n, w, k) /\ Adds(g, n, u, k)
    BY <1>5, <1>6, <1>7
  <2> QED
    BY <1>9, <1>10, <2>1, AddsChanged
<1> QED
  BY <1>2, <1>4, <1>5, <1>6, <1>8, <1>11

LEMMA TotalAddEntry ==
  ASSUME NEW V, NEW es \in Seq(EntryOver(V)), NEW e \in EntryOver(V), NEW val, Valued(V, val), NEW k \in Int
  PROVE  Total(k, AddEntry(es, e), val) = Total(k, es, val) + e[1] * val[e[2]]
<1> DEFINE slots == {i \in DOMAIN es : es[i][2] = e[2] /\ SameSign(es[i][1], e[1])}
<1>1. CASE slots = {}
  <2>1. AddEntry(es, e) = Append(es, e)
    BY <1>1 DEF AddEntry
  <2> QED
    BY <2>1, TotalAppend
<1>2. CASE slots # {}
  <2>1. slots \in SUBSET (1 .. Len(es)) /\ Len(es) \in Nat
    OBVIOUS
  <2>2. PICK i \in slots : \A m \in slots : i <= m
    <3> HIDE DEF slots
    <3> QED
      BY <1>2, <2>1, LeastExists
  <2> DEFINE j == CHOOSE x \in slots : \A m \in slots : x <= m
  <2>3. j \in slots
    <3> HIDE DEF slots
    <3> QED
      BY <2>2
  <2>4. AddEntry(es, e) = [es EXCEPT ![j][1] = @ + e[1]]
    BY <1>2 DEF AddEntry
  <2>5. j \in 1 .. Len(es) /\ es[j][2] = e[2] /\ e[1] \in Int
    BY <2>1, <2>3 DEF EntryOver
  <2> HIDE DEF j, slots
  <2>6. Total(k, [es EXCEPT ![j][1] = @ + e[1]], val) = Total(k, es, val) + e[1] * val[es[j][2]]
    BY <2>5, TotalMerged
  <2> QED
    BY <2>4, <2>5, <2>6
<1> QED
  BY <1>1, <1>2

LEMMA TotalEntries ==
  ASSUME NEW V, NEW s \in Seq(EntryOver(V)), NEW t \in Seq(EntryOver(V)), NEW val, Valued(V, val),
         NEW k \in Int, NEW l \in Int
  PROVE  Total(k, Entries(s, t), val) = Total(k, s, val) + (Total(l, t, val) - l)
<1>1. PICK n \in Nat : n = Len(t)
  OBVIOUS
<1>9. \A j \in 1 .. n : Weights(t, val)[j] = t[j][1] * val[t[j][2]]
  BY <1>1, WeightsFacts
<1>2. PICK f \in [0 .. n -> Seq(EntryOver(V))] :
        /\ f[0] = s
        /\ \A i \in 0 .. n - 1 : f[i + 1] = AddEntry(f[i], t[i + 1])
        /\ Entries(s, t) = f[n]
  <2>1. PICK f \in [0 .. Len(t) -> Seq(EntryOver(V))] :
          /\ f[0] = s
          /\ \A i \in 0 .. Len(t) - 1 : f[i + 1] = AddEntry(f[i], t[i + 1])
          /\ Entries(s, t) = f[Len(t)]
    BY AddEntriesSteps
  <2> QED
    BY <1>1, <2>1
<1>3. PICK g : Adds(g, n, Weights(t, val), l) /\ Total(l, t, val) = g[n]
  BY <1>1, TotalAdds
<1>4. Total(k, s, val) \in Int
  BY TotalType
<1> DEFINE Good == {i \in Nat : i <= n => Total(k, f[i], val) = Total(k, s, val) + (g[i] - l)}
<1>5. 0 \in Good
  <2>1. g[0] = l
    BY <1>3 DEF Adds
  <2> QED
    BY <1>2, <1>4, <2>1
<1>6. \A i \in Nat : i \in Good => i + 1 \in Good
  <2> SUFFICES ASSUME NEW i \in Nat, i + 1 <= n,
                      Total(k, f[i], val) = Total(k, s, val) + (g[i] - l)
               PROVE  Total(k, f[i + 1], val) = Total(k, s, val) + (g[i + 1] - l)
    OBVIOUS
  <2>1. i \in 0 .. n - 1 /\ i + 1 \in 1 .. n /\ i \in 0 .. n
    OBVIOUS
  <2>2. PICK w : w = Weights(t, val)
    OBVIOUS
  <2>3. g[i + 1] = g[i] + w[i + 1] /\ g[i] \in Int /\ w[i + 1] \in Int
    BY <1>3, <2>2, AddsStep
  <2>4. PICK e \in EntryOver(V) : e = t[i + 1] /\ w[i + 1] = e[1] * val[e[2]]
    <3>1. PICK j \in 1 .. n : j = i + 1
      BY <2>1
    <3>2. t[j] \in EntryOver(V)
      BY <1>1
    <3>3. w[j] = t[j][1] * val[t[j][2]]
      BY <1>9, <2>2
    <3> QED
      BY <3>1, <3>2, <3>3
  <2>5. PICK fi \in Seq(EntryOver(V)) : fi = f[i]
    BY <2>1
  <2>6. f[i + 1] = AddEntry(fi, e)
    BY <1>2, <2>1, <2>4, <2>5
  <2>7. Total(k, f[i + 1], val) = Total(k, fi, val) + w[i + 1]
    BY <2>4, <2>6, TotalAddEntry
  <2>8. PICK a \in Int, b \in Int, d \in Int :
          /\ a = Total(k, s, val) /\ b = g[i] /\ d = w[i + 1] /\ g[i + 1] = b + d
    BY <1>4, <2>3
  <2>9. Total(k, fi, val) = a + (b - l)
    BY <2>5, <2>8
  <2>10. (a + (b - l)) + d = a + ((b + d) - l)
    OBVIOUS
  <2> QED
    BY <2>7, <2>8, <2>9, <2>10
<1>7. Nat \subseteq Good
  <2> HIDE DEF Good
  <2> QED
    BY <1>5, <1>6, SetInduction
<1>8. Total(k, f[n], val) = Total(k, s, val) + (g[n] - l)
  BY <1>7
<1> QED
  BY <1>2, <1>3, <1>8

-----------------------------------------------------------------------------
(* The values of terms, and of what the store makes of them.               *)

LEMMA ValueIs ==
  ASSUME NEW t, NEW val
  PROVE  ValueOf(t, val) = Total(t.konst, t.terms, val)
BY DEF ValueOf, Total

LEMMA ValueType ==
  ASSUME NEW V, NEW t \in TermOver(V), NEW val, Valued(V, val)
  PROVE  ValueOf(t, val) \in Int
<1>1. t.terms \in Seq(EntryOver(V)) /\ t.konst \in Int
  BY TermParts
<1>2. Total(t.konst, t.terms, val) \in Int
  BY <1>1, TotalType
<1> QED
  BY <1>2, ValueIs

LEMMA ConstValue ==
  ASSUME NEW V, NEW t \in TermOver(V), IsConstant(t), NEW val
  PROVE  ValueOf(t, val) = t.konst
<1>1. t.terms = << >> /\ t.konst \in Int
  BY TermParts DEF IsConstant
<1>2. Total(t.konst, << >>, val) = t.konst
  BY <1>1, TotalEmpty
<1> QED
  BY <1>1, <1>2, ValueIs

(* A term is its first entry and the rest. *)
Remainder(t) == [terms |-> Tail(t.terms), konst |-> t.konst]

LEMMA HeadValue ==
  ASSUME NEW V, NEW t \in TermOver(V), ~IsConstant(t), NEW val, Valued(V, val)
  PROVE  /\ Remainder(t) \in TermOver(V) /\ TheVar(t) \in V /\ t.terms[1][1] \in Int
         /\ ValueOf(t, val) = t.terms[1][1] * val[TheVar(t)] + ValueOf(Remainder(t), val)
<1>1. t.terms \in Seq(EntryOver(V)) /\ t.konst \in Int /\ t.terms # << >>
  BY TermParts DEF IsConstant
<1>2. Tail(t.terms) \in Seq(EntryOver(V))
  BY <1>1
<1>3. Remainder(t) \in TermOver(V) /\ Remainder(t).terms = Tail(t.terms) /\ Remainder(t).konst = t.konst
  BY <1>1, <1>2 DEF Remainder, TermOver
<1>4. TheVar(t) \in V /\ t.terms[1][1] \in Int
  BY TheVarType
<1>5. Total(t.konst, t.terms, val)
        = t.terms[1][1] * val[t.terms[1][2]] + Total(t.konst, Tail(t.terms), val)
  BY <1>1, TotalHead
<1>6. ValueOf(t, val) = Total(t.konst, t.terms, val)
  BY ValueIs
<1>7. ValueOf(Remainder(t), val) = Total(t.konst, Tail(t.terms), val)
  BY <1>3, ValueIs
<1> QED
  BY <1>3, <1>4, <1>5, <1>6, <1>7 DEF TheVar

LEMMA SingleValue ==
  ASSUME NEW V, NEW t \in TermOver(V), IsSingleVarAny(t), NEW val, Valued(V, val)
  PROVE  ~IsConstant(t) /\ TheVar(t) \in V /\ ValueOf(t, val) = val[TheVar(t)] + t.konst
<1>1. t.terms \in Seq(EntryOver(V)) /\ t.konst \in Int /\ Len(t.terms) = 1 /\ t.terms[1][1] = 1
  BY TermParts DEF IsSingleVarAny
<1>2. t.terms # << >> /\ Tail(t.terms) = << >>
  <2>1. PICK es \in Seq(EntryOver(V)) : es = t.terms
    BY <1>1
  <2>2. es # << >>
    BY <1>1, <2>1
  <2>3. Tail(es) \in Seq(EntryOver(V)) /\ Len(Tail(es)) = Len(es) - 1
    BY <2>2
  <2>4. Len(Tail(es)) = 0
    BY <1>1, <2>1, <2>3
  <2>5. Tail(es) = << >>
    <3>1. \A ts \in Seq(EntryOver(V)) : Len(ts) = 0 => ts = << >>
      OBVIOUS
    <3> QED
      BY <2>3, <2>4, <3>1
  <2> QED
    BY <2>1, <2>2, <2>5
<1>3. ~IsConstant(t)
  BY <1>2 DEF IsConstant
<1>4. /\ Remainder(t) \in TermOver(V) /\ TheVar(t) \in V
      /\ ValueOf(t, val) = 1 * val[TheVar(t)] + ValueOf(Remainder(t), val)
  BY <1>1, <1>3, HeadValue
<1>5. Remainder(t).konst = t.konst /\ IsConstant(Remainder(t))
  BY <1>2 DEF Remainder, IsConstant
<1>6. ValueOf(Remainder(t), val) = t.konst
  BY <1>4, <1>5, ConstValue
<1>7. val[TheVar(t)] \in Int
  BY <1>4 DEF Valued
<1> QED
  BY <1>1, <1>3, <1>4, <1>6, <1>7

LEMMA VarValue ==
  ASSUME NEW V, NEW v \in V, NEW val, Valued(V, val)
  PROVE  /\ VarTerm(v) \in TermOver(V) /\ ~IsConstant(VarTerm(v)) /\ VarTerm(v).terms[1][1] = 1
         /\ ValueOf(VarTerm(v), val) = val[v]
<1>1. PICK t \in TermOver(V) : t = VarTerm(v)
  BY SimpleTerms
<1>2. t.terms = <<<<1, v>>>> /\ t.konst = 0
  BY <1>1 DEF VarTerm
<1>3. Len(t.terms) = 1 /\ t.terms[1][1] = 1 /\ t.terms[1][2] = v
  BY <1>2
<1>4. ~IsConstant(t) /\ ValueOf(t, val) = val[TheVar(t)] + t.konst
  BY <1>3, SingleValue DEF IsSingleVarAny
<1>5. val[v] \in Int
  BY DEF Valued
<1> QED
  BY <1>1, <1>2, <1>3, <1>4, <1>5 DEF TheVar

LEMMA SumValue ==
  ASSUME NEW V, NEW s \in TermOver(V), NEW t \in TermOver(V), NEW val, Valued(V, val)
  PROVE  ValueOf(AddTerms(s, t), val) = ValueOf(s, val) + ValueOf(t, val)
<1>1. PICK k \in Int, l \in Int, es \in Seq(EntryOver(V)), fs \in Seq(EntryOver(V)) :
        k = s.konst /\ l = t.konst /\ es = s.terms /\ fs = t.terms
  BY TermParts
<1>2. AddTerms(s, t).terms = Entries(es, fs) /\ AddTerms(s, t).konst = k + l
  BY <1>1 DEF AddTerms, Entries
<1>3. ValueOf(AddTerms(s, t), val) = Total(k + l, Entries(es, fs), val)
  BY <1>2, ValueIs
<1>4. PICK m \in Int : m = k + l /\ ValueOf(AddTerms(s, t), val) = Total(m, Entries(es, fs), val)
  BY <1>3
<1>5. Total(m, Entries(es, fs), val) = Total(m, es, val) + (Total(l, fs, val) - l)
  BY TotalEntries
<1>6. Total(m, es, val) - m = Total(k, es, val) - k
  BY TotalShifted
<1>7. Total(m, es, val) \in Int /\ Total(k, es, val) \in Int /\ Total(l, fs, val) \in Int
  BY TotalType
<1>8. ValueOf(s, val) = Total(k, es, val) /\ ValueOf(t, val) = Total(l, fs, val)
  BY <1>1, ValueIs
<1> QED
  <2>1. PICK a \in Int, b \in Int, d \in Int :
          a = Total(m, es, val) /\ b = Total(k, es, val) /\ d = Total(l, fs, val)
    BY <1>7
  <2>2. ValueOf(AddTerms(s, t), val) = a + (d - l) /\ a - m = b - k /\ m = k + l
    BY <1>4, <1>5, <1>6, <2>1
  <2>3. a + (d - l) = b + d
    BY <2>2
  <2> QED
    BY <1>8, <2>1, <2>2, <2>3

LEMMA ScaledValue ==
  ASSUME NEW V, NEW t \in TermOver(V), NEW c \in Int, NEW val, Valued(V, val)
  PROVE  ValueOf(Scale(t, c), val) = c * ValueOf(t, val)
<1>1. PICK k \in Int, es \in Seq(EntryOver(V)) : k = t.konst /\ es = t.terms
  BY TermParts
<1>2. PICK l \in Int : l = c * k
  OBVIOUS
<1>3. Scale(t, c) \in TermOver(V)
  BY ScaleType
<1>4. PICK fs \in Seq(EntryOver(V)) : fs = Scale(t, c).terms
  BY <1>3, TermParts
<1>5. fs = [i \in DOMAIN es |-> <<c * es[i][1], es[i][2]>>] /\ Scale(t, c).konst = l
  BY <1>1, <1>2, <1>4 DEF Scale
<1>6. PICK n \in Nat : n = Len(es) /\ DOMAIN es = 1 .. n
  OBVIOUS
<1>7. /\ Len(fs) = n
      /\ \A i \in 1 .. n : fs[i][1] = c * es[i][1] /\ fs[i][2] = es[i][2]
  <2>1. DOMAIN fs = 1 .. n
    BY <1>5, <1>6
  <2>2. \A i \in 1 .. n : fs[i] = <<c * es[i][1], es[i][2]>>
    BY <1>5, <1>6
  <2>3. Len(fs) = n
    BY <2>1
  <2> QED
    BY <2>2, <2>3
<1>8. Len(fs) = Len(es) /\ \A v \in V : val[v] = val[v]
  BY <1>6, <1>7
<1>9. Total(l, fs, val) - l = c * (Total(k, es, val) - k)
  BY <1>6, <1>7, <1>8, TotalScaled
<1>10. PICK a \in Int, b \in Int : a = Total(k, es, val) /\ b = Total(l, fs, val)
  BY TotalType
<1>11. b = c * a
  <2>1. c * (a - k) = c * a - c * k
    OBVIOUS
  <2>2. c * a \in Int
    OBVIOUS
  <2> QED
    BY <1>2, <1>9, <1>10, <2>1, <2>2
<1>12. ValueOf(Scale(t, c), val) = b /\ ValueOf(t, val) = a
  BY <1>1, <1>4, <1>5, <1>10, ValueIs
<1> QED
  BY <1>11, <1>12

LEMMA DifferenceValue ==
  ASSUME NEW V, NEW s \in TermOver(V), NEW t \in TermOver(V), NEW val, Valued(V, val)
  PROVE  ValueOf(SubTerms(s, t), val) = ValueOf(s, val) - ValueOf(t, val)
<1>1. PICK u \in TermOver(V) : u = Negate(t)
  BY ScaleType DEF Negate
<1>2. ValueOf(u, val) = (-1) * ValueOf(t, val)
  BY <1>1, ScaledValue DEF Negate
<1>3. ValueOf(AddTerms(s, u), val) = ValueOf(s, val) + ValueOf(u, val)
  BY SumValue
<1>4. ValueOf(s, val) \in Int /\ ValueOf(t, val) \in Int
  BY ValueType
<1> QED
  BY <1>1, <1>2, <1>3, <1>4 DEF SubTerms
=============================================================================
