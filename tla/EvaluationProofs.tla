-------------------------- MODULE EvaluationProofs --------------------------
(***************************************************************************)
(* Theorems about the evaluation of terms and minima, for every sentinel   *)
(* INF and for coefficients, constants and values of any size.             *)
(***************************************************************************)
EXTENDS Evaluation, Lemmas

-----------------------------------------------------------------------------
(* Every state of the evaluation. *)

Evaluating == form \in {"subset", "min"} /\ items \in Nat

(* What one entry adds: its coefficient, its variable's range, a wider one, *)
(* and a value of the variable.                                             *)
NewItem(c, y, z, n) ==
  /\ c \in Int /\ n \in Int
  /\ y \in Interval /\ z \in Interval /\ Leq(y, z)
  /\ IsEmpty(y) \/ In(n, y)

LEMMA OperandIsRange ==
  ASSUME NEW y \in Operand, NEW z \in Wider(y)
  PROVE  y \in Interval /\ z \in Interval /\ Leq(y, z)
<1>1. y \in Interval /\ z \in Interval
  BY ConstantTypes DEF Operand, Wider
<1> QED
  BY <1>1, IntervalFacts DEF Wider, Leq, IsEmpty

LEMMA NextHasEntry ==
  ASSUME Next
  PROVE  /\ items' = items + 1 /\ form' = form
         /\ \E c, y, z, n : /\ NewItem(c, y, z, n)
                            /\ SumItem(c, y, z, n) \/ MinItem(c, y, z, n)
<1>1. PICK c \in Coeff, y \in Operand : \E z \in Wider(y) :
        \E n \in {k \in Value : In(k, y)} \cup (IF IsEmpty(y) THEN {0} ELSE {}) :
           SumItem(c, y, z, n) \/ MinItem(c, y, z, n)
  BY DEF Next
<1>2. PICK z \in Wider(y) :
        \E n \in {k \in Value : In(k, y)} \cup (IF IsEmpty(y) THEN {0} ELSE {}) :
           SumItem(c, y, z, n) \/ MinItem(c, y, z, n)
  BY <1>1
<1>3. PICK n \in {k \in Value : In(k, y)} \cup (IF IsEmpty(y) THEN {0} ELSE {}) :
        SumItem(c, y, z, n) \/ MinItem(c, y, z, n)
  BY <1>2
<1>4. n \in Int /\ (IsEmpty(y) \/ In(n, y))
  BY <1>3, ValueAssumption
<1>5. NewItem(c, y, z, n)
  BY <1>4, OperandIsRange, TermAssumption DEF NewItem
<1> QED
  BY <1>3, <1>5 DEF Next

(* Seeds: every initial state accumulates from a constant. *)
LEMMA SeedFacts ==
  ASSUME Init
  PROVE  /\ items = 0 /\ wide = acc /\ acc \in Interval
         /\ \/ form = "min" /\ acc = Singleton(INF) /\ val = INF
            \/ form = "subset" /\ val \in Int /\ acc = Singleton(val)
         /\ exact = (form = "subset" => Proper(acc))
BY TermAssumption, ConstantTypes, EndpointFacts DEF Init, SeedTerm, SeedMin

-----------------------------------------------------------------------------
(* Endpoints never leave the sentinels: every sum and product is clamped, *)
(* whatever the size of the coefficients (range.rs add_ep, mul_ep).       *)

TypeInv == TypeOK /\ Evaluating

LEMMA TypeInit == Init => TypeInv
<1> SUFFICES ASSUME Init
             PROVE  TypeInv
  OBVIOUS
<1> QED
  BY SeedFacts, EndpointFacts DEF TypeInv, TypeOK, Evaluating

LEMMA TypeStep == TypeInv /\ [Next]_vars => TypeInv'
<1> SUFFICES ASSUME TypeInv, [Next]_vars
             PROVE  TypeInv'
  OBVIOUS
<1> USE DEF TypeInv, TypeOK, Evaluating
<1>1. CASE Next
  <2>1. items' = items + 1 /\ form' = form
    BY <1>1, NextHasEntry
  <2>2. PICK c, y, z, n : /\ NewItem(c, y, z, n)
                          /\ SumItem(c, y, z, n) \/ MinItem(c, y, z, n)
    BY <1>1, NextHasEntry
  <2>3. c \in Int /\ n \in Int /\ y \in Interval /\ z \in Interval /\ c * n \in Int
    BY <2>2 DEF NewItem
  <2>4. Mul(c, y) \in Interval /\ Mul(c, z) \in Interval
    BY <2>3, MulType
  <2>5. CASE SumItem(c, y, z, n)
    BY <2>1, <2>3, <2>4, <2>5, AddType DEF SumItem
  <2>6. CASE MinItem(c, y, z, n)
    BY <2>1, <2>3, <2>4, <2>6, RMinType DEF MinItem, Lesser
  <2> QED
    BY <2>2, <2>5, <2>6
<1>2. CASE UNCHANGED vars
  BY <1>2 DEF vars
<1> QED
  BY <1>1, <1>2

(* The accumulated ranges are ranges between the sentinels and the value is *)
(* an integer, however many entries of whatever coefficients are evaluated  *)
(* (solver.rs eval_term, eval_constraint).                                  *)
THEOREM TypeCorrect == Spec => []TypeOK
<1>1. TypeInv => TypeOK
  BY DEF TypeInv
<1> QED
  BY <1>1, TypeInit, TypeStep, PTL DEF Spec

LEMMA TypeAlways == Spec => []TypeInv
BY TypeInit, TypeStep, PTL DEF Spec

-----------------------------------------------------------------------------
(* Monotonicity. *)

LEMMA MonotoneInit == Init => EvaluationIsMonotone
<1> SUFFICES ASSUME Init
             PROVE  EvaluationIsMonotone
  OBVIOUS
<1> QED
  BY SeedFacts, IntervalFacts DEF EvaluationIsMonotone, Leq

LEMMA MonotoneStep ==
  TypeInv /\ EvaluationIsMonotone /\ [Next]_vars => EvaluationIsMonotone'
<1> SUFFICES ASSUME TypeInv, EvaluationIsMonotone, [Next]_vars
             PROVE  EvaluationIsMonotone'
  OBVIOUS
<1>1. acc \in Interval /\ wide \in Interval /\ Leq(acc, wide)
  BY DEF TypeInv, TypeOK, EvaluationIsMonotone
<1>2. CASE Next
  <2>1. PICK c, y, z, n : /\ NewItem(c, y, z, n)
                          /\ SumItem(c, y, z, n) \/ MinItem(c, y, z, n)
    BY <1>2, NextHasEntry
  <2>2. /\ Mul(c, y) \in Interval /\ Mul(c, z) \in Interval
        /\ Leq(Mul(c, y), Mul(c, z))
    BY <2>1, MulType, MulMonotone DEF NewItem
  <2>3. CASE SumItem(c, y, z, n)
    BY <1>1, <2>2, <2>3, AddMonotone DEF SumItem, EvaluationIsMonotone
  <2>4. CASE MinItem(c, y, z, n)
    BY <1>1, <2>2, <2>4, RMinMonotone DEF MinItem, EvaluationIsMonotone
  <2> QED
    BY <2>1, <2>3, <2>4
<1>3. CASE UNCHANGED vars
  BY <1>3 DEF vars, EvaluationIsMonotone
<1> QED
  BY <1>2, <1>3

(* Evaluating a term or a minimum on wider ranges yields a wider range, for *)
(* every coefficient, saturated endpoints and empty operands included       *)
(* (range.rs add, mul, rmin): what the fixpoint of solver.rs rests on.      *)
THEOREM Monotone == Spec => []EvaluationIsMonotone
BY MonotoneInit, MonotoneStep, TypeAlways, PTL DEF Spec

-----------------------------------------------------------------------------
(* Soundness of saturation. *)

(* The seed of a minimum stands for no value, and before the first item the *)
(* range is the neutral one; a sum needs its range proper to be extended.   *)
ContainsInv ==
  exact =>
    /\ form = "subset" => Proper(acc)
    /\ Begun /\ ~IsEmpty(acc) => In(val, acc)
    /\ form = "min" /\ items = 0 => acc = Singleton(INF)

LEMMA ContainsInit == Init => ContainsInv
<1> SUFFICES ASSUME Init
             PROVE  ContainsInv
  OBVIOUS
<1>1. CASE form = "min"
  BY <1>1, SeedFacts DEF ContainsInv, Begun
<1>2. CASE form = "subset"
  <2>1. In(val, acc) /\ (exact => Proper(acc))
    BY <1>2, SeedFacts, SingletonContains
  <2> QED
    BY <1>2, <2>1 DEF ContainsInv
<1> QED
  BY <1>1, <1>2, SeedFacts

LEMMA ContainsStep == TypeInv /\ ContainsInv /\ [Next]_vars => ContainsInv'
<1> SUFFICES ASSUME TypeInv, ContainsInv, [Next]_vars
             PROVE  ContainsInv'
  OBVIOUS
<1>1. /\ acc \in Interval /\ val \in Int /\ items \in Nat
      /\ form \in {"subset", "min"}
  BY DEF TypeInv, TypeOK, Evaluating
<1>2. CASE Next
  <2>1. items' = items + 1 /\ form' = form /\ items' # 0
    BY <1>1, <1>2, NextHasEntry
  <2>2. PICK c, y, z, n : /\ NewItem(c, y, z, n)
                          /\ SumItem(c, y, z, n) \/ MinItem(c, y, z, n)
    BY <1>2, NextHasEntry
  <2> DEFINE m == Mul(c, y)
  <2>3. /\ c \in Int /\ n \in Int /\ c * n \in Int
        /\ y \in Interval /\ m \in Interval
    BY <2>2, MulType DEF NewItem
  <2>4. Proper(y) /\ ~IsEmpty(m) => In(c * n, m)
    <3>1. IsEmpty(y) => IsEmpty(m)
      BY ConstantTypes DEF Mul
    <3> QED
      BY <2>2, <2>3, <3>1, MulContains DEF NewItem
  <2>5. CASE SumItem(c, y, z, n)
    <3> SUFFICES ASSUME exact'
                 PROVE  Proper(acc') /\ (~IsEmpty(acc') => In(val', acc'))
      BY <2>1, <2>5 DEF ContainsInv, SumItem, Begun
    <3>1. exact /\ Proper(y) /\ Proper(m) /\ Proper(acc')
      BY <2>5 DEF SumItem
    <3>2. Proper(acc) /\ (~IsEmpty(acc) => In(val, acc))
      BY <2>5, <3>1 DEF ContainsInv, Begun, SumItem
    <3>3. acc' = Add(acc, m) /\ val' = val + c * n
      BY <2>5 DEF SumItem
    <3>4. ~IsEmpty(acc') => ~IsEmpty(acc) /\ ~IsEmpty(m)
      BY <3>3, ConstantTypes DEF Add
    <3> HIDE DEF m
    <3>5. ~IsEmpty(acc') => In(val', acc')
      BY <1>1, <2>3, <2>4, <3>1, <3>2, <3>3, <3>4, AddContains
    <3> QED
      BY <3>1, <3>5
  <2>6. CASE MinItem(c, y, z, n)
    <3> SUFFICES ASSUME exact', ~IsEmpty(acc')
                 PROVE  In(val', acc')
      BY <2>1, <2>6 DEF ContainsInv, MinItem
    <3>1. exact /\ Proper(y)
      BY <2>6 DEF MinItem
    <3>2. /\ acc' = RMin(acc, m)
          /\ val' = IF items = 0 THEN c * n ELSE Lesser(val, c * n)
      BY <2>6 DEF MinItem
    <3>3. ~IsEmpty(acc) /\ ~IsEmpty(m)
      BY <3>2, ConstantTypes DEF RMin
    <3>4. In(c * n, m)
      BY <2>4, <3>1, <3>3
    <3>5. form = "min"
      BY <2>6 DEF MinItem
    <3> HIDE DEF m
    <3>6. CASE items = 0
      <4>1. acc = Singleton(INF)
        BY <3>1, <3>5, <3>6 DEF ContainsInv
      <4>2. acc = [lo |-> INF, hi |-> INF]
        BY <4>1, EndpointFacts DEF Singleton, Clamp, Lesser, Greater
      <4>3. RMin(acc, m).lo = m.lo /\ RMin(acc, m).hi = m.hi
        <5>1. RMin(acc, m) = [lo |-> Lesser(INF, m.lo), hi |-> Lesser(INF, m.hi)]
          BY <3>3, <4>2 DEF RMin
        <5>2. Lesser(INF, m.lo) = m.lo /\ Lesser(INF, m.hi) = m.hi
          BY <2>3, EndpointFacts, IntervalFacts DEF Lesser
        <5> QED
          BY <5>1, <5>2
      <4> QED
        BY <3>2, <3>4, <3>6, <4>3 DEF In
    <3>7. CASE items # 0
      <4>1. In(val, acc)
        BY <1>1, <3>1, <3>3, <3>5, <3>7 DEF ContainsInv, Begun
      <4> QED
        BY <1>1, <2>3, <3>2, <3>3, <3>4, <3>7, <4>1, RMinContains
    <3> QED
      BY <3>6, <3>7
  <2> QED
    BY <2>2, <2>5, <2>6
<1>3. CASE UNCHANGED vars
  BY <1>3 DEF vars, ContainsInv, Begun
<1> QED
  BY <1>2, <1>3

(* The range of a term or of a minimum contains the value it takes on any  *)
(* values of its variables' ranges: no sum, product or saturation of       *)
(* range.rs loses a value, as long as no operand has run off to the        *)
(* infinity of its other side.                                             *)
THEOREM ContainsValue == Spec => []RangeContainsValue
<1>1. ContainsInv => RangeContainsValue
  BY DEF ContainsInv, RangeContainsValue
<1> QED
  BY <1>1, ContainsInit, ContainsStep, TypeAlways, PTL DEF Spec

-----------------------------------------------------------------------------
(* What a query answers. *)

LEMMA OperandFacts ==
  ASSUME NEW r \in Operand \ {Empty}
  PROVE  r \in Interval /\ ~IsEmpty(r) /\ r.lo <= r.hi
BY IntervalFacts DEF Operand, IsEmpty

(* Both endpoints of a range that is not empty stand for members of it. *)
LEMMA EndpointsAreMembers ==
  ASSUME NEW r \in Interval, ~IsEmpty(r)
  PROVE  /\ r.lo \in Value /\ r.hi \in Value
         /\ In(r.lo, r) /\ In(r.hi, r)
BY IntervalFacts, ValueAssumption DEF In, IsEmpty

LEMMA GeMeansAllGe ==
  ASSUME NEW a \in Interval, ~IsEmpty(a), a.lo < INF,
         NEW b \in Interval, ~IsEmpty(b), b.hi > NEGINF
  PROVE  EpGe(a.lo, b.hi) <=> AllGe(a, b)
<1>1. ASSUME EpGe(a.lo, b.hi)
      PROVE  AllGe(a, b)
  <2>1. a.lo # NEGINF /\ b.hi # INF /\ a.lo >= b.hi
    BY <1>1, IntervalFacts, EndpointFacts DEF EpGe, Finite
  <2>2. \A i, j \in Value : In(i, a) /\ In(j, b) => i >= a.lo /\ j <= b.hi
    BY <2>1 DEF In
  <2> QED
    BY <2>1, <2>2, IntervalFacts, ValueAssumption DEF AllGe
<1>2. ASSUME AllGe(a, b)
      PROVE  EpGe(a.lo, b.hi)
  <2>1. a.lo >= b.hi
    BY <1>2, EndpointsAreMembers DEF AllGe
  <2> QED
    BY <2>1, IntervalFacts, EndpointFacts DEF EpGe, Finite
<1> QED
  BY <1>1, <1>2

(* A passed query means that every value of the one range is at least every *)
(* value of the other, and a failed one that some value is not, below the   *)
(* sentinel (solver.rs query, range.rs ep_ge), for every sentinel.          *)
THEOREM QueryIsExact == Spec => []QueryDecidesGe
<1>1. ASSUME TypeInv
      PROVE  QueryDecidesGe
  BY <1>1, OperandFacts, GeMeansAllGe DEF QueryDecidesGe, TypeInv, TypeOK
<1> QED
  BY <1>1, TypeAlways, PTL

LEMMA EltIsLess ==
  ASSUME NEW x \in Endpoint, NEW y \in Endpoint
  PROVE  Elt(x, y) <=> x < y
BY EndpointFacts DEF Elt

(* The certain tier: every length exceeds every size just when the largest *)
(* size is below the smallest length.                                      *)
LEMMA CertainTier ==
  ASSUME NEW a \in Interval, ~IsEmpty(a), NEW b \in Interval, ~IsEmpty(b)
  PROVE  a.hi < b.lo <=> \A s, l \in Value : In(s, a) /\ In(l, b) => s < l
<1>1. ASSUME a.hi < b.lo, NEW s \in Value, NEW l \in Value, In(s, a), In(l, b)
      PROVE  s < l
  <2>1. a.hi # INF /\ b.lo # NEGINF
    BY <1>1, IntervalFacts, EndpointFacts
  <2>2. s <= a.hi /\ b.lo <= l /\ s \in Int /\ l \in Int
    BY <1>1, <2>1, ValueAssumption DEF In
  <2> QED
    BY <1>1, <2>2, IntervalFacts
<1>2. ASSUME \A s, l \in Value : In(s, a) /\ In(l, b) => s < l
      PROVE  a.hi < b.lo
  BY <1>2, EndpointsAreMembers
<1> QED
  BY <1>1, <1>2

(* The possible tier: some length exceeds every size just when the largest *)
(* length exceeds the largest size.                                        *)
LEMMA PossibleTier ==
  ASSUME NEW a \in Interval, ~IsEmpty(a), NEW b \in Interval, ~IsEmpty(b)
  PROVE  a.hi < b.hi
           <=> \E l \in Value : In(l, b) /\ \A s \in Value : In(s, a) => s < l
<1>1. ASSUME a.hi < b.hi
      PROVE  \E l \in Value : In(l, b) /\ \A s \in Value : In(s, a) => s < l
  <2>1. a.hi # INF
    BY <1>1, IntervalFacts, EndpointFacts
  <2>2. \A s \in Value : In(s, a) => s < b.hi
    BY <1>1, <2>1, IntervalFacts, ValueAssumption DEF In
  <2> QED
    BY <2>2, EndpointsAreMembers
<1>2. ASSUME NEW l \in Value, In(l, b), \A s \in Value : In(s, a) => s < l,
             ~(a.hi < b.hi)
      PROVE  FALSE
  <2>1. l \in Int /\ a.hi < l
    BY <1>2, EndpointsAreMembers, ValueAssumption
  <2>2. b.hi = INF
    BY <1>2, <2>1, IntervalFacts DEF In
  <2>3. a.hi = INF
    BY <1>2, <2>2, IntervalFacts
  <2>4. In(l, a)
    BY <2>1, <2>3, IntervalFacts DEF In, IsEmpty
  <2> QED
    BY <1>2, <2>1, <2>4
<1> QED
  BY <1>1, <1>2

(* The tier of a failed query says how sure the overflow is: 0 just when   *)
(* every length exceeds every size, at most 1 just when some length        *)
(* exceeds every size (walk.rs chance, elt), for every sentinel.           *)
THEOREM TierIsExact == Spec => []TierTellsCertainty
<1>1. ASSUME TypeInv
      PROVE  TierTellsCertainty
  <2> SUFFICES ASSUME ~IsEmpty(acc), NEW lr \in Operand \ {Empty}
               PROVE  /\ Chance(acc, lr) = 0
                           <=> \A s \in {n \in Value : In(n, acc)},
                                  l \in {n \in Value : In(n, lr)} : s < l
                      /\ Chance(acc, lr) <= 1
                           <=> \E l \in {n \in Value : In(n, lr)} :
                                  \A s \in {n \in Value : In(n, acc)} : s < l
    BY DEF TierTellsCertainty
  <2>1. /\ acc \in Interval /\ lr \in Interval
        /\ ~IsEmpty(lr) /\ lr.lo <= lr.hi
    BY <1>1, OperandFacts DEF TypeInv, TypeOK
  <2>2. /\ Elt(acc.hi, lr.lo) <=> acc.hi < lr.lo
        /\ Elt(acc.hi, lr.hi) <=> acc.hi < lr.hi
    BY <2>1, IntervalFacts, EltIsLess
  <2>3. /\ Chance(acc, lr) = 0 <=> acc.hi < lr.lo
        /\ Chance(acc, lr) <= 1 <=> acc.hi < lr.hi
    BY <2>1, <2>2, IntervalFacts DEF Chance
  <2>4. acc.hi < lr.lo
          <=> \A s, l \in Value : In(s, acc) /\ In(l, lr) => s < l
    BY <2>1, CertainTier
  <2>5. acc.hi < lr.hi
          <=> \E l \in Value : In(l, lr) /\ \A s \in Value : In(s, acc) => s < l
    BY <2>1, PossibleTier
  <2> QED
    BY <2>3, <2>4, <2>5
<1> QED
  BY <1>1, TypeAlways, PTL
=============================================================================
