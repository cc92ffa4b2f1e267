----------------------- MODULE ConstraintSystemProofs -----------------------
(***************************************************************************)
(* System, for any number of variables, operations and merges: what the    *)
(* store mentions exists, union-find keeps the classes that the merges     *)
(* call for, the cached top variable is the only one, and constraints and  *)
(* pins keep the meaning of the operations.                                *)
(***************************************************************************)
EXTENDS ConstraintSystem, Lemmas

LEMMA ATermType ==
  ASSUME names \in Seq(BOOLEAN)
  PROVE  ATerm \subseteq TermOver(Vars)
<1>1. AConst \subseteq TermOver(Vars) /\ AVar \subseteq TermOver(Vars)
  BY SimpleTerms, KonstAssumption DEF AConst, AVar
<1>2. CASE names = << >>
  BY <1>1, <1>2 DEF ATerm, Compound
<1>3. CASE names # << >>
  <2>1. 0 \in Vars /\ Len(names) - 1 \in Vars
    BY <1>3 DEF Vars
  <2>2. PICK f \in TermOver(Vars), g \in TermOver(Vars), one \in TermOver(Vars) :
          f = VarTerm(0) /\ g = VarTerm(Len(names) - 1) /\ one = ConstTerm(1)
    BY <2>1, SimpleTerms
  <2>3. /\ AddTerms(f, one) \in TermOver(Vars) /\ SubTerms(g, f) \in TermOver(Vars)
        /\ SubTerms(AddTerms(f, f), one) \in TermOver(Vars)
    BY AddTermsType, SubTermsType
  <2> QED
    BY <1>1, <1>3, <2>2, <2>3 DEF ATerm, Compound
<1> QED
  BY <1>2, <1>3


-----------------------------------------------------------------------------
(* Whatever the store mentions exists. *)

Asked(V) == [a : TermOver(V), b : TermOver(V)]

StoreInv ==
  /\ names \in Seq(BOOLEAN)
  /\ topVar \in Vars \cup {NoVar}
  /\ constraints \in Seq(ConstraintOver(Vars))
  /\ fixed \in Seq(Vars \X Interval)
  /\ hardLo \in Seq(Vars \X Int)
  /\ queries \in Seq(Asked(Vars))

LEMMA NothingOutside == StoreInv => Mentioned \subseteq Vars
<1> SUFFICES ASSUME StoreInv
             PROVE  Mentioned \subseteq Vars
  OBVIOUS
<1>1. PICK V : V = Vars
  OBVIOUS
<1>2. \A c \in ToSet(constraints) : ToSet(LhsVars(c)) \cup {Rhs(c)} \subseteq V
  <2>1. \A c \in ToSet(constraints) : c \in ConstraintOver(V)
    BY <1>1 DEF StoreInv, ToSet
  <2> QED
    BY <2>1, MentionedInside
<1>3. \A p \in ToSet(fixed) : p[1] \in V
  BY <1>1 DEF StoreInv, ToSet
<1>4. \A p \in ToSet(hardLo) : p[1] \in V
  BY <1>1 DEF StoreInv, ToSet
<1>5. \A t \in TermOver(V) : ToSet(LhsVars(Subset(t, 0))) \subseteq V
  <2> SUFFICES ASSUME NEW t \in TermOver(V)
               PROVE  ToSet(LhsVars(Subset(t, 0))) \subseteq V
    OBVIOUS
  <2>1. t.terms \in Seq(EntryOver(V))
    BY DEF TermOver
  <2>2. LhsVars(Subset(t, 0)) = [i \in DOMAIN t.terms |-> t.terms[i][2]]
    BY DEF LhsVars, Subset
  <2>3. \A i \in DOMAIN t.terms : t.terms[i][2] \in V
    BY <2>1 DEF EntryOver
  <2> QED
    BY <2>2, <2>3 DEF ToSet
<1>6. \A q \in ToSet(queries) : q.a \in TermOver(V) /\ q.b \in TermOver(V)
  <2>1. queries \in Seq(Asked(V))
    BY <1>1 DEF StoreInv
  <2>2. \A q \in ToSet(queries) : q \in Asked(V)
    BY <2>1 DEF ToSet
  <2> QED
    BY <2>2 DEF Asked
<1> DEFINE Of(c)  == ToSet(LhsVars(c)) \cup {Rhs(c)}
           By(q)  == ToSet(LhsVars(Subset(q.a, 0))) \cup ToSet(LhsVars(Subset(q.b, 0)))
           InCs   == UNION {Of(c) : c \in ToSet(constraints)}
           InQs   == UNION {By(q) : q \in ToSet(queries)}
           InPins == {p[1] : p \in ToSet(fixed)}
           InLows == {p[1] : p \in ToSet(hardLo)}
<1>7. InCs \subseteq V
  <2>1. \A c \in ToSet(constraints) : Of(c) \subseteq V
    BY <1>2
  <2> HIDE DEF Of
  <2> QED
    BY <2>1
<1>8. InQs \subseteq V
  <2>1. \A q \in ToSet(queries) : By(q) \subseteq V
    BY <1>5, <1>6
  <2> HIDE DEF By
  <2> QED
    BY <2>1
<1>9. InPins \subseteq V /\ InLows \subseteq V
  BY <1>3, <1>4
<1>10. Mentioned = InCs \cup InQs \cup InPins \cup InLows
  BY DEF Mentioned
<1> HIDE DEF InCs, InQs, InPins, InLows
<1> QED
  BY <1>1, <1>7, <1>8, <1>9, <1>10

LEMMA Wider ==
  ASSUME StoreInv, NEW W, Vars \subseteq W
  PROVE  /\ constraints \in Seq(ConstraintOver(W)) /\ fixed \in Seq(W \X Interval)
         /\ hardLo \in Seq(W \X Int) /\ queries \in Seq(Asked(W))
<1>1. Seq(ConstraintOver(Vars)) \subseteq Seq(ConstraintOver(W)) /\ TermOver(Vars) \subseteq TermOver(W)
  BY TermWider
<1>2. /\ Vars \X Interval \subseteq W \X Interval /\ Vars \X Int \subseteq W \X Int
      /\ Asked(Vars) \subseteq Asked(W)
  BY <1>1 DEF Asked
<1>3. /\ Seq(Vars \X Interval) \subseteq Seq(W \X Interval)
      /\ Seq(Vars \X Int) \subseteq Seq(W \X Int)
      /\ Seq(Asked(Vars)) \subseteq Seq(Asked(W))
  BY <1>2
<1> QED
  BY <1>1, <1>3 DEF StoreInv

LEMMA GrownVars ==
  ASSUME names \in Seq(BOOLEAN), NEW flags \in Seq(BOOLEAN), Grown(flags)
  PROVE  /\ names' \in Seq(BOOLEAN) /\ Len(names') = Len(names) + Len(flags)
         /\ Vars' = 0 .. NextVar(0) + Len(flags) - 1 /\ Vars = 0 .. NextVar(0) - 1
         /\ Vars \subseteq Vars' /\ NextVar(0) \in Nat
         /\ Len(flags) > 0 => NextVar(0) \in Vars'
<1>1. names' = names \o flags
  BY DEF Grown
<1>2. names' \in Seq(BOOLEAN) /\ Len(names') = Len(names) + Len(flags)
      /\ Len(names) \in Nat /\ Len(flags) \in Nat
  BY <1>1
<1> QED
  BY <1>2 DEF Vars, NextVar

LEMMA RangeTypes ==
  ASSUME NEW n \in Int
  PROVE  Singleton(n) \in Interval /\ Top \in Interval
BY INFAssumption
   DEF Singleton, Top, Interval, Endpoint, Clamp, Greater, Lesser, NEGINF

LEMMA InitStore == Init => StoreInv
BY DEF Init, StoreInv, Vars

LEMMA FreshStore == StoreInv /\ Fresh => StoreInv'
<1> SUFFICES ASSUME StoreInv, NEW named \in BOOLEAN, Grown(<<named>>),
                    UNCHANGED <<store, topVar, asked>>
             PROVE  StoreInv'
  BY DEF Fresh
<1>1. names \in Seq(BOOLEAN) /\ topVar \in Vars \cup {NoVar}
  BY DEF StoreInv
<1>2. names' \in Seq(BOOLEAN) /\ Vars \subseteq Vars'
  <2>1. <<named>> \in Seq(BOOLEAN)
    OBVIOUS
  <2> QED
    BY <1>1, <2>1, GrownVars
<1>3. PICK W : W = Vars'
  OBVIOUS
<1> QED
  BY <1>1, <1>2, <1>3, Wider DEF StoreInv, store, Asked

LEMMA GetTopStore == StoreInv /\ GetTop => StoreInv'
<1> SUFFICES ASSUME StoreInv, GetTop
             PROVE  StoreInv'
  OBVIOUS
<1>1. names \in Seq(BOOLEAN) /\ topVar \in Vars \cup {NoVar}
  BY DEF StoreInv
<1>2. UNCHANGED <<constraints, queries, hardLo>>
  BY DEF GetTop
<1>3. CASE topVar # NoVar
  <2>1. UNCHANGED <<names, fixed, topVar>>
    BY <1>3 DEF GetTop
  <2>2. Vars' = Vars
    BY <2>1 DEF Vars
  <2> QED
    BY <1>2, <2>1, <2>2 DEF StoreInv
<1>4. CASE topVar = NoVar
  <2>1. /\ Grown(<<TRUE>>) /\ fixed' = Append(fixed, <<NextVar(0), Top>>)
        /\ topVar' = NextVar(0)
    BY <1>4 DEF GetTop
  <2>2. <<TRUE>> \in Seq(BOOLEAN) /\ Len(<<TRUE>>) > 0
    OBVIOUS
  <2>3. names' \in Seq(BOOLEAN) /\ Vars \subseteq Vars' /\ NextVar(0) \in Vars'
    BY <1>1, <2>1, <2>2, GrownVars
  <2>4. PICK W : W = Vars'
    OBVIOUS
  <2>5. /\ constraints \in Seq(ConstraintOver(W)) /\ fixed \in Seq(W \X Interval)
        /\ hardLo \in Seq(W \X Int) /\ queries \in Seq(Asked(W))
    BY <2>3, <2>4, Wider
  <2>6. PICK e \in W \X Interval : e = <<NextVar(0), Top>>
    <3>1. Top \in Interval
      BY RangeTypes
    <3> QED
      BY <2>3, <2>4, <3>1
  <2>7. fixed' \in Seq(W \X Interval)
    BY <2>1, <2>5, <2>6
  <2> QED
    BY <1>2, <2>1, <2>3, <2>4, <2>5, <2>7 DEF StoreInv
<1> QED
  BY <1>3, <1>4

(* Steps that create no variable. *)
LEMMA SameVars ==
  ASSUME StoreInv, UNCHANGED <<names, topVar>>,
         constraints' \in Seq(ConstraintOver(Vars)), fixed' \in Seq(Vars \X Interval),
         hardLo' \in Seq(Vars \X Int), queries' \in Seq(Asked(Vars))
  PROVE  StoreInv'
<1>1. Vars' = Vars
  BY DEF Vars
<1> QED
  BY <1>1 DEF StoreInv

LEMMA AddSubsetStore == StoreInv /\ AddSubset => StoreInv'
<1> SUFFICES ASSUME StoreInv, NEW lhs \in ATerm, NEW rhs \in ATerm,
                    constraints' = constraints \o SubsetOf(lhs, rhs),
                    UNCHANGED <<names, parent, queries, fixed, hardLo, topVar, classes>>
             PROVE  StoreInv'
  BY DEF AddSubset
<1>1. lhs \in TermOver(Vars) /\ rhs \in TermOver(Vars)
  BY ATermType DEF StoreInv
<1>2. PICK cs \in Seq(ConstraintOver(Vars)) : cs = SubsetOf(lhs, rhs)
  BY <1>1, SubsetOfType
<1>3. constraints' \in Seq(ConstraintOver(Vars))
  BY <1>2 DEF StoreInv
<1> QED
  BY <1>3, SameVars DEF StoreInv

LEMMA AddMinStore == StoreInv /\ AddMin => StoreInv'
<1> SUFFICES ASSUME StoreInv, NEW x \in ATerm, NEW y \in ATerm,
                    Grown([i \in 1 .. MinVars(x, y) |-> FALSE]),
                    constraints' = constraints \o MinOf(x, y, NextVar(0)),
                    UNCHANGED <<queries, fixed, hardLo, topVar>>
             PROVE  StoreInv'
  BY DEF AddMin
<1>1. names \in Seq(BOOLEAN) /\ topVar \in Vars \cup {NoVar}
  BY DEF StoreInv
<1>2. PICK z \in Nat : z = NextVar(0) /\ Vars = 0 .. z - 1
  BY <1>1 DEF NextVar, Vars
<1>3. x \in TermOver(0 .. z - 1) /\ y \in TermOver(0 .. z - 1)
  BY <1>1, <1>2, ATermType
<1>4. PICK m \in Nat : m = MinVars(x, y) /\ MinOf(x, y, z) \in Seq(ConstraintOver(0 .. z + m - 1))
  BY <1>3, MinOfType
<1>5. PICK flags \in Seq(BOOLEAN) : flags = [i \in 1 .. m |-> FALSE] /\ Len(flags) = m
  <2>1. [i \in 1 .. m |-> FALSE] \in Seq(BOOLEAN) /\ Len([i \in 1 .. m |-> FALSE]) = m
    OBVIOUS
  <2> QED
    BY <2>1
<1>6. Grown(flags)
  BY <1>4, <1>5
<1>7. names' \in Seq(BOOLEAN) /\ Vars \subseteq Vars' /\ Vars' = 0 .. z + m - 1
  BY <1>1, <1>2, <1>5, <1>6, GrownVars
<1>8. PICK W : W = Vars'
  OBVIOUS
<1>9. /\ constraints \in Seq(ConstraintOver(W)) /\ fixed \in Seq(W \X Interval)
      /\ hardLo \in Seq(W \X Int) /\ queries \in Seq(Asked(W))
  BY <1>7, <1>8, Wider
<1>10. PICK cs \in Seq(ConstraintOver(W)) : cs = MinOf(x, y, z)
  BY <1>4, <1>7, <1>8
<1>11. constraints' \in Seq(ConstraintOver(W))
  BY <1>2, <1>9, <1>10
<1> QED
  BY <1>1, <1>7, <1>8, <1>9, <1>11 DEF StoreInv

LEMMA UnionTermStore == StoreInv /\ UnionTerm => StoreInv'
<1> DEFINE z == VarTerm(NextVar(0))
<1> SUFFICES ASSUME StoreInv, NEW x \in ATerm, NEW y \in ATerm,
                    Grown(<<FALSE>>),
                    constraints' = constraints \o SubsetOf(x, z) \o SubsetOf(y, z),
                    UNCHANGED <<queries, fixed, hardLo, topVar>>
             PROVE  StoreInv'
  BY DEF UnionTerm
<1>1. names \in Seq(BOOLEAN) /\ topVar \in Vars \cup {NoVar}
  BY DEF StoreInv
<1>2. <<FALSE>> \in Seq(BOOLEAN) /\ Len(<<FALSE>>) > 0
  OBVIOUS
<1>3. names' \in Seq(BOOLEAN) /\ Vars \subseteq Vars' /\ NextVar(0) \in Vars'
  BY <1>1, <1>2, GrownVars
<1>4. PICK W : W = Vars'
  OBVIOUS
<1>5. /\ constraints \in Seq(ConstraintOver(W)) /\ fixed \in Seq(W \X Interval)
      /\ hardLo \in Seq(W \X Int) /\ queries \in Seq(Asked(W))
  BY <1>3, <1>4, Wider
<1>6. x \in TermOver(W) /\ y \in TermOver(W) /\ z \in TermOver(W)
  <2>1. x \in TermOver(Vars) /\ y \in TermOver(Vars)
    BY <1>1, ATermType
  <2> QED
    BY <1>3, <1>4, <2>1, TermWider, SimpleTerms
<1>7. PICK cx \in Seq(ConstraintOver(W)), cy \in Seq(ConstraintOver(W)) : cx = SubsetOf(x, z) /\ cy = SubsetOf(y, z)
  <2> HIDE DEF z
  <2> QED
    BY <1>6, SubsetOfType
<1>8. constraints' \in Seq(ConstraintOver(W))
  BY <1>5, <1>7
<1> QED
  BY <1>1, <1>3, <1>4, <1>5, <1>8 DEF StoreInv

LEMMA PinType ==
  ASSUME NEW V, NEW t \in TermOver(V), NEW k \in Int, IsSingleVarAny(t)
  PROVE  Pin(t, k) \in V \X Interval
<1>1. ~IsConstant(t) /\ t.konst \in Int
  BY DEF TermOver, IsConstant, IsSingleVarAny
<1>2. TheVar(t) \in V
  BY <1>1, TheVarType
<1>3. k - t.konst \in Int
  BY <1>1
<1>4. Singleton(k - t.konst) \in Interval
  BY <1>3, RangeTypes
<1> QED
  BY <1>2, <1>4 DEF Pin

LEMMA EqStore == StoreInv /\ Eq => StoreInv'
<1> SUFFICES ASSUME StoreInv, NEW a \in ATerm, NEW b \in ATerm, Equate(a, b)
             PROVE  StoreInv'
  BY DEF Eq
<1>1. a \in TermOver(Vars) /\ b \in TermOver(Vars) /\ a.konst \in Int /\ b.konst \in Int
  BY ATermType DEF StoreInv, TermOver
<1>2. UNCHANGED <<names, topVar, hardLo, queries>>
  BY DEF Equate, Union, store
<1>3. \/ UNCHANGED <<fixed, constraints>>
      \/ UNCHANGED constraints /\ IsSingleVarAny(a) /\ fixed' = fixed \o <<Pin(a, b.konst)>>
      \/ UNCHANGED constraints /\ IsSingleVarAny(b) /\ fixed' = fixed \o <<Pin(b, a.konst)>>
      \/ UNCHANGED fixed /\ constraints' = constraints \o SubsetOf(a, b) \o SubsetOf(b, a)
  BY DEF Equate, Union, store
<1>4. /\ constraints \in Seq(ConstraintOver(Vars)) /\ fixed \in Seq(Vars \X Interval)
      /\ hardLo \in Seq(Vars \X Int) /\ queries \in Seq(Asked(Vars))
  BY DEF StoreInv
<1>5. constraints' \in Seq(ConstraintOver(Vars)) /\ fixed' \in Seq(Vars \X Interval)
  <2>1. PICK ca \in Seq(ConstraintOver(Vars)), cb \in Seq(ConstraintOver(Vars)) :
          ca = SubsetOf(a, b) /\ cb = SubsetOf(b, a)
    BY <1>1, SubsetOfType
  <2>2. constraints \o ca \o cb \in Seq(ConstraintOver(Vars))
    BY <1>4
  <2>3. \A p \in Vars \X Interval : fixed \o <<p>> \in Seq(Vars \X Interval)
    BY <1>4
  <2>4. IsSingleVarAny(a) => Pin(a, b.konst) \in Vars \X Interval
    BY <1>1, PinType
  <2>5. IsSingleVarAny(b) => Pin(b, a.konst) \in Vars \X Interval
    BY <1>1, PinType
  <2> QED
    BY <1>3, <1>4, <2>1, <2>2, <2>3, <2>4, <2>5
<1> QED
  BY <1>2, <1>4, <1>5, SameVars

LEMMA HardGeStore == StoreInv /\ HardGe => StoreInv'
<1> SUFFICES ASSUME StoreInv, NEW a \in ATerm, NEW c \in Konst,
                    hardLo' = IF IsSingleVar(a) THEN Append(hardLo, <<TheVar(a), c>>) ELSE hardLo,
                    UNCHANGED <<names, parent, constraints, queries, fixed, topVar, classes>>
             PROVE  StoreInv'
  BY DEF HardGe
<1>1. a \in TermOver(Vars) /\ c \in Int
  BY ATermType, KonstAssumption DEF StoreInv
<1>2. hardLo \in Seq(Vars \X Int)
  BY DEF StoreInv
<1>3. hardLo' \in Seq(Vars \X Int)
  <2>1. CASE IsSingleVar(a)
    <3>1. ~IsConstant(a)
      BY <1>1, <2>1 DEF TermOver, IsConstant, IsSingleVar, IsSingleVarAny
    <3>2. PICK e \in Vars \X Int : e = <<TheVar(a), c>>
      BY <1>1, <3>1, TheVarType
    <3> QED
      BY <1>2, <2>1, <3>2
  <2>2. CASE ~IsSingleVar(a)
    BY <1>2, <2>2
  <2> QED
    BY <2>1, <2>2
<1> QED
  BY <1>3, SameVars DEF StoreInv

LEMMA QueryGeStore == StoreInv /\ QueryGe => StoreInv'
<1> SUFFICES ASSUME StoreInv, NEW a \in ATerm, NEW b \in ATerm,
                    queries' = Append(queries, [a |-> a, b |-> b]),
                    UNCHANGED <<names, parent, constraints, fixed, hardLo, topVar, classes>>
             PROVE  StoreInv'
  BY DEF QueryGe, ATerm
<1>1. a \in TermOver(Vars) /\ b \in TermOver(Vars)
  BY ATermType DEF StoreInv
<1>2. PICK q \in Asked(Vars) : q = [a |-> a, b |-> b]
  BY <1>1 DEF Asked
<1>3. queries' \in Seq(Asked(Vars))
  BY <1>2 DEF StoreInv
<1> QED
  BY <1>3, SameVars DEF StoreInv

LEMMA StepStore == StoreInv /\ [Next]_vars => StoreInv'
<1> SUFFICES ASSUME StoreInv, [Next]_vars
             PROVE  StoreInv'
  OBVIOUS
<1>1. CASE Find \/ UNCHANGED vars
  <2>1. UNCHANGED <<names, topVar, store>>
    BY <1>1 DEF Find, vars, store
  <2> QED
    BY <2>1, SameVars DEF StoreInv, store
<1> QED
  BY <1>1, FreshStore, GetTopStore, AddSubsetStore, AddMinStore, UnionTermStore, EqStore,
     HardGeStore, QueryGeStore DEF Next

-----------------------------------------------------------------------------
(* The union-find forest p over the variables 0 .. n - 1: rt says which    *)
(* root a variable hangs under, and ranks fall on every way up.            *)

Forest(p, n, rt, rank) ==
  /\ p \in [1 .. n -> 0 .. n - 1]
  /\ rt \in [0 .. n - 1 -> 0 .. n - 1]
  /\ rank \in [0 .. n - 1 -> Nat]
  /\ \A x \in 0 .. n - 1 :
       /\ rt[p[x + 1]] = rt[x]
       /\ rt[rt[x]] = rt[x]
       /\ p[x + 1] = x <=> rt[x] = x
       /\ p[x + 1] # x => rank[p[x + 1]] < rank[x]
       /\ rt[x] # x => rank[rt[x]] < rank[x]

(* Following the forest upwards from v, one step at a time. *)
LEMMA RootSteps ==
  ASSUME NEW n \in Nat, parent \in [1 .. n -> 0 .. n - 1], Len(parent) = n,
         NEW v \in 0 .. n - 1
  PROVE  \E f \in [Nat -> 0 .. n - 1] :
            f[0] = v /\ (\A k \in Nat : f[k + 1] = parent[f[k] + 1]) /\ Root(v) = f[n]
<1> DEFINE V == 0 .. n - 1
           F == [x \in V |-> parent[x + 1]]
<1>1. F \in [V -> V] /\ \A x \in V : F[x] = parent[x + 1]
  <2>1. \A x \in V : x + 1 \in 1 .. n
    OBVIOUS
  <2> QED
    BY <2>1
<1> HIDE DEF F, V
<1>2. v \in V
  BY DEF V
<1>3. PICK f : Iterates(f, V, v, F)
  BY <1>1, <1>2, Iteration
<1>4. f \in [Nat -> V] /\ f[0] = v /\ \A k \in Nat : f[k + 1] = F[f[k]]
  BY <1>3 DEF Iterates
<1>14. f = [k \in Nat |-> IF k = 0 THEN v ELSE F[f[k - 1]]]
  BY <1>3 DEF Iterates
<1> DEFINE Def(R) == R = [k \in Nat |-> IF k = 0 THEN v ELSE parent[R[k - 1] + 1]]
           R0 == CHOOSE R : Def(R)
<1>5. Def(f)
  <2>1. \A k \in Nat : k # 0 => F[f[k - 1]] = parent[f[k - 1] + 1]
    <3> SUFFICES ASSUME NEW k \in Nat, k # 0
                 PROVE  F[f[k - 1]] = parent[f[k - 1] + 1]
      OBVIOUS
    <3>1. k - 1 \in Nat
      OBVIOUS
    <3> QED
      BY <1>1, <1>4, <3>1
  <2> QED
    BY <1>14, <2>1
<1>6. Root(v) = R0[n]
  BY DEF Root
<1>7. Def(R0)
  BY <1>5
<1>8. R0[0] = v /\ \A k \in Nat : R0[k + 1] = parent[R0[k] + 1]
  <2>1. \A k \in Nat : k + 1 \in Nat /\ k + 1 # 0 /\ (k + 1) - 1 = k
    OBVIOUS
  <2> HIDE DEF R0
  <2> QED
    BY <1>7, <2>1
<1> HIDE DEF R0
<1> DEFINE Same == {k \in Nat : R0[k] = f[k]}
<1>9. 0 \in Same
  BY <1>4, <1>8
<1>10. \A k \in Nat : k \in Same => k + 1 \in Same
  <2> SUFFICES ASSUME NEW k \in Nat, R0[k] = f[k]
               PROVE  R0[k + 1] = f[k + 1]
    OBVIOUS
  <2> QED
    <3>1. f[k] \in V
      BY <1>4
    <3>2. R0[k + 1] = parent[R0[k] + 1]
      BY <1>8
    <3>3. f[k + 1] = F[f[k]]
      BY <1>4
    <3> QED
      BY <1>1, <3>1, <3>2, <3>3
<1>11. Nat \subseteq Same
  <2> HIDE DEF Same
  <2> QED
    BY <1>9, <1>10, SetInduction
<1>12. Root(v) = f[n]
  BY <1>6, <1>11
<1>13. \A k \in Nat : f[k + 1] = parent[f[k] + 1]
  <2> SUFFICES ASSUME NEW k \in Nat
               PROVE  f[k + 1] = parent[f[k] + 1]
    OBVIOUS
  <2>1. f[k] \in V /\ f[k + 1] = F[f[k]]
    BY <1>4
  <2> QED
    BY <1>1, <2>1
<1> QED
  BY <1>4, <1>12, <1>13 DEF V

(* As many steps as there are variables lead to a root: find terminates. *)
LEMMA RootIs ==
  ASSUME NEW n \in Nat, NEW rt, NEW rank, Forest(parent, n, rt, rank), Len(parent) = n,
         NEW v \in 0 .. n - 1
  PROVE  Root(v) = rt[v]
<1> DEFINE V == 0 .. n - 1
<1>1. /\ parent \in [1 .. n -> V] /\ rt \in [V -> V] /\ rank \in [V -> Nat]
      /\ \A x \in V : /\ rt[parent[x + 1]] = rt[x]
                      /\ parent[x + 1] = x <=> rt[x] = x
                      /\ parent[x + 1] # x => rank[parent[x + 1]] < rank[x]
  BY DEF Forest
<1>2. PICK f \in [Nat -> V] :
        f[0] = v /\ (\A k \in Nat : f[k + 1] = parent[f[k] + 1]) /\ Root(v) = f[n]
  BY <1>1, RootSteps
<1>3. v \in V /\ V = 0 .. n - 1
  OBVIOUS
<1> HIDE DEF V
<1> DEFINE Under == {k \in Nat : rt[f[k]] = rt[v]}
<1>4. Nat \subseteq Under
  <2>1. 0 \in Under
    BY <1>2
  <2>2. \A k \in Nat : k \in Under => k + 1 \in Under
    <3> SUFFICES ASSUME NEW k \in Nat, rt[f[k]] = rt[v]
                 PROVE  rt[f[k + 1]] = rt[v]
      OBVIOUS
    <3>1. f[k] \in V /\ f[k + 1] = parent[f[k] + 1]
      BY <1>2
    <3> QED
      BY <1>1, <3>1
  <2> HIDE DEF Under
  <2> QED
    BY <2>1, <2>2, SetInduction
<1>5. ASSUME NEW i \in Nat
      PROVE  \A m \in Nat : rank[f[i + m]] <= rank[f[i]]
  <2> DEFINE Falls == {m \in Nat : rank[f[i + m]] <= rank[f[i]]}
  <2>1. 0 \in Falls
    BY <1>1, <1>2
  <2>2. \A m \in Nat : m \in Falls => m + 1 \in Falls
    <3> SUFFICES ASSUME NEW m \in Nat, rank[f[i + m]] <= rank[f[i]]
                 PROVE  rank[f[i + (m + 1)]] <= rank[f[i]]
      OBVIOUS
    <3>1. i + m \in Nat /\ i + (m + 1) = (i + m) + 1
      OBVIOUS
    <3>2. PICK x \in V, y \in V : x = f[i + m] /\ y = f[i + (m + 1)] /\ y = parent[x + 1]
      <4>1. f[i + m] \in V /\ f[i + (m + 1)] \in V /\ f[(i + m) + 1] = parent[f[i + m] + 1]
        BY <1>2, <3>1
      <4> QED
        BY <3>1, <4>1
    <3>3. rank[x] \in Nat /\ rank[y] \in Nat /\ rank[f[i]] \in Nat /\ (y # x => rank[y] < rank[x])
      BY <1>1, <1>2, <3>2
    <3> QED
      BY <3>2, <3>3
  <2>3. Nat \subseteq Falls
    <3> HIDE DEF Falls
    <3> QED
      BY <2>1, <2>2, SetInduction
  <2> QED
    BY <2>3
<1>6. ASSUME NEW i \in Nat, NEW j \in Nat, i < j, f[i] = f[j]
      PROVE  f[i + 1] = f[i]
  <2>1. j - (i + 1) \in Nat /\ (i + 1) + (j - (i + 1)) = j /\ i + 1 \in Nat
    BY <1>6
  <2>2. rank[f[j]] <= rank[f[i + 1]]
    BY <1>5, <2>1
  <2>3. PICK x \in V, y \in V : x = f[i] /\ y = f[i + 1] /\ y = parent[x + 1]
    <3>1. f[i] \in V /\ f[i + 1] \in V /\ f[i + 1] = parent[f[i] + 1]
      BY <1>2, <2>1
    <3> QED
      BY <3>1
  <2>4. rank[x] \in Nat /\ rank[y] \in Nat /\ (y # x => rank[y] < rank[x])
    BY <1>1, <2>3
  <2> QED
    BY <1>6, <2>2, <2>3, <2>4
<1>7. ASSUME NEW i \in 0 .. n, f[i + 1] = f[i]
      PROVE  f[n] = f[i]
  <2> DEFINE Stays == {m \in Nat : f[i + m] = f[i]}
  <2>1. 0 \in Stays
    OBVIOUS
  <2>2. \A m \in Nat : m \in Stays => m + 1 \in Stays
    <3> SUFFICES ASSUME NEW m \in Nat, f[i + m] = f[i]
                 PROVE  f[i + (m + 1)] = f[i]
      OBVIOUS
    <3>1. i + m \in Nat /\ i + (m + 1) = (i + m) + 1 /\ i \in Nat
      OBVIOUS
    <3> QED
      BY <1>2, <1>7, <3>1
  <2>3. Nat \subseteq Stays
    <3> HIDE DEF Stays
    <3> QED
      BY <2>1, <2>2, SetInduction
  <2>4. n - i \in Nat /\ i + (n - i) = n
    OBVIOUS
  <2> QED
    BY <2>3, <2>4
<1>8. \E i \in 0 .. n : f[i + 1] = f[i]
  <2>1. IsFiniteSet(0 .. n) /\ Cardinality(0 .. n) = n + 1
    BY FS_Interval
  <2>2. IsFiniteSet(V) /\ Cardinality(V) = n
    BY <1>3, FS_Interval
  <2>3. PICK g \in [0 .. n -> V] : \A k \in 0 .. n : g[k] = f[k]
    <3>1. [k \in 0 .. n |-> f[k]] \in [0 .. n -> V]
      BY <1>2
    <3> QED
      BY <3>1
  <2>4. PICK i, j \in 0 .. n : i # j /\ g[i] = g[j]
    <3>1. Cardinality(V) < Cardinality(0 .. n)
      BY <2>1, <2>2
    <3> QED
      BY <2>1, <2>2, <3>1, FS_PigeonHole
  <2>5. f[i] = f[j] /\ i \in Nat /\ j \in Nat
    BY <2>3, <2>4
  <2>6. CASE i < j
    BY <1>6, <2>5, <2>6
  <2>7. CASE j < i
    BY <1>6, <2>5, <2>7
  <2> QED
    BY <2>4, <2>6, <2>7
<1>9. PICK i \in 0 .. n : f[i + 1] = f[i] /\ f[n] = f[i]
  BY <1>7, <1>8
<1>10. PICK x \in V : x = f[n] /\ rt[x] = rt[v] /\ parent[x + 1] = x
  <2>0. i \in Nat
    OBVIOUS
  <2>1. n \in Nat /\ f[n] \in V /\ f[i + 1] = parent[f[i] + 1]
    BY <1>2, <2>0
  <2>2. rt[f[n]] = rt[v]
    BY <1>4
  <2> QED
    BY <1>9, <2>1, <2>2
<1> QED
  BY <1>1, <1>2, <1>10

(* What is on the way from v up hangs under the same root. *)
LEMMA PathInside ==
  ASSUME NEW n \in Nat, NEW rt, NEW rank, Forest(parent, n, rt, rank), Len(parent) = n,
         NEW v \in 0 .. n - 1
  PROVE  \A x \in Path(v) : x \in 0 .. n - 1 /\ rt[x] = rt[v]
<1> DEFINE V == {x \in 0 .. n - 1 : rt[x] = rt[v]}
           step(p) == p \cup {parent[x + 1] : x \in p}
           F == [p \in SUBSET V |-> step(p)]
<1>1. \A p \in SUBSET V : step(p) \in SUBSET V
  <2>1. \A x \in 0 .. n - 1 : parent[x + 1] \in 0 .. n - 1 /\ rt[parent[x + 1]] = rt[x]
    <3> SUFFICES ASSUME NEW x \in 0 .. n - 1
                 PROVE  parent[x + 1] \in 0 .. n - 1 /\ rt[parent[x + 1]] = rt[x]
      OBVIOUS
    <3>1. x + 1 \in 1 .. n
      OBVIOUS
    <3> QED
      BY <3>1 DEF Forest
  <2>2. \A x \in V : parent[x + 1] \in V
    BY <2>1
  <2> HIDE DEF V
  <2> QED
    BY <2>2
<1>2. {v} \in SUBSET V
  OBVIOUS
<1> HIDE DEF V
<1>3. F \in [SUBSET V -> SUBSET V] /\ \A p \in SUBSET V : F[p] = step(p)
  BY <1>1
<1> HIDE DEF F
<1>4. PICK f : Iterates(f, SUBSET V, {v}, F)
  BY <1>2, <1>3, Iteration
<1>5. f \in [Nat -> SUBSET V] /\ f[0] = {v} /\ \A k \in Nat : f[k + 1] = F[f[k]]
  BY <1>4 DEF Iterates
<1>6. f = [k \in Nat |-> IF k = 0 THEN {v} ELSE F[f[k - 1]]]
  BY <1>4 DEF Iterates
<1> DEFINE Def(R) == R = [k \in Nat |-> IF k = 0 THEN {v}
                                     ELSE R[k - 1] \cup {parent[x + 1] : x \in R[k - 1]}]
           R0 == CHOOSE R : Def(R)
<1>7. Def(f)
  <2>1. \A k \in Nat : k # 0 => F[f[k - 1]] = step(f[k - 1])
    <3> SUFFICES ASSUME NEW k \in Nat, k # 0
                 PROVE  F[f[k - 1]] = step(f[k - 1])
      OBVIOUS
    <3>1. k - 1 \in Nat
      OBVIOUS
    <3>2. f[k - 1] \in SUBSET V
      BY <1>5, <3>1
    <3> HIDE DEF step
    <3> QED
      BY <1>3, <3>2
  <2> QED
    BY <1>6, <2>1
<1>8. Path(v) = R0[n]
  BY DEF Path
<1>9. Def(R0)
  BY <1>7
<1>10. R0[0] = {v} /\ \A k \in Nat : R0[k + 1] = step(R0[k])
  <2>1. \A k \in Nat : k + 1 \in Nat /\ k + 1 # 0 /\ (k + 1) - 1 = k
    OBVIOUS
  <2> HIDE DEF R0
  <2> QED
    BY <1>9, <2>1
<1> HIDE DEF R0
<1> DEFINE Good == {k \in Nat : R0[k] \in SUBSET V}
<1>11. 0 \in Good
  BY <1>2, <1>10
<1>12. \A k \in Nat : k \in Good => k + 1 \in Good
  <2> SUFFICES ASSUME NEW k \in Nat, R0[k] \in SUBSET V
               PROVE  R0[k + 1] \in SUBSET V
    OBVIOUS
  <2>1. R0[k + 1] = step(R0[k])
    BY <1>10
  <2> HIDE DEF step
  <2> QED
    BY <1>1, <2>1
<1>13. Nat \subseteq Good
  <2> HIDE DEF Good
  <2> QED
    BY <1>11, <1>12, SetInduction
<1>14. Path(v) \in SUBSET V
  BY <1>8, <1>13
<1> QED
  BY <1>14 DEF V

(* Path compression, of whatever forest has the same roots. *)
LEMMA CompressedKeeps ==
  ASSUME NEW n \in Nat, NEW rt, NEW rank, Forest(parent, n, rt, rank), Len(parent) = n,
         NEW v \in 0 .. n - 1, NEW q, Forest(q, n, rt, rank)
  PROVE  Forest(Compressed(q, v), n, rt, rank)
<1> DEFINE V == 0 .. n - 1
           c == Compressed(q, v)
<1>1. /\ q \in [1 .. n -> V] /\ rt \in [V -> V] /\ rank \in [V -> Nat]
      /\ \A x \in V : /\ rt[q[x + 1]] = rt[x]
                      /\ rt[rt[x]] = rt[x]
                      /\ q[x + 1] = x <=> rt[x] = x
                      /\ q[x + 1] # x => rank[q[x + 1]] < rank[x]
                      /\ rt[x] # x => rank[rt[x]] < rank[x]
  BY DEF Forest
<1>2. PICK S : S = Path(v) \ {Root(v)}
  OBVIOUS
<1>3. \A x \in S : x \in V /\ rt[x] = rt[v] /\ x # rt[v]
  BY <1>2, PathInside, RootIs
<1>4. Root(v) = rt[v] /\ rt[v] \in V
  BY <1>1, RootIs
<1>5. c = [x \in 1 .. n |-> IF x - 1 \in S THEN rt[v] ELSE q[x]]
  BY <1>1, <1>2, <1>4 DEF Compressed
<1>6. \A x \in V : x + 1 \in 1 .. n /\ (x + 1) - 1 = x
  OBVIOUS
<1> HIDE DEF c
<1>7. c \in [1 .. n -> V]
  BY <1>1, <1>4, <1>5
<1>8. \A x \in V : c[x + 1] = IF x \in S THEN rt[v] ELSE q[x + 1]
  BY <1>5, <1>6
<1>9. \A x \in V : /\ rt[c[x + 1]] = rt[x]
                   /\ c[x + 1] = x <=> rt[x] = x
                   /\ c[x + 1] # x => rank[c[x + 1]] < rank[x]
  <2> SUFFICES ASSUME NEW x \in V
               PROVE  /\ rt[c[x + 1]] = rt[x]
                      /\ c[x + 1] = x <=> rt[x] = x
                      /\ c[x + 1] # x => rank[c[x + 1]] < rank[x]
    OBVIOUS
  <2>1. CASE x \in S
    <3>1. c[x + 1] = rt[v] /\ rt[x] = rt[v] /\ x # rt[v]
      BY <1>3, <1>8, <2>1
    <3> HIDE DEF V
    <3> QED
      BY <1>1, <3>1
  <2>2. CASE x \notin S
    <3>1. c[x + 1] = q[x + 1]
      BY <1>8, <2>2
    <3> HIDE DEF V
    <3> QED
      BY <1>1, <3>1
  <2> QED
    BY <2>1, <2>2
<1> HIDE DEF V
<1>10. V = 0 .. n - 1
  BY DEF V
<1> QED
  BY <1>1, <1>7, <1>9, <1>10 DEF Forest, c

(* One root is hung under another: its variables' ranks rise above it. *)
LEMMA LinkKeeps ==
  ASSUME NEW n \in Nat, NEW rt, NEW rank, NEW q, Forest(q, n, rt, rank),
         NEW keep \in 0 .. n - 1, NEW gone \in 0 .. n - 1,
         rt[keep] = keep, rt[gone] = gone, keep # gone,
         NEW rt2, rt2 = [x \in 0 .. n - 1 |-> IF rt[x] = gone THEN keep ELSE rt[x]]
  PROVE  \E rank2 : Forest([q EXCEPT ![gone + 1] = keep], n, rt2, rank2)
<1> DEFINE V == 0 .. n - 1
           c == [q EXCEPT ![gone + 1] = keep]
           rank2 == [x \in V |-> IF rt[x] = gone THEN rank[x] + rank[keep] + 1 ELSE rank[x]]
<1>1. /\ q \in [1 .. n -> V] /\ rt \in [V -> V] /\ rank \in [V -> Nat]
      /\ \A x \in V : /\ rt[q[x + 1]] = rt[x]
                      /\ rt[rt[x]] = rt[x]
                      /\ q[x + 1] = x <=> rt[x] = x
                      /\ q[x + 1] # x => rank[q[x + 1]] < rank[x]
                      /\ rt[x] # x => rank[rt[x]] < rank[x]
  BY DEF Forest
<1>2. \A x \in V : x + 1 \in 1 .. n /\ (x + 1 = gone + 1 <=> x = gone)
  OBVIOUS
<1>3. c \in [1 .. n -> V] /\ \A x \in V : c[x + 1] = IF x = gone THEN keep ELSE q[x + 1]
  BY <1>1, <1>2
<1>4. V = 0 .. n - 1 /\ keep \in V /\ gone \in V
  OBVIOUS
<1> HIDE DEF V, c
<1>5. rt2 \in [V -> V] /\ \A x \in V : rt2[x] = IF rt[x] = gone THEN keep ELSE rt[x]
  BY <1>1, <1>4
<1>6. rank2 \in [V -> Nat]
  <2>0. rank \in [V -> Nat] /\ rank[keep] \in Nat
    BY <1>1, <1>4
  <2>1. \A x \in V : rank[x] \in Nat /\ rank[keep] \in Nat /\ rank[x] + rank[keep] + 1 \in Nat
    <3> SUFFICES ASSUME NEW x \in V
                 PROVE  rank[x] \in Nat /\ rank[keep] \in Nat /\ rank[x] + rank[keep] + 1 \in Nat
      OBVIOUS
    <3>1. rank[x] \in Nat
      BY <2>0
    <3> QED
      BY <2>0, <3>1
  <2> QED
    BY <2>1
<1>7. \A x \in V : rank2[x] = IF rt[x] = gone THEN rank[x] + rank[keep] + 1 ELSE rank[x]
  OBVIOUS
<1> HIDE DEF rank2
<1>8. ASSUME NEW x \in V
      PROVE  /\ rt2[c[x + 1]] = rt2[x]
             /\ rt2[rt2[x]] = rt2[x]
             /\ c[x + 1] = x <=> rt2[x] = x
             /\ c[x + 1] # x => rank2[c[x + 1]] < rank2[x]
             /\ rt2[x] # x => rank2[rt2[x]] < rank2[x]
  <2>1. /\ c[x + 1] \in V /\ q[x + 1] \in V /\ rt[x] \in V /\ rank[x] \in Nat /\ rank[keep] \in Nat
        /\ rank[q[x + 1]] \in Nat /\ rank[rt[x]] \in Nat
    <3>1. x + 1 \in 1 .. n
      BY <1>2
    <3> QED
      BY <1>1, <1>3, <1>4, <3>1
  <2>2. rt2[keep] = keep /\ rank2[keep] = rank[keep]
    BY <1>4, <1>5, <1>7
  <2>3. CASE x = gone
    <3>1. c[x + 1] = keep /\ rt2[x] = keep /\ rank2[x] = rank[x] + rank[keep] + 1
      BY <1>3, <1>5, <1>7, <2>3
    <3> QED
      BY <2>1, <2>2, <2>3, <3>1
  <2>4. CASE x # gone /\ rt[x] = gone
    <3>1. c[x + 1] = q[x + 1] /\ rt[q[x + 1]] = gone /\ q[x + 1] # x
      BY <1>1, <1>3, <2>4
    <3>2. rt2[x] = keep /\ rank2[x] = rank[x] + rank[keep] + 1
      BY <1>5, <1>7, <2>4
    <3>3. rt2[q[x + 1]] = keep /\ rank2[q[x + 1]] = rank[q[x + 1]] + rank[keep] + 1
      BY <1>5, <1>7, <2>1, <3>1
    <3>4. rank[q[x + 1]] < rank[x] /\ x # keep
      BY <1>1, <2>4, <3>1
    <3>5. rt2[c[x + 1]] = rt2[x] /\ rt2[rt2[x]] = rt2[x]
      BY <2>2, <3>1, <3>2, <3>3
    <3>6. c[x + 1] = x <=> rt2[x] = x
      BY <3>1, <3>2, <3>4
    <3>7. rank2[c[x + 1]] < rank2[x] /\ rank2[rt2[x]] < rank2[x]
      <4>1. PICK up \in Nat, own \in Nat, top \in Nat :
              up = rank[q[x + 1]] /\ own = rank[x] /\ top = rank[keep]
        BY <2>1
      <4>2. up < own /\ rank2[c[x + 1]] = up + top + 1 /\ rank2[x] = own + top + 1
        BY <3>1, <3>2, <3>3, <3>4, <4>1
      <4>3. rank2[rt2[x]] = top
        BY <2>2, <3>2, <4>1
      <4>4. up + top + 1 < own + top + 1 /\ top < own + top + 1
        BY <4>2
      <4> QED
        BY <4>2, <4>3, <4>4
    <3> QED
      BY <3>5, <3>6, <3>7
  <2>5. CASE rt[x] # gone
    <3>1. x # gone
      BY <2>5
    <3>2. c[x + 1] = q[x + 1] /\ rt[q[x + 1]] = rt[x] /\ rt[rt[x]] = rt[x]
      BY <1>1, <1>3, <3>1
    <3>3. rt2[x] = rt[x] /\ rank2[x] = rank[x]
      BY <1>5, <1>7, <2>5
    <3>4. /\ rt2[q[x + 1]] = rt[x] /\ rank2[q[x + 1]] = rank[q[x + 1]]
          /\ rt2[rt[x]] = rt[x] /\ rank2[rt[x]] = rank[rt[x]]
      BY <1>5, <1>7, <2>1, <2>5, <3>2
    <3> QED
      BY <1>1, <3>2, <3>3, <3>4
  <2> QED
    BY <2>3, <2>4, <2>5
<1>9. Forest(c, n, rt2, rank2)
  BY <1>3, <1>4, <1>5, <1>6, <1>8 DEF Forest
<1> QED
  BY <1>9 DEF c

-----------------------------------------------------------------------------
(* The classes are those of the roots. *)

Kin(n, rt, x) == {y \in 0 .. n - 1 : rt[y] = rt[x]}

Kins(n, rt) == {Kin(n, rt, x) : x \in 0 .. n - 1}

ForestInv ==
  /\ names \in Seq(BOOLEAN)
  /\ \E rt, rank : Forest(parent, Len(names), rt, rank) /\ classes = Kins(Len(names), rt)

LEMMA ClassOfIs ==
  ASSUME NEW n \in Nat, NEW rt, classes = Kins(n, rt), NEW x \in 0 .. n - 1
  PROVE  ClassOf(x) = Kin(n, rt, x) /\ Kin(n, rt, x) \in classes
<1>1. Kin(n, rt, x) \in classes /\ x \in Kin(n, rt, x)
  BY DEF Kins, Kin
<1>2. \A C \in classes : x \in C => C = Kin(n, rt, x)
  BY DEF Kins, Kin
<1> QED
  BY <1>1, <1>2 DEF ClassOf

LEMMA Joined ==
  ASSUME NEW n \in Nat, NEW rt, NEW a \in 0 .. n - 1, NEW b \in 0 .. n - 1, rt[a] # rt[b],
         NEW rt2, \A x \in 0 .. n - 1 : rt2[x] = IF rt[x] = rt[b] THEN rt[a] ELSE rt[x]
  PROVE  Kins(n, rt2) = (Kins(n, rt) \ {Kin(n, rt, a), Kin(n, rt, b)})
                          \cup {Kin(n, rt, a) \cup Kin(n, rt, b)}
<1> DEFINE V == 0 .. n - 1
           both == Kin(n, rt, a) \cup Kin(n, rt, b)
<1>1. \A x \in V : rt2[x] = IF rt[x] = rt[b] THEN rt[a] ELSE rt[x]
  OBVIOUS
<1>2. \A x \in V : rt[x] = rt[a] \/ rt[x] = rt[b] => Kin(n, rt2, x) = both
  BY <1>1 DEF Kin
<1>3. \A x \in V : rt[x] # rt[a] /\ rt[x] # rt[b] =>
        Kin(n, rt2, x) = Kin(n, rt, x) /\ Kin(n, rt, x) # Kin(n, rt, a) /\ Kin(n, rt, x) # Kin(n, rt, b)
  BY <1>1 DEF Kin
<1>4. \A x \in V : rt[x] = rt[a] => Kin(n, rt, x) = Kin(n, rt, a)
  BY DEF Kin
<1>5. \A x \in V : rt[x] = rt[b] => Kin(n, rt, x) = Kin(n, rt, b)
  BY DEF Kin
<1>6. \A m, r : Kins(m, r) = {Kin(m, r, x) : x \in 0 .. m - 1}
  BY DEF Kins
<1>7. ASSUME NEW C \in Kins(n, rt2)
      PROVE  C \in (Kins(n, rt) \ {Kin(n, rt, a), Kin(n, rt, b)}) \cup {both}
  <2>1. PICK x \in V : C = Kin(n, rt2, x)
    BY <1>6
  <2>2. Kin(n, rt, x) \in Kins(n, rt)
    BY <1>6
  <2> HIDE DEF V, both
  <2> QED
    BY <1>2, <1>3, <2>1, <2>2
<1>8. ASSUME NEW C \in (Kins(n, rt) \ {Kin(n, rt, a), Kin(n, rt, b)}) \cup {both}
      PROVE  C \in Kins(n, rt2)
  <2>1. CASE C = both
    <3>1. C = Kin(n, rt2, a)
      BY <1>2, <2>1
    <3> QED
      BY <1>6, <3>1
  <2>2. CASE C # both
    <3>1. C \in Kins(n, rt) /\ C # Kin(n, rt, a) /\ C # Kin(n, rt, b)
      BY <2>2
    <3>2. PICK x \in V : C = Kin(n, rt, x)
      BY <1>6, <3>1
    <3>3. rt[x] # rt[a] /\ rt[x] # rt[b]
      BY <1>4, <1>5, <3>1, <3>2
    <3>4. C = Kin(n, rt2, x)
      BY <1>3, <3>2, <3>3
    <3> QED
      BY <1>6, <3>4
  <2> QED
    BY <2>1, <2>2
<1> QED
  BY <1>7, <1>8

LEMMA InitForest == Init => ForestInv
<1> SUFFICES ASSUME Init
             PROVE  ForestInv
  OBVIOUS
<1>1. names = << >> /\ parent = << >> /\ classes = {} /\ Len(names) = 0 /\ names \in Seq(BOOLEAN)
  BY DEF Init
<1>2. 0 .. 0 - 1 = {} /\ 1 .. 0 = {}
  OBVIOUS
<1>3. parent \in [1 .. 0 -> 0 .. 0 - 1]
  BY <1>1, <1>2
<1> DEFINE none == [x \in {} |-> 0]
<1>4. Forest(parent, 0, none, none)
  BY <1>2, <1>3 DEF Forest
<1>5. Kins(0, none) = {}
  BY <1>2 DEF Kins
<1> QED
  BY <1>1, <1>4, <1>5 DEF ForestInv

LEMMA GrownForest ==
  ASSUME ForestInv, NEW flags \in Seq(BOOLEAN), Grown(flags)
  PROVE  ForestInv'
<1>1. PICK rt, rank : Forest(parent, Len(names), rt, rank) /\ classes = Kins(Len(names), rt)
  BY DEF ForestInv
<1>2. PICK n \in Nat, m \in Nat : n = Len(names) /\ m = Len(flags) /\ names \in Seq(BOOLEAN)
  BY DEF ForestInv
<1>3. names' \in Seq(BOOLEAN) /\ Len(names') = n + m
  BY <1>2 DEF Grown
<1> DEFINE V == 0 .. n - 1
           W == 0 .. n + m - 1
<1>4. /\ parent \in [1 .. n -> V] /\ rt \in [V -> V] /\ rank \in [V -> Nat]
      /\ \A x \in V : /\ rt[parent[x + 1]] = rt[x]
                      /\ rt[rt[x]] = rt[x]
                      /\ parent[x + 1] = x <=> rt[x] = x
                      /\ parent[x + 1] # x => rank[parent[x + 1]] < rank[x]
                      /\ rt[x] # x => rank[rt[x]] < rank[x]
  BY <1>1, <1>2 DEF Forest
<1>5. V \subseteq W /\ \A x \in W : x \in V <=> x < n
  BY <1>2
<1>6. parent' \in [1 .. n + m -> W] /\ \A x \in W : parent'[x + 1] = IF x < n THEN parent[x + 1] ELSE x
  <2>1. parent' = parent \o [i \in 1 .. m |-> n + (i - 1)]
    BY <1>2 DEF Grown, NextVar
  <2> DEFINE new == [i \in 1 .. m |-> n + (i - 1)]
  <2>2. \A i \in 1 .. m : n + (i - 1) \in W
    OBVIOUS
  <2>3. new \in Seq(W) /\ Len(new) = m /\ \A i \in 1 .. m : new[i] = n + (i - 1)
    BY <2>2
  <2>4. parent \in Seq(W) /\ Len(parent) = n
    BY <1>4, <1>5
  <2> HIDE DEF new, W, V
  <2>5. parent' = parent \o new
    BY <2>1 DEF new
  <2>6. parent' \in Seq(W) /\ Len(parent') = n + m
    BY <2>3, <2>4, <2>5
  <2>7. \A i \in 1 .. n + m : parent'[i] = IF i <= n THEN parent[i] ELSE new[i - n]
    BY <2>3, <2>4, <2>5
  <2>8. \A x \in W : parent'[x + 1] = IF x < n THEN parent[x + 1] ELSE x
    <3> SUFFICES ASSUME NEW x \in 0 .. n + m - 1
                 PROVE  parent'[x + 1] = IF x < n THEN parent[x + 1] ELSE x
      BY DEF W
    <3>1. x + 1 \in 1 .. n + m /\ (x + 1 <= n <=> x < n)
      OBVIOUS
    <3>2. CASE x < n
      BY <2>7, <3>1, <3>2
    <3>3. CASE ~(x < n)
      <4>1. (x + 1) - n \in 1 .. m /\ n + (((x + 1) - n) - 1) = x
        BY <3>3
      <4> QED
        BY <2>3, <2>7, <3>1, <3>3, <4>1
    <3> QED
      BY <3>2, <3>3
  <2> QED
    BY <2>6, <2>8
<1> DEFINE rt2 == [x \in W |-> IF x < n THEN rt[x] ELSE x]
           rank2 == [x \in W |-> IF x < n THEN rank[x] ELSE 0]
<1>7. rt2 \in [W -> W] /\ rank2 \in [W -> Nat]
  BY <1>4, <1>5
<1>8. \A x \in W : rt2[x] = (IF x < n THEN rt[x] ELSE x) /\ rank2[x] = IF x < n THEN rank[x] ELSE 0
  OBVIOUS
<1> HIDE DEF rt2, rank2
<1>9. \A x \in W : /\ rt2[parent'[x + 1]] = rt2[x]
                   /\ rt2[rt2[x]] = rt2[x]
                   /\ parent'[x + 1] = x <=> rt2[x] = x
                   /\ parent'[x + 1] # x => rank2[parent'[x + 1]] < rank2[x]
                   /\ rt2[x] # x => rank2[rt2[x]] < rank2[x]
  <2> SUFFICES ASSUME NEW x \in W
               PROVE  /\ rt2[parent'[x + 1]] = rt2[x]
                      /\ rt2[rt2[x]] = rt2[x]
                      /\ parent'[x + 1] = x <=> rt2[x] = x
                      /\ parent'[x + 1] # x => rank2[parent'[x + 1]] < rank2[x]
                      /\ rt2[x] # x => rank2[rt2[x]] < rank2[x]
    OBVIOUS
  <2>1. CASE x < n
    <3>1. x \in V /\ x + 1 \in 1 .. n
      BY <2>1
    <3>2. PICK p \in V, r \in V : p = parent[x + 1] /\ r = rt[x] /\ p = parent'[x + 1] /\ r = rt2[x]
      BY <1>4, <1>6, <1>8, <2>1, <3>1
    <3>3. p \in W /\ r \in W /\ p < n /\ r < n
      BY <1>5
    <3> HIDE DEF V, W
    <3>4. rt2[p] = rt[p] /\ rt2[r] = rt[r] /\ rank2[p] = rank[p] /\ rank2[r] = rank[r] /\ rank2[x] = rank[x]
      BY <1>8, <2>1, <3>3
    <3> QED
      BY <1>4, <3>1, <3>2, <3>4
  <2>2. CASE ~(x < n)
    <3> HIDE DEF V, W
    <3>1. parent'[x + 1] = x /\ rt2[x] = x
      BY <1>6, <1>8, <2>2
    <3> QED
      BY <3>1
  <2> QED
    BY <2>1, <2>2
<1>10. Forest(parent', n + m, rt2, rank2)
  <2>1. W = 0 .. (n + m) - 1 /\ parent' \in [1 .. n + m -> W]
    BY <1>6
  <2> HIDE DEF W
  <2> QED
    BY <1>7, <1>9, <2>1 DEF Forest
<1>11. classes' = Kins(n + m, rt2)
  <2>1. classes' = classes \cup {{n + (i - 1)} : i \in 1 .. m}
    BY <1>2 DEF Grown, NextVar
  <2>2. \A x \in V : Kin(n + m, rt2, x) = Kin(n, rt, x)
    <3> SUFFICES ASSUME NEW x \in V
                 PROVE  \A y \in W : rt2[y] = rt2[x] <=> y \in V /\ rt[y] = rt[x]
      BY <1>5 DEF Kin
    <3>1. x < n /\ x \in W /\ rt2[x] = rt[x] /\ rt[x] < n
      BY <1>4, <1>5, <1>8
    <3> QED
      BY <1>5, <1>8, <3>1
  <2>3. \A x \in W : ~(x < n) => Kin(n + m, rt2, x) = {x}
    <3> SUFFICES ASSUME NEW x \in W, ~(x < n)
                 PROVE  \A y \in W : rt2[y] = rt2[x] <=> y = x
      BY DEF Kin
    <3>1. rt2[x] = x
      BY <1>8
    <3>2. \A y \in V : rt[y] < n
      BY <1>4
    <3> QED
      BY <1>5, <1>8, <3>1, <3>2
  <2>4. \A r, k : Kins(k, r) = {Kin(k, r, x) : x \in 0 .. k - 1}
    BY DEF Kins
  <2>5. \A C : C \in classes <=> \E x \in V : C = Kin(n, rt, x)
    BY <1>1, <1>2, <2>4
  <2>6. \A C : C \in Kins(n + m, rt2) <=> \E x \in W : C = Kin(n + m, rt2, x)
    BY <2>4
  <2>7. \A C : C \in {{n + (i - 1)} : i \in 1 .. m} <=> \E x \in W : ~(x < n) /\ C = {x}
    <3>1. \A i \in 1 .. m : n + (i - 1) \in W /\ ~(n + (i - 1) < n)
      OBVIOUS
    <3>2. \A x \in W : ~(x < n) => (x - n) + 1 \in 1 .. m /\ n + (((x - n) + 1) - 1) = x
      OBVIOUS
    <3> HIDE DEF W
    <3> QED
      BY <3>1, <3>2
  <2>8. \A x \in W : x \in V <=> x < n
    BY <1>5
  <2>9. V \subseteq W
    BY <1>5
  <2> HIDE DEF V, W
  <2>10. PICK new : new = {{n + (i - 1)} : i \in 1 .. m}
    OBVIOUS
  <2>11. classes' = classes \cup new /\ \A C : C \in new <=> \E x \in W : ~(x < n) /\ C = {x}
    BY <2>1, <2>7, <2>10
  <2>12. ASSUME NEW C \in classes'
         PROVE  C \in Kins(n + m, rt2)
    <3>1. CASE C \in classes
      <4>1. PICK x \in V : C = Kin(n, rt, x)
        BY <2>5, <3>1
      <4>2. x \in W /\ C = Kin(n + m, rt2, x)
        BY <2>2, <2>9, <4>1
      <4> QED
        BY <2>6, <4>2
    <3>2. CASE C \in new
      <4>1. PICK x \in W : ~(x < n) /\ C = {x}
        BY <2>11, <3>2
      <4>2. C = Kin(n + m, rt2, x)
        BY <2>3, <4>1
      <4> QED
        BY <2>6, <4>2
    <3> QED
      BY <2>11, <3>1, <3>2
  <2>13. ASSUME NEW C \in Kins(n + m, rt2)
         PROVE  C \in classes'
    <3>1. PICK x \in W : C = Kin(n + m, rt2, x)
      BY <2>6
    <3>2. CASE x < n
      <4>1. x \in V /\ C = Kin(n, rt, x)
        BY <2>2, <2>8, <3>1, <3>2
      <4>2. C \in classes
        BY <2>5, <4>1
      <4> QED
        BY <2>11, <4>2
    <3>3. CASE ~(x < n)
      <4>1. C = {x}
        BY <2>3, <3>1, <3>3
      <4>2. C \in new
        BY <2>11, <3>3, <4>1
      <4> QED
        BY <2>11, <4>2
    <3> QED
      BY <3>2, <3>3
  <2> QED
    BY <2>12, <2>13
<1> HIDE DEF rt2, rank2
<1> QED
  BY <1>3, <1>10, <1>11 DEF ForestInv

LEMMA UnchangedForest ==
  ASSUME ForestInv, UNCHANGED <<names, parent, classes>>
  PROVE  ForestInv'
BY DEF ForestInv

LEMMA FindForest == ForestInv /\ Find => ForestInv'
<1> SUFFICES ASSUME ForestInv, NEW v \in Vars, parent' = Compressed(parent, v),
                    UNCHANGED <<names, store, topVar, classes, asked>>
             PROVE  ForestInv'
  BY DEF Find
<1>1. PICK rt, rank : Forest(parent, Len(names), rt, rank) /\ classes = Kins(Len(names), rt)
  BY DEF ForestInv
<1>2. PICK n \in Nat : n = Len(names) /\ names \in Seq(BOOLEAN) /\ v \in 0 .. n - 1
  BY DEF ForestInv, Vars
<1>3. parent \in [1 .. n -> 0 .. n - 1] /\ Len(parent) = n
  BY <1>1, <1>2 DEF Forest
<1>4. Forest(Compressed(parent, v), n, rt, rank)
  BY <1>1, <1>2, <1>3, CompressedKeeps
<1> QED
  BY <1>1, <1>2, <1>4 DEF ForestInv

LEMMA UnionForest ==
  ASSUME ForestInv, NEW a \in Vars, NEW b \in Vars, Union(a, b)
  PROVE  ForestInv'
<1>1. PICK rt, rank : Forest(parent, Len(names), rt, rank) /\ classes = Kins(Len(names), rt)
  BY DEF ForestInv
<1>2. PICK n \in Nat : n = Len(names) /\ names \in Seq(BOOLEAN) /\ a \in 0 .. n - 1 /\ b \in 0 .. n - 1
  BY DEF ForestInv, Vars
<1>3. parent \in [1 .. n -> 0 .. n - 1] /\ Len(parent) = n /\ Forest(parent, n, rt, rank)
  BY <1>1, <1>2 DEF Forest
<1>4. PICK q : q = Compressed(Compressed(parent, a), b) /\ Forest(q, n, rt, rank)
  <2>1. PICK p : p = Compressed(parent, a) /\ Forest(p, n, rt, rank)
    BY <1>2, <1>3, CompressedKeeps
  <2>2. Forest(Compressed(p, b), n, rt, rank)
    BY <1>2, <1>3, <2>1, CompressedKeeps
  <2> QED
    BY <2>1, <2>2
<1>5. Root(a) = rt[a] /\ Root(b) = rt[b]
  BY <1>2, <1>3, RootIs
<1>6. rt[a] \in 0 .. n - 1 /\ rt[b] \in 0 .. n - 1 /\ rt[rt[a]] = rt[a] /\ rt[rt[b]] = rt[b]
  BY <1>2, <1>3 DEF Forest
<1>7. /\ names' = names /\ parent' = Link(q, rt[a], rt[b])
      /\ classes' = (classes \ {ClassOf(a), ClassOf(b)}) \cup {ClassOf(a) \cup ClassOf(b)}
  BY <1>4, <1>5 DEF Union
<1>8. /\ ClassOf(a) = Kin(n, rt, a) /\ ClassOf(b) = Kin(n, rt, b)
      /\ Kin(n, rt, a) \in classes /\ classes = Kins(n, rt)
  BY <1>1, <1>2, ClassOfIs
<1>9. CASE rt[a] = rt[b]
  <2>1. parent' = q
    BY <1>7, <1>9 DEF Link
  <2>2. Kin(n, rt, a) = Kin(n, rt, b)
    BY <1>9 DEF Kin
  <2>3. classes' = classes
    BY <1>7, <1>8, <2>2
  <2> QED
    BY <1>2, <1>4, <1>7, <1>8, <2>1, <2>3 DEF ForestInv
<1>10. CASE rt[a] # rt[b] /\ parent' = [q EXCEPT ![rt[b] + 1] = rt[a]]
  <2>1. PICK rt2 : rt2 = [x \in 0 .. n - 1 |-> IF rt[x] = rt[b] THEN rt[a] ELSE rt[x]]
    OBVIOUS
  <2>2. \E rank2 : Forest([q EXCEPT ![rt[b] + 1] = rt[a]], n, rt2, rank2)
    BY <1>4, <1>6, <1>10, <2>1, LinkKeeps
  <2>3. Kins(n, rt2) = (Kins(n, rt) \ {Kin(n, rt, a), Kin(n, rt, b)})
                         \cup {Kin(n, rt, a) \cup Kin(n, rt, b)}
    <3>1. \A x \in 0 .. n - 1 : rt2[x] = IF rt[x] = rt[b] THEN rt[a] ELSE rt[x]
      BY <2>1
    <3>2. rt[a] # rt[b]
      BY <1>10
    <3> QED
      BY <1>2, <3>1, <3>2, Joined
  <2>4. classes' = Kins(n, rt2)
    BY <1>7, <1>8, <2>3
  <2> QED
    BY <1>2, <1>7, <1>10, <2>2, <2>4 DEF ForestInv
<1>11. CASE rt[a] # rt[b] /\ parent' = [q EXCEPT ![rt[a] + 1] = rt[b]]
  <2>1. PICK rt2 : rt2 = [x \in 0 .. n - 1 |-> IF rt[x] = rt[a] THEN rt[b] ELSE rt[x]]
    OBVIOUS
  <2>2. \E rank2 : Forest([q EXCEPT ![rt[a] + 1] = rt[b]], n, rt2, rank2)
    BY <1>4, <1>6, <1>11, <2>1, LinkKeeps
  <2>3. Kins(n, rt2) = (Kins(n, rt) \ {Kin(n, rt, b), Kin(n, rt, a)})
                         \cup {Kin(n, rt, b) \cup Kin(n, rt, a)}
    <3>1. PICK c \in 0 .. n - 1, d \in 0 .. n - 1 : c = b /\ d = a
      BY <1>2
    <3>2. \A x \in 0 .. n - 1 : rt2[x] = IF rt[x] = rt[d] THEN rt[c] ELSE rt[x]
      BY <2>1, <3>1
    <3>3. rt[c] # rt[d]
      BY <1>11, <3>1
    <3>4. Kins(n, rt2) = (Kins(n, rt) \ {Kin(n, rt, c), Kin(n, rt, d)})
                           \cup {Kin(n, rt, c) \cup Kin(n, rt, d)}
      BY <3>2, <3>3, Joined
    <3> QED
      BY <3>1, <3>4
  <2>4. classes' = Kins(n, rt2)
    BY <1>7, <1>8, <2>3
  <2> QED
    BY <1>2, <1>7, <1>11, <2>2, <2>4 DEF ForestInv
<1> QED
  BY <1>7, <1>9, <1>10, <1>11 DEF Link

LEMMA EqForest == StoreInv /\ ForestInv /\ Eq => ForestInv'
<1> SUFFICES ASSUME StoreInv, ForestInv, NEW a \in ATerm, NEW b \in ATerm, Equate(a, b)
             PROVE  ForestInv'
  BY DEF Eq
<1>1. a \in TermOver(Vars) /\ b \in TermOver(Vars)
  BY ATermType DEF StoreInv
<1>2. \/ UNCHANGED <<names, parent, classes>>
      \/ IsSingleVar(a) /\ IsSingleVar(b) /\ Union(TheVar(a), TheVar(b))
  BY DEF Equate
<1>3. CASE UNCHANGED <<names, parent, classes>>
  BY <1>3, UnchangedForest
<1>4. CASE IsSingleVar(a) /\ IsSingleVar(b) /\ Union(TheVar(a), TheVar(b))
  <2>1. ~IsConstant(a) /\ ~IsConstant(b)
    BY <1>1, <1>4 DEF TermOver, IsConstant, IsSingleVar, IsSingleVarAny
  <2>2. PICK x \in Vars, y \in Vars : x = TheVar(a) /\ y = TheVar(b)
    BY <1>1, <2>1, TheVarType
  <2> QED
    BY <1>4, <2>2, UnionForest
<1> QED
  BY <1>2, <1>3, <1>4

LEMMA StepForest == StoreInv /\ ForestInv /\ [Next]_vars => ForestInv'
<1> SUFFICES ASSUME StoreInv, ForestInv, [Next]_vars
             PROVE  ForestInv'
  OBVIOUS
<1>1. CASE AddSubset \/ HardGe \/ QueryGe \/ UNCHANGED vars
  <2>1. UNCHANGED <<names, parent, classes>>
    BY <1>1 DEF AddSubset, HardGe, QueryGe, vars
  <2> QED
    BY <2>1, UnchangedForest
<1>2. CASE Fresh
  <2>1. PICK named \in BOOLEAN : Grown(<<named>>)
    BY <1>2 DEF Fresh
  <2>2. <<named>> \in Seq(BOOLEAN)
    OBVIOUS
  <2> QED
    BY <2>1, <2>2, GrownForest
<1>3. CASE GetTop
  <2>1. UNCHANGED <<names, parent, classes>> \/ Grown(<<TRUE>>)
    BY <1>3 DEF GetTop
  <2>2. <<TRUE>> \in Seq(BOOLEAN)
    OBVIOUS
  <2> QED
    BY <2>1, <2>2, GrownForest, UnchangedForest
<1>4. CASE AddMin
  <2>1. PICK x, y : Grown([i \in 1 .. MinVars(x, y) |-> FALSE])
    BY <1>4 DEF AddMin
  <2>2. PICK m \in Nat : m = MinVars(x, y)
    BY MinVarsIs
  <2>3. PICK flags \in Seq(BOOLEAN) : flags = [i \in 1 .. m |-> FALSE]
    <3>1. [i \in 1 .. m |-> FALSE] \in Seq(BOOLEAN)
      OBVIOUS
    <3> QED
      BY <3>1
  <2> QED
    BY <2>1, <2>2, <2>3, GrownForest
<1>5. CASE UnionTerm
  <2>1. Grown(<<FALSE>>)
    BY <1>5 DEF UnionTerm
  <2>2. <<FALSE>> \in Seq(BOOLEAN)
    OBVIOUS
  <2> QED
    BY <2>1, <2>2, GrownForest
<1> QED
  BY <1>1, <1>2, <1>3, <1>4, <1>5, FindForest, EqForest DEF Next

(* Every index in the store is a variable that exists, whatever            *)
(* operations come in whatever order: constraints, pins, floors, queries,  *)
(* the cached top variable and the union-find forest.                      *)
THEOREM TypeCorrect == Spec => []TypeOK
<1>1. StoreInv /\ ForestInv => TypeOK
  <2> SUFFICES ASSUME StoreInv, ForestInv
               PROVE  TypeOK
    OBVIOUS
  <2>1. parent \in [1 .. Len(names) -> Vars]
    BY DEF ForestInv, Forest, Vars
  <2> QED
    BY <2>1, NothingOutside DEF TypeOK, StoreInv
<1>2. Init => StoreInv /\ ForestInv
  BY InitStore, InitForest
<1>3. StoreInv /\ ForestInv /\ [Next]_vars => (StoreInv /\ ForestInv)'
  BY StepStore, StepForest
<1> QED
  BY <1>1, <1>2, <1>3, PTL DEF Spec

(* Whatever the order of merges and path compressions, two variables have  *)
(* the same representative exactly when the merges put them in one class,  *)
(* and following the forest from any variable ends at a root.              *)
THEOREM ClassesCorrect == Spec => []ClassesAreMerged
<1>1. ForestInv => ClassesAreMerged
  <2> SUFFICES ASSUME ForestInv
               PROVE  ClassesAreMerged
    OBVIOUS
  <2>1. PICK rt, rank : Forest(parent, Len(names), rt, rank) /\ classes = Kins(Len(names), rt)
    BY DEF ForestInv
  <2>2. PICK n \in Nat : n = Len(names) /\ Vars = 0 .. n - 1
    BY DEF ForestInv, Vars
  <2>3. parent \in [1 .. n -> 0 .. n - 1] /\ Len(parent) = n /\ Forest(parent, n, rt, rank)
    BY <2>1, <2>2 DEF Forest
  <2>4. \A v \in Vars : Root(v) = rt[v]
    BY <2>2, <2>3, RootIs
  <2>5. \A v \in Vars : ClassOf(v) = Kin(n, rt, v)
    BY <2>1, <2>2, ClassOfIs
  <2>6. \A v \in Vars : parent[Root(v) + 1] = Root(v)
    <3> SUFFICES ASSUME NEW v \in 0 .. n - 1
                 PROVE  parent[Root(v) + 1] = Root(v)
      BY <2>2
    <3>1. rt[v] \in 0 .. n - 1 /\ rt[rt[v]] = rt[v]
      BY <2>3 DEF Forest
    <3>2. parent[rt[v] + 1] = rt[v]
      BY <2>3, <3>1 DEF Forest
    <3>3. Root(v) = rt[v]
      BY <2>2, <2>4
    <3> QED
      BY <3>2, <3>3
  <2>7. \A v, w \in Vars : rt[v] = rt[w] <=> Kin(n, rt, v) = Kin(n, rt, w)
    BY <2>2 DEF Kin
  <2>8. \A v, w \in Vars : Root(v) = Root(w) <=> ClassOf(v) = ClassOf(w)
    <3> SUFFICES ASSUME NEW v \in Vars, NEW w \in Vars
                 PROVE  Root(v) = Root(w) <=> ClassOf(v) = ClassOf(w)
      OBVIOUS
    <3> QED
      BY <2>4, <2>5, <2>7
  <2> QED
    BY <2>6, <2>8 DEF ClassesAreMerged
<1>2. Init => StoreInv /\ ForestInv
  BY InitStore, InitForest
<1>3. StoreInv /\ ForestInv /\ [Next]_vars => (StoreInv /\ ForestInv)'
  BY StepStore, StepForest
<1> QED
  BY <1>1, <1>2, <1>3, PTL DEF Spec

-----------------------------------------------------------------------------
(* The cached top variable: while there is none, nothing is pinned to the  *)
(* full range.                                                             *)

CacheKnowsTop == topVar = NoVar => \A i \in DOMAIN fixed : fixed[i][2] # Top

TopInv == IsList(fixed) /\ CacheKnowsTop /\ TopIsUnique

(* The full range is not a single value. *)
LEMMA TopIsWide == \A n : Singleton(n) # Top
<1>1. NEGINF # INF
  BY INFAssumption DEF NEGINF
<1>2. \A n : Singleton(n).lo = Singleton(n).hi
  BY DEF Singleton
<1>3. Top.lo = NEGINF /\ Top.hi = INF
  BY DEF Top
<1> QED
  BY <1>1, <1>2, <1>3

LEMMA InitTop == Init => TopInv
<1> SUFFICES ASSUME Init
             PROVE  TopInv
  OBVIOUS
<1>1. fixed = << >> /\ DOMAIN fixed = {}
  BY DEF Init
<1> QED
  BY <1>1 DEF TopInv, IsList, CacheKnowsTop, TopIsUnique

(* Steps that pin nothing. *)
LEMMA NothingPinned ==
  ASSUME TopInv, UNCHANGED <<fixed, topVar>>
  PROVE  TopInv'
BY DEF TopInv, CacheKnowsTop, TopIsUnique

(* The one step that pins to the full range also fills the cache. *)
LEMMA GetTopTop == StoreInv /\ TopInv /\ GetTop => TopInv'
<1> SUFFICES ASSUME StoreInv, TopInv, GetTop
             PROVE  TopInv'
  OBVIOUS
<1>1. IsList(fixed) /\ CacheKnowsTop /\ TopIsUnique
  BY DEF TopInv
<1>2. CASE topVar # NoVar
  <2>1. UNCHANGED <<fixed, topVar>>
    BY <1>2 DEF GetTop
  <2> QED
    BY <2>1, NothingPinned
<1>3. CASE topVar = NoVar
  <2>1. fixed' = Append(fixed, <<NextVar(0), Top>>) /\ topVar' = NextVar(0)
    BY <1>3 DEF GetTop
  <2>2. topVar' # NoVar
    <3>1. Len(names) \in Nat
      BY DEF StoreInv
    <3> QED
      BY <2>1, <3>1 DEF NextVar, NoVar
  <2>3. PICK e : e = <<NextVar(0), Top>>
    OBVIOUS
  <2>4. /\ IsList(fixed') /\ DOMAIN fixed' = DOMAIN fixed \cup {Len(fixed) + 1}
        /\ \A i \in DOMAIN fixed : fixed'[i] = fixed[i]
    <3>1. IsList(fixed) /\ fixed' = Append(fixed, e)
      BY <1>1, <2>1, <2>3
    <3> QED
      BY <3>1, AppendFacts
  <2>5. \A i \in DOMAIN fixed : fixed'[i][2] # Top
    BY <1>1, <1>3, <2>4 DEF CacheKnowsTop
  <2> QED
    BY <2>2, <2>4, <2>5 DEF TopInv, CacheKnowsTop, TopIsUnique
<1> QED
  BY <1>2, <1>3

(* Any other pin is to a single value. *)
LEMMA EqTop == TopInv /\ Eq => TopInv'
<1> SUFFICES ASSUME TopInv, NEW a \in ATerm, NEW b \in ATerm, Equate(a, b)
             PROVE  TopInv'
  BY DEF Eq
<1>1. IsList(fixed) /\ CacheKnowsTop /\ TopIsUnique
  BY DEF TopInv
<1>2. \/ UNCHANGED <<fixed, topVar>>
      \/ /\ UNCHANGED topVar
         /\ \E t, k : fixed' = fixed \o <<Pin(t, k)>>
  BY DEF Equate, Union, store
<1>3. CASE UNCHANGED <<fixed, topVar>>
  BY <1>3, NothingPinned
<1>4. CASE UNCHANGED topVar /\ \E t, k : fixed' = fixed \o <<Pin(t, k)>>
  <2>1. PICK t, k : fixed' = fixed \o <<Pin(t, k)>>
    BY <1>4
  <2>2. PICK e : e = Pin(t, k)
    OBVIOUS
  <2>3. e[2] # Top
    BY <2>2, TopIsWide DEF Pin
  <2>4. fixed' = Append(fixed, e)
    <3>1. PICK S : fixed \in Seq(S)
      BY <1>1 DEF IsList
    <3>2. PICK T : T = S \cup {e}
      OBVIOUS
    <3>3. fixed \in Seq(T) /\ e \in T
      BY <3>1, <3>2
    <3>4. fixed \o <<e>> = Append(fixed, e)
      BY <3>3
    <3> QED
      BY <2>1, <2>2, <3>4
  <2>5. /\ IsList(fixed') /\ DOMAIN fixed' = DOMAIN fixed \cup {Len(fixed) + 1}
        /\ \A i \in DOMAIN fixed : fixed'[i] = fixed[i]
        /\ fixed'[Len(fixed) + 1] = e
    <3>1. IsList(fixed)
      BY <1>1
    <3>2. /\ IsList(fixed') /\ DOMAIN fixed' = DOMAIN fixed \cup {Len(fixed) + 1}
          /\ \A i \in DOMAIN fixed : fixed'[i] = fixed[i]
      BY <2>4, <3>1, AppendFacts
    <3>3. fixed'[Len(fixed) + 1] = e
      BY <2>4, <3>1, AppendLast
    <3> QED
      BY <3>2, <3>3
  <2> QED
    BY <1>1, <1>4, <2>3, <2>5 DEF TopInv, CacheKnowsTop, TopIsUnique
<1> QED
  BY <1>2, <1>3, <1>4

LEMMA StepTop == StoreInv /\ TopInv /\ [Next]_vars => TopInv'
<1> SUFFICES ASSUME StoreInv, TopInv, [Next]_vars
             PROVE  TopInv'
  OBVIOUS
<1>1. CASE Fresh \/ Find \/ AddSubset \/ AddMin \/ UnionTerm \/ HardGe \/ QueryGe \/ UNCHANGED vars
  <2>1. UNCHANGED <<fixed, topVar>>
    BY <1>1 DEF Fresh, Find, AddSubset, AddMin, UnionTerm, HardGe, QueryGe, vars, store
  <2> QED
    BY <2>1, NothingPinned
<1> QED
  BY <1>1, GetTopTop, EqTop DEF Next

(* "a (cached) variable pinned to the full range": whatever the operations *)
(* before, top() finds the variable that is pinned to it, and neither a    *)
(* second call nor a pin by eq makes another.                              *)
THEOREM TopUnique == Spec => []TopIsUnique
<1>1. TopInv => TopIsUnique
  BY DEF TopInv
<1>2. Init => StoreInv /\ TopInv
  BY InitStore, InitTop
<1>3. StoreInv /\ TopInv /\ [Next]_vars => (StoreInv /\ TopInv)'
  BY StepStore, StepTop
<1> QED
  BY <1>1, <1>2, <1>3, PTL DEF Spec

(* "extra vars ... get moved to the LHS": with coefficient 1 on the right  *)
(* the constraint says what was asked.                                     *)
LEMMA MovedMeans ==
  ASSUME NEW V, NEW lhs \in TermOver(V), NEW rhs \in TermOver(V), ~IsConstant(rhs), UnitRhs(rhs),
         NEW val, Valued(V, val)
  PROVE  Holds(Moved(lhs, rhs), val) <=> ValueOf(lhs, val) = ValueOf(rhs, val)
<1>1. rhs.terms[1][1] = 1
  BY DEF UnitRhs
<1>2. PICK rest \in TermOver(V), v \in V :
        /\ rest = Remainder(rhs) /\ v = TheVar(rhs)
        /\ ValueOf(rhs, val) = 1 * val[v] + ValueOf(rest, val)
  <2>1. /\ Remainder(rhs) \in TermOver(V) /\ TheVar(rhs) \in V
        /\ ValueOf(rhs, val) = 1 * val[TheVar(rhs)] + ValueOf(Remainder(rhs), val)
    BY <1>1, HeadValue
  <2> QED
    BY <2>1
<1>3. Moved(lhs, rhs) = Subset(SubTerms(lhs, rest), v)
  BY <1>1, <1>2 DEF Moved, Remainder, TheVar
<1>4. Holds(Moved(lhs, rhs), val) <=> ValueOf(SubTerms(lhs, rest), val) = val[v]
  BY <1>3 DEF Holds, Subset
<1>5. ValueOf(SubTerms(lhs, rest), val) = ValueOf(lhs, val) - ValueOf(rest, val)
  BY DifferenceValue
<1>6. ValueOf(lhs, val) \in Int /\ ValueOf(rest, val) \in Int /\ val[v] \in Int
  BY ValueType DEF Valued
<1> QED
  BY <1>2, <1>4, <1>5, <1>6

Routed(t, w) == IF NeedsVar(t) THEN SubsetOf(t, VarTerm(w)) ELSE << >>

Operand(t, w) == IF IsConstant(t) THEN MinConst(t.konst)
                 ELSE MinTerm(1, IF NeedsVar(t) THEN w ELSE TheVar(t))

ItemValue(it, val) == IF it.item = "const" THEN it.n ELSE it.n * val[it.var]

HoldAll(cs, val) == \A c \in cs : Holds(c, val)

LEMMA SubsetMeans ==
  ASSUME NEW V, NEW lhs \in TermOver(V), NEW rhs \in TermOver(V), ~IsConstant(rhs), UnitRhs(rhs),
         NEW val, Valued(V, val), HoldAll(ToSet(SubsetOf(lhs, rhs)), val)
  PROVE  ValueOf(lhs, val) = ValueOf(rhs, val)
<1>1. PICK m : m = Moved(lhs, rhs)
  OBVIOUS
<1>2. SubsetOf(lhs, rhs) = <<m>>
  BY <1>1 DEF SubsetOf
<1>3. m \in ToSet(<<m>>)
  BY DEF ToSet
<1>4. Holds(m, val)
  BY <1>2, <1>3 DEF HoldAll
<1> QED
  BY <1>1, <1>4, MovedMeans

(* An operand of a minimum has the value of its term. *)
LEMMA OperandMeans ==
  ASSUME NEW V, NEW t \in TermOver(V), NEW w, NeedsVar(t) => w \in V,
         NEW val, Valued(V, val), HoldAll(ToSet(Routed(t, w)), val)
  PROVE  ItemValue(Operand(t, w), val) = ValueOf(t, val)
<1>1. CASE IsConstant(t)
  <2>1. Operand(t, w) = MinConst(t.konst)
    BY <1>1 DEF Operand
  <2> QED
    BY <1>1, <2>1, ConstValue DEF ItemValue, MinConst
<1>2. CASE NeedsVar(t)
  <2>1. w \in V /\ ~IsConstant(t)
    BY <1>2 DEF NeedsVar
  <2>2. /\ VarTerm(w) \in TermOver(V) /\ ~IsConstant(VarTerm(w)) /\ UnitRhs(VarTerm(w))
        /\ ValueOf(VarTerm(w), val) = val[w] /\ val[w] \in Int
    BY <2>1, VarValue DEF UnitRhs, Valued
  <2>3. HoldAll(ToSet(SubsetOf(t, VarTerm(w))), val)
    BY <1>2 DEF Routed
  <2>4. ValueOf(t, val) = val[w]
    BY <2>2, <2>3, SubsetMeans
  <2>5. Operand(t, w) = MinTerm(1, w)
    BY <1>2, <2>1 DEF Operand
  <2>6. ItemValue(Operand(t, w), val) = 1 * val[w]
    BY <2>5 DEF ItemValue, MinTerm
  <2> QED
    BY <2>2, <2>4, <2>6
<1>3. CASE ~IsConstant(t) /\ ~NeedsVar(t)
  <2>1. IsSingleVarAny(t) /\ t.konst = 0
    BY <1>3 DEF NeedsVar, IsSingleVar
  <2>2. TheVar(t) \in V /\ ValueOf(t, val) = val[TheVar(t)] + t.konst
    BY <2>1, SingleValue
  <2>3. val[TheVar(t)] \in Int
    BY <2>2 DEF Valued
  <2>4. Operand(t, w) = MinTerm(1, TheVar(t))
    BY <1>3 DEF Operand
  <2>5. ItemValue(Operand(t, w), val) = 1 * val[TheVar(t)]
    BY <2>4 DEF ItemValue, MinTerm
  <2> QED
    BY <2>1, <2>2, <2>3, <2>5
<1> QED
  BY <1>1, <1>2, <1>3

LEMMA MinHolds ==
  ASSUME NEW x, NEW y, NEW z, NEW val, Holds(MinSubset(<<x, y>>, z), val),
         ItemValue(x, val) \in Int, ItemValue(y, val) \in Int
  PROVE  val[z] = Lesser(ItemValue(x, val), ItemValue(y, val))
<1>1. PICK c : c = MinSubset(<<x, y>>, z)
  OBVIOUS
<1>2. c.form = "min" /\ c.items = <<x, y>> /\ c.var = z
  BY <1>1 DEF MinSubset
<1>3. ToSet(<<x, y>>) = {x, y}
  BY DEF ToSet
<1>4. PICK values : values = {ItemValue(it, val) : it \in ToSet(c.items)}
  OBVIOUS
<1>5. val[z] \in values /\ \A n \in values : val[z] <= n
  <2>1. Holds(c, val)
    BY <1>1
  <2> QED
    BY <1>2, <1>4, <2>1 DEF Holds, ItemValue
<1>6. values = {ItemValue(x, val), ItemValue(y, val)}
  BY <1>2, <1>3, <1>4
<1>7. PICK a \in Int, b \in Int : a = ItemValue(x, val) /\ b = ItemValue(y, val)
  OBVIOUS
<1> QED
  BY <1>5, <1>6, <1>7 DEF Lesser

LEMMA MinMeans ==
  ASSUME NEW z \in Nat, NEW x \in TermOver(0 .. z - 1), NEW y \in TermOver(0 .. z - 1),
         NEW val, Valued(0 .. z + MinVars(x, y) - 1, val),
         HoldAll(ToSet(MinOf(x, y, z)), val)
  PROVE  val[z] = Lesser(ValueOf(x, val), ValueOf(y, val))
<1> DEFINE W == 0 .. z + MinVars(x, y) - 1
           wx == z + 1
           wy == IF NeedsVar(x) THEN z + 2 ELSE z + 1
<1>1. /\ 0 .. z - 1 \subseteq W
      /\ NeedsVar(x) => wx \in W
      /\ NeedsVar(y) => wy \in W
  BY MinVarsIs
<1>2. MinOf(x, y, z) = Routed(x, wx) \o Routed(y, wy) \o <<MinSubset(<<Operand(x, wx), Operand(y, wy)>>, z)>>
  BY DEF MinOf, Routed, Operand
<1>3. Valued(W, val)
  OBVIOUS
<1> HIDE DEF W, wx, wy
<1>4. x \in TermOver(W) /\ y \in TermOver(W)
  BY <1>1, TermWider
<1>5. ASSUME NEW t \in TermOver(W), NEW w, NeedsVar(t) => w \in W
      PROVE  Routed(t, w) \in Seq(ConstraintOver(W))
  <2>1. CASE NeedsVar(t)
    <3>1. VarTerm(w) \in TermOver(W)
      BY <1>5, <2>1, SimpleTerms
    <3>2. SubsetOf(t, VarTerm(w)) \in Seq(ConstraintOver(W))
      BY <3>1, SubsetOfType
    <3> QED
      BY <2>1, <3>2 DEF Routed
  <2>2. CASE ~NeedsVar(t)
    BY <2>2 DEF Routed
  <2> QED
    BY <2>1, <2>2
<1>6. PICK rx, ry, m : /\ rx = Routed(x, wx) /\ ry = Routed(y, wy)
                       /\ m = MinSubset(<<Operand(x, wx), Operand(y, wy)>>, z)
  OBVIOUS
<1>7. rx \in Seq(ConstraintOver(W)) /\ ry \in Seq(ConstraintOver(W))
  BY <1>1, <1>4, <1>5, <1>6
<1>8. /\ ToSet(rx) \subseteq ToSet(MinOf(x, y, z)) /\ ToSet(ry) \subseteq ToSet(MinOf(x, y, z))
      /\ m \in ToSet(MinOf(x, y, z))
  BY <1>2, <1>6, <1>7, Parts
<1>9. /\ HoldAll(ToSet(Routed(x, wx)), val) /\ HoldAll(ToSet(Routed(y, wy)), val)
      /\ Holds(m, val)
  BY <1>6, <1>8 DEF HoldAll
<1>10. /\ ItemValue(Operand(x, wx), val) = ValueOf(x, val)
       /\ ItemValue(Operand(y, wy), val) = ValueOf(y, val)
  BY <1>1, <1>3, <1>4, <1>9, OperandMeans
<1>11. ValueOf(x, val) \in Int /\ ValueOf(y, val) \in Int
  BY <1>3, <1>4, ValueType
<1> QED
  BY <1>6, <1>9, <1>10, <1>11, MinHolds

-----------------------------------------------------------------------------
(* What the store says of an operation, on values that no sentinel cuts    *)
(* off, and which more variables, constraints and pins leave true.         *)

Small(V, val) == \A v \in V : val[v] \in Int /\ NEGINF < val[v] /\ val[v] < INF

Pinned(pins, val) == \A p \in pins : p[2] # Top => p[2].lo = Clamp(val[p[1]])

Said(r, cs, pins, V) ==
  UnitRhs(r.y) /\ (r.op = "eq" => UnitRhs(r.x)) =>
    \A val : Small(V, val) /\ HoldAll(cs, val) /\ Pinned(pins, val) => Meant(r, val)

MeaningInv ==
  /\ IsList(asked)
  /\ \A i \in DOMAIN asked : Said(asked[i], ToSet(constraints), ToSet(fixed), Vars)

LEMMA SaidMore ==
  ASSUME NEW r, NEW cs, NEW pins, NEW V, Said(r, cs, pins, V),
         NEW cs2, cs \subseteq cs2, NEW pins2, pins \subseteq pins2, NEW V2, V \subseteq V2
  PROVE  Said(r, cs2, pins2, V2)
<1> SUFFICES ASSUME UnitRhs(r.y) /\ (r.op = "eq" => UnitRhs(r.x)),
                    NEW val, Small(V2, val), HoldAll(cs2, val), Pinned(pins2, val)
             PROVE  Meant(r, val)
  BY DEF Said
<1>1. Small(V, val) /\ HoldAll(cs, val) /\ Pinned(pins, val)
  BY DEF Small, HoldAll, Pinned
<1> QED
  BY <1>1 DEF Said

(* A step that asks nothing, and one that asks and says so. *)
LEMMA NothingAsked ==
  ASSUME MeaningInv, asked' = asked, ToSet(constraints) \subseteq ToSet(constraints'),
         ToSet(fixed) \subseteq ToSet(fixed'), Vars \subseteq Vars'
  PROVE  MeaningInv'
<1>1. PICK cs, pins, V : cs = ToSet(constraints') /\ pins = ToSet(fixed') /\ V = Vars'
  OBVIOUS
<1>2. \A i \in DOMAIN asked : Said(asked[i], cs, pins, V)
  BY <1>1, SaidMore DEF MeaningInv
<1> QED
  BY <1>1, <1>2 DEF MeaningInv

LEMMA OneAsked ==
  ASSUME MeaningInv, NEW r, asked' = Append(asked, r),
         ToSet(constraints) \subseteq ToSet(constraints'),
         ToSet(fixed) \subseteq ToSet(fixed'), Vars \subseteq Vars',
         Said(r, ToSet(constraints)', ToSet(fixed)', Vars')
  PROVE  MeaningInv'
<1>1. PICK cs, pins, V : cs = ToSet(constraints') /\ pins = ToSet(fixed') /\ V = Vars'
  OBVIOUS
<1>2. \A i \in DOMAIN asked : Said(asked[i], cs, pins, V)
  BY <1>1, SaidMore DEF MeaningInv
<1>3. Said(r, cs, pins, V)
  BY <1>1
<1>4. PICK t : t = asked'
  OBVIOUS
<1>5. IsList(asked) /\ t = Append(asked, r)
  BY <1>4 DEF MeaningInv
<1>6. /\ IsList(t) /\ DOMAIN t = DOMAIN asked \cup {Len(asked) + 1}
      /\ \A i \in DOMAIN asked : t[i] = asked[i]
  BY <1>5, AppendFacts
<1>7. t[Len(asked) + 1] = r
  BY <1>5, AppendLast
<1>8. \A i \in DOMAIN t : Said(t[i], cs, pins, V)
  BY <1>2, <1>3, <1>6, <1>7
<1> QED
  BY <1>1, <1>4, <1>6, <1>8 DEF MeaningInv

LEMMA InitMeaning == Init => MeaningInv
<1> SUFFICES ASSUME Init
             PROVE  MeaningInv
  OBVIOUS
<1>1. asked = << >> /\ DOMAIN asked = {}
  BY DEF Init
<1> QED
  BY <1>1 DEF MeaningInv, IsList

LEMMA MoreVars ==
  ASSUME StoreInv, NEW flags \in Seq(BOOLEAN), Grown(flags)
  PROVE  Vars \subseteq Vars'
<1>1. names \in Seq(BOOLEAN)
  BY DEF StoreInv
<1> QED
  BY <1>1, GrownVars

LEMMA FreshMeaning == StoreInv /\ MeaningInv /\ Fresh => MeaningInv'
<1> SUFFICES ASSUME StoreInv, MeaningInv, NEW named \in BOOLEAN, Grown(<<named>>),
                    UNCHANGED <<store, topVar, asked>>
             PROVE  MeaningInv'
  BY DEF Fresh
<1>1. <<named>> \in Seq(BOOLEAN)
  OBVIOUS
<1>2. Vars \subseteq Vars'
  BY <1>1, MoreVars
<1> QED
  BY <1>2, NothingAsked DEF store

LEMMA GetTopMeaning == StoreInv /\ MeaningInv /\ GetTop => MeaningInv'
<1> SUFFICES ASSUME StoreInv, MeaningInv, GetTop
             PROVE  MeaningInv'
  OBVIOUS
<1>1. UNCHANGED <<constraints, asked>>
  BY DEF GetTop
<1>2. CASE topVar # NoVar
  <2>1. UNCHANGED <<names, fixed>>
    BY <1>2 DEF GetTop
  <2>2. Vars' = Vars
    BY <2>1 DEF Vars
  <2> QED
    BY <1>1, <2>1, <2>2, NothingAsked
<1>3. CASE topVar = NoVar
  <2>1. Grown(<<TRUE>>) /\ fixed' = Append(fixed, <<NextVar(0), Top>>)
    BY <1>3 DEF GetTop
  <2>2. <<TRUE>> \in Seq(BOOLEAN)
    OBVIOUS
  <2>3. Vars \subseteq Vars'
    BY <2>1, <2>2, MoreVars
  <2>4. PICK e, t : e = <<NextVar(0), Top>> /\ t = fixed'
    OBVIOUS
  <2>5. IsList(fixed) /\ t = Append(fixed, e)
    BY <2>1, <2>4 DEF StoreInv, IsList
  <2>6. DOMAIN t = DOMAIN fixed \cup {Len(fixed) + 1} /\ \A i \in DOMAIN fixed : t[i] = fixed[i]
    BY <2>5, AppendFacts
  <2>7. ToSet(fixed) \subseteq ToSet(t)
    BY <2>6 DEF ToSet
  <2> QED
    BY <1>1, <2>3, <2>4, <2>7, NothingAsked
<1> QED
  BY <1>2, <1>3

LEMMA AddSubsetMeaning == StoreInv /\ MeaningInv /\ AddSubset => MeaningInv'
<1> SUFFICES ASSUME StoreInv, MeaningInv, NEW lhs \in ATerm, NEW rhs \in ATerm,
                    Ask("subset", lhs, rhs, NoVar),
                    constraints' = constraints \o SubsetOf(lhs, rhs),
                    UNCHANGED <<names, parent, queries, fixed, hardLo, topVar, classes>>
             PROVE  MeaningInv'
  BY DEF AddSubset
<1>1. lhs \in TermOver(Vars) /\ rhs \in TermOver(Vars)
  BY ATermType DEF StoreInv
<1>2. PICK cs \in Seq(ConstraintOver(Vars)) : cs = SubsetOf(lhs, rhs)
  BY <1>1, SubsetOfType
<1>3. constraints \in Seq(ConstraintOver(Vars)) /\ constraints' = constraints \o cs
  BY <1>2 DEF StoreInv
<1>4. ToSet(constraints) \subseteq ToSet(constraints') /\ ToSet(cs) \subseteq ToSet(constraints')
  BY <1>3, Longer
<1>5. Vars' = Vars
  BY DEF Vars
<1>6. PICK r : r = [op |-> "subset", x |-> lhs, y |-> rhs, z |-> NoVar] /\ asked' = Append(asked, r)
  BY DEF Ask
<1>7. PICK all, pins, V : all = ToSet(constraints') /\ pins = ToSet(fixed') /\ V = Vars
  OBVIOUS
<1>8. Said(r, all, pins, V)
  <2> SUFFICES ASSUME UnitRhs(r.y), NEW val, Small(V, val), HoldAll(all, val)
               PROVE  Meant(r, val)
    BY DEF Said
  <2>1. r.op = "subset" /\ r.x = lhs /\ r.y = rhs
    BY <1>6
  <2>2. Valued(V, val) /\ HoldAll(ToSet(cs), val)
    BY <1>4, <1>7 DEF Small, Valued, HoldAll
  <2>3. ~IsConstant(rhs) => ValueOf(lhs, val) = ValueOf(rhs, val)
    BY <1>1, <1>2, <1>7, <2>1, <2>2, SubsetMeans
  <2> QED
    BY <2>1, <2>3 DEF Meant
<1> QED
  BY <1>4, <1>5, <1>6, <1>7, <1>8, OneAsked

LEMMA AddMinMeaning == StoreInv /\ MeaningInv /\ AddMin => MeaningInv'
<1> SUFFICES ASSUME StoreInv, MeaningInv, NEW x \in ATerm, NEW y \in ATerm,
                    Ask("min", x, y, NextVar(0)),
                    Grown([i \in 1 .. MinVars(x, y) |-> FALSE]),
                    constraints' = constraints \o MinOf(x, y, NextVar(0)),
                    UNCHANGED <<queries, fixed, hardLo, topVar>>
             PROVE  MeaningInv'
  BY DEF AddMin
<1>1. names \in Seq(BOOLEAN)
  BY DEF StoreInv
<1>2. PICK z \in Nat : z = NextVar(0) /\ Vars = 0 .. z - 1
  BY <1>1 DEF NextVar, Vars
<1>3. x \in TermOver(0 .. z - 1) /\ y \in TermOver(0 .. z - 1)
  BY <1>1, <1>2, ATermType
<1>4. PICK m \in Nat : m = MinVars(x, y) /\ MinOf(x, y, z) \in Seq(ConstraintOver(0 .. z + m - 1))
  BY <1>3, MinOfType
<1>5. PICK flags \in Seq(BOOLEAN) : flags = [i \in 1 .. m |-> FALSE] /\ Len(flags) = m
  <2>1. [i \in 1 .. m |-> FALSE] \in Seq(BOOLEAN) /\ Len([i \in 1 .. m |-> FALSE]) = m
    OBVIOUS
  <2> QED
    BY <2>1
<1>6. Grown(flags)
  BY <1>4, <1>5
<1>7. Vars \subseteq Vars' /\ Vars' = 0 .. z + m - 1
  BY <1>1, <1>2, <1>5, <1>6, GrownVars
<1>8. PICK W : W = 0 .. z + m - 1
  OBVIOUS
<1>9. PICK cs \in Seq(ConstraintOver(W)) : cs = MinOf(x, y, z)
  BY <1>4, <1>8
<1>10. constraints \in Seq(ConstraintOver(W)) /\ constraints' = constraints \o cs
  <2>1. Vars \subseteq W /\ constraints \in Seq(ConstraintOver(Vars))
    BY <1>7, <1>8 DEF StoreInv
  <2> QED
    BY <1>2, <1>9, <2>1, TermWider
<1>11. ToSet(constraints) \subseteq ToSet(constraints') /\ ToSet(cs) \subseteq ToSet(constraints')
  BY <1>10, Longer
<1>12. PICK r : r = [op |-> "min", x |-> x, y |-> y, z |-> z] /\ asked' = Append(asked, r)
  BY <1>2 DEF Ask
<1>13. PICK all, pins : all = ToSet(constraints') /\ pins = ToSet(fixed')
  OBVIOUS
<1>14. Said(r, all, pins, W)
  <2> SUFFICES ASSUME NEW val, Small(W, val), HoldAll(all, val)
               PROVE  Meant(r, val)
    BY DEF Said
  <2>1. r.op = "min" /\ r.x = x /\ r.y = y /\ r.z = z
    BY <1>12
  <2>2. Valued(0 .. z + MinVars(x, y) - 1, val) /\ HoldAll(ToSet(MinOf(x, y, z)), val)
    BY <1>4, <1>8, <1>9, <1>11, <1>13 DEF Small, Valued, HoldAll
  <2>3. val[z] = Lesser(ValueOf(x, val), ValueOf(y, val))
    BY <1>3, <2>2, MinMeans
  <2> QED
    BY <2>1, <2>3 DEF Meant
<1>15. Said(r, ToSet(constraints'), ToSet(fixed'), Vars')
  BY <1>7, <1>8, <1>13, <1>14
<1>16. ToSet(fixed) \subseteq ToSet(fixed')
  OBVIOUS
<1> QED
  BY <1>7, <1>11, <1>12, <1>15, <1>16, OneAsked

LEMMA UnionTermMeaning == StoreInv /\ MeaningInv /\ UnionTerm => MeaningInv'
<1> DEFINE w == VarTerm(NextVar(0))
<1> SUFFICES ASSUME StoreInv, MeaningInv, NEW x \in ATerm, NEW y \in ATerm,
                    Ask("union_term", x, y, NextVar(0)),
                    Grown(<<FALSE>>),
                    constraints' = constraints \o SubsetOf(x, w) \o SubsetOf(y, w),
                    UNCHANGED <<queries, fixed, hardLo, topVar>>
             PROVE  MeaningInv'
  BY DEF UnionTerm
<1>1. names \in Seq(BOOLEAN)
  BY DEF StoreInv
<1>2. <<FALSE>> \in Seq(BOOLEAN) /\ Len(<<FALSE>>) > 0
  OBVIOUS
<1>3. Vars \subseteq Vars' /\ NextVar(0) \in Vars'
  BY <1>1, <1>2, GrownVars
<1>4. PICK W, z : W = Vars' /\ z = NextVar(0)
  OBVIOUS
<1>5. constraints \in Seq(ConstraintOver(W))
  <2>1. Vars \subseteq W /\ constraints \in Seq(ConstraintOver(Vars))
    BY <1>3, <1>4 DEF StoreInv
  <2> QED
    BY <2>1, TermWider
<1>6. x \in TermOver(W) /\ y \in TermOver(W) /\ w \in TermOver(W)
  <2>1. x \in TermOver(Vars) /\ y \in TermOver(Vars)
    BY <1>1, ATermType
  <2> QED
    BY <1>3, <1>4, <2>1, TermWider, SimpleTerms
<1>7. PICK cx \in Seq(ConstraintOver(W)), cy \in Seq(ConstraintOver(W)) : cx = SubsetOf(x, w) /\ cy = SubsetOf(y, w)
  <2> HIDE DEF w
  <2> QED
    BY <1>6, SubsetOfType
<1>8. /\ ToSet(constraints) \subseteq ToSet(constraints')
      /\ ToSet(cx) \subseteq ToSet(constraints') /\ ToSet(cy) \subseteq ToSet(constraints')
  <2>1. PICK q \in Seq(ConstraintOver(W)) : q = constraints \o cx
    <3>1. constraints \o cx \in Seq(ConstraintOver(W))
      BY <1>5
    <3> QED
      BY <3>1
  <2>2. ToSet(constraints) \subseteq ToSet(q) /\ ToSet(cx) \subseteq ToSet(q)
    BY <1>5, <2>1, Longer
  <2>3. constraints' = q \o cy
    BY <1>7, <2>1
  <2>4. ToSet(q) \subseteq ToSet(constraints') /\ ToSet(cy) \subseteq ToSet(constraints')
    BY <2>3, Longer
  <2> QED
    BY <2>2, <2>4
<1>9. PICK r : r = [op |-> "union_term", x |-> x, y |-> y, z |-> z] /\ asked' = Append(asked, r)
  BY <1>4 DEF Ask
<1>10. PICK all, pins : all = ToSet(constraints') /\ pins = ToSet(fixed')
  OBVIOUS
<1>11. Said(r, all, pins, W)
  <2> SUFFICES ASSUME NEW val, Small(W, val), HoldAll(all, val)
               PROVE  Meant(r, val)
    BY DEF Said
  <2>1. r.op = "union_term" /\ r.x = x /\ r.y = y /\ r.z = z
    BY <1>9
  <2>2. Valued(W, val) /\ HoldAll(ToSet(cx), val) /\ HoldAll(ToSet(cy), val)
    BY <1>8, <1>10 DEF Small, Valued, HoldAll
  <2>3. z \in W /\ w = VarTerm(z)
    BY <1>3, <1>4
  <2>4. ~IsConstant(w) /\ UnitRhs(w) /\ ValueOf(w, val) = val[z]
    BY <2>2, <2>3, VarValue DEF UnitRhs
  <2> HIDE DEF w
  <2>5. ValueOf(x, val) = ValueOf(w, val) /\ ValueOf(y, val) = ValueOf(w, val)
    BY <1>6, <1>7, <2>2, <2>4, SubsetMeans
  <2> QED
    BY <2>1, <2>4, <2>5 DEF Meant
<1>12. Said(r, ToSet(constraints'), ToSet(fixed'), Vars')
  BY <1>4, <1>10, <1>11
<1>13. ToSet(fixed) \subseteq ToSet(fixed')
  OBVIOUS
<1> QED
  BY <1>3, <1>8, <1>9, <1>12, <1>13, OneAsked

(* A pin gives the term its value, on values that the clamping of the pin  *)
(* cannot reach.                                                           *)
LEMMA PinMeans ==
  ASSUME NEW V, NEW t \in TermOver(V), NEW k \in Int, IsSingleVarAny(t),
         NEW val, Small(V, val), Pinned({Pin(t, k)}, val)
  PROVE  ValueOf(t, val) = k
<1>1. Valued(V, val)
  BY DEF Small, Valued
<1>2. TheVar(t) \in V /\ ValueOf(t, val) = val[TheVar(t)] + t.konst
  BY <1>1, SingleValue
<1>3. PICK v \in Int : v = val[TheVar(t)] /\ NEGINF < v /\ v < INF
  BY <1>2 DEF Small
<1>4. PICK d \in Int : d = k - t.konst /\ t.konst \in Int /\ k = d + t.konst
  <2>1. t.konst \in Int
    BY TermParts
  <2> QED
    BY <2>1
<1>5. Pin(t, k) = <<TheVar(t), Singleton(d)>>
  BY <1>4 DEF Pin
<1>6. Pin(t, k)[1] = TheVar(t) /\ Pin(t, k)[2] = Singleton(d) /\ Singleton(d) # Top
  BY <1>5, TopIsWide
<1>7. Singleton(d).lo = Clamp(v)
  BY <1>3, <1>6 DEF Pinned
<1>8. Clamp(d) = Clamp(v)
  BY <1>7 DEF Singleton
<1>9. d = v
  BY <1>3, <1>8, INFAssumption DEF Clamp, Greater, Lesser, NEGINF
<1> QED
  BY <1>2, <1>3, <1>4, <1>9

(* What eq adds to the store, one case at a time. *)
LEMMA EqPinned ==
  ASSUME StoreInv, MeaningInv, NEW a \in ATerm, NEW b \in ATerm, Ask("eq", a, b, NoVar),
         NEW s, NEW c, (s = a /\ c = b) \/ (s = b /\ c = a),
         IsSingleVarAny(s), IsConstant(c), fixed' = fixed \o <<Pin(s, c.konst)>>,
         UNCHANGED <<names, constraints>>
  PROVE  MeaningInv'
<1>1. Vars' = Vars
  BY DEF Vars
<1>2. PICK V : V = Vars
  OBVIOUS
<1>3. a \in TermOver(V) /\ b \in TermOver(V) /\ s \in TermOver(V) /\ c \in TermOver(V) /\ c.konst \in Int
  BY <1>2, ATermType DEF StoreInv, TermOver
<1>4. PICK p \in V \X Interval : p = Pin(s, c.konst)
  BY <1>3, PinType
<1>5. fixed \in Seq(V \X Interval) /\ <<p>> \in Seq(V \X Interval) /\ fixed' = fixed \o <<p>>
  BY <1>2, <1>4 DEF StoreInv
<1>6. ToSet(fixed) \subseteq ToSet(fixed') /\ p \in ToSet(fixed')
  <2>1. ToSet(fixed) \subseteq ToSet(fixed') /\ ToSet(<<p>>) \subseteq ToSet(fixed')
    BY <1>5, Longer
  <2>2. p \in ToSet(<<p>>)
    BY DEF ToSet
  <2> QED
    BY <2>1, <2>2
<1>7. PICK r : r = [op |-> "eq", x |-> a, y |-> b, z |-> NoVar] /\ asked' = Append(asked, r)
  BY DEF Ask
<1>8. PICK all, pins : all = ToSet(constraints') /\ pins = ToSet(fixed')
  OBVIOUS
<1>9. Said(r, all, pins, V)
  <2> SUFFICES ASSUME NEW val, Small(V, val), Pinned(pins, val)
               PROVE  Meant(r, val)
    BY DEF Said
  <2>1. r.op = "eq" /\ r.x = a /\ r.y = b
    BY <1>7
  <2>2. Pinned({Pin(s, c.konst)}, val)
    BY <1>4, <1>6, <1>8 DEF Pinned
  <2>3. ValueOf(s, val) = c.konst
    BY <1>3, <2>2, PinMeans
  <2>4. ValueOf(c, val) = c.konst
    BY <1>3, ConstValue
  <2>5. ValueOf(a, val) = ValueOf(b, val)
    BY <2>3, <2>4
  <2> QED
    BY <2>1, <2>5 DEF Meant
<1>10. Said(r, ToSet(constraints'), ToSet(fixed'), Vars')
  BY <1>1, <1>2, <1>8, <1>9
<1>11. ToSet(constraints) \subseteq ToSet(constraints') /\ Vars \subseteq Vars'
  BY <1>1
<1> QED
  BY <1>6, <1>7, <1>10, <1>11, OneAsked

LEMMA EqBothWays ==
  ASSUME StoreInv, MeaningInv, NEW a \in ATerm, NEW b \in ATerm, Ask("eq", a, b, NoVar),
         constraints' = constraints \o SubsetOf(a, b) \o SubsetOf(b, a),
         UNCHANGED <<names, fixed>>
  PROVE  MeaningInv'
<1>1. Vars' = Vars
  BY DEF Vars
<1>2. PICK V : V = Vars
  OBVIOUS
<1>3. a \in TermOver(V) /\ b \in TermOver(V)
  BY <1>2, ATermType DEF StoreInv
<1>4. PICK ca \in Seq(ConstraintOver(V)), cb \in Seq(ConstraintOver(V)) : ca = SubsetOf(a, b) /\ cb = SubsetOf(b, a)
  BY <1>3, SubsetOfType
<1>5. constraints \in Seq(ConstraintOver(V))
  BY <1>2 DEF StoreInv
<1>6. /\ ToSet(constraints) \subseteq ToSet(constraints')
      /\ ToSet(ca) \subseteq ToSet(constraints') /\ ToSet(cb) \subseteq ToSet(constraints')
  <2>1. PICK q \in Seq(ConstraintOver(V)) : q = constraints \o ca
    <3>1. constraints \o ca \in Seq(ConstraintOver(V))
      BY <1>5
    <3> QED
      BY <3>1
  <2>2. ToSet(constraints) \subseteq ToSet(q) /\ ToSet(ca) \subseteq ToSet(q)
    BY <1>5, <2>1, Longer
  <2>3. constraints' = q \o cb
    BY <1>4, <2>1
  <2>4. ToSet(q) \subseteq ToSet(constraints') /\ ToSet(cb) \subseteq ToSet(constraints')
    BY <2>3, Longer
  <2> QED
    BY <2>2, <2>4
<1>7. PICK r : r = [op |-> "eq", x |-> a, y |-> b, z |-> NoVar] /\ asked' = Append(asked, r)
  BY DEF Ask
<1>8. PICK all, pins : all = ToSet(constraints') /\ pins = ToSet(fixed')
  OBVIOUS
<1>9. Said(r, all, pins, V)
  <2>0. r.op = "eq" /\ r.x = a /\ r.y = b
    BY <1>7
  <2> SUFFICES ASSUME UnitRhs(a), UnitRhs(b), NEW val, Small(V, val), HoldAll(all, val)
               PROVE  Meant(r, val)
    BY <2>0 DEF Said
  <2>1. Valued(V, val) /\ HoldAll(ToSet(ca), val) /\ HoldAll(ToSet(cb), val)
    BY <1>6, <1>8 DEF Small, Valued, HoldAll
  <2>2. CASE IsConstant(a) /\ IsConstant(b)
    BY <2>0, <2>2 DEF Meant
  <2>3. CASE ~IsConstant(b)
    <3>1. ValueOf(a, val) = ValueOf(b, val)
      BY <1>3, <1>4, <2>1, <2>3, SubsetMeans
    <3> QED
      BY <2>0, <3>1 DEF Meant
  <2>4. CASE ~IsConstant(a)
    <3>1. ValueOf(b, val) = ValueOf(a, val)
      BY <1>3, <1>4, <2>1, <2>4, SubsetMeans
    <3> QED
      BY <2>0, <3>1 DEF Meant
  <2> QED
    BY <2>2, <2>3, <2>4
<1>10. Said(r, ToSet(constraints'), ToSet(fixed'), Vars')
  BY <1>1, <1>2, <1>8, <1>9
<1>11. ToSet(fixed) \subseteq ToSet(fixed') /\ Vars \subseteq Vars'
  BY <1>1
<1> QED
  BY <1>6, <1>7, <1>10, <1>11, OneAsked

LEMMA EqMeaning == StoreInv /\ MeaningInv /\ Eq => MeaningInv'
<1> SUFFICES ASSUME StoreInv, MeaningInv, NEW a \in ATerm, NEW b \in ATerm, Equate(a, b)
             PROVE  MeaningInv'
  BY DEF Eq
<1>1. CASE IsConstant(b) /\ IsSingleVarAny(a)
  <2>1. /\ Ask("eq", a, b, NoVar) /\ fixed' = fixed \o <<Pin(a, b.konst)>>
        /\ UNCHANGED <<names, constraints>>
    BY <1>1 DEF Equate
  <2> QED
    BY <1>1, <2>1, EqPinned
<1>2. CASE ~(IsConstant(b) /\ IsSingleVarAny(a)) /\ IsConstant(a) /\ IsSingleVarAny(b)
  <2>1. /\ Ask("eq", a, b, NoVar) /\ fixed' = fixed \o <<Pin(b, a.konst)>>
        /\ UNCHANGED <<names, constraints>>
    BY <1>2 DEF Equate
  <2> QED
    BY <1>2, <2>1, EqPinned
<1>3. CASE /\ ~(IsConstant(b) /\ IsSingleVarAny(a)) /\ ~(IsConstant(a) /\ IsSingleVarAny(b))
           /\ IsSingleVar(a) /\ IsSingleVar(b)
  <2>1. Union(TheVar(a), TheVar(b))
    BY <1>3 DEF Equate
  <2>2. UNCHANGED <<names, constraints, fixed, asked>>
    BY <2>1 DEF Union, store
  <2>3. Vars' = Vars
    BY <2>2 DEF Vars
  <2> QED
    BY <2>2, <2>3, NothingAsked
<1>4. CASE /\ ~(IsConstant(b) /\ IsSingleVarAny(a)) /\ ~(IsConstant(a) /\ IsSingleVarAny(b))
           /\ ~(IsSingleVar(a) /\ IsSingleVar(b))
  <2>1. /\ Ask("eq", a, b, NoVar)
        /\ constraints' = constraints \o SubsetOf(a, b) \o SubsetOf(b, a)
        /\ UNCHANGED <<names, fixed>>
    BY <1>4 DEF Equate
  <2> QED
    BY <2>1, EqBothWays
<1> QED
  BY <1>1, <1>2, <1>3, <1>4

(* Floors and queries say nothing of values. *)
LEMMA OtherMeaning ==
  ASSUME MeaningInv, UNCHANGED <<names, constraints, fixed>>,
         NEW op \in {"hard_ge", "queryge"}, NEW a, NEW b, Ask(op, a, b, NoVar)
  PROVE  MeaningInv'
<1>1. Vars' = Vars
  BY DEF Vars
<1>2. PICK r : r = [op |-> op, x |-> a, y |-> b, z |-> NoVar] /\ asked' = Append(asked, r)
  BY DEF Ask
<1>3. \A val : Meant(r, val)
  BY <1>2 DEF Meant
<1>4. Said(r, ToSet(constraints'), ToSet(fixed'), Vars')
  BY <1>3 DEF Said
<1>5. /\ ToSet(constraints) \subseteq ToSet(constraints')
      /\ ToSet(fixed) \subseteq ToSet(fixed') /\ Vars \subseteq Vars'
  BY <1>1
<1> QED
  BY <1>2, <1>4, <1>5, OneAsked

LEMMA StepMeaning == StoreInv /\ MeaningInv /\ [Next]_vars => MeaningInv'
<1> SUFFICES ASSUME StoreInv, MeaningInv, [Next]_vars
             PROVE  MeaningInv'
  OBVIOUS
<1>1. CASE Find \/ UNCHANGED vars
  <2>1. UNCHANGED <<names, constraints, fixed, asked>>
    BY <1>1 DEF Find, vars, store
  <2>2. Vars' = Vars
    BY <2>1 DEF Vars
  <2> QED
    BY <2>1, <2>2, NothingAsked
<1>2. CASE HardGe
  <2>1. PICK a \in ATerm, c \in Konst :
          Ask("hard_ge", a, ConstTerm(c), NoVar) /\ UNCHANGED <<names, constraints, fixed>>
    BY <1>2 DEF HardGe
  <2> QED
    BY <2>1, OtherMeaning
<1>3. CASE QueryGe
  <2>1. PICK a, b : Ask("queryge", a, b, NoVar) /\ UNCHANGED <<names, constraints, fixed>>
    BY <1>3 DEF QueryGe
  <2> QED
    BY <2>1, OtherMeaning
<1> QED
  BY <1>1, <1>2, <1>3, FreshMeaning, GetTopMeaning, AddSubsetMeaning, AddMinMeaning,
     UnionTermMeaning, EqMeaning DEF Next

(* "lhs \subseteq rhs ... extra vars, which get moved to the LHS": whatever *)
(* was asked before and after, the constraints and pins in the store say   *)
(* what every subset, min, union_term and pinning eq meant, on all values  *)
(* that the sentinels of the ranges do not reach.                          *)
THEOREM MeaningIsKept == Spec => []MeaningInv
<1>1. Init => StoreInv /\ MeaningInv
  BY InitStore, InitMeaning
<1>2. StoreInv /\ MeaningInv /\ [Next]_vars => (StoreInv /\ MeaningInv)'
  BY StepStore, StepMeaning
<1> QED
  BY <1>1, <1>2, PTL DEF Spec

(* The same on the values -1, 0 and 1, which a sentinel beyond 1 (the code *)
(* has 32767) does not reach.                                              *)
THEOREM StoreMeans == ASSUME INF > 1 PROVE Spec => []StoreMeansWhatWasAsked
<1>1. MeaningInv => StoreMeansWhatWasAsked
  <2> SUFFICES ASSUME MeaningInv, NEW i \in DOMAIN asked,
                      UnitRhs(asked[i].y) /\ (asked[i].op = "eq" => UnitRhs(asked[i].x)),
                      NEW val \in Valuation,
                      \A c \in ToSet(constraints) : Holds(c, val), PinsHold(val)
               PROVE  Meant(asked[i], val)
    BY DEF StoreMeansWhatWasAsked
  <2>1. Small(Vars, val)
    <3>1. \A n \in -1 .. 1 : n \in Int /\ NEGINF < n /\ n < INF
      BY INFAssumption DEF NEGINF
    <3>2. \A v \in Vars : val[v] \in -1 .. 1
      BY DEF Valuation
    <3> QED
      BY <3>1, <3>2 DEF Small
  <2>2. HoldAll(ToSet(constraints), val) /\ Pinned(ToSet(fixed), val)
    BY DEF HoldAll, Pinned, PinsHold
  <2> QED
    BY <2>1, <2>2 DEF MeaningInv, Said
<1> QED
  BY <1>1, MeaningIsKept, PTL
=============================================================================
