---------------------------- MODULE SolverProofs ----------------------------
(***************************************************************************)
(* Theorems about solve as a whole, for every number of variables, every   *)
(* system over them, every sentinel INF and every cap on the rounds: the   *)
(* phases hand over what the next one relies on, a component is solved     *)
(* when its inputs are final, and the verdict errs on the safe side.       *)
(***************************************************************************)
EXTENDS Solver, Lemmas

-----------------------------------------------------------------------------
(* What Prepare computes. *)

LEMMA SystemFacts ==
  ASSUME sys \in Systems
  PROVE  /\ sys.constraints \in Seq(ConstraintOver(Var))
         /\ sys.fixed \in Seq(Var \X PinRange)
         /\ sys.hardLo \in Seq(Var \X Endpoint)
         /\ sys.canon \in [Var -> Var]
         /\ sys.queries \in Seq(Query)
BY SolverAssumption DEF System

LEMMA CanonicalType ==
  ASSUME sys \in Systems, NEW c \in ConstraintOver(Var)
  PROVE  Canonical(c) \in ConstraintOver(Var)
<1>0. PICK rep \in [Var -> Var] : rep = sys.canon
  BY SystemFacts
<1>1. CASE c.form = "subset" /\ c.lhs \in TermOver(Var) /\ c.var \in Var
  <2>1. PICK n \in Nat : DOMAIN c.lhs.terms = 1 .. n
    BY <1>1, TermParts
  <2> DEFINE es == [i \in 1 .. n |-> <<c.lhs.terms[i][1], rep[c.lhs.terms[i][2]]>>]
  <2>2. \A i \in 1 .. n : c.lhs.terms[i][1] \in Int /\ c.lhs.terms[i][2] \in Var
    <3> TAKE i \in 1 .. n
    <3>1. c.lhs.terms \in Seq(EntryOver(Var)) /\ i \in 1 .. Len(c.lhs.terms)
      BY <1>1, <2>1, TermParts
    <3> QED
      BY <3>1, EntryFacts
  <2>3. es \in Seq(EntryOver(Var))
    BY <2>2 DEF EntryOver
  <2>4. [c.lhs EXCEPT !.terms = es] \in TermOver(Var)
    BY <1>1, <2>3 DEF TermOver
  <2>5. Canonical(c) = Subset([c.lhs EXCEPT !.terms = es], rep[c.var])
    BY <1>0, <1>1, <2>1 DEF Canonical, TermOver
  <2> QED
    BY <1>1, <2>4, <2>5 DEF Subset, ConstraintOver
<1>2. CASE c.form = "min" /\ c.items \in Seq(ItemOver(Var)) /\ c.var \in Var
  <2>1. PICK n \in Nat : DOMAIN c.items = 1 .. n /\ \A i \in 1 .. n : c.items[i] \in ItemOver(Var)
    BY <1>2
  <2> DEFINE it(i) == IF c.items[i].item = "term" THEN [c.items[i] EXCEPT !.var = rep[@]]
                      ELSE c.items[i]
             is == [i \in 1 .. n |-> it(i)]
  <2>2. \A i \in 1 .. n : it(i) \in ItemOver(Var)
    BY <2>1 DEF ItemOver
  <2>3. is \in Seq(ItemOver(Var))
    <3> HIDE DEF it
    <3> QED
      BY <2>2
  <2>4. Canonical(c) = MinSubset(is, rep[c.var])
    BY <1>0, <1>2, <2>1 DEF Canonical
  <2> QED
    BY <1>2, <2>3, <2>4 DEF MinSubset, ConstraintOver
<1> QED
  BY <1>1, <1>2, ConstraintForms

LEMMA ConstraintsType ==
  ASSUME sys \in Systems
  PROVE  \E n \in Nat : Constraints \in [1 .. n -> ConstraintOver(Var)]
<1>1. PICK n \in Nat : DOMAIN sys.constraints = 1 .. n
                       /\ \A i \in 1 .. n : sys.constraints[i] \in ConstraintOver(Var)
  BY SystemFacts
<1>2. \A i \in 1 .. n : Canonical(sys.constraints[i]) \in ConstraintOver(Var)
  BY <1>1, CanonicalType
<1>3. Constraints = [i \in 1 .. n |-> Canonical(sys.constraints[i])]
  BY <1>1 DEF Constraints
<1> QED
  BY <1>2, <1>3

(* byRhs lists the constraints into a variable ... *)
LEMMA IntoFacts ==
  ASSUME sys \in Systems, NEW v \in Var
  PROVE  /\ Into(v) \in Seq(ConstraintOver(Var))
         /\ \A c : c \in ToSet(Into(v))
              <=> \E i \in DOMAIN Constraints : c = Constraints[i] /\ Rhs(c) = v
<1>1. PICK n \in Nat : Constraints \in [1 .. n -> ConstraintOver(Var)]
  BY ConstraintsType
<1> DEFINE part(i) == IF Rhs(Constraints[i]) = v THEN <<Constraints[i]>> ELSE << >>
           ss == [i \in 1 .. n |-> part(i)]
<1>2. ss \in [1 .. n -> Seq(ConstraintOver(Var))] /\ \A i \in 1 .. n : ss[i] = part(i)
  BY <1>1
<1>3. Into(v) = FlattenSeq(ss) /\ DOMAIN Constraints = 1 .. n
  BY <1>1 DEF Into
<1>4. \A i \in 1 .. n : \A c : c \in ToSet(part(i)) <=> c = Constraints[i] /\ Rhs(c) = v
  BY DEF ToSet
<1> HIDE DEF ss, part
<1>5. /\ FlattenSeq(ss) \in Seq(ConstraintOver(Var))
      /\ \A c : c \in ToSet(FlattenSeq(ss)) <=> \E i \in 1 .. n : c \in ToSet(ss[i])
  BY <1>2, FlattenFacts
<1> QED
  BY <1>2, <1>3, <1>4, <1>5

(* ... and succ the variables that a variable flows into. *)
LEMMA InfluencedFacts ==
  ASSUME sys \in Systems, NEW v \in Var
  PROVE  /\ InfluencedBy(v) \in Seq(Var)
         /\ \A w : w \in ToSet(InfluencedBy(v))
              <=> \E i \in DOMAIN Constraints :
                    v \in ToSet(LhsVars(Constraints[i])) /\ w = Rhs(Constraints[i])
<1>1. PICK n \in Nat : Constraints \in [1 .. n -> ConstraintOver(Var)]
  BY ConstraintsType
<1> DEFINE vs(i) == LhsVars(Constraints[i])
           r(i)  == Rhs(Constraints[i])
           tt(i) == [k \in DOMAIN vs(i) |-> IF vs(i)[k] = v THEN <<r(i)>> ELSE << >>]
           part(i) == FlattenSeq(tt(i))
           ss == [i \in 1 .. n |-> part(i)]
<1>2. ASSUME NEW i \in 1 .. n
      PROVE  /\ part(i) \in Seq(Var)
             /\ \A w : w \in ToSet(part(i)) <=> v \in ToSet(vs(i)) /\ w = r(i)
  <2>1. vs(i) \in Seq(Var) /\ r(i) \in Var
    BY <1>1, LhsVarsFacts
  <2> HIDE DEF vs, r
  <2>2. PICK l \in Nat : DOMAIN vs(i) = 1 .. l
    BY <2>1
  <2>3. /\ tt(i) \in [1 .. l -> Seq(Var)]
        /\ \A k \in 1 .. l : tt(i)[k] = IF vs(i)[k] = v THEN <<r(i)>> ELSE << >>
    BY <2>1, <2>2
  <2> HIDE DEF tt
  <2>4. /\ part(i) \in Seq(Var)
        /\ \A w : w \in ToSet(part(i)) <=> \E k \in 1 .. l : w \in ToSet(tt(i)[k])
    BY <2>3, FlattenFacts
  <2>5. \A k \in 1 .. l : \A w : w \in ToSet(tt(i)[k]) <=> vs(i)[k] = v /\ w = r(i)
    BY <2>3 DEF ToSet
  <2>6. v \in ToSet(vs(i)) <=> \E k \in 1 .. l : vs(i)[k] = v
    BY <2>2 DEF ToSet
  <2> HIDE DEF part
  <2>7. ASSUME NEW w
        PROVE  w \in ToSet(part(i)) <=> v \in ToSet(vs(i)) /\ w = r(i)
    <3>1. ASSUME w \in ToSet(part(i))
          PROVE  v \in ToSet(vs(i)) /\ w = r(i)
      <4>1. PICK k \in 1 .. l : w \in ToSet(tt(i)[k])
        BY <2>4, <3>1
      <4> QED
        BY <2>5, <2>6, <4>1
    <3>2. ASSUME v \in ToSet(vs(i)), w = r(i)
          PROVE  w \in ToSet(part(i))
      <4>1. PICK k \in 1 .. l : vs(i)[k] = v
        BY <2>6, <3>2
      <4>2. w \in ToSet(tt(i)[k])
        BY <2>5, <3>2, <4>1
      <4> QED
        BY <2>4, <4>2
    <3> QED
      BY <3>1, <3>2
  <2> QED
    BY <2>4, <2>7
<1>3. InfluencedBy(v) = FlattenSeq(ss) /\ DOMAIN Constraints = 1 .. n
  BY <1>1 DEF InfluencedBy
<1> HIDE DEF part
<1>4. ss \in [1 .. n -> Seq(Var)] /\ \A i \in 1 .. n : ss[i] = part(i)
  BY <1>2
<1> HIDE DEF ss
<1>5. /\ FlattenSeq(ss) \in Seq(Var)
      /\ \A w : w \in ToSet(FlattenSeq(ss)) <=> \E i \in 1 .. n : w \in ToSet(ss[i])
  BY <1>4, FlattenFacts
<1> QED
  BY <1>2, <1>3, <1>4, <1>5

LEMMA PinFacts == PinRange \in SUBSET Interval /\ \A r \in PinRange : ~IsEmpty(r)
<1>1. Top \in Interval /\ ~IsEmpty(Top)
  BY EndpointFacts DEF Top, Interval, IsEmpty
<1>2. \A n \in Endpoint : Singleton(n) \in Interval /\ ~IsEmpty(Singleton(n))
  BY EndpointFacts, ConstantTypes, SingletonFull
<1> QED
  BY <1>1, <1>2 DEF PinRange

LEMMA StartRangeType ==
  ASSUME sys \in Systems, NEW v \in Var
  PROVE  StartRange(v) \in Interval /\ (Pinned(v) <=> ~IsEmpty(StartRange(v)))
<1>1. CASE ~Pinned(v)
  BY <1>1, ConstantTypes DEF StartRange
<1>2. CASE Pinned(v)
  <2>1. PICK n \in Nat : DOMAIN sys.fixed = 1 .. n /\ \A i \in 1 .. n : sys.fixed[i] \in Var \X PinRange
    BY SystemFacts
  <2>2. PinsOf(v) \in SUBSET (1 .. n) /\ PinsOf(v) # {}
    BY <1>2, <2>1 DEF PinsOf, Pinned
  <2>3. Max(PinsOf(v)) \in 1 .. n
    BY <2>2, MaxExists
  <2>4. sys.fixed[Max(PinsOf(v))][2] \in PinRange
    BY <2>1, <2>3
  <2> QED
    BY <1>2, <2>4, PinFacts DEF StartRange
<1> QED
  BY <1>1, <1>2

LEMMA FloorOfType ==
  ASSUME sys \in Systems, NEW v \in Var
  PROVE  FloorOf(v) \in Endpoint
<1>1. PICK n \in Nat : DOMAIN sys.hardLo = 1 .. n /\ \A i \in 1 .. n : sys.hardLo[i] \in Var \X Endpoint
  BY SystemFacts
<1>2. \A i \in 1 .. n : sys.hardLo[i][2] \in Endpoint
  BY <1>1
<1> DEFINE S == {NEGINF} \cup {sys.hardLo[i][2] : i \in FloorsOf(v)}
<1>3. S \in SUBSET (NEGINF .. INF) /\ S # {}
  BY <1>1, <1>2, EndpointFacts DEF FloorsOf, Endpoint
<1> HIDE DEF S
<1>4. Max(S) \in S
  BY <1>3, BoundedMax, EndpointFacts
<1> QED
  BY <1>3, <1>4 DEF FloorOf, S, Endpoint

-----------------------------------------------------------------------------
(* The parts of solve, as their own proofs see them.                       *)

(* What topo_order and solve_component may be called with. *)
Inputs == UNION {[m : {k}, flow : Seq((0 .. k - 1) \X (0 .. k - 1))] : k \in Nat}

Calls == [comp   : Seq(Var),
          byRhs  : [Var -> Seq(ConstraintOver(Var))],
          fixed  : SUBSET Var,
          hardLo : [Var -> Endpoint],
          start  : [Var -> Interval]]

SP == INSTANCE TarjanProofs WITH Graph <- [Var -> Seq(Var)]
TP == INSTANCE TopoOrderProofs WITH Input <- Inputs, pc <- topoPc
CP == INSTANCE SolveComponentProofs WITH
        Constraint <- ConstraintOver(Var), Problem <- Calls, Eval <- EvalConstraint, pc <- compPc

(* Their assumptions hold. *)
LEMMA SccAssumed == SP!TarjanAssumption /\ SP!Node = Var
BY SolverAssumption DEF SP!TarjanAssumption, SP!Node, Var

LEMMA TopoAssumed == TP!InputAssumption
<1> SUFFICES ASSUME NEW k \in Nat, NEW i \in [m : {k}, flow : Seq((0 .. k - 1) \X (0 .. k - 1))]
             PROVE  i.m \in Nat /\ i.flow \in Seq((0 .. i.m - 1) \X (0 .. i.m - 1))
  BY DEF TP!InputAssumption, Inputs
<1>1. i.m = k /\ i.flow \in Seq((0 .. k - 1) \X (0 .. k - 1))
  OBVIOUS
<1> QED
  BY <1>1

LEMMA CompSame ==
  /\ CP!Endpoint = Endpoint /\ CP!Interval = Interval /\ CP!Empty = Empty
  /\ CP!NEGINF = NEGINF /\ CP!Call = Calls
  /\ \A x : CP!IsEmpty(x) <=> IsEmpty(x)
  /\ \A x, y : CP!Leq(x, y) <=> Leq(x, y)
  /\ \A x, y : CP!Greater(x, y) = Greater(x, y)
  /\ \A x, y : CP!Hull(x, y) = Hull(x, y)
<1>1. CP!NEGINF = NEGINF
  BY DEF CP!NEGINF, NEGINF
<1>2. CP!Endpoint = Endpoint
  BY <1>1 DEF CP!Endpoint, Endpoint
<1>3. CP!Interval = Interval
  BY <1>2 DEF CP!Interval, Interval
<1>4. CP!Empty = Empty
  BY <1>1 DEF CP!Empty, Empty
<1>5. CP!Call = Calls
  BY <1>2, <1>3 DEF CP!Call, Calls
<1>6. \A x : CP!IsEmpty(x) <=> IsEmpty(x)
  BY DEF CP!IsEmpty, IsEmpty
<1>7. \A x, y : CP!Leq(x, y) <=> Leq(x, y)
  BY <1>6 DEF CP!Leq, Leq
<1>8. \A x, y : CP!Greater(x, y) = Greater(x, y) /\ CP!Lesser(x, y) = Lesser(x, y)
  BY DEF CP!Greater, Greater, CP!Lesser, Lesser
<1>9. \A x, y : CP!Hull(x, y) = Hull(x, y)
  BY <1>6, <1>8 DEF CP!Hull, Hull
<1> QED
  BY <1>1, <1>2, <1>3, <1>4, <1>5, <1>6, <1>7, <1>8, <1>9

LEMMA CompAssumed ==
  CP!INFAssumption /\ CP!MaxItersAssumption /\ CP!EvalAssumption /\ CP!ProblemAssumption
<1>1. CP!INFAssumption /\ CP!MaxItersAssumption
  BY INFAssumption, SolverAssumption DEF CP!INFAssumption, CP!MaxItersAssumption
<1>2. CP!EvalAssumption
  BY CompSame, EvalType DEF CP!EvalAssumption
<1>3. CP!ProblemAssumption
  BY CompSame DEF CP!ProblemAssumption
<1> QED
  BY <1>1, <1>2, <1>3

(* The actions of Solver are theirs. *)
LEMMA SccSame == (Scc!Step => SP!Step) /\ (Scc!Finished <=> SP!Finished) /\ (SP!TypeOK => Scc!TypeOK)
<1>0. Scc!Node = SP!Node /\ Scc!None = SP!None
  BY DEF Scc!Node, SP!Node, Scc!None, SP!None
<1>1. /\ Scc!top = SP!top /\ Scc!node = SP!node /\ Scc!child = SP!child
      /\ Scc!More <=> SP!More
      /\ Scc!Advanced = SP!Advanced
  BY DEF Scc!top, SP!top, Scc!node, SP!node, Scc!child, SP!child, Scc!More, SP!More,
         Scc!Advanced, SP!Advanced
<1>2. \A s : Scc!ToSet(s) = SP!ToSet(s) /\ Scc!Reverse(s) = SP!Reverse(s)
  BY DEF Scc!ToSet, SP!ToSet, Scc!Reverse, SP!Reverse
<1>3. \A x : Scc!PoppedFrom(x) = SP!PoppedFrom(x)
  BY <1>2 DEF Scc!PoppedFrom, SP!PoppedFrom
<1>4. \A x, y : Scc!AtMost(x, y) = SP!AtMost(x, y) /\ Scc!Frame(x) = SP!Frame(x)
  BY DEF Scc!AtMost, SP!AtMost, Scc!Frame, SP!Frame
<1>5. \A x, f : Scc!Discover(x, f) => SP!Discover(x, f)
  BY <1>4 DEF Scc!Discover, SP!Discover
<1>6. Scc!SkipStart => SP!SkipStart
  BY <1>0 DEF Scc!SkipStart, SP!SkipStart
<1>7. Scc!BeginStart => SP!BeginStart
  BY <1>0, <1>5 DEF Scc!BeginStart, SP!BeginStart
<1>8. Scc!Descend => SP!Descend
  BY <1>0, <1>1, <1>5 DEF Scc!Descend, SP!Descend
<1>9. Scc!BackEdge => SP!BackEdge
  BY <1>0, <1>1, <1>4 DEF Scc!BackEdge, SP!BackEdge
<1>10. Scc!CrossEdge => SP!CrossEdge
  BY <1>0, <1>1 DEF Scc!CrossEdge, SP!CrossEdge
<1>11. Scc!CloseComponent => SP!CloseComponent
  BY <1>0, <1>1, <1>2, <1>3 DEF Scc!CloseComponent, SP!CloseComponent
<1>12. Scc!Return => SP!Return
  BY <1>1, <1>4, <1>11 DEF Scc!Return, SP!Return
<1>13. Scc!Step => SP!Step
  BY <1>6, <1>7, <1>8, <1>9, <1>10, <1>12 DEF Scc!Step, SP!Step
<1>14. Scc!Finished <=> SP!Finished
  BY DEF Scc!Finished, SP!Finished
<1>15. SP!TypeOK => Scc!TypeOK
  BY <1>0 DEF Scc!TypeOK, SP!TypeOK
<1> QED
  BY <1>13, <1>14, <1>15

LEMMA TopoSame == (Topo!Step => TP!Step) /\ (TP!TypeOK => Topo!TypeOK)
<1>1. Topo!Comp = TP!Comp /\ Topo!visited = TP!visited /\ Topo!Placed = TP!Placed
  BY DEF Topo!Comp, TP!Comp, Topo!visited, TP!visited, Topo!Placed, TP!Placed
<1>2. Topo!ScanEdge => TP!ScanEdge
  BY DEF Topo!ScanEdge, TP!ScanEdge
<1>3. Topo!ScanDone => TP!ScanDone
  BY DEF Topo!ScanDone, TP!ScanDone
<1>4. Topo!Seed => TP!Seed
  BY DEF Topo!Seed, TP!Seed
<1>5. Topo!SeedDone => TP!SeedDone
  BY DEF Topo!SeedDone, TP!SeedDone
<1>6. Topo!Visit => TP!Visit
  BY DEF Topo!Visit, TP!Visit
<1>7. Topo!Relax => TP!Relax
  BY <1>1 DEF Topo!Relax, TP!Relax
<1>8. Topo!VisitDone => TP!VisitDone
  BY <1>1 DEF Topo!VisitDone, TP!VisitDone
<1>9. Topo!QueueEmpty => TP!QueueEmpty
  BY DEF Topo!QueueEmpty, TP!QueueEmpty
<1>10. Topo!AppendRest => TP!AppendRest
  BY <1>1 DEF Topo!AppendRest, TP!AppendRest
<1>11. Topo!RestDone => TP!RestDone
  BY DEF Topo!RestDone, TP!RestDone
<1>12. Topo!Step => TP!Step
  BY <1>2, <1>3, <1>4, <1>5, <1>6, <1>7, <1>8, <1>9, <1>10, <1>11 DEF Topo!Step, TP!Step
<1>13. TP!TypeOK => Topo!TypeOK
  BY <1>1 DEF Topo!TypeOK, TP!TypeOK
<1> QED
  BY <1>12, <1>13

LEMMA StepsSame ==
  /\ Comp!Step => CP!Step
  /\ \A r, lo : Comp!Floor(r, lo) = CP!Floor(r, lo)
<1>1. Comp!cur = CP!cur /\ Comp!Empty = CP!Empty
  BY DEF Comp!cur, CP!cur, Comp!Empty, CP!Empty, Comp!NEGINF, CP!NEGINF
<1>2. /\ \A x : Comp!IsEmpty(x) <=> CP!IsEmpty(x)
      /\ \A x, y : Comp!Lesser(x, y) = CP!Lesser(x, y) /\ Comp!Greater(x, y) = CP!Greater(x, y)
  BY DEF Comp!IsEmpty, CP!IsEmpty, Comp!Lesser, CP!Lesser, Comp!Greater, CP!Greater
<1>3. \A x, y : Comp!Hull(x, y) = CP!Hull(x, y)
  BY <1>2 DEF Comp!Hull, CP!Hull
<1>4. \A r, lo : Comp!Floor(r, lo) = CP!Floor(r, lo)
  BY <1>2 DEF Comp!Floor, CP!Floor
<1>5. \A r, p : Comp!Widen(r, p) = CP!Widen(r, p)
  BY DEF Comp!Widen, CP!Widen, Comp!NEGINF, CP!NEGINF
<1>6. \A r : Comp!Widened(r) = CP!Widened(r)
  BY <1>1, <1>2, <1>5 DEF Comp!Widened, CP!Widened
<1>7. Comp!StartRound => CP!StartRound
  BY DEF Comp!StartRound, CP!StartRound
<1>8. Comp!HitCap => CP!HitCap
  BY DEF Comp!HitCap, CP!HitCap
<1>9. Comp!SkipFixed => CP!SkipFixed
  BY <1>1 DEF Comp!SkipFixed, CP!SkipFixed
<1>10. Comp!BeginVar => CP!BeginVar
  BY <1>1 DEF Comp!BeginVar, CP!BeginVar
<1>11. Comp!JoinConstraint => CP!JoinConstraint
  BY <1>1, <1>3 DEF Comp!JoinConstraint, CP!JoinConstraint
<1>12. Comp!AssignVar => CP!AssignVar
  BY <1>1, <1>4, <1>6 DEF Comp!AssignVar, CP!AssignVar
<1>13. Comp!EndRound => CP!EndRound
  BY DEF Comp!EndRound, CP!EndRound
<1>14. Comp!Step => CP!Step
  BY <1>7, <1>8, <1>9, <1>10, <1>11, <1>12, <1>13 DEF Comp!Step, CP!Step
<1> QED
  BY <1>4, <1>14

-----------------------------------------------------------------------------
(* What tarjan_scc hands to topo_order, and what both hand to the loop     *)
(* over the components.                                                    *)

SccState == SP!Inv /\ SP!LinkInv /\ SP!EmissionInv

CompNo == 0 .. Len(comps) - 1

LEMMA SccResult ==
  ASSUME SccState, SP!Finished
  PROVE  /\ comps \in Seq(Seq(Var)) /\ Len(comps) \in 0 .. N
         /\ succ \in [Var -> Seq(Var)]
         /\ \A x \in Var : compOf[x] \in CompNo
         /\ \A i \in 1 .. Len(comps) : \A x \in Var :
              x \in ToSet(comps[i]) <=> compOf[x] = i - 1
         /\ \A x, y \in Var : y \in ToSet(succ[x]) => compOf[y] <= compOf[x]
<1>1. SP!Inv /\ SP!LinkInv /\ SP!EmissionInv
  BY DEF SccState
<1>2. \A s : SP!ToSet(s) = ToSet(s)
  BY DEF SP!ToSet, ToSet
<1>3. \A x, y : SP!Edge(x, y) <=> y \in ToSet(succ[x])
  BY <1>2 DEF SP!Edge
<1>4. comps \in Seq(Seq(Var)) /\ succ \in [Var -> Seq(Var)]
  BY <1>1, SccAssumed DEF SP!Inv, SP!TypeOK
<1>5. Len(comps) \in Nat /\ Len(comps) <= N
  BY <1>1, SccAssumed, INFAssumption, SP!ComponentsFit
<1>6. /\ \A x \in SP!Node : compOf[x] \in 0 .. Len(comps) - 1
      /\ \A i \in 1 .. Len(comps) : \A x \in SP!Node :
           x \in SP!ToSet(comps[i]) <=> compOf[x] = i - 1
      /\ \A x, y \in SP!Node : SP!Edge(x, y) => compOf[y] <= compOf[x]
  BY <1>1, SccAssumed, INFAssumption, SP!WhenFinished
<1> QED
  BY <1>2, <1>3, <1>4, <1>5, <1>6, SccAssumed, SolverAssumption DEF CompNo

(* The edges between components are those of the influence graph. *)
LEMMA FlowFacts ==
  ASSUME succ \in [Var -> Seq(Var)], NEW K, \A x \in Var : compOf[x] \in K
  PROVE  /\ ComponentFlow \in Seq(K \X K)
         /\ \A e : e \in ToSet(ComponentFlow)
              <=> \E x, y \in Var : y \in ToSet(succ[x]) /\ e = <<compOf[x], compOf[y]>>
<1> DEFINE part(i) == [k \in DOMAIN succ[i - 1] |-> <<compOf[i - 1], compOf[succ[i - 1][k]]>>]
           ss == [i \in 1 .. N |-> part(i)]
<1>1. ASSUME NEW i \in 1 .. N
      PROVE  /\ part(i) \in Seq(K \X K)
             /\ \A e : e \in ToSet(part(i))
                  <=> \E y \in Var : y \in ToSet(succ[i - 1]) /\ e = <<compOf[i - 1], compOf[y]>>
  <2>1. i - 1 \in Var
    BY SolverAssumption DEF Var
  <2>2. succ[i - 1] \in Seq(Var)
    BY <2>1
  <2>3. PICK n \in Nat : DOMAIN succ[i - 1] = 1 .. n /\ \A k \in 1 .. n : succ[i - 1][k] \in Var
    BY <2>2
  <2>4. \A k \in 1 .. n : <<compOf[i - 1], compOf[succ[i - 1][k]]>> \in K \X K
    BY <2>1, <2>3
  <2>5. part(i) = [k \in 1 .. n |-> <<compOf[i - 1], compOf[succ[i - 1][k]]>>]
    BY <2>3
  <2>6. part(i) \in Seq(K \X K)
    BY <2>4, <2>5
  <2>7. \A e : e \in ToSet(part(i)) <=> \E k \in 1 .. n : e = <<compOf[i - 1], compOf[succ[i - 1][k]]>>
    BY <2>5 DEF ToSet
  <2>8. \A y : y \in ToSet(succ[i - 1]) <=> \E k \in 1 .. n : y = succ[i - 1][k]
    BY <2>3 DEF ToSet
  <2> HIDE DEF part
  <2>9. ASSUME NEW e
        PROVE  e \in ToSet(part(i))
                 <=> \E y \in Var : y \in ToSet(succ[i - 1]) /\ e = <<compOf[i - 1], compOf[y]>>
    BY <2>3, <2>7, <2>8
  <2> QED
    BY <2>6, <2>9
<1>2. ComponentFlow = FlattenSeq(ss)
  BY DEF ComponentFlow
<1> HIDE DEF part
<1>3. ss \in [1 .. N -> Seq(K \X K)] /\ \A i \in 1 .. N : ss[i] = part(i)
  BY <1>1
<1> HIDE DEF ss
<1>4. /\ FlattenSeq(ss) \in Seq(K \X K)
      /\ \A e : e \in ToSet(FlattenSeq(ss)) <=> \E i \in 1 .. N : e \in ToSet(ss[i])
  BY <1>3, SolverAssumption, FlattenFacts
<1>5. \A x \in Var : x + 1 \in 1 .. N /\ (x + 1) - 1 = x
  BY SolverAssumption DEF Var
<1>6. \A i \in 1 .. N : i - 1 \in Var
  BY SolverAssumption DEF Var
<1>7. ASSUME NEW e
      PROVE  e \in ToSet(ComponentFlow)
              <=> \E x, y \in Var : y \in ToSet(succ[x]) /\ e = <<compOf[x], compOf[y]>>
  <2>1. ASSUME NEW i \in 1 .. N, e \in ToSet(ss[i])
        PROVE  \E x, y \in Var : y \in ToSet(succ[x]) /\ e = <<compOf[x], compOf[y]>>
    <3>1. e \in ToSet(part(i))
      BY <1>3, <2>1
    <3>2. \E y \in Var : y \in ToSet(succ[i - 1]) /\ e = <<compOf[i - 1], compOf[y]>>
      BY <1>1, <3>1
    <3> QED
      BY <1>6, <3>2
  <2>2. ASSUME NEW x \in Var, NEW y \in Var, y \in ToSet(succ[x]), e = <<compOf[x], compOf[y]>>
        PROVE  \E i \in 1 .. N : e \in ToSet(ss[i])
    <3>1. PICK i \in 1 .. N : i - 1 = x
      BY <1>5
    <3>2. e \in ToSet(part(i))
      BY <1>1, <2>2, <3>1
    <3> QED
      BY <1>3, <3>2
  <2> QED
    BY <1>2, <1>4, <2>1, <2>2
<1> QED
  BY <1>2, <1>4, <1>7

TopoState == TP!Inv /\ TP!Drained /\ m = Len(comps) /\ flow = ComponentFlow

(* Every variable's component has its place in the order, and only one,    *)
(* behind the components that flow into it.                                *)
LEMMA OrderResult ==
  ASSUME SccState, SP!Finished, TopoState, topoPc = "done"
  PROVE  /\ order \in Seq(CompNo) /\ Len(order) \in 0 .. N
         /\ \A x \in Var : \E j \in 1 .. Len(order) : order[j] = compOf[x]
         /\ \A i, j \in 1 .. Len(order) : order[i] = order[j] => i = j
         /\ \A j \in 1 .. Len(order) : \A x, y \in Var :
              y \in ToSet(succ[x]) /\ compOf[y] = order[j] /\ compOf[x] # compOf[y] =>
                \E i \in 1 .. j - 1 : order[i] = compOf[x]
<1>1. /\ comps \in Seq(Seq(Var)) /\ Len(comps) \in 0 .. N
      /\ succ \in [Var -> Seq(Var)]
      /\ \A x \in Var : compOf[x] \in CompNo
      /\ \A x, y \in Var : y \in ToSet(succ[x]) => compOf[y] <= compOf[x]
  BY SccResult
<1>2. TP!Inv /\ TP!Drained /\ m = Len(comps) /\ flow = ComponentFlow
  BY DEF TopoState
<1>3. TP!Comp = CompNo
  BY <1>2 DEF TP!Comp, CompNo
<1>4. /\ ComponentFlow \in Seq(CompNo \X CompNo)
      /\ \A e : e \in ToSet(ComponentFlow)
           <=> \E x, y \in Var : y \in ToSet(succ[x]) /\ e = <<compOf[x], compOf[y]>>
  BY <1>1, FlowFacts
<1>5. TP!Flows = ToSet(ComponentFlow)
  BY <1>2, <1>4 DEF TP!Flows, ToSet
<1>6. \A e \in TP!Flows : e[2] <= e[1]
  <2> TAKE e \in TP!Flows
  <2>1. PICK x \in Var, y \in Var : y \in ToSet(succ[x]) /\ e = <<compOf[x], compOf[y]>>
    BY <1>4, <1>5
  <2>2. e[1] = compOf[x] /\ e[2] = compOf[y]
    BY <2>1
  <2> QED
    BY <1>1, <2>1, <2>2
<1>7. order \in Seq(CompNo) /\ Len(order) \in 0 .. N
  <2>1. m \in Nat /\ order \in Seq(TP!Comp) /\ Len(order) <= m
    BY <1>2, TopoAssumed, INFAssumption, TP!OrderFits
  <2> QED
    BY <1>1, <1>2, <1>3, <2>1, SolverAssumption
<1>8. /\ \A c \in TP!Comp : \E j \in 1 .. Len(order) : order[j] = c
      /\ \A i, j \in 1 .. Len(order) : order[i] = order[j] => i = j
      /\ \A j \in 1 .. Len(order) : \A e \in TP!Flows :
           e[2] = order[j] /\ e[1] # e[2] => \E i \in 1 .. j - 1 : order[i] = e[1]
  BY <1>2, <1>6, TopoAssumed, INFAssumption, TP!WhenDescending
<1>9. ASSUME NEW j \in 1 .. Len(order), NEW x \in Var, NEW y \in Var,
             y \in ToSet(succ[x]), compOf[y] = order[j], compOf[x] # compOf[y]
      PROVE  \E i \in 1 .. j - 1 : order[i] = compOf[x]
  <2> DEFINE e == <<compOf[x], compOf[y]>>
  <2>1. e[1] = compOf[x] /\ e[2] = compOf[y] /\ e \in TP!Flows
    BY <1>4, <1>5, <1>9
  <2> HIDE DEF e
  <2> QED
    BY <1>8, <1>9, <2>1
<1>10. \A x \in Var : \E j \in 1 .. Len(order) : order[j] = compOf[x]
  BY <1>1, <1>3, <1>8
<1> QED
  BY <1>7, <1>8, <1>9, <1>10

-----------------------------------------------------------------------------
(* The inductive invariant: what each phase has done so far. *)

Prepared ==
  /\ isFixed = [v \in Var |-> Pinned(v)]
  /\ hardLo = [v \in Var |-> FloorOf(v)]
  /\ byRhs = [v \in Var |-> Into(v)]
  /\ succ = [v \in Var |-> InfluencedBy(v)]

PrepInv ==
  /\ sys \in Systems
  /\ phase \in {"prepare", "scc", "topo", "solve", "done"}
  /\ phase = "prepare" => Init
  /\ phase # "prepare" => Prepared

SccInv ==
  /\ phase # "prepare" => SccState
  /\ phase \in {"topo", "solve", "done"} => SP!Finished

TopoInv ==
  /\ phase = "scc" => Topo!Start([m |-> 0, flow |-> << >>])
  /\ phase \in {"topo", "solve", "done"} => TopoState
  /\ phase \in {"solve", "done"} => topoPc = "done"

(* What the running call of solve_component, or the last one, was given. *)
Called ==
  /\ CP!ConvergedInv
  /\ call.comp = comps[order[next - 1] + 1]
  /\ call.byRhs = byRhs
  /\ call.fixed = {v \in Var : isFixed[v]}
  /\ call.hardLo = hardLo

CompInv ==
  /\ ranges \in [Var -> Interval]
  /\ next \in Nat \ {0}
  /\ phase \in {"prepare", "scc", "topo"} => next = 1
  /\ phase \in {"solve", "done"} => next <= Len(order) + 1
  /\ next = 1 => compPc = "done"
  /\ next > 1 => Called
  /\ phase = "done" => compPc = "done" /\ next > Len(order)
  /\ results = IF phase = "done" THEN Failed(ranges) ELSE {}

SolveInv == PrepInv /\ SccInv /\ TopoInv /\ CompInv

(* What is computed from the system does not change, as it does not. *)
LEMMA SameSystem ==
  ASSUME UNCHANGED sys
  PROVE  /\ \A v : PinsOf(v)' = PinsOf(v)
         /\ \A v : Pinned(v)' <=> Pinned(v)
         /\ \A v : StartRange(v)' = StartRange(v)
         /\ \A v : FloorOf(v)' = FloorOf(v)
         /\ \A v : Into(v)' = Into(v)
         /\ \A v : InfluencedBy(v)' = InfluencedBy(v)
<1>1. \A v : PinsOf(v)' = PinsOf(v)
  BY DEF PinsOf
<1>2. (\A v : Pinned(v)' <=> Pinned(v)) /\ \A v : StartRange(v)' = StartRange(v)
  BY <1>1 DEF Pinned, StartRange
<1>3. \A v : FloorOf(v)' = FloorOf(v)
  BY DEF FloorOf, FloorsOf
<1>4. Constraints' = Constraints
  BY DEF Constraints, Canonical
<1>5. (\A v : Into(v)' = Into(v)) /\ \A v : InfluencedBy(v)' = InfluencedBy(v)
  BY <1>4 DEF Into, InfluencedBy
<1> QED
  BY <1>1, <1>2, <1>3, <1>5

LEMMA SamePrepared ==
  ASSUME Prepared, UNCHANGED <<sys, isFixed, hardLo, byRhs, succ>>
  PROVE  Prepared'
<1>1. isFixed' = [v \in Var |-> Pinned(v)']
  <2>1. isFixed = [v \in Var |-> Pinned(v)] /\ isFixed' = isFixed
    BY DEF Prepared
  <2>2. \A v : PinsOf(v)' = PinsOf(v)
    BY SameSystem
  <2> QED
    BY <2>1, <2>2 DEF Pinned
<1>2. hardLo' = [v \in Var |-> FloorOf(v)']
  BY SameSystem DEF Prepared
<1>3. byRhs' = [v \in Var |-> Into(v)']
  BY SameSystem DEF Prepared
<1>4. succ' = [v \in Var |-> InfluencedBy(v)']
  BY SameSystem DEF Prepared
<1> QED
  BY <1>1, <1>2, <1>3, <1>4 DEF Prepared

LEMMA SccStart == SP!Init => SccState
BY SccAssumed, INFAssumption, SP!InitInv, SP!InitLinks, SP!InitEmission DEF SccState

LEMMA SccKept == SccState /\ [SP!Next]_(SP!vars) => SccState'
BY SccAssumed, INFAssumption, SP!StepInv, SP!StepLinks, SP!StepEmission DEF SccState

LEMMA TopoStart == TP!Init => TP!Inv /\ TP!Drained
BY TopoAssumed, INFAssumption, TP!InitInv, TP!InitDrained

LEMMA TopoKept == TP!Inv /\ TP!Drained /\ [TP!Next]_(TP!vars) => (TP!Inv /\ TP!Drained)'
BY TopoAssumed, INFAssumption, TP!StepInv, TP!StepDrained

LEMMA CompStart == CP!Init => CP!ConvergedInv
BY CompAssumed, CP!ConvergedInit

LEMMA CompKept == CP!ConvergedInv /\ [CP!Next]_(CP!vars) => CP!ConvergedInv'
BY CompAssumed, CP!ConvergedStep

LEMMA StartsNext ==
  /\ SP!Init' => SccState'
  /\ TP!Init' => TP!Inv' /\ TP!Drained'
  /\ CP!Init' => CP!ConvergedInv'
BY SccStart, TopoStart, CompStart, PTL

LEMMA InitSolve == Init => SolveInv
<1> SUFFICES ASSUME Init
             PROVE  SolveInv
  OBVIOUS
<1>1. phase = "prepare" /\ sys \in Systems
  BY DEF Init
<1>2. CompInv
  BY <1>1, ConstantTypes DEF Init, CompInv
<1> QED
  BY <1>1, <1>2 DEF SolveInv, PrepInv, SccInv, TopoInv

LEMMA PrepareStep == SolveInv /\ Prepare => SolveInv'
<1> SUFFICES ASSUME SolveInv, Prepare
             PROVE  SolveInv'
  OBVIOUS
<1>1. /\ sys \in Systems /\ Init /\ CompInv /\ phase = "prepare"
      /\ phase' = "scc" /\ sys' = sys /\ UNCHANGED topoVars
      /\ UNCHANGED <<next, results, compPc>>
  BY DEF SolveInv, PrepInv, Prepare
<1>2. Prepared'
  <2>1. isFixed' = [v \in Var |-> Pinned(v)']
    <3>1. isFixed' = [v \in Var |-> Pinned(v)] /\ \A v : PinsOf(v)' = PinsOf(v)
      BY <1>1, SameSystem DEF Prepare
    <3> QED
      BY <3>1 DEF Pinned
  <2>2. hardLo' = [v \in Var |-> FloorOf(v)']
    BY <1>1, SameSystem DEF Prepare
  <2>3. byRhs' = [v \in Var |-> Into(v)']
    BY <1>1, SameSystem DEF Prepare
  <2>4. succ' = [v \in Var |-> InfluencedBy(v)']
    BY <1>1, SameSystem DEF Prepare
  <2> QED
    BY <2>1, <2>2, <2>3, <2>4 DEF Prepared
<1>3. SP!Init'
  <2>1. succ' \in [Var -> Seq(Var)]
    <3>1. \A v \in Var : InfluencedBy(v) \in Seq(Var)
      BY <1>1, InfluencedFacts
    <3> QED
      BY <3>1 DEF Prepare
  <2>2. Scc!None = SP!None /\ SP!Node = Var
    BY SccAssumed DEF Scc!None, SP!None
  <2>3. UNCHANGED <<index, lowlink, onStack, stack, compOf, comps, counter, start, work>>
    BY DEF Prepare
  <2> QED
    BY <1>1, <2>1, <2>2, <2>3 DEF Init, SP!Init
<1>4. SccState'
  BY <1>3, StartsNext
<1>5. (Topo!Start([m |-> 0, flow |-> << >>]))'
  BY <1>1 DEF Init, topoVars, Topo!Start
<1>6. CompInv'
  <2>1. \A v \in Var : StartRange(v) \in Interval
    BY <1>1, StartRangeType
  <2>2. ranges' \in [Var -> Interval]
    BY <2>1 DEF Prepare
  <2>3. next' = 1 /\ compPc' = "done" /\ results' = {}
    BY <1>1 DEF Init
  <2> QED
    BY <1>1, <2>2, <2>3 DEF CompInv
<1> QED
  BY <1>1, <1>2, <1>4, <1>5, <1>6 DEF SolveInv, PrepInv, SccInv, TopoInv

(* After Prepare, the system and what was computed from it stays. *)
LEMMA PrepKept ==
  ASSUME PrepInv, phase # "prepare", phase' \in {"scc", "topo", "solve", "done"},
         UNCHANGED <<sys, isFixed, hardLo, byRhs, succ>>
  PROVE  PrepInv'
BY SamePrepared DEF PrepInv

LEMMA SccStepStep == SolveInv /\ SccStep => SolveInv'
<1> SUFFICES ASSUME SolveInv, SccStep
             PROVE  SolveInv'
  OBVIOUS
<1>1. /\ phase = "scc" /\ SP!Step
      /\ UNCHANGED <<sys, phase, isFixed, hardLo, byRhs, next, results>>
      /\ UNCHANGED topoVars /\ UNCHANGED <<ranges, compPc>>
  BY SccSame DEF SccStep, ownVars, compVars
<1>2. PrepInv /\ SccState /\ CompInv /\ Topo!Start([m |-> 0, flow |-> << >>])
  BY <1>1 DEF SolveInv, SccInv, TopoInv
<1>3. succ' = succ
  BY <1>1 DEF SP!Step, SP!SkipStart, SP!BeginStart, SP!Discover, SP!Descend, SP!BackEdge,
              SP!CrossEdge, SP!Return
<1>4. SccState'
  BY <1>1, <1>2, SccKept DEF SP!Next
<1>5. PrepInv'
  BY <1>1, <1>2, <1>3, PrepKept
<1>6. (Topo!Start([m |-> 0, flow |-> << >>]))'
  BY <1>1, <1>2 DEF topoVars, Topo!Start
<1>7. CompInv'
  BY <1>1, <1>2 DEF CompInv
<1> QED
  BY <1>1, <1>4, <1>5, <1>6, <1>7 DEF SolveInv, SccInv, TopoInv

LEMMA SccDoneStep == SolveInv /\ SccDone => SolveInv'
<1> SUFFICES ASSUME SolveInv, SccDone
             PROVE  SolveInv'
  OBVIOUS
<1>1. /\ phase = "scc" /\ phase' = "topo" /\ SP!Finished
      /\ m' = Len(comps) /\ flow' = ComponentFlow
      /\ dag' = [c \in 0 .. Len(comps) - 1 |-> << >>]
      /\ indeg' = [c \in 0 .. Len(comps) - 1 |-> 0]
      /\ UNCHANGED <<sys, isFixed, hardLo, byRhs, next, results>>
      /\ UNCHANGED <<succ, index, lowlink, onStack, stack, compOf, comps, counter, start, work>>
      /\ UNCHANGED <<scanned, seen, queue, head, di, order, cand, topoPc>>
      /\ UNCHANGED <<ranges, compPc>>
  BY SccSame DEF SccDone, sccVars, compVars
<1>2. PrepInv /\ SccState /\ CompInv /\ Topo!Start([m |-> 0, flow |-> << >>])
  BY <1>1 DEF SolveInv, SccInv, TopoInv
<1>3. PrepInv'
  BY <1>1, <1>2, PrepKept
<1>4. SccState' /\ SP!Finished'
  <2>1. UNCHANGED SP!vars
    BY <1>1 DEF SP!vars
  <2> QED
    BY <1>1, <1>2, <2>1, SccKept DEF SP!Finished
<1>5. TP!Init'
  <2>1. /\ Len(comps) \in 0 .. N /\ succ \in [Var -> Seq(Var)]
        /\ \A x \in Var : compOf[x] \in CompNo
    BY <1>1, <1>2, SccResult
  <2>2. ComponentFlow \in Seq(CompNo \X CompNo)
    BY <2>1, FlowFacts
  <2>3. PICK k \in Nat : k = Len(comps)
    BY <2>1, SolverAssumption
  <2>4. PICK f \in Seq((0 .. k - 1) \X (0 .. k - 1)) : f = ComponentFlow
    BY <2>2, <2>3 DEF CompNo
  <2> DEFINE input == [m |-> k, flow |-> f]
  <2>5. input \in Inputs /\ input.m = k /\ input.flow = f
    BY DEF Inputs
  <2> HIDE DEF input
  <2>6. /\ m' = input.m /\ flow' = input.flow /\ scanned' = 0 /\ seen' = {}
        /\ dag' = [c \in 0 .. input.m - 1 |-> << >>]
        /\ indeg' = [c \in 0 .. input.m - 1 |-> 0]
        /\ queue' = << >> /\ head' = 0 /\ di' = 1 /\ order' = << >> /\ cand' = 0
        /\ topoPc' = "scan"
    BY <1>1, <1>2, <2>3, <2>4, <2>5 DEF Topo!Start
  <2>7. TP!Start(input)'
    BY <2>6 DEF TP!Start
  <2> QED
    BY <2>5, <2>7 DEF TP!Init
<1>6. TopoState'
  <2>1. TP!Inv' /\ TP!Drained'
    BY <1>5, StartsNext
  <2>2. ComponentFlow' = ComponentFlow
    BY <1>1 DEF ComponentFlow
  <2> QED
    BY <1>1, <2>1, <2>2 DEF TopoState
<1>7. CompInv'
  BY <1>1, <1>2 DEF CompInv
<1> QED
  BY <1>1, <1>3, <1>4, <1>6, <1>7 DEF SolveInv, SccInv, TopoInv

LEMMA TopoStepStep == SolveInv /\ TopoStep => SolveInv'
<1> SUFFICES ASSUME SolveInv, TopoStep
             PROVE  SolveInv'
  OBVIOUS
<1>1. /\ phase = "topo" /\ TP!Step
      /\ UNCHANGED <<sys, phase, isFixed, hardLo, byRhs, next, results>>
      /\ UNCHANGED <<succ, index, lowlink, onStack, stack, compOf, comps, counter, start, work>>
      /\ UNCHANGED <<ranges, compPc>>
  BY TopoSame DEF TopoStep, ownVars, sccVars, compVars
<1>2. PrepInv /\ SccState /\ SP!Finished /\ TopoState /\ CompInv
  BY <1>1 DEF SolveInv, SccInv, TopoInv
<1>3. PrepInv'
  BY <1>1, <1>2, PrepKept
<1>4. SccState' /\ SP!Finished'
  <2>1. UNCHANGED SP!vars
    BY <1>1 DEF SP!vars
  <2> QED
    BY <1>1, <1>2, <2>1, SccKept DEF SP!Finished
<1>5. TopoState'
  <2>1. UNCHANGED <<m, flow>>
    BY <1>1 DEF TP!Step, TP!ScanEdge, TP!ScanDone, TP!Seed, TP!SeedDone, TP!Visit, TP!Relax,
                TP!VisitDone, TP!QueueEmpty, TP!AppendRest, TP!RestDone
  <2>2. TP!Inv' /\ TP!Drained'
    BY <1>1, <1>2, TopoKept DEF TopoState, TP!Next
  <2>3. ComponentFlow' = ComponentFlow
    BY <1>1 DEF ComponentFlow
  <2> QED
    BY <1>1, <1>2, <2>1, <2>2, <2>3 DEF TopoState
<1>6. CompInv'
  BY <1>1, <1>2 DEF CompInv
<1> QED
  BY <1>1, <1>3, <1>4, <1>5, <1>6 DEF SolveInv, SccInv, TopoInv

(* After topo_order, what it and tarjan_scc have left stays. *)
LEMMA OrderKept ==
  ASSUME SccInv, TopoInv, phase \in {"topo", "solve", "done"}, topoPc = "done",
         phase' \in {"solve", "done"}, UNCHANGED sccVars, UNCHANGED topoVars
  PROVE  SccInv' /\ TopoInv'
<1>1. SccState /\ SP!Finished /\ TopoState
  BY DEF SccInv, TopoInv
<1>2. UNCHANGED <<succ, index, lowlink, onStack, stack, compOf, comps, counter, start, work>>
  BY DEF sccVars
<1>3. SccState' /\ SP!Finished'
  <2>1. UNCHANGED SP!vars
    BY <1>2 DEF SP!vars
  <2> QED
    BY <1>1, <1>2, <2>1, SccKept DEF SP!Finished
<1>4. TopoState'
  <2>1. UNCHANGED TP!vars /\ UNCHANGED <<m, flow>>
    BY DEF topoVars, TP!vars
  <2>2. TP!Inv' /\ TP!Drained'
    BY <1>1, <2>1, TopoKept DEF TopoState
  <2>3. ComponentFlow' = ComponentFlow
    BY <1>2 DEF ComponentFlow
  <2> QED
    BY <1>1, <1>2, <2>1, <2>2, <2>3 DEF TopoState
<1>5. topoPc' = "done"
  BY DEF topoVars
<1> QED
  BY <1>3, <1>4, <1>5 DEF SccInv, TopoInv

LEMMA TopoDoneStep == SolveInv /\ TopoDone => SolveInv'
<1> SUFFICES ASSUME SolveInv, TopoDone
             PROVE  SolveInv'
  OBVIOUS
<1>1. /\ phase = "topo" /\ topoPc = "done" /\ phase' = "solve"
      /\ UNCHANGED <<sys, isFixed, hardLo, byRhs, next, results>>
      /\ UNCHANGED sccVars /\ UNCHANGED topoVars
      /\ UNCHANGED <<ranges, compPc, succ, order>>
  BY DEF TopoDone, sccVars, topoVars, compVars
<1>2. PrepInv /\ SccInv /\ TopoInv /\ CompInv
  BY DEF SolveInv
<1>3. SccState /\ SP!Finished /\ TopoState
  BY <1>1, <1>2 DEF SccInv, TopoInv
<1>4. Len(order) \in Nat
  BY <1>1, <1>3, OrderResult, SolverAssumption
<1>5. CompInv'
  BY <1>1, <1>2, <1>4 DEF CompInv
<1> QED
  BY <1>1, <1>2, <1>5, PrepKept, OrderKept DEF SolveInv

(* solve_component is called with what it may be called with. *)
LEMMA CallStarts ==
  ASSUME SolveInv, CallComponent
  PROVE  CP!Init'
<1>1. phase = "solve" /\ next <= Len(order)
  BY DEF CallComponent, Between
<1>2. PrepInv /\ SccInv /\ TopoInv /\ CompInv /\ Prepared /\ sys \in Systems
  BY <1>1 DEF SolveInv, PrepInv
<1>3. SccState /\ SP!Finished /\ TopoState /\ topoPc = "done"
  BY <1>1, <1>2 DEF SccInv, TopoInv
<1>4. ranges \in [Var -> Interval] /\ next \in Nat \ {0}
  BY <1>2 DEF CompInv
<1>5. Len(order) \in Nat /\ order[next] \in CompNo
  BY <1>1, <1>3, <1>4, OrderResult, SolverAssumption
<1>6. comps[order[next] + 1] \in Seq(Var)
  <2>1. comps \in Seq(Seq(Var)) /\ Len(comps) \in Nat
    BY <1>3, SccResult, SolverAssumption
  <2>2. order[next] + 1 \in 1 .. Len(comps)
    BY <1>5, <2>1 DEF CompNo
  <2> QED
    BY <2>1, <2>2
<1>7. call' \in Calls
  <2>1. \A v \in Var : Into(v) \in Seq(ConstraintOver(Var)) /\ FloorOf(v) \in Endpoint
    BY <1>2, IntoFacts, FloorOfType
  <2>2. byRhs \in [Var -> Seq(ConstraintOver(Var))] /\ hardLo \in [Var -> Endpoint]
    BY <1>2, <2>1 DEF Prepared
  <2> QED
    BY <1>4, <1>6, <2>2 DEF CallComponent, Calls
<1> QED
  BY <1>7, CompSame DEF CallComponent, CP!Init

LEMMA CallStep == SolveInv /\ CallComponent => SolveInv'
<1> SUFFICES ASSUME SolveInv, CallComponent
             PROVE  SolveInv'
  OBVIOUS
<1>1. /\ phase = "solve" /\ next <= Len(order) /\ next' = next + 1
      /\ UNCHANGED <<sys, phase, isFixed, hardLo, byRhs, results, ranges>>
      /\ UNCHANGED sccVars /\ UNCHANGED topoVars
      /\ UNCHANGED <<comps, succ, order>>
  BY DEF CallComponent, Between, sccVars, topoVars
<1>2. PrepInv /\ SccInv /\ TopoInv /\ CompInv /\ topoPc = "done"
  BY <1>1 DEF SolveInv, TopoInv
<1>3. next \in Nat \ {0} /\ ranges \in [Var -> Interval]
  BY <1>2 DEF CompInv
<1>4. Len(order) \in Nat
  BY <1>1, <1>2, OrderResult, SolverAssumption DEF SccInv, TopoInv
<1>5. Called'
  <2>1. CP!ConvergedInv'
    BY CallStarts, StartsNext
  <2>2. next' - 1 = next
    BY <1>1, <1>3
  <2> QED
    BY <1>1, <2>1, <2>2 DEF Called, CallComponent
<1>6. results' = {}
  BY <1>1, <1>2 DEF CompInv
<1>7. CompInv'
  BY <1>1, <1>3, <1>4, <1>5, <1>6 DEF CompInv
<1> QED
  BY <1>1, <1>2, <1>7, PrepKept, OrderKept DEF SolveInv

LEMMA ComponentStepStep == SolveInv /\ ComponentStep => SolveInv'
<1> SUFFICES ASSUME SolveInv, ComponentStep
             PROVE  SolveInv'
  OBVIOUS
<1>1. /\ phase = "solve" /\ CP!Step
      /\ UNCHANGED <<sys, phase, isFixed, hardLo, byRhs, next, results>>
      /\ UNCHANGED sccVars /\ UNCHANGED topoVars
      /\ UNCHANGED <<comps, succ, order>>
  BY StepsSame DEF ComponentStep, sccVars, topoVars
<1>2. PrepInv /\ SccInv /\ TopoInv /\ CompInv
  BY DEF SolveInv
<1>3. topoPc = "done"
  BY <1>1, <1>2 DEF TopoInv
<1>4. compPc # "done" /\ call' = call
  BY <1>1 DEF CP!Step, CP!StartRound, CP!HitCap, CP!SkipFixed, CP!BeginVar,
              CP!JoinConstraint, CP!AssignVar, CP!EndRound
<1>5. next > 1 /\ Called
  BY <1>2, <1>4 DEF CompInv
<1>6. CP!ConvergedInv'
  BY <1>1, <1>5, CompKept DEF Called, CP!Next
<1>7. ranges' \in [Var -> Interval]
  BY <1>6, CompSame DEF CP!ConvergedInv, CP!TypeInv, CP!TypeOK
<1>8. Called'
  BY <1>1, <1>4, <1>5, <1>6 DEF Called
<1>9. CompInv'
  BY <1>1, <1>2, <1>5, <1>7, <1>8 DEF CompInv
<1> QED
  BY <1>1, <1>2, <1>3, <1>9, PrepKept, OrderKept DEF SolveInv

LEMMA SameFailures ==
  ASSUME UNCHANGED <<sys, ranges>>
  PROVE  Failed(ranges)' = Failed(ranges)
BY DEF Failed, Answer, CanonicalQuery, Canonical

LEMMA EvaluateStep == SolveInv /\ EvaluateQueries => SolveInv'
<1> SUFFICES ASSUME SolveInv, EvaluateQueries
             PROVE  SolveInv'
  OBVIOUS
<1>1. /\ phase = "solve" /\ compPc = "done" /\ next > Len(order) /\ phase' = "done"
      /\ results' = Failed(ranges)
      /\ UNCHANGED <<sys, isFixed, hardLo, byRhs, next>>
      /\ UNCHANGED sccVars /\ UNCHANGED topoVars /\ UNCHANGED compVars
      /\ UNCHANGED <<comps, succ, order>> /\ UNCHANGED <<call, ranges, compPc>>
  BY DEF EvaluateQueries, Between, sccVars, topoVars, compVars
<1>2. PrepInv /\ SccInv /\ TopoInv /\ CompInv
  BY DEF SolveInv
<1>3. topoPc = "done"
  BY <1>1, <1>2 DEF TopoInv
<1>4. results' = Failed(ranges)'
  BY <1>1, SameFailures
<1>5. next > 1 => Called'
  <2> SUFFICES ASSUME next > 1
               PROVE  Called'
    OBVIOUS
  <2>1. Called
    BY <1>2 DEF CompInv
  <2>2. UNCHANGED CP!vars
    BY <1>1 DEF compVars, CP!vars
  <2>3. CP!ConvergedInv'
    BY <2>1, <2>2, CompKept DEF Called
  <2> QED
    BY <1>1, <2>1, <2>3 DEF Called
<1>6. CompInv'
  BY <1>1, <1>2, <1>4, <1>5 DEF CompInv
<1> QED
  BY <1>1, <1>2, <1>3, <1>6, PrepKept, OrderKept DEF SolveInv

LEMMA IdleStep == SolveInv /\ UNCHANGED vars => SolveInv'
<1> SUFFICES ASSUME SolveInv, UNCHANGED vars
             PROVE  SolveInv'
  OBVIOUS
<1>1. /\ UNCHANGED <<sys, phase, isFixed, hardLo, byRhs, next, results>>
      /\ UNCHANGED sccVars /\ UNCHANGED topoVars /\ UNCHANGED compVars
      /\ UNCHANGED <<comps, succ, order>> /\ UNCHANGED <<call, ranges, compPc>>
      /\ UNCHANGED <<index, lowlink, onStack, stack, compOf, counter, start, work>>
  BY DEF vars, ownVars, sccVars, topoVars, compVars
<1>2. PrepInv /\ SccInv /\ TopoInv /\ CompInv
  BY DEF SolveInv
<1>3. CASE phase = "prepare"
  <2>1. Init
    BY <1>2, <1>3 DEF PrepInv
  <2>2. (Topo!Start([m |-> 0, flow |-> << >>]))'
    BY <1>1, <2>1 DEF Init, topoVars, Topo!Start
  <2>3. UNCHANGED <<settled, iter, prev, changed, pos, ci, acc>>
    BY DEF vars, ownVars, compVars
  <2>4. Init'
    BY <1>1, <2>1, <2>2, <2>3 DEF Init
  <2>5. Init' => SolveInv'
    BY InitSolve, PTL
  <2> QED
    BY <2>4, <2>5
<1>4. results' = IF phase' = "done" THEN Failed(ranges)' ELSE {}
  BY <1>1, <1>2, SameFailures DEF CompInv
<1>5. next > 1 => Called'
  <2> SUFFICES ASSUME next > 1
               PROVE  Called'
    OBVIOUS
  <2>1. Called
    BY <1>2 DEF CompInv
  <2>2. UNCHANGED CP!vars
    BY <1>1 DEF compVars, CP!vars
  <2>3. CP!ConvergedInv'
    BY <2>1, <2>2, CompKept DEF Called
  <2> QED
    BY <1>1, <2>1, <2>3 DEF Called
<1>6. CompInv'
  BY <1>1, <1>2, <1>4, <1>5 DEF CompInv
<1>7. CASE phase \in {"scc", "topo", "solve", "done"}
  <2>1. PrepInv'
    BY <1>1, <1>2, <1>7, PrepKept
  <2>2. SccState
    BY <1>2, <1>7 DEF SccInv
  <2>3. SccState' /\ (SP!Finished => SP!Finished')
    <3>1. UNCHANGED SP!vars
      BY <1>1 DEF SP!vars
    <3> QED
      BY <1>1, <2>2, <3>1, SccKept DEF SP!Finished
  <2>4. SccInv'
    BY <1>1, <1>2, <2>3 DEF SccInv
  <2>5. TopoState => TopoState'
    <3> SUFFICES ASSUME TopoState
                 PROVE  TopoState'
      OBVIOUS
    <3>1. UNCHANGED TP!vars /\ UNCHANGED <<m, flow>>
      BY <1>1 DEF topoVars, TP!vars
    <3>2. TP!Inv' /\ TP!Drained'
      BY <3>1, TopoKept DEF TopoState
    <3>3. ComponentFlow' = ComponentFlow
      BY <1>1 DEF ComponentFlow
    <3> QED
      BY <1>1, <3>1, <3>2, <3>3 DEF TopoState
  <2>6. phase = "scc" => (Topo!Start([m |-> 0, flow |-> << >>]))'
    BY <1>1, <1>2 DEF TopoInv, topoVars, Topo!Start
  <2>7. topoPc' = topoPc
    BY <1>1 DEF topoVars
  <2>8. TopoInv'
    BY <1>1, <1>2, <2>5, <2>6, <2>7 DEF TopoInv
  <2> QED
    BY <1>6, <2>1, <2>4, <2>8 DEF SolveInv
<1> QED
  BY <1>2, <1>3, <1>7 DEF PrepInv

LEMMA StepSolve == SolveInv /\ [Next]_vars => SolveInv'
BY PrepareStep, SccStepStep, SccDoneStep, TopoStepStep, TopoDoneStep, CallStep,
   ComponentStepStep, EvaluateStep, IdleStep DEF Next, Step, Terminated

-----------------------------------------------------------------------------
(* What the invariant says once the components are ordered. *)

Ordered == /\ sys \in Systems /\ Prepared
           /\ SccState /\ SP!Finished /\ TopoState /\ topoPc = "done"

LEMMA OrderedFacts ==
  ASSUME SolveInv, phase \in {"solve", "done"}
  PROVE  Ordered
BY DEF SolveInv, PrepInv, SccInv, TopoInv, Ordered

(* A component of the order holds the variables that compOf puts there. *)
LEMMA MembersFacts ==
  ASSUME Ordered, NEW i \in 1 .. Len(order)
  PROVE  /\ Members(i) \subseteq Var
         /\ \A x \in Var : x \in Members(i) <=> compOf[x] = order[i]
<1>1. /\ comps \in Seq(Seq(Var)) /\ Len(comps) \in Nat
      /\ \A k \in 1 .. Len(comps) : \A x \in Var : x \in ToSet(comps[k]) <=> compOf[x] = k - 1
  BY SccResult, SolverAssumption DEF Ordered
<1>2. order[i] \in 0 .. Len(comps) - 1
  BY OrderResult DEF Ordered, CompNo
<1>3. PICK k \in 1 .. Len(comps) : k = order[i] + 1 /\ k - 1 = order[i]
  BY <1>1, <1>2
<1>4. comps[k] \in Seq(Var)
  BY <1>1
<1>5. ToSet(comps[k]) \subseteq Var
  BY <1>4 DEF ToSet
<1> QED
  BY <1>1, <1>3, <1>5 DEF Members

(* Whatever a constraint into a component reads is there or further ahead. *)
LEMMA Sources ==
  ASSUME Ordered, NEW i \in 1 .. Len(order), NEW v \in Members(i),
         NEW c \in ToSet(byRhs[v])
  PROVE  /\ c \in ConstraintOver(Var) /\ Rhs(c) = v
         /\ \A x \in ToSet(LhsVars(c)) : x \in Var /\ \E j \in 1 .. i : x \in Members(j)
<1>1. v \in Var /\ compOf[v] = order[i]
  BY MembersFacts
<1>2. c \in ToSet(Into(v)) /\ sys \in Systems
  BY <1>1 DEF Ordered, Prepared
<1>3. PICK k \in DOMAIN Constraints : c = Constraints[k] /\ Rhs(c) = v
  BY <1>1, <1>2, IntoFacts
<1>4. c \in ConstraintOver(Var)
  BY <1>2, <1>3, ConstraintsType
<1>5. ASSUME NEW x \in ToSet(LhsVars(c))
      PROVE  x \in Var /\ \E j \in 1 .. i : x \in Members(j)
  <2>1. LhsVars(c) \in Seq(Var)
    BY <1>4, LhsVarsFacts
  <2>2. x \in Var
    BY <2>1 DEF ToSet
  <2>3. v \in ToSet(succ[x])
    <3>1. v \in ToSet(InfluencedBy(x))
      BY <1>2, <1>3, <2>2, InfluencedFacts
    <3> QED
      BY <2>2, <3>1 DEF Ordered, Prepared
  <2>4. Len(order) \in Nat
    BY OrderResult, SolverAssumption DEF Ordered
  <2>5. CASE compOf[x] = compOf[v]
    BY <1>1, <2>2, <2>4, <2>5, MembersFacts
  <2>6. CASE compOf[x] # compOf[v]
    <3>1. PICK j \in 1 .. i - 1 : order[j] = compOf[x]
      BY <1>1, <2>2, <2>3, <2>6, OrderResult DEF Ordered
    <3>2. j \in 1 .. Len(order) /\ j \in 1 .. i
      BY <2>4, <3>1
    <3>3. x \in Members(j)
      BY <2>2, <3>1, <3>2, MembersFacts
    <3> QED
      BY <2>2, <3>2, <3>3
  <2> QED
    BY <2>5, <2>6
<1> QED
  BY <1>3, <1>4, <1>5

(* No variable is in two components of the order. *)
LEMMA MembersOnce ==
  ASSUME Ordered, NEW i \in 1 .. Len(order), NEW j \in 1 .. Len(order),
         NEW v \in Members(i), v \in Members(j)
  PROVE  i = j
<1>1. v \in Var /\ compOf[v] = order[i] /\ compOf[v] = order[j]
  BY MembersFacts
<1> QED
  BY <1>1, OrderResult DEF Ordered

-----------------------------------------------------------------------------
LEMMA AnswerType ==
  ASSUME sys \in Systems, NEW q \in ToSet(sys.queries), NEW r \in [Var -> Interval]
  PROVE  /\ CanonicalQuery(q).a \in TermOver(Var) /\ CanonicalQuery(q).b \in TermOver(Var)
         /\ Answer(q, r).query = q
         /\ Answer(q, r).a = EvalTerm(CanonicalQuery(q).a, r)
         /\ Answer(q, r).b = EvalTerm(CanonicalQuery(q).b, r)
         /\ Answer(q, r) \in [query : ToSet(sys.queries), a : Interval, b : Interval]
<1>1. q \in Query
  BY SystemFacts DEF ToSet
<1> DEFINE term(t) == Canonical(Subset(t, 0)).lhs
<1>2. ASSUME NEW t \in TermOver(Var)
      PROVE  term(t) \in TermOver(Var)
  <2>1. Subset(t, 0) \in ConstraintOver(Var) /\ Subset(t, 0).form = "subset"
    BY SolverAssumption DEF Subset, ConstraintOver, Var
  <2>2. Canonical(Subset(t, 0)) \in ConstraintOver(Var)
    BY <2>1, CanonicalType
  <2>3. Canonical(Subset(t, 0)).form = "subset"
    BY <2>1 DEF Canonical, Subset
  <2> QED
    BY <2>2, <2>3, ConstraintForms
<1>3. q.a \in TermOver(Var) /\ q.b \in TermOver(Var)
  BY <1>1 DEF Query
<1>4. CanonicalQuery(q) = [a |-> term(q.a), b |-> term(q.b)]
  BY DEF CanonicalQuery
<1>5. term(q.a) \in TermOver(Var) /\ term(q.b) \in TermOver(Var)
  BY <1>2, <1>3
<1> HIDE DEF term
<1>6. CanonicalQuery(q).a \in TermOver(Var) /\ CanonicalQuery(q).b \in TermOver(Var)
  BY <1>4, <1>5
<1>7. /\ EvalTerm(CanonicalQuery(q).a, r) \in Interval
      /\ EvalTerm(CanonicalQuery(q).b, r) \in Interval
  BY <1>6, EvalTermType
<1> QED
  BY <1>6, <1>7 DEF Answer

(* In every reachable state of solve the ranges are ranges, the position   *)
(* in the order stays within it, an answer is about a query that was       *)
(* asked, and Tarjan's and the ordering's own state is well-typed.         *)
THEOREM TypeCorrect == Spec => []TypeOK
<1>1. ASSUME SolveInv
      PROVE  TypeOK
  <2>1. PrepInv /\ SccInv /\ TopoInv /\ CompInv
    BY <1>1 DEF SolveInv
  <2>2. next \in 1 .. N + 1
    <3>1. CASE phase \in {"prepare", "scc", "topo"}
      BY <2>1, <3>1, SolverAssumption DEF CompInv
    <3>2. CASE phase \in {"solve", "done"}
      <4>1. Len(order) \in 0 .. N
        BY <1>1, <3>2, OrderedFacts, OrderResult DEF Ordered
      <4> QED
        BY <2>1, <3>2, <4>1, SolverAssumption DEF CompInv
    <3> QED
      BY <2>1, <3>1, <3>2 DEF PrepInv
  <2>3. results \subseteq [query : ToSet(sys.queries), a : Interval, b : Interval]
    <3>1. ranges \in [Var -> Interval] /\ sys \in Systems
      BY <2>1 DEF CompInv, PrepInv
    <3>2. Failed(ranges) \subseteq [query : ToSet(sys.queries), a : Interval, b : Interval]
      BY <3>1, AnswerType DEF Failed
    <3> QED
      BY <2>1, <3>2 DEF CompInv
  <2>4. phase # "prepare" => Scc!TypeOK
    BY <2>1, SccSame DEF SccInv, SccState, SP!Inv
  <2>5. phase \in {"topo", "solve", "done"} => Topo!TypeOK
    BY <2>1, TopoSame DEF TopoInv, TopoState, TP!Inv
  <2> QED
    BY <2>1, <2>2, <2>3, <2>4, <2>5 DEF TypeOK, PrepInv, CompInv
<1> QED
  BY <1>1, InitSolve, StepSolve, PTL DEF Spec

(* When a component is solved, whatever its constraints read is in it or   *)
(* in a component that was solved before, and no component is solved       *)
(* twice: for every system, the order that topo_order computes from the    *)
(* components of tarjan_scc makes the inputs of each component final.      *)
THEOREM InputsCorrect == Spec => []InputsAreFinal
<1>1. ASSUME SolveInv
      PROVE  InputsAreFinal
  <2> SUFFICES ASSUME phase = "solve", NEW i \in 1 .. next - 1, NEW v \in Members(i)
               PROVE  /\ \A k \in DOMAIN byRhs[v] :
                           ToSet(LhsVars(byRhs[v][k])) \subseteq UNION {Members(j) : j \in 1 .. i}
                      /\ \A j \in 1 .. i - 1 : v \notin Members(j)
    BY DEF InputsAreFinal
  <2>1. Ordered
    BY <1>1, OrderedFacts
  <2>2. Len(order) \in Nat /\ next \in Nat /\ next <= Len(order) + 1
    BY <1>1, <2>1, OrderResult, SolverAssumption DEF Ordered, SolveInv, CompInv
  <2>3. i \in 1 .. Len(order)
    BY <2>2
  <2>4. ASSUME NEW k \in DOMAIN byRhs[v]
        PROVE  ToSet(LhsVars(byRhs[v][k])) \subseteq UNION {Members(j) : j \in 1 .. i}
    <3>1. byRhs[v][k] \in ToSet(byRhs[v])
      BY DEF ToSet
    <3> QED
      BY <2>1, <2>3, <3>1, Sources
  <2>5. ASSUME NEW j \in 1 .. i - 1, v \in Members(j)
        PROVE  FALSE
    <3>1. j \in 1 .. Len(order) /\ i # j
      BY <2>2, <2>3
    <3> QED
      BY <2>1, <2>3, <2>5, <3>1, MembersOnce
  <2> QED
    BY <2>4, <2>5
<1> QED
  BY <1>1, InitSolve, StepSolve, PTL DEF Spec

-----------------------------------------------------------------------------
(* The verdict.  While no component has stopped at its cap, the ranges of  *)
(* the components solved so far satisfy every constraint into them: those  *)
(* of the last one when its iteration ends, those of the ones before       *)
(* because nothing that they read has changed since.                       *)

SolvedUpTo == IF compPc = "done" THEN next - 1 ELSE next - 2

Satisfied(v) ==
  \A c \in ToSet(byRhs[v]) : CP!Covers(ranges[v], EvalConstraint(c, ranges), hardLo[v])

Pins == phase # "prepare" => \A v \in Var : isFixed[v] => ranges[v] = StartRange(v)

Solved ==
  /\ settled \in BOOLEAN
  /\ settled /\ compPc = "done" => ~changed
  /\ settled => \A i \in 1 .. SolvedUpTo : \A v \in Members(i) : ~isFixed[v] => Satisfied(v)

VerdictInv == SolveInv /\ Pins /\ Solved

LEMMA InitVerdict == Init => VerdictInv
<1> SUFFICES ASSUME Init
             PROVE  VerdictInv
  OBVIOUS
<1>1. SolveInv
  BY InitSolve
<1>2. phase = "prepare" /\ next = 1 /\ compPc = "done" /\ changed = FALSE /\ settled = TRUE
  BY DEF Init
<1>3. SolvedUpTo = 0
  BY <1>2 DEF SolvedUpTo
<1> QED
  BY <1>1, <1>2, <1>3 DEF VerdictInv, Pins, Solved

(* The steps between the calls leave the ranges as they are. *)
LEMMA VerdictKept ==
  ASSUME VerdictInv, phase # "prepare" \/ phase' = "prepare",
         UNCHANGED <<sys, isFixed, hardLo, byRhs, next, settled, ranges, changed, compPc>>,
         phase \in {"solve", "done"} => UNCHANGED <<comps, order>>
  PROVE  Pins' /\ Solved'
<1>1. Pins'
  <2> SUFFICES ASSUME phase' # "prepare", NEW v \in Var, isFixed[v]
               PROVE  ranges[v] = StartRange(v)'
    BY DEF Pins
  <2>1. StartRange(v)' = StartRange(v)
    BY SameSystem
  <2> QED
    BY <2>1 DEF VerdictInv, Pins
<1>2. SolvedUpTo' = SolvedUpTo /\ \A v : Satisfied(v)' <=> Satisfied(v)
  BY DEF SolvedUpTo, Satisfied, CP!Covers, CP!IsEmpty, CP!Greater
<1>3. CASE phase \in {"solve", "done"}
  <2>1. \A i : Members(i)' = Members(i)
    BY <1>3 DEF Members
  <2> QED
    BY <1>1, <1>2, <2>1 DEF VerdictInv, Solved
<1>4. CASE phase \in {"prepare", "scc", "topo"}
  <2>1. next = 1 /\ compPc = "done"
    BY <1>4 DEF VerdictInv, SolveInv, CompInv
  <2>2. SolvedUpTo = 0
    BY <2>1 DEF SolvedUpTo
  <2> QED
    BY <1>1, <1>2, <2>2 DEF VerdictInv, Solved
<1> QED
  BY <1>3, <1>4 DEF VerdictInv, SolveInv, PrepInv

LEMMA VerdictPrepare == VerdictInv /\ Prepare => (Pins /\ Solved)'
<1> SUFFICES ASSUME VerdictInv, Prepare
             PROVE  (Pins /\ Solved)'
  OBVIOUS
<1>1. /\ ranges' = [v \in Var |-> StartRange(v)] /\ sys' = sys
      /\ UNCHANGED <<next, settled, changed, compPc>> /\ phase = "prepare"
  BY DEF Prepare
<1>2. next = 1 /\ compPc = "done"
  BY <1>1 DEF VerdictInv, SolveInv, CompInv
<1>3. SolvedUpTo' = 0
  BY <1>1, <1>2 DEF SolvedUpTo
<1>4. \A v : StartRange(v)' = StartRange(v)
  BY <1>1, SameSystem
<1> QED
  BY <1>1, <1>3, <1>4 DEF VerdictInv, Pins, Solved

LEMMA VerdictCall == VerdictInv /\ CallComponent => (Pins /\ Solved)'
<1> SUFFICES ASSUME VerdictInv, CallComponent
             PROVE  (Pins /\ Solved)'
  OBVIOUS
<1>1. /\ phase = "solve" /\ compPc = "done" /\ compPc' = "round" /\ next' = next + 1
      /\ UNCHANGED <<sys, phase, isFixed, hardLo, byRhs, settled, ranges>>
      /\ UNCHANGED <<comps, order>>
  BY DEF CallComponent, Between, sccVars, topoVars
<1>2. next \in Nat
  BY DEF VerdictInv, SolveInv, CompInv
<1>3. SolvedUpTo' = SolvedUpTo
  BY <1>1, <1>2 DEF SolvedUpTo
<1>4. \A v : StartRange(v)' = StartRange(v)
  BY <1>1, SameSystem
<1>5. /\ \A v : Satisfied(v)' <=> Satisfied(v)
      /\ \A i : Members(i)' = Members(i)
  BY <1>1 DEF Satisfied, CP!Covers, CP!IsEmpty, CP!Greater, Members
<1> QED
  BY <1>1, <1>3, <1>4, <1>5 DEF VerdictInv, Pins, Solved

(* The visited variable is one of the component being solved, and free. *)
LEMMA Visiting ==
  ASSUME SolveInv, phase = "solve", compPc # "done"
  PROVE  /\ Ordered /\ Called /\ next - 1 \in 1 .. Len(order)
         /\ ToSet(call.comp) = Members(next - 1)
         /\ compPc = "join" => call.comp[pos] \in Members(next - 1) /\ ~isFixed[call.comp[pos]]
<1>1. Ordered
  BY OrderedFacts
<1>2. next > 1 /\ Called /\ next \in Nat /\ next <= Len(order) + 1
  BY DEF SolveInv, CompInv
<1>3. Len(order) \in Nat
  BY <1>1, OrderResult, SolverAssumption DEF Ordered
<1>4. next - 1 \in 1 .. Len(order)
  BY <1>2, <1>3
<1>5. ToSet(call.comp) = Members(next - 1)
  BY <1>2 DEF Called, Members
<1>6. CP!TypeInv
  BY <1>2 DEF Called, CP!ConvergedInv
<1>7. ASSUME compPc = "join"
      PROVE  call.comp[pos] \in Members(next - 1) /\ ~isFixed[call.comp[pos]]
  <2>1. call.comp \in Seq(Var)
    BY <1>6 DEF CP!TypeInv, CP!TypeOK, CP!Call
  <2>2. pos \in 1 .. Len(call.comp) /\ call.comp[pos] \notin call.fixed
    BY <1>6, <1>7, <2>1 DEF CP!TypeInv, CP!TypeOK, CP!InJoin, CP!cur
  <2>3. call.comp[pos] \in ToSet(call.comp) /\ call.comp[pos] \in Var
    BY <2>1, <2>2 DEF ToSet
  <2> QED
    BY <1>2, <1>5, <2>2, <2>3 DEF Called
<1> QED
  BY <1>1, <1>2, <1>4, <1>5, <1>7

(* Changing a variable of the component being solved leaves the components *)
(* before it satisfied: none of their constraints reads it.                *)
LEMMA AssignKeeps ==
  ASSUME Ordered, ranges \in [Var -> Interval],
         NEW n \in 1 .. Len(order), NEW w \in Members(n),
         NEW r \in [Var -> Interval], \A x \in Var : x # w => r[x] = ranges[x],
         NEW i \in 1 .. n - 1, NEW v \in Members(i), NEW c \in ToSet(byRhs[v])
  PROVE  v # w /\ EvalConstraint(c, r) = EvalConstraint(c, ranges)
<1>1. Len(order) \in Nat /\ i \in 1 .. Len(order) /\ i # n
  BY OrderResult, SolverAssumption DEF Ordered
<1>2. v # w
  BY <1>1, MembersOnce
<1>3. c \in ConstraintOver(Var)
  BY <1>1, Sources
<1>4. ASSUME NEW y \in ToSet(LhsVars(c))
      PROVE  y \in Var /\ y # w
  <2>1. PICK j \in 1 .. i : y \in Var /\ y \in Members(j)
    BY <1>1, Sources
  <2>2. j \in 1 .. Len(order) /\ j # n
    BY <1>1, <2>1
  <2> QED
    BY <2>1, <2>2, MembersOnce
<1>5. \A y \in ToSet(LhsVars(c)) : r[y] = ranges[y]
  BY <1>4
<1>6. PICK s \in [Var -> Interval] : s = ranges
  OBVIOUS
<1>7. EvalConstraint(c, r) = EvalConstraint(c, s)
  BY <1>3, <1>5, <1>6, EvalAgrees
<1> QED
  BY <1>2, <1>6, <1>7

LEMMA VerdictAssign ==
  ASSUME VerdictInv, ComponentStep, CP!AssignVar
  PROVE  (Pins /\ Solved)'
<1> DEFINE w == call.comp[pos]
<1>1. /\ phase = "solve" /\ compPc = "join" /\ compPc' = "var"
      /\ UNCHANGED <<sys, phase, isFixed, hardLo, byRhs, next>>
      /\ UNCHANGED <<comps, order>> /\ settled' = settled
  BY DEF ComponentStep, CP!AssignVar, sccVars, topoVars, VerdictInv, Solved
<1>2. SolveInv /\ Pins /\ Solved /\ ranges \in [Var -> Interval]
  BY DEF VerdictInv, SolveInv, CompInv
<1>3. /\ Ordered /\ Called /\ next - 1 \in 1 .. Len(order)
      /\ w \in Members(next - 1) /\ ~isFixed[w]
  BY <1>1, <1>2, Visiting
<1>4. w \in Var
  BY <1>3, MembersFacts
<1>5. CP!ConvergedInv'
  BY <1>3, CompKept DEF Called, CP!Next, CP!Step
<1>6. ranges' \in [Var -> Interval]
  BY <1>5, CompSame DEF CP!ConvergedInv, CP!TypeInv, CP!TypeOK
<1>7. PICK r \in [Var -> Interval] :
        r = ranges' /\ \A x \in Var : x # w => r[x] = ranges[x]
  BY <1>2, <1>6 DEF CP!AssignVar, CP!cur
<1>8. PICK n \in Nat : n = next - 1
  BY <1>2, <1>3, OrderResult, SolverAssumption DEF SolveInv, CompInv
<1>9. SolvedUpTo = n - 1 /\ SolvedUpTo' = n - 1 /\ n \in 1 .. Len(order)
  BY <1>1, <1>2, <1>3, <1>8 DEF SolvedUpTo, SolveInv, CompInv
<1> HIDE DEF w
<1>10. Pins'
  <2> SUFFICES ASSUME NEW v \in Var, isFixed[v]
               PROVE  ranges'[v] = StartRange(v)'
    BY <1>1 DEF Pins
  <2>1. StartRange(v)' = StartRange(v)
    BY <1>1, SameSystem
  <2>2. ranges'[v] = ranges[v]
    BY <1>2, <1>3, <1>4, <1>7
  <2> QED
    BY <1>1, <1>2, <2>1, <2>2 DEF Pins
<1>11. ASSUME settled, NEW i \in 1 .. n - 1, NEW v \in Members(i), ~isFixed[v]
       PROVE  Satisfied(v)'
  <2>1. Satisfied(v)
    BY <1>2, <1>9, <1>11 DEF Solved
  <2>2. i \in 1 .. Len(order)
    BY <1>3, <1>8, OrderResult, SolverAssumption DEF Ordered
  <2>3. v \in Var
    BY <1>3, <2>2, MembersFacts
  <2>4. ASSUME NEW c \in ToSet(byRhs[v])
        PROVE  ranges'[v] = ranges[v] /\ EvalConstraint(c, ranges') = EvalConstraint(c, ranges)
    <3>1. w \in Members(n)
      BY <1>3, <1>8
    <3>2. v # w /\ EvalConstraint(c, r) = EvalConstraint(c, ranges)
      BY <1>2, <1>3, <1>7, <1>9, <3>1, AssignKeeps
    <3> QED
      BY <1>2, <1>7, <2>3, <3>2
  <2>5. ASSUME NEW c \in ToSet(byRhs[v])
        PROVE  CP!Covers(ranges'[v], EvalConstraint(c, ranges'), hardLo[v])
    BY <2>1, <2>4 DEF Satisfied
  <2> QED
    BY <1>1, <2>5 DEF Satisfied, CP!Covers, CP!IsEmpty, CP!Greater
<1>12. \A i : Members(i)' = Members(i)
  BY <1>1 DEF Members
<1>13. Solved'
  BY <1>1, <1>2, <1>9, <1>11, <1>12 DEF Solved
<1> QED
  BY <1>10, <1>13

(* The iteration over a component ends. *)
LEMMA VerdictEnd ==
  ASSUME VerdictInv, ComponentStep, compPc' = "done"
  PROVE  (Pins /\ Solved)'
<1>1. /\ phase = "solve" /\ CP!Step
      /\ UNCHANGED <<sys, phase, isFixed, hardLo, byRhs, next>>
      /\ UNCHANGED <<comps, order>> /\ settled' = (settled /\ ~changed)
  BY StepsSame DEF ComponentStep, sccVars, topoVars
<1>2. /\ compPc # "done" /\ UNCHANGED <<ranges, call, changed>>
  BY <1>1 DEF CP!Step, CP!StartRound, CP!HitCap, CP!SkipFixed, CP!BeginVar,
              CP!JoinConstraint, CP!AssignVar, CP!EndRound
<1>3. SolveInv /\ Pins /\ Solved
  BY DEF VerdictInv
<1>4. /\ Ordered /\ Called /\ next - 1 \in 1 .. Len(order)
      /\ ToSet(call.comp) = Members(next - 1)
  BY <1>1, <1>2, <1>3, Visiting
<1>5. CP!ConvergedInv'
  BY <1>1, <1>4, CompKept DEF Called, CP!Next
<1>6. PICK n \in Nat : n = next - 1
  BY <1>3, <1>4, OrderResult, SolverAssumption DEF SolveInv, CompInv
<1>7. SolvedUpTo = n - 1 /\ SolvedUpTo' = n
  BY <1>1, <1>2, <1>3, <1>4, <1>6 DEF SolvedUpTo, SolveInv, CompInv
<1>8. /\ \A v : Satisfied(v)' <=> Satisfied(v)
      /\ \A i : Members(i)' = Members(i)
      /\ \A v : StartRange(v)' = StartRange(v)
  BY <1>1, <1>2, SameSystem DEF Satisfied, CP!Covers, CP!IsEmpty, CP!Greater, Members
<1>9. ASSUME ~changed, NEW v \in Members(n), ~isFixed[v]
      PROVE  Satisfied(v)
  <2>1. CP!ConvergedIsSolution'
    BY <1>5 DEF CP!ConvergedInv
  <2>2. \A i \in CP!Active : CP!Closed(call.comp[i])
    BY <1>2, <1>9, <2>1 DEF CP!ConvergedIsSolution, CP!Active, CP!Closed
  <2>3. PICK i \in DOMAIN call.comp : v = call.comp[i]
    BY <1>4, <1>6, <1>9 DEF ToSet
  <2>4. CP!TypeOK
    BY <1>4 DEF Called, CP!ConvergedInv, CP!TypeInv
  <2>5. i \in 1 .. Len(call.comp) /\ v \in Var
    BY <2>3, <2>4 DEF CP!TypeOK, CP!Call
  <2>6. v \notin call.fixed
    BY <1>4, <1>9 DEF Called
  <2>7. CP!Closed(v)
    BY <2>2, <2>3, <2>5, <2>6 DEF CP!Active
  <2>8. byRhs[v] \in Seq(ConstraintOver(Var)) /\ call.byRhs = byRhs /\ call.hardLo = hardLo
    BY <1>4, <2>4, <2>5 DEF CP!TypeOK, CP!Call, Called
  <2>9. ASSUME NEW c \in ToSet(byRhs[v])
        PROVE  CP!Covers(ranges[v], EvalConstraint(c, ranges), hardLo[v])
    <3>1. PICK k \in 1 .. Len(byRhs[v]) : c = byRhs[v][k]
      BY <2>8 DEF ToSet
    <3> QED
      BY <2>7, <2>8, <3>1 DEF CP!Closed
  <2> QED
    BY <2>9 DEF Satisfied
<1>10. Pins'
  BY <1>1, <1>2, <1>3, <1>8 DEF Pins
<1>11. Solved'
  <2>1. \A i \in 1 .. n : i = n \/ i \in 1 .. n - 1
    OBVIOUS
  <2>2. (settled' /\ compPc' = "done") => ~changed'
    BY <1>1, <1>2
  <2>3. settled' \in BOOLEAN
    BY <1>1
  <2>4. ASSUME settled', NEW i \in 1 .. n, NEW v \in Members(i), ~isFixed[v]
        PROVE  Satisfied(v)
    BY <1>1, <1>3, <1>7, <1>9, <2>1, <2>4 DEF Solved
  <2> QED
    BY <1>1, <1>7, <1>8, <2>2, <2>3, <2>4 DEF Solved
<1> QED
  BY <1>10, <1>11

LEMMA VerdictComponent == VerdictInv /\ ComponentStep => (Pins /\ Solved)'
<1> SUFFICES ASSUME VerdictInv, ComponentStep
             PROVE  (Pins /\ Solved)'
  OBVIOUS
<1>1. CASE compPc' = "done"
  BY <1>1, VerdictEnd
<1>2. CASE CP!AssignVar
  BY <1>2, VerdictAssign
<1>3. CASE compPc' # "done" /\ ~CP!AssignVar
  <2>1. /\ phase = "solve" /\ CP!Step
        /\ UNCHANGED <<sys, phase, isFixed, hardLo, byRhs, next>>
        /\ UNCHANGED <<comps, order>> /\ settled' = settled
    BY <1>3, StepsSame DEF ComponentStep, sccVars, topoVars, VerdictInv, Solved
  <2>2. compPc # "done" /\ ranges' = ranges
    BY <1>3, <2>1 DEF CP!Step, CP!StartRound, CP!HitCap, CP!SkipFixed, CP!BeginVar,
                      CP!JoinConstraint, CP!EndRound
  <2>3. /\ \A v : Satisfied(v)' <=> Satisfied(v)
        /\ \A i : Members(i)' = Members(i)
        /\ \A v : StartRange(v)' = StartRange(v)
        /\ SolvedUpTo' = SolvedUpTo
    BY <1>3, <2>1, <2>2, SameSystem
    DEF Satisfied, CP!Covers, CP!IsEmpty, CP!Greater, Members, SolvedUpTo
  <2> QED
    BY <1>3, <2>1, <2>2, <2>3 DEF VerdictInv, Pins, Solved
<1> QED
  BY <1>1, <1>2, <1>3

LEMMA StepVerdict == VerdictInv /\ [Next]_vars => VerdictInv'
<1> SUFFICES ASSUME VerdictInv, [Next]_vars
             PROVE  VerdictInv'
  OBVIOUS
<1>1. SolveInv'
  BY StepSolve DEF VerdictInv
<1>2. CASE Prepare
  BY <1>1, <1>2, VerdictPrepare DEF VerdictInv
<1>3. CASE CallComponent
  BY <1>1, <1>3, VerdictCall DEF VerdictInv
<1>4. CASE ComponentStep
  BY <1>1, <1>4, VerdictComponent DEF VerdictInv
<1>5. CASE SccStep \/ SccDone \/ TopoStep \/ TopoDone \/ EvaluateQueries \/ UNCHANGED vars
  <2>1. /\ phase # "prepare" \/ phase' = "prepare"
        /\ UNCHANGED <<sys, isFixed, hardLo, byRhs, next, settled, ranges, changed, compPc>>
        /\ phase \in {"solve", "done"} => UNCHANGED <<comps, order>>
    BY <1>5 DEF SccStep, SccDone, TopoStep, TopoDone, EvaluateQueries, Between,
                vars, ownVars, sccVars, topoVars, compVars
  <2> QED
    BY <1>1, <2>1, VerdictKept DEF VerdictInv
<1> QED
  BY <1>2, <1>3, <1>4, <1>5 DEF Next, Step, Terminated

-----------------------------------------------------------------------------
(* The least assignment is below every assignment that keeps the pins and  *)
(* satisfies the constraints.                                              *)

Assignment == [Var -> Interval]

LEMMA JoinFacts ==
  ASSUME NEW R \in SUBSET Interval
  PROVE  /\ Join(R) \in Interval
         /\ \A r \in R : Leq(r, Join(R))
         /\ IsEmpty(Join(R)) => Join(R) = Empty
         /\ ~IsEmpty(Join(R)) => \E r, s \in R : /\ ~IsEmpty(r) /\ ~IsEmpty(s)
                                                  /\ Join(R).lo = r.lo /\ Join(R).hi = s.hi
<1> DEFINE full == {r \in R : ~IsEmpty(r)}
           los  == {r.lo : r \in full}
           his  == {r.hi : r \in full}
<1>1. CASE full = {}
  <2>1. Join(R) = Empty /\ \A r \in R : IsEmpty(r)
    BY <1>1 DEF Join
  <2> QED
    BY <2>1, ConstantTypes DEF Leq
<1>2. CASE full # {}
  <2>1. \A r \in full : /\ r \in R /\ ~IsEmpty(r) /\ r.lo \in Endpoint /\ r.hi \in Endpoint
                        /\ r.lo \in Int /\ r.hi \in Int /\ r.lo <= r.hi
    BY IntervalFacts DEF IsEmpty
  <2>2. los \in SUBSET (NEGINF .. INF) /\ los # {} /\ his \in SUBSET (NEGINF .. INF) /\ his # {}
    BY <1>2, <2>1 DEF Endpoint
  <2>3. Join(R) = [lo |-> Min(los), hi |-> Max(his)]
    BY <1>2 DEF Join
  <2>4. \A r \in R : r \in full \/ IsEmpty(r)
    OBVIOUS
  <2>5. \A r \in full : r.lo \in los /\ r.hi \in his
    OBVIOUS
  <2>6. (\A x \in los : \E r \in full : x = r.lo) /\ (\A x \in his : \E r \in full : x = r.hi)
    OBVIOUS
  <2> HIDE DEF los, his
  <2>7. /\ Min(los) \in los /\ \A y \in los : Min(los) <= y
        /\ Max(his) \in his /\ \A y \in his : y <= Max(his)
    BY <2>2, BoundedMin, BoundedMax, EndpointFacts
  <2>8. Join(R).lo = Min(los) /\ Join(R).hi = Max(his)
    BY <2>3
  <2>9. PICK r \in full : Min(los) = r.lo
    BY <2>6, <2>7
  <2>10. PICK s \in full : Max(his) = s.hi
    BY <2>6, <2>7
  <2>11. Join(R) \in Interval
    BY <2>1, <2>3, <2>9, <2>10 DEF Interval
  <2>12. Join(R).lo <= r.lo /\ r.hi <= Join(R).hi
    BY <2>5, <2>7, <2>8
  <2>13. ~IsEmpty(Join(R))
    BY <2>1, <2>8, <2>9, <2>12, <2>11, IntervalFacts DEF IsEmpty
  <2>14. \A q \in R : Leq(q, Join(R))
    BY <2>4, <2>5, <2>7, <2>8 DEF Leq
  <2> QED
    BY <2>1, <2>8, <2>9, <2>10, <2>11, <2>13, <2>14
<1> QED
  BY <1>1, <1>2

LEMMA FloorFacts ==
  ASSUME NEW j \in Interval, NEW lo \in Endpoint, NEW r \in Interval
  PROVE  /\ CP!Floor(j, lo) \in Interval
         /\ IsEmpty(j) \/ (j.hi <= r.hi /\ r.lo <= Greater(j.lo, lo)) => Leq(CP!Floor(j, lo), r)
<1>1. CP!Floor(j, lo) \in Interval
  BY CompAssumed, CompSame, CP!FloorType
<1>2. CP!Floor(j, lo) = IF ~IsEmpty(j) /\ j.lo < lo THEN [j EXCEPT !.lo = lo] ELSE j
  BY CompSame DEF CP!Floor
<1>3. CASE IsEmpty(j)
  BY <1>1, <1>2, <1>3 DEF Leq
<1>4. CASE ~IsEmpty(j) /\ j.lo < lo
  <2>1. CP!Floor(j, lo).lo = lo /\ CP!Floor(j, lo).hi = j.hi
    BY <1>2, <1>4 DEF Interval
  <2> QED
    BY <1>1, <1>4, <2>1, IntervalFacts, EndpointFacts DEF Leq, Greater
<1>5. CASE ~IsEmpty(j) /\ ~(j.lo < lo)
  BY <1>1, <1>2, <1>5, IntervalFacts, EndpointFacts DEF Leq, Greater
<1> QED
  BY <1>3, <1>4, <1>5

LEMMA SentType ==
  ASSUME sys \in Systems, NEW r \in Assignment, NEW v \in Var
  PROVE  Sent(r, v) \in SUBSET Interval /\ \A c \in ToSet(Into(v)) : c \in ConstraintOver(Var)
<1>1. Into(v) \in Seq(ConstraintOver(Var))
  BY IntoFacts
<1>2. \A c \in ToSet(Into(v)) : c \in ConstraintOver(Var)
  BY <1>1 DEF ToSet
<1>3. \A c \in ToSet(Into(v)) : EvalConstraint(c, r) \in Interval
  BY <1>2, EvalType DEF Assignment
<1> QED
  BY <1>2, <1>3 DEF Sent

LEMMA UpdateType ==
  ASSUME sys \in Systems, NEW r \in Assignment, NEW v \in Var
  PROVE  Update(r, v) \in Interval
<1>1. StartRange(v) \in Interval /\ FloorOf(v) \in Endpoint /\ Join(Sent(r, v)) \in Interval
  BY StartRangeType, FloorOfType, SentType, JoinFacts
<1>2. CP!Floor(Join(Sent(r, v)), FloorOf(v)) \in Interval
  BY <1>1, FloorFacts
<1> QED
  BY <1>1, <1>2, StepsSame DEF Update

(* R keeps the pin of v, or satisfies the constraints into it. *)
SolvesAt(R, v) ==
  /\ Pinned(v) => R[v] = StartRange(v)
  /\ ~Pinned(v) => \A c \in ToSet(Into(v)) : CP!Covers(R[v], EvalConstraint(c, R), FloorOf(v))

LEMMA UpdateBelow ==
  ASSUME sys \in Systems, NEW r \in Assignment, NEW R \in Assignment, NEW v \in Var,
         \A w \in Var : Leq(r[w], R[w]), SolvesAt(R, v)
  PROVE  Leq(Update(r, v), R[v])
<1>1. R[v] \in Interval
  BY DEF Assignment
<1>2. CASE Pinned(v)
  <2>1. Update(r, v) = R[v]
    BY <1>2 DEF Update, SolvesAt
  <2> QED
    BY <1>1, <2>1, IntervalFacts DEF Leq
<1>3. CASE ~Pinned(v)
  <2> DEFINE J == Join(Sent(r, v))
             lo == FloorOf(v)
  <2>1. /\ Sent(r, v) \in SUBSET Interval /\ lo \in Endpoint /\ lo \in Int
        /\ \A c \in ToSet(Into(v)) : c \in ConstraintOver(Var)
    BY SentType, FloorOfType, EndpointFacts
  <2>2. Update(r, v) = CP!Floor(J, lo)
    BY <1>3, StepsSame DEF Update
  <2>3. ASSUME NEW s \in Sent(r, v), ~IsEmpty(s)
        PROVE  s.hi <= R[v].hi /\ R[v].lo <= Greater(s.lo, lo)
    <3>1. PICK c \in ToSet(Into(v)) : s = EvalConstraint(c, r)
      BY DEF Sent
    <3>2. PICK s2 \in Interval : s2 = EvalConstraint(c, R)
      BY <2>1, EvalType DEF Assignment
    <3>3. Leq(s, s2)
      BY <2>1, <3>1, <3>2, EvalMonotone DEF Assignment
    <3>4. CP!Covers(R[v], s2, lo)
      BY <1>3, <3>2 DEF SolvesAt
    <3>5. s \in Interval
      BY <2>1
    <3>6. ~IsEmpty(s2)
      BY <2>3, <3>2, <3>3, <3>5, IntervalFacts DEF IsEmpty, Leq
    <3>7. s2.hi <= R[v].hi /\ R[v].lo <= Greater(s2.lo, lo)
      BY <3>4, <3>6, CompSame DEF CP!Covers
    <3>8. s2.lo <= s.lo /\ s.hi <= s2.hi
      BY <2>3, <3>3 DEF Leq
    <3> QED
      BY <1>1, <2>1, <3>2, <3>5, <3>7, <3>8, IntervalFacts DEF Greater
  <2>4. /\ J \in Interval
        /\ ~IsEmpty(J) => \E s, t \in Sent(r, v) : ~IsEmpty(s) /\ ~IsEmpty(t)
                                                   /\ J.lo = s.lo /\ J.hi = t.hi
    BY <2>1, JoinFacts
  <2> HIDE DEF J, lo
  <2>5. ~IsEmpty(J) => J.hi <= R[v].hi /\ R[v].lo <= Greater(J.lo, lo)
    BY <2>3, <2>4
  <2>6. Leq(CP!Floor(J, lo), R[v])
    BY <1>1, <2>1, <2>4, <2>5, FloorFacts
  <2> QED
    BY <2>2, <2>6
<1> QED
  BY <1>2, <1>3

(* Least is the iteration it is defined by. *)
Bottom == [v \in Var |-> Empty]
Rounds == N * (2 * INF + 2)
LeastBy(f) == /\ f \in [Nat -> Assignment] /\ f[0] = Bottom
              /\ \A n \in Nat : f[n + 1] = [v \in Var |-> Update(f[n], v)]
              /\ Least = f[Rounds]

LEMMA LeastIterates ==
  ASSUME sys \in Systems
  PROVE  \E f : LeastBy(f)
<1> DEFINE F == [r \in Assignment |-> Kleene(r)]
<1>1. ASSUME NEW r \in Assignment
      PROVE  Kleene(r) \in Assignment /\ Kleene(r) = [v \in Var |-> Update(r, v)]
  <2>1. Kleene(r) = [v \in Var |-> Update(r, v)]
    BY DEF Kleene
  <2>2. \A v \in Var : Update(r, v) \in Interval
    BY UpdateType
  <2> QED
    BY <2>1, <2>2 DEF Assignment
<1>2. F \in [Assignment -> Assignment] /\ \A r \in Assignment : F[r] = Kleene(r)
  BY <1>1
<1>3. Bottom \in Assignment
  BY ConstantTypes DEF Bottom, Assignment
<1> HIDE DEF F
<1>4. PICK f : Iterates(f, Assignment, Bottom, F)
  BY <1>2, <1>3, Iteration
<1>5. /\ f \in [Nat -> Assignment] /\ f[0] = Bottom
      /\ \A n \in Nat : f[n + 1] = F[f[n]]
      /\ f = [n \in Nat |-> IF n = 0 THEN Bottom ELSE F[f[n - 1]]]
  BY <1>4 DEF Iterates
<1> DEFINE Def(L) == L = [k \in Nat |-> IF k = 0 THEN [v \in Var |-> Empty]
                                        ELSE LET r == L[k - 1] IN Kleene(r)]
           L0 == CHOOSE L : Def(L)
<1>6. Def(f)
  <2>1. \A n \in Nat : n # 0 => n - 1 \in Nat /\ F[f[n - 1]] = Kleene(f[n - 1])
    BY <1>2, <1>5
  <2>2. \A n \in Nat : f[n] = IF n = 0 THEN [v \in Var |-> Empty] ELSE Kleene(f[n - 1])
    BY <1>5, <2>1 DEF Bottom
  <2> QED
    BY <1>5, <2>2
<1>7. Least = L0[Rounds]
  BY DEF Least, Rounds
<1>8. Def(L0)
  BY <1>6
<1>9. L0[0] = Bottom /\ \A n \in Nat : L0[n + 1] = Kleene(L0[n])
  <2>1. \A n \in Nat : n + 1 \in Nat /\ n + 1 # 0 /\ (n + 1) - 1 = n
    OBVIOUS
  <2> HIDE DEF L0
  <2> QED
    BY <1>8, <2>1 DEF Bottom
<1> HIDE DEF L0
<1>10. \A n \in Nat : L0[n] = f[n]
  <2> DEFINE Same == {n \in Nat : L0[n] = f[n]}
  <2>1. 0 \in Same
    BY <1>5, <1>9
  <2>2. \A n \in Nat : n \in Same => n + 1 \in Same
    <3> SUFFICES ASSUME NEW n \in Nat, L0[n] = f[n]
                 PROVE  L0[n + 1] = f[n + 1]
      OBVIOUS
    <3>1. f[n] \in Assignment /\ L0[n + 1] = Kleene(L0[n]) /\ f[n + 1] = F[f[n]]
      BY <1>5, <1>9
    <3> QED
      BY <1>2, <3>1
  <2>3. Nat \subseteq Same
    <3> HIDE DEF Same
    <3> QED
      BY <2>1, <2>2, SetInduction
  <2> QED
    BY <2>3
<1>11. Rounds \in Nat
  <2>1. PICK k \in Nat : k = 2 * INF + 2
    BY EndpointFacts
  <2>2. N * k \in Nat
    BY SolverAssumption
  <2> QED
    BY <2>1, <2>2 DEF Rounds
<1>12. Least = f[Rounds]
  BY <1>7, <1>10, <1>11
<1>13. ASSUME NEW n \in Nat
       PROVE  f[n + 1] = [v \in Var |-> Update(f[n], v)]
  <2>1. f[n] \in Assignment
    BY <1>5
  <2>2. f[n + 1] = Kleene(f[n])
    BY <1>2, <1>5, <2>1
  <2> QED
    BY <1>1, <2>1, <2>2
<1> QED
  BY <1>5, <1>12, <1>13 DEF LeastBy

LEMMA RoundsType == Rounds \in Nat
<1>1. PICK k \in Nat : k = 2 * INF + 2
  BY EndpointFacts
<1>2. N * k \in Nat
  BY SolverAssumption
<1> QED
  BY <1>1, <1>2 DEF Rounds

LEMMA LeastBelow ==
  ASSUME sys \in Systems, NEW R \in Assignment, \A v \in Var : SolvesAt(R, v)
  PROVE  Least \in Assignment /\ \A v \in Var : Leq(Least[v], R[v])
<1>1. PICK f : LeastBy(f)
  BY LeastIterates
<1>2. /\ f \in [Nat -> Assignment] /\ f[0] = Bottom
      /\ \A n \in Nat : f[n + 1] = [v \in Var |-> Update(f[n], v)]
      /\ Least = f[Rounds]
  BY <1>1 DEF LeastBy
<1> DEFINE Below == {n \in Nat : \A v \in Var : Leq(f[n][v], R[v])}
<1>3. 0 \in Below
  BY <1>2, ConstantTypes DEF Bottom, Leq
<1>4. \A n \in Nat : n \in Below => n + 1 \in Below
  <2> SUFFICES ASSUME NEW n \in Nat, \A v \in Var : Leq(f[n][v], R[v]), NEW w \in Var
               PROVE  Leq(f[n + 1][w], R[w])
    OBVIOUS
  <2>1. f[n] \in Assignment /\ f[n + 1][w] = Update(f[n], w)
    BY <1>2
  <2>2. Leq(Update(f[n], w), R[w])
    BY <2>1, UpdateBelow
  <2> QED
    BY <2>1, <2>2
<1>5. Nat \subseteq Below
  <2> HIDE DEF Below
  <2> QED
    BY <1>3, <1>4, SetInduction
<1> QED
  BY <1>2, <1>5, RoundsType

(* What fails for an assignment fails for a wider one. *)
LEMMA FailuresGrow ==
  ASSUME sys \in Systems, NEW r \in Assignment, NEW R \in Assignment,
         \A v \in Var : Leq(r[v], R[v])
  PROVE  {x.query : x \in Failed(r)} \subseteq {x.query : x \in Failed(R)}
<1> SUFFICES ASSUME NEW x \in Failed(r)
             PROVE  \E y \in Failed(R) : y.query = x.query
  OBVIOUS
<1>1. PICK q \in ToSet(sys.queries) : x = Answer(q, r)
  BY DEF Failed
<1> DEFINE a == CanonicalQuery(q).a
           b == CanonicalQuery(q).b
<1>2. /\ a \in TermOver(Var) /\ b \in TermOver(Var)
      /\ x.query = q /\ x.a = EvalTerm(a, r) /\ x.b = EvalTerm(b, r)
      /\ Answer(q, R).query = q
      /\ Answer(q, R).a = EvalTerm(a, R) /\ Answer(q, R).b = EvalTerm(b, R)
  BY <1>1, AnswerType DEF Assignment
<1> HIDE DEF a, b
<1>3. /\ EvalTerm(a, r) \in Tidy /\ EvalTerm(b, r) \in Tidy
      /\ EvalTerm(a, R) \in Interval /\ EvalTerm(b, R) \in Interval
  BY <1>2, EvalTermType DEF Assignment
<1>4. Leq(EvalTerm(a, r), EvalTerm(a, R)) /\ Leq(EvalTerm(b, r), EvalTerm(b, R))
  BY <1>2, EvalTermMonotone DEF Assignment
<1>5. ~EpGe(EvalTerm(a, r).lo, EvalTerm(b, r).hi)
  BY <1>2 DEF Failed
<1>6. ~EpGe(EvalTerm(a, R).lo, EvalTerm(b, R).hi)
  BY <1>3, <1>4, <1>5, FailureGrows
<1>7. Answer(q, R) \in Failed(R)
  BY <1>2, <1>6 DEF Failed
<1> QED
  BY <1>2, <1>7

(* When solve is done, the ranges solve the system unless a cap was hit. *)
LEMMA DoneSolves ==
  ASSUME VerdictInv, phase = "done", settled, NEW v \in Var
  PROVE  SolvesAt(ranges, v)
<1>1. Ordered /\ isFixed[v] = Pinned(v) /\ byRhs[v] = Into(v) /\ hardLo[v] = FloorOf(v)
  BY OrderedFacts DEF VerdictInv, Ordered, Prepared
<1>2. Pinned(v) => ranges[v] = StartRange(v)
  BY <1>1 DEF VerdictInv, Pins
<1>3. ASSUME ~Pinned(v)
      PROVE  Satisfied(v)
  <2>1. Len(order) \in Nat
    BY <1>1, OrderResult, SolverAssumption DEF Ordered
  <2>2. SolvedUpTo = Len(order)
    BY <2>1 DEF SolvedUpTo, VerdictInv, SolveInv, CompInv
  <2>3. PICK i \in 1 .. Len(order) : order[i] = compOf[v]
    BY <1>1, OrderResult DEF Ordered
  <2>4. v \in Members(i)
    BY <1>1, <2>3, MembersFacts
  <2> QED
    BY <1>1, <1>3, <2>2, <2>4 DEF VerdictInv, Solved
<1> QED
  BY <1>1, <1>2, <1>3 DEF SolvesAt, Satisfied

(* Unless a cap was hit, the verdict errs on the safe side: every range    *)
(* contains the least one, and every query that fails for the least        *)
(* assignment is reported.  For every system the solver may be given,      *)
(* whatever its cycles, pins and floors, however they widen.               *)
THEOREM VerdictCorrect == Spec => []VerdictIsSound
<1>1. ASSUME VerdictInv
      PROVE  VerdictIsSound
  <2> SUFFICES ASSUME phase = "done", settled
               PROVE  /\ \A v \in Var : Leq(Least[v], ranges[v])
                      /\ {x.query : x \in Failed(Least)} \subseteq {x.query : x \in results}
    BY DEF VerdictIsSound
  <2>1. sys \in Systems /\ ranges \in Assignment /\ results = Failed(ranges)
    BY <1>1 DEF VerdictInv, SolveInv, PrepInv, CompInv, Assignment
  <2>2. PICK R \in Assignment : R = ranges
    BY <2>1
  <2>3. \A v \in Var : SolvesAt(R, v)
    BY <1>1, <2>2, DoneSolves
  <2>4. Least \in Assignment /\ \A v \in Var : Leq(Least[v], R[v])
    BY <2>1, <2>3, LeastBelow
  <2>5. PICK r \in Assignment : r = Least
    BY <2>4
  <2>6. {x.query : x \in Failed(r)} \subseteq {x.query : x \in Failed(R)}
    BY <2>1, <2>4, <2>5, FailuresGrow
  <2> QED
    BY <2>1, <2>2, <2>4, <2>5, <2>6
<1> QED
  BY <1>1, InitVerdict, StepVerdict, PTL DEF Spec

-----------------------------------------------------------------------------
(* Without cycles.  Every component is one variable that does not flow     *)
(* into itself: the rounds over it never widen, and its range becomes what *)
(* is sent to it.                                                          *)

Flat == /\ \A i \in DOMAIN comps : Len(comps[i]) = 1
        /\ \A v \in Var : v \notin ToSet(succ[v])

LEMMA FlatMember ==
  ASSUME Ordered, Flat, NEW i \in 1 .. Len(order), NEW v \in Members(i)
  PROVE  /\ comps[order[i] + 1] \in Seq(Var)
         /\ Len(comps[order[i] + 1]) = 1 /\ comps[order[i] + 1][1] = v
         /\ \A w \in Members(i) : w = v
<1>1. comps \in Seq(Seq(Var)) /\ Len(comps) \in Nat
  BY SccResult, SolverAssumption DEF Ordered
<1>2. order[i] \in 0 .. Len(comps) - 1
  BY OrderResult DEF Ordered, CompNo
<1>3. order[i] + 1 \in 1 .. Len(comps)
  BY <1>1, <1>2
<1> DEFINE k == order[i] + 1
<1>4. comps[k] \in Seq(Var) /\ Len(comps[k]) = 1
  BY <1>1, <1>3 DEF Flat
<1>5. \A w : w \in ToSet(comps[k]) <=> w = comps[k][1]
  BY <1>4 DEF ToSet
<1> QED
  BY <1>3, <1>4, <1>5 DEF Members

(* What flows into a variable has been solved before. *)
LEMMA FlatSources ==
  ASSUME Ordered, Flat, NEW i \in 1 .. Len(order), NEW v \in Members(i),
         NEW c \in ToSet(byRhs[v]), NEW x \in ToSet(LhsVars(c))
  PROVE  x \in Var /\ x # v /\ \E j \in 1 .. i - 1 : x \in Members(j)
<1>1. /\ c \in ConstraintOver(Var) /\ x \in Var
      /\ \E j \in 1 .. i : x \in Members(j)
  BY Sources
<1>2. v \in Var
  BY MembersFacts
<1>3. x # v
  <2> SUFFICES ASSUME x = v
               PROVE  FALSE
    OBVIOUS
  <2>1. c \in ToSet(Into(v)) /\ sys \in Systems
    BY <1>2 DEF Ordered, Prepared
  <2>2. PICK k \in DOMAIN Constraints : c = Constraints[k] /\ Rhs(c) = v
    BY <1>2, <2>1, IntoFacts
  <2>3. v \in ToSet(InfluencedBy(v))
    BY <1>2, <2>1, <2>2, InfluencedFacts
  <2> QED
    BY <1>2, <2>3 DEF Ordered, Prepared, Flat
<1>4. PICK j \in 1 .. i : x \in Members(j)
  BY <1>1
<1>5. j # i
  BY <1>3, <1>4, FlatMember
<1>6. i \in Int
  OBVIOUS
<1>7. j \in 1 .. i - 1
  BY <1>4, <1>5, <1>6
<1> QED
  BY <1>1, <1>3, <1>4, <1>7

LEMMA JoinLeast ==
  ASSUME NEW R \in SUBSET Interval, NEW b \in Interval, \A r \in R : Leq(r, b)
  PROVE  Leq(Join(R), b)
<1>1. CASE IsEmpty(Join(R))
  BY <1>1 DEF Leq
<1>2. CASE ~IsEmpty(Join(R))
  <2>1. PICK r \in R : \E s \in R : /\ ~IsEmpty(r) /\ ~IsEmpty(s)
                                    /\ Join(R).lo = r.lo /\ Join(R).hi = s.hi
    BY <1>2, JoinFacts
  <2>2. PICK s \in R : /\ ~IsEmpty(r) /\ ~IsEmpty(s)
                       /\ Join(R).lo = r.lo /\ Join(R).hi = s.hi
    BY <2>1
  <2>3. b.lo <= r.lo /\ s.hi <= b.hi
    BY <2>2 DEF Leq
  <2> QED
    BY <2>2, <2>3 DEF Leq
<1> QED
  BY <1>1, <1>2

(* The join that the code computes one constraint at a time is the join of *)
(* the set.                                                                *)
LEMMA JoinIs ==
  ASSUME NEW cl, NEW n \in Nat, NEW R \in SUBSET Tidy,
         R = {CP!Sends(cl, k) : k \in 1 .. n},
         NEW j \in Interval, CP!JoinOf(cl, n, j)
  PROVE  j = Join(R)
<1>1. R \in SUBSET Interval
  BY DEF Tidy
<1>2. CASE \A k \in 1 .. n : IsEmpty(CP!Sends(cl, k))
  <2>1. \A r \in R : IsEmpty(r) /\ r = Empty
    BY <1>2 DEF Tidy
  <2>2. {r \in R : ~IsEmpty(r)} = {}
    BY <2>1
  <2>3. Join(R) = Empty
    BY <2>2 DEF Join
  <2>4. j = IF n = 0 THEN Empty ELSE CP!Sends(cl, n)
    BY <1>2, CompSame DEF CP!JoinOf
  <2>5. n # 0 => n \in 1 .. n /\ CP!Sends(cl, n) \in R
    <3>1. n # 0 => n \in 1 .. n
      OBVIOUS
    <3> QED
      BY <3>1
  <2> QED
    BY <2>1, <2>3, <2>4, <2>5
<1>3. CASE ~\A k \in 1 .. n : IsEmpty(CP!Sends(cl, k))
  <2>1. ~IsEmpty(j) /\ CP!IsJoin(j, R)
    BY <1>3, CompSame DEF CP!JoinOf
  <2>2. /\ \A r \in R : Leq(r, j)
        /\ \A b \in Interval : (\A r \in R : Leq(r, b)) => Leq(j, b)
    BY <2>1, CompSame DEF CP!IsJoin
  <2>3. Join(R) \in Interval /\ \A r \in R : Leq(r, Join(R))
    BY <1>1, JoinFacts
  <2>4. Leq(j, Join(R)) /\ Leq(Join(R), j)
    BY <1>1, <2>2, <2>3, JoinLeast
  <2>5. ~IsEmpty(Join(R))
    BY <2>1, <2>3, <2>4, IntervalFacts DEF Leq, IsEmpty
  <2>6. j.lo = Join(R).lo /\ j.hi = Join(R).hi
    BY <2>1, <2>3, <2>4, <2>5, IntervalFacts DEF Leq
  <2> QED
    BY <2>3, <2>6 DEF Interval
<1> QED
  BY <1>2, <1>3

LEMMA UpdateAgrees ==
  ASSUME NEW r, NEW s, NEW v,
         \A c \in ToSet(Into(v)) : EvalConstraint(c, r) = EvalConstraint(c, s)
  PROVE  Update(r, v) = Update(s, v)
<1>1. Sent(r, v) = Sent(s, v)
  BY DEF Sent
<1> QED
  BY <1>1 DEF Update

(* The call for a free variable is one that solve_component solves exactly. *)
LEMMA FlatAlone ==
  ASSUME Ordered, Flat, Called, next - 1 \in 1 .. Len(order),
         NEW v \in Members(next - 1), ~isFixed[v]
  PROVE  CP!Alone(call) /\ CP!Lone(call) = v /\ v \in Var
         /\ CP!Inflows(call) = Len(byRhs[v]) /\ call.byRhs[v] = byRhs[v]
         /\ byRhs[v] \in Seq(ConstraintOver(Var))
<1>1. PICK i \in 1 .. Len(order) : i = next - 1
  OBVIOUS
<1>2. /\ call.comp = comps[order[i] + 1] /\ call.byRhs = byRhs
      /\ call.fixed = {x \in Var : isFixed[x]}
  BY <1>1 DEF Called
<1>3. Len(call.comp) = 1 /\ call.comp[1] = v /\ v \in Var
  BY <1>1, <1>2, FlatMember, MembersFacts
<1>4. CP!Lone(call) = v /\ CP!Lone(call) \notin call.fixed
  BY <1>2, <1>3 DEF CP!Lone
<1>5. call \in CP!Call
  BY DEF Called, CP!ConvergedInv, CP!TypeInv, CP!TypeOK
<1>6. PICK st \in [Var -> Interval] : st = call.start
  BY <1>5, CompSame DEF Calls
<1>7. byRhs[v] \in Seq(ConstraintOver(Var))
  BY <1>2, <1>3, <1>5, CompSame DEF Calls
<1>8. ASSUME NEW k \in 1 .. Len(byRhs[v]), NEW x \in Interval
      PROVE  EvalConstraint(byRhs[v][k], [st EXCEPT ![v] = x]) = EvalConstraint(byRhs[v][k], st)
  <2>1. PICK c : c = byRhs[v][k]
    OBVIOUS
  <2>2. c \in ToSet(byRhs[v]) /\ c \in ConstraintOver(Var)
    BY <1>7, <2>1 DEF ToSet
  <2>3. PICK r \in [Var -> Interval] : r = [st EXCEPT ![v] = x]
    OBVIOUS
  <2>4. \A y \in ToSet(LhsVars(c)) : y \in Var /\ y # v
    BY <1>1, <2>2, FlatSources
  <2>5. \A y \in ToSet(LhsVars(c)) : r[y] = st[y]
    BY <2>3, <2>4
  <2>6. EvalConstraint(c, r) = EvalConstraint(c, st)
    BY <2>2, <2>5, EvalAgrees
  <2> QED
    BY <2>1, <2>3, <2>6
<1>9. CP!Inflows(call) = Len(byRhs[v])
  BY <1>2, <1>4 DEF CP!Inflows
<1>10. CP!Alone(call)
  BY <1>2, <1>3, <1>4, <1>5, <1>6, <1>8, <1>9, CompSame DEF CP!Alone, CP!Sends
<1> QED
  BY <1>2, <1>3, <1>4, <1>7, <1>9, <1>10

(* What the running call of solve_component, or the last one, has done if  *)
(* its component is a single variable; a pinned one changes nothing.       *)
LoneInv ==
  /\ next > 1 => CP!ExactInv
  /\ next > 1 /\ Len(call.comp) = 1 /\ CP!Lone(call) \in call.fixed => ~changed
  /\ next = 1 => settled

Exact(v) == ranges[v] = Update(ranges, v)

FlatInv ==
  phase \in {"solve", "done"} /\ Flat /\ MaxIters > 1 =>
    /\ settled
    /\ \A i \in 1 .. SolvedUpTo : \A v \in Members(i) : Exact(v)

ExactSolveInv == VerdictInv /\ LoneInv /\ FlatInv

(* When the call for a component ends, its variable is exact. *)
LEMMA FlatEnd ==
  ASSUME VerdictInv, LoneInv, phase = "solve", next > 1, compPc = "done",
         Flat, MaxIters > 1
  PROVE  ~changed /\ \A v \in Members(next - 1) : Exact(v)
<1>1. SolveInv /\ Ordered /\ Called /\ sys \in Systems /\ ranges \in [Var -> Interval]
      /\ next \in Nat /\ next <= Len(order) + 1
  BY OrderedFacts DEF VerdictInv, SolveInv, PrepInv, CompInv
<1>2. Len(order) \in Nat
  BY <1>1, OrderResult, SolverAssumption DEF Ordered
<1>3. PICK i \in 1 .. Len(order) : i = next - 1
  BY <1>1, <1>2
<1>4. comps[order[i] + 1] = call.comp
  BY <1>1, <1>3 DEF Called
<1>5. PICK w : w \in Members(i)
  <2>1. /\ comps \in Seq(Seq(Var)) /\ Len(comps) \in Nat
        /\ order[i] \in 0 .. Len(comps) - 1
    BY <1>1, SccResult, OrderResult, SolverAssumption DEF Ordered, CompNo
  <2>2. order[i] + 1 \in 1 .. Len(comps)
    BY <2>1
  <2>3. call.comp \in Seq(Var) /\ Len(call.comp) = 1
    BY <1>4, <2>1, <2>2 DEF Flat
  <2>4. call.comp[1] \in ToSet(call.comp) /\ ToSet(call.comp) = Members(i)
    BY <1>4, <2>3 DEF Members, ToSet
  <2> QED
    BY <2>4
<1>6. /\ w \in Var /\ Len(call.comp) = 1 /\ CP!Lone(call) = w
      /\ \A v \in Members(i) : v = w
  BY <1>1, <1>4, <1>5, FlatMember, MembersFacts DEF CP!Lone
<1>7. isFixed[w] = Pinned(w) /\ byRhs[w] = Into(w) /\ hardLo[w] = FloorOf(w)
  BY <1>1, <1>6 DEF Ordered, Prepared
<1>8. CASE isFixed[w]
  <2>1. w \in call.fixed
    BY <1>1, <1>6, <1>8 DEF Called
  <2>2. ~changed
    BY <1>6, <2>1 DEF LoneInv
  <2>3. ranges[w] = StartRange(w)
    BY <1>6, <1>8 DEF VerdictInv, Pins
  <2>4. Exact(w)
    BY <1>7, <1>8, <2>3 DEF Exact, Update
  <2> QED
    BY <1>3, <1>6, <2>2, <2>4
<1>9. CASE ~isFixed[w]
  <2>1. PICK n \in Nat : n = Len(byRhs[w])
    BY <1>1, <1>3, <1>5, <1>9, FlatAlone
  <2>2. /\ CP!Alone(call) /\ CP!Inflows(call) = n /\ call.byRhs[w] = byRhs[w]
        /\ byRhs[w] \in Seq(ConstraintOver(Var))
    BY <1>1, <1>3, <1>5, <1>9, <2>1, FlatAlone
  <2>3. CP!TypeInv /\ CP!OnlyHome /\ CP!Settled /\ CP!Confirmed
    BY <2>2 DEF LoneInv, CP!ExactInv
  <2>4. PICK j \in Interval : CP!JoinOf(call, n, j) /\ ranges[w] = CP!Floor(j, hardLo[w])
    BY <1>1, <1>6, <2>2, <2>3, CompSame DEF CP!Settled, CP!Final, Called
  <2>5. \A k \in 1 .. n : EvalConstraint(byRhs[w][k], ranges) = CP!Sends(call, k)
    BY <1>6, <2>2, <2>3, CompAssumed, CP!SeesStart
  <2> DEFINE R == {CP!Sends(call, k) : k \in 1 .. n}
  <2>6. R = Sent(ranges, w)
    <3>1. ToSet(Into(w)) = {byRhs[w][k] : k \in 1 .. n}
      BY <1>7, <2>1, <2>2 DEF ToSet
    <3>2. Sent(ranges, w) = {EvalConstraint(byRhs[w][k], ranges) : k \in 1 .. n}
      BY <3>1 DEF Sent
    <3> QED
      BY <2>5, <3>2
  <2>7. R \in SUBSET Tidy
    <3>1. \A c \in ToSet(Into(w)) : EvalConstraint(c, ranges) \in Tidy
      BY <1>1, <1>6, SentType, EvalTidy DEF Assignment
    <3> QED
      BY <2>6, <3>1 DEF Sent
  <2> HIDE DEF R
  <2>8. j = Join(R)
    BY <2>4, <2>7, JoinIs DEF R
  <2>9. ranges[w] = Update(ranges, w)
    BY <1>7, <1>9, <2>4, <2>6, <2>8, StepsSame DEF Update
  <2>10. ~changed
    BY <2>3 DEF CP!Confirmed
  <2> QED
    BY <1>3, <1>6, <2>9, <2>10 DEF Exact
<1> QED
  BY <1>8, <1>9

LEMMA LoneStart == CP!Init => CP!ExactInv
BY CompAssumed, CP!ExactInit

LEMMA LoneStarts == CP!Init' => CP!ExactInv'
BY LoneStart, PTL

LEMMA LoneKept == CP!ExactInv /\ [CP!Next]_(CP!vars) => CP!ExactInv'
BY CompAssumed, CP!ExactStep

LEMMA InitLone == Init => LoneInv
BY DEF Init, LoneInv

(* A pinned variable is skipped. *)
LEMMA PinnedIdle ==
  ASSUME CP!TypeInv, CP!Step, Len(call.comp) = 1, CP!Lone(call) \in call.fixed, ~changed
  PROVE  ~changed'
<1>1. CASE CP!AssignVar
  <2>1. compPc = "join"
    BY <1>1 DEF CP!AssignVar
  <2>2. pos \in 1 .. Len(call.comp) + 1 /\ pos <= Len(call.comp) /\ call.comp[pos] \notin call.fixed
    BY <2>1 DEF CP!TypeInv, CP!TypeOK, CP!InJoin, CP!cur
  <2>3. pos = 1
    BY <2>2
  <2> QED
    BY <2>2, <2>3 DEF CP!Lone
<1>2. CASE ~CP!AssignVar
  BY <1>2 DEF CP!Step, CP!StartRound, CP!HitCap, CP!SkipFixed, CP!BeginVar,
              CP!JoinConstraint, CP!EndRound
<1> QED
  BY <1>1, <1>2

LEMMA StepLone ==
  ASSUME SolveInv, LoneInv, [Next]_vars
  PROVE  LoneInv'
<1>1. next \in Nat \ {0}
  BY DEF SolveInv, CompInv
<1>2. CASE Prepare
  <2>1. next = 1 /\ next' = next /\ settled' = settled
    BY <1>2 DEF Prepare, SolveInv, CompInv
  <2> QED
    BY <2>1 DEF LoneInv
<1>3. CASE CallComponent
  <2>1. CP!ExactInv'
    BY <1>3, CallStarts, LoneStarts
  <2>2. next' = next + 1 /\ changed' = FALSE
    BY <1>3 DEF CallComponent
  <2> QED
    BY <1>1, <2>1, <2>2 DEF LoneInv
<1>4. CASE ComponentStep
  <2>1. phase = "solve" /\ CP!Step /\ next' = next
    BY <1>4, StepsSame DEF ComponentStep
  <2>2. compPc # "done" /\ call' = call
    BY <2>1 DEF CP!Step, CP!StartRound, CP!HitCap, CP!SkipFixed, CP!BeginVar,
                CP!JoinConstraint, CP!AssignVar, CP!EndRound
  <2>3. next > 1
    BY <1>1, <2>2 DEF SolveInv, CompInv
  <2>4. CP!ExactInv /\ CP!TypeInv
    BY <2>3 DEF LoneInv, CP!ExactInv
  <2>5. CP!ExactInv'
    BY <2>1, <2>4, LoneKept DEF CP!Next
  <2>6. Len(call.comp) = 1 /\ CP!Lone(call) \in call.fixed => ~changed'
    BY <2>1, <2>3, <2>4, PinnedIdle DEF LoneInv
  <2> QED
    BY <2>1, <2>2, <2>3, <2>5, <2>6 DEF LoneInv, CP!Lone
<1>5. CASE SccStep \/ SccDone \/ TopoStep \/ TopoDone \/ EvaluateQueries \/ UNCHANGED vars
  <2>1. UNCHANGED compVars /\ UNCHANGED <<next, settled>>
    BY <1>5 DEF SccStep, SccDone, TopoStep, TopoDone, EvaluateQueries, vars, ownVars
  <2>2. UNCHANGED CP!vars /\ UNCHANGED <<call, changed>>
    BY <2>1 DEF compVars, CP!vars
  <2>3. CP!ExactInv => CP!ExactInv'
    BY <2>2, LoneKept
  <2> QED
    BY <2>1, <2>2, <2>3 DEF LoneInv, CP!Lone
<1> QED
  BY <1>2, <1>3, <1>4, <1>5 DEF Next, Step, Terminated

LEMMA SameExact ==
  ASSUME UNCHANGED <<sys, ranges>>
  PROVE  \A v : Exact(v)' <=> Exact(v)
BY SameSystem DEF Exact, Update, Sent

(* What is assigned to a later component leaves the ones before it exact. *)
LEMMA ExactKept ==
  ASSUME Ordered, ranges \in [Var -> Interval], sys' = sys,
         NEW n \in 1 .. Len(order), NEW w \in Members(n),
         ranges' \in [Var -> Interval], \A x \in Var : x # w => ranges'[x] = ranges[x],
         NEW i \in 1 .. n - 1, NEW v \in Members(i), Exact(v)
  PROVE  Exact(v)'
<1>1. PICK r \in [Var -> Interval] : r = ranges'
  OBVIOUS
<1>2. n \in Nat /\ Len(order) \in Nat
  BY OrderResult, SolverAssumption DEF Ordered
<1>3. i \in 1 .. Len(order) /\ i # n
  BY <1>2
<1>4. v \in Var /\ v # w
  BY <1>3, MembersFacts, MembersOnce
<1>5. byRhs[v] = Into(v)
  BY <1>4 DEF Ordered, Prepared
<1>6. \A c \in ToSet(Into(v)) : EvalConstraint(c, r) = EvalConstraint(c, ranges)
  BY <1>1, <1>5, AssignKeeps
<1>7. Update(r, v) = Update(ranges, v)
  BY <1>6, UpdateAgrees
<1>8. Update(ranges, v)' = Update(r, v)
  <2>1. /\ Pinned(v)' <=> Pinned(v)
        /\ StartRange(v)' = StartRange(v) /\ FloorOf(v)' = FloorOf(v) /\ Into(v)' = Into(v)
    BY SameSystem
  <2>2. Sent(ranges, v)' = Sent(r, v)
    BY <1>1, <2>1 DEF Sent
  <2> QED
    BY <2>1, <2>2 DEF Update
<1> QED
  BY <1>1, <1>4, <1>7, <1>8 DEF Exact

LEMMA FlatComponent ==
  ASSUME ExactSolveInv, VerdictInv', LoneInv', ComponentStep
  PROVE  FlatInv'
<1>1. /\ phase = "solve" /\ CP!Step
      /\ UNCHANGED <<sys, phase, isFixed, hardLo, byRhs, next>>
      /\ UNCHANGED <<comps, order, succ>>
      /\ settled' = (settled /\ ~(compPc' = "done" /\ changed))
  BY StepsSame DEF ComponentStep, sccVars, topoVars
<1>2. SolveInv /\ VerdictInv /\ ranges \in [Var -> Interval] /\ ranges' \in [Var -> Interval]
  BY DEF ExactSolveInv, VerdictInv, SolveInv, CompInv
<1>3. compPc # "done"
  BY <1>1 DEF CP!Step, CP!StartRound, CP!HitCap, CP!SkipFixed, CP!BeginVar,
              CP!JoinConstraint, CP!AssignVar, CP!EndRound
<1>4. Ordered /\ Called /\ next - 1 \in 1 .. Len(order) /\ next \in Nat
  BY <1>1, <1>2, <1>3, Visiting DEF SolveInv, CompInv
<1> SUFFICES ASSUME Flat, MaxIters > 1
             PROVE  settled' /\ \A i \in 1 .. SolvedUpTo' : \A v \in Members(i) : Exact(v)'
  BY <1>1 DEF FlatInv, Flat, Members
<1>5. settled /\ \A i \in 1 .. SolvedUpTo : \A v \in Members(i) : Exact(v)
  BY <1>1 DEF ExactSolveInv, FlatInv
<1>6. PICK n \in Nat : n = next - 1 /\ n \in 1 .. Len(order)
  BY <1>4
<1>7. SolvedUpTo = n - 1
  BY <1>1, <1>3, <1>4, <1>6 DEF SolvedUpTo
<1>8. CASE compPc' = "done"
  <2>1. UNCHANGED <<ranges, changed>>
    BY <1>1, <1>8 DEF CP!Step, CP!StartRound, CP!HitCap, CP!SkipFixed, CP!BeginVar,
                      CP!JoinConstraint, CP!AssignVar, CP!EndRound
  <2>2. ~changed' /\ \A v \in Members(n) : Exact(v)'
    <3>1. /\ phase' = "solve" /\ next' > 1 /\ Flat' /\ next' - 1 = n
          /\ \A v : v \in Members(n)' <=> v \in Members(n)
      BY <1>1, <1>4, <1>6 DEF Flat, Members
    <3>2. (VerdictInv /\ LoneInv /\ phase = "solve" /\ next > 1 /\ compPc = "done"
            /\ Flat /\ MaxIters > 1 => ~changed /\ \A v \in Members(next - 1) : Exact(v))'
      BY FlatEnd, PTL
    <3>3. ~changed' /\ \A v \in Members(next - 1)' : Exact(v)'
      BY <1>8, <3>1, <3>2
    <3>4. Members(next - 1)' = Members(n)
      BY <1>1, <1>6 DEF Members
    <3> QED
      BY <3>3, <3>4
  <2>3. SolvedUpTo' = n
    BY <1>1, <1>6, <1>8 DEF SolvedUpTo
  <2>4. \A v : Exact(v)' <=> Exact(v)
    BY <1>1, <2>1, SameExact
  <2>5. \A i \in 1 .. n : i = n \/ i \in 1 .. n - 1
    OBVIOUS
  <2> QED
    BY <1>1, <1>5, <1>7, <2>1, <2>2, <2>3, <2>4, <2>5
<1>9. CASE compPc' # "done"
  <2>1. SolvedUpTo' = n - 1 /\ settled'
    <3>1. SolvedUpTo' = n - 1
      BY <1>1, <1>4, <1>6, <1>9 DEF SolvedUpTo
    <3>2. settled'
      BY <1>1, <1>5, <1>9
    <3> QED
      BY <3>1, <3>2
  <2>2. CASE CP!AssignVar
    <3> DEFINE w == call.comp[pos]
    <3>1. compPc = "join" /\ \A x \in Var : x # w => ranges'[x] = ranges[x]
      BY <1>2, <2>2 DEF CP!AssignVar, CP!cur
    <3>2. w \in Members(n)
      BY <1>1, <1>2, <1>3, <1>6, <3>1, Visiting
    <3> HIDE DEF w
    <3>3. \A i \in 1 .. n - 1 : \A v \in Members(i) : Exact(v)'
      BY <1>1, <1>2, <1>4, <1>5, <1>6, <1>7, <3>1, <3>2, ExactKept
    <3> QED
      BY <2>1, <3>3
  <2>3. CASE ~CP!AssignVar
    <3>1. ranges' = ranges
      BY <1>1, <2>3 DEF CP!Step, CP!StartRound, CP!HitCap, CP!SkipFixed, CP!BeginVar,
                        CP!JoinConstraint, CP!EndRound
    <3> QED
      BY <1>1, <1>5, <1>7, <2>1, <3>1, SameExact
  <2> QED
    BY <2>2, <2>3
<1> QED
  BY <1>8, <1>9

LEMMA StepFlat ==
  ASSUME ExactSolveInv, [Next]_vars
  PROVE  ExactSolveInv'
<1>1. VerdictInv /\ SolveInv /\ LoneInv /\ FlatInv
  BY DEF ExactSolveInv, VerdictInv
<1>2. VerdictInv' /\ LoneInv'
  BY <1>1, StepVerdict, StepLone
<1>3. CASE Prepare \/ SccStep \/ SccDone
  <2>1. phase' \in {"scc", "topo"}
    BY <1>3 DEF Prepare, SccStep, SccDone, ownVars
  <2> QED
    BY <1>2, <2>1 DEF ExactSolveInv, FlatInv
<1>4. CASE TopoStep \/ TopoDone
  <2>1. phase = "topo" /\ UNCHANGED <<next, compPc>>
    BY <1>4 DEF TopoStep, TopoDone, ownVars, compVars
  <2>2. next' = 1 /\ compPc' = "done"
    BY <1>1, <2>1 DEF SolveInv, CompInv
  <2>3. SolvedUpTo' = 0 /\ settled'
    BY <1>2, <2>2 DEF SolvedUpTo, LoneInv
  <2> QED
    BY <1>2, <2>3 DEF ExactSolveInv, FlatInv
<1>5. CASE CallComponent
  <2>1. /\ phase = "solve" /\ compPc = "done" /\ compPc' = "round" /\ next' = next + 1
        /\ UNCHANGED <<sys, settled, ranges, comps, order, succ>>
    BY <1>5 DEF CallComponent, Between, sccVars, topoVars
  <2>2. next \in Nat
    BY <1>1 DEF SolveInv, CompInv
  <2>3. SolvedUpTo' = SolvedUpTo
    BY <2>1, <2>2 DEF SolvedUpTo
  <2>4. (Flat' <=> Flat) /\ \A i : Members(i)' = Members(i)
    BY <2>1 DEF Flat, Members
  <2> QED
    BY <1>1, <1>2, <2>1, <2>3, <2>4, SameExact DEF ExactSolveInv, FlatInv
<1>6. CASE ComponentStep
  BY <1>2, <1>6, FlatComponent DEF ExactSolveInv
<1>7. CASE EvaluateQueries \/ UNCHANGED vars
  <2>1. /\ UNCHANGED <<sys, settled, ranges, comps, order, succ, compPc, next>>
        /\ phase' \in {"solve", "done"} => phase \in {"solve", "done"}
    BY <1>7 DEF EvaluateQueries, Between, vars, ownVars, sccVars, topoVars, compVars
  <2>2. SolvedUpTo' = SolvedUpTo
    BY <2>1 DEF SolvedUpTo
  <2>3. (Flat' <=> Flat) /\ \A i : Members(i)' = Members(i)
    BY <2>1 DEF Flat, Members
  <2> QED
    BY <1>1, <1>2, <2>1, <2>2, <2>3, SameExact DEF ExactSolveInv, FlatInv
<1> QED
  BY <1>3, <1>4, <1>5, <1>6, <1>7 DEF Next, Step, Terminated

(* Ranges that are what is sent to them, with nothing sent in a circle, are *)
(* the least ones: a component is right as soon as those before it are.    *)
LEMMA LeastExact ==
  ASSUME Ordered, Flat, NEW R \in Assignment, \A v \in Var : R[v] = Update(R, v)
  PROVE  Least = R
<1>1. sys \in Systems /\ Len(order) \in 0 .. N
  BY OrderResult DEF Ordered
<1>2. PICK f : LeastBy(f)
  BY <1>1, LeastIterates
<1>3. /\ f \in [Nat -> Assignment]
      /\ \A n \in Nat : f[n + 1] = [v \in Var |-> Update(f[n], v)]
      /\ Least = f[Rounds]
  BY <1>2 DEF LeastBy
<1> DEFINE Right == {n \in Nat : \A i \in 1 .. Len(order) : i <= n =>
                                   \A v \in Members(i) : f[n][v] = R[v]}
<1>4. 0 \in Right
  OBVIOUS
<1>5. \A n \in Nat : n \in Right => n + 1 \in Right
  <2> SUFFICES ASSUME NEW n \in Nat, n \in Right,
                      NEW i \in 1 .. Len(order), i <= n + 1, NEW v \in Members(i)
               PROVE  f[n + 1][v] = R[v]
    OBVIOUS
  <2>1. v \in Var /\ byRhs[v] = Into(v)
    BY MembersFacts DEF Ordered, Prepared
  <2>2. PICK r \in Assignment : r = f[n]
    BY <1>3
  <2>3. ASSUME NEW c \in ToSet(Into(v))
        PROVE  EvalConstraint(c, r) = EvalConstraint(c, R)
    <3>1. c \in ConstraintOver(Var)
      BY <2>1, Sources
    <3>2. ASSUME NEW x \in ToSet(LhsVars(c))
          PROVE  r[x] = R[x]
      <4>1. PICK j \in 1 .. i - 1 : x \in Members(j)
        BY <2>1, FlatSources
      <4>2. j \in 1 .. Len(order) /\ j <= n
        BY <1>1, <4>1, SolverAssumption
      <4> QED
        BY <2>2, <4>1, <4>2
    <3> QED
      BY <3>1, <3>2, EvalAgrees DEF Assignment
  <2>4. f[n + 1][v] = Update(r, v)
    BY <1>3, <2>1, <2>2
  <2> QED
    BY <2>1, <2>3, <2>4, UpdateAgrees
<1>6. Nat \subseteq Right
  <2> HIDE DEF Right
  <2> QED
    BY <1>4, <1>5, SetInduction
<1>7. Rounds \in Nat /\ N <= Rounds
  <2>1. PICK k \in Nat : k = 2 * INF + 2 /\ k >= 1
    BY EndpointFacts
  <2>2. N * k \in Nat /\ N <= N * k
    BY <2>1, SolverAssumption
  <2> QED
    BY <2>1, <2>2 DEF Rounds
<1>8. ASSUME NEW v \in Var
      PROVE  Least[v] = R[v]
  <2>1. PICK i \in 1 .. Len(order) : order[i] = compOf[v]
    BY OrderResult DEF Ordered
  <2>2. v \in Members(i)
    BY <2>1, MembersFacts
  <2>3. i <= Rounds
    BY <1>1, <1>7, SolverAssumption
  <2> QED
    BY <1>3, <1>6, <1>7, <2>2, <2>3
<1>9. Least \in [Var -> Interval] /\ R \in [Var -> Interval]
  BY <1>3, <1>7 DEF Assignment
<1> QED
  BY <1>8, <1>9

(* "Acyclic merges stabilize in one pass and are never widened, so finite  *)
(* ranges stay exact": with a cap of two rounds or more, on an influence   *)
(* graph without cycles no cap is hit, the ranges are the least ones, and  *)
(* exactly the queries that fail for them are reported.  For every system, *)
(* whatever its pins, floors, coefficients and minima.                     *)
THEOREM ExactCorrect == Spec => [](MaxIters > 1 => ExactWhenAcyclic)
<1>1. Init => ExactSolveInv
  <2> SUFFICES ASSUME Init
               PROVE  ExactSolveInv
    OBVIOUS
  <2>1. phase = "prepare"
    BY DEF Init
  <2> QED
    BY <2>1, InitVerdict, InitLone DEF ExactSolveInv, FlatInv
<1>2. ASSUME ExactSolveInv
      PROVE  MaxIters > 1 => ExactWhenAcyclic
  <2> SUFFICES ASSUME MaxIters > 1, phase = "done",
                      \A i \in DOMAIN comps : Len(comps[i]) = 1,
                      \A v \in Var : v \notin ToSet(succ[v])
               PROVE  settled /\ ranges = Least /\ results = Failed(Least)
    BY DEF ExactWhenAcyclic
  <2>1. /\ SolveInv /\ Flat /\ Ordered /\ settled /\ ranges \in Assignment
        /\ results = Failed(ranges)
    BY <1>2, OrderedFacts
    DEF ExactSolveInv, VerdictInv, SolveInv, CompInv, Flat, FlatInv, Assignment
  <2>2. Len(order) \in Nat
    BY <2>1, OrderResult, SolverAssumption DEF Ordered
  <2>3. SolvedUpTo = Len(order)
    BY <2>1, <2>2 DEF SolvedUpTo, SolveInv, CompInv
  <2>4. ASSUME NEW v \in Var
        PROVE  ranges[v] = Update(ranges, v)
    <3>1. PICK i \in 1 .. Len(order) : order[i] = compOf[v]
      BY <2>1, OrderResult DEF Ordered
    <3>2. v \in Members(i)
      BY <2>1, <3>1, MembersFacts
    <3> QED
      BY <1>2, <2>1, <2>3, <3>2 DEF ExactSolveInv, FlatInv, Exact
  <2>5. Least = ranges
    BY <2>1, <2>4, LeastExact
  <2> QED
    BY <2>1, <2>5
<1> QED
  BY <1>1, <1>2, StepFlat, PTL DEF Spec

-----------------------------------------------------------------------------
(* What can have a value.  Fed, too, is the iteration it is defined by, of *)
(* which as many steps as there are variables are enough.                  *)

Feeds(S) == S \cup {Rhs(c) : c \in {d \in ToSet(Constraints) : ToSet(LhsVars(d)) \subseteq S}}

FedBy(f) == /\ f \in [Nat -> SUBSET Var] /\ f[0] = {v \in Var : Pinned(v)}
            /\ \A n \in Nat : f[n + 1] = Feeds(f[n])
            /\ Fed = f[N]

LEMMA ConstraintsIn ==
  ASSUME sys \in Systems
  PROVE  /\ \A c \in ToSet(Constraints) : c \in ConstraintOver(Var) /\ Rhs(c) \in Var
         /\ \A v \in Var : \A c : c \in ToSet(Into(v)) <=> c \in ToSet(Constraints) /\ Rhs(c) = v
<1>1. PICK n \in Nat : Constraints \in [1 .. n -> ConstraintOver(Var)]
  BY ConstraintsType
<1>2. \A c : c \in ToSet(Constraints) <=> \E i \in DOMAIN Constraints : c = Constraints[i]
  BY DEF ToSet
<1> QED
  BY <1>1, <1>2, IntoFacts, LhsVarsFacts

LEMMA FedIterates ==
  ASSUME sys \in Systems
  PROVE  \E f : FedBy(f)
<1> DEFINE P == {v \in Var : Pinned(v)}
           F == [S \in SUBSET Var |-> Feeds(S)]
<1>1. \A S \in SUBSET Var : Feeds(S) \in SUBSET Var
  BY ConstraintsIn DEF Feeds
<1>2. F \in [SUBSET Var -> SUBSET Var] /\ \A S \in SUBSET Var : F[S] = Feeds(S)
  BY <1>1
<1>3. P \in SUBSET Var
  OBVIOUS
<1> HIDE DEF F, P
<1>4. PICK f : Iterates(f, SUBSET Var, P, F)
  BY <1>2, <1>3, Iteration
<1>5. /\ f \in [Nat -> SUBSET Var] /\ f[0] = P
      /\ \A n \in Nat : f[n + 1] = F[f[n]]
      /\ f = [n \in Nat |-> IF n = 0 THEN P ELSE F[f[n - 1]]]
  BY <1>4 DEF Iterates
<1> DEFINE Def(L) == L = [k \in Nat |->
                            IF k = 0 THEN {v \in Var : Pinned(v)}
                            ELSE LET fed == L[k - 1]
                                 IN  fed \cup {Rhs(c) : c \in {d \in ToSet(Constraints) :
                                                                 ToSet(LhsVars(d)) \subseteq fed}}]
           L0 == CHOOSE L : Def(L)
<1>6. Def(f)
  <2>1. \A n \in Nat : n # 0 => n - 1 \in Nat /\ F[f[n - 1]] = Feeds(f[n - 1])
    BY <1>2, <1>5
  <2>2. \A n \in Nat : f[n] = IF n = 0 THEN P ELSE Feeds(f[n - 1])
    BY <1>5, <2>1
  <2> QED
    BY <1>5, <2>2 DEF P, Feeds
<1>7. Fed = L0[N]
  BY DEF Fed
<1>8. Def(L0)
  BY <1>6
<1>9. L0[0] = P /\ \A n \in Nat : L0[n + 1] = Feeds(L0[n])
  <2>1. \A n \in Nat : n + 1 \in Nat /\ n + 1 # 0 /\ (n + 1) - 1 = n
    OBVIOUS
  <2> HIDE DEF L0
  <2> QED
    BY <1>8, <2>1 DEF P, Feeds
<1> HIDE DEF L0
<1>10. \A n \in Nat : L0[n] = f[n]
  <2> DEFINE Same == {n \in Nat : L0[n] = f[n]}
  <2>1. 0 \in Same
    BY <1>5, <1>9
  <2>2. \A n \in Nat : n \in Same => n + 1 \in Same
    <3> SUFFICES ASSUME NEW n \in Nat, L0[n] = f[n]
                 PROVE  L0[n + 1] = f[n + 1]
      OBVIOUS
    <3>1. f[n] \in SUBSET Var /\ L0[n + 1] = Feeds(L0[n]) /\ f[n + 1] = F[f[n]]
      BY <1>5, <1>9
    <3> QED
      BY <1>2, <3>1
  <2>3. Nat \subseteq Same
    <3> HIDE DEF Same
    <3> QED
      BY <2>1, <2>2, SetInduction
  <2> QED
    BY <2>3
<1>11. Fed = f[N]
  BY <1>7, <1>10, SolverAssumption
<1>12. \A n \in Nat : f[n + 1] = Feeds(f[n])
  BY <1>2, <1>5
<1> QED
  BY <1>5, <1>11, <1>12 DEF FedBy, P

LEMMA VarFinite == IsFiniteSet(Var) /\ Cardinality(Var) = N
<1>1. /\ IsFiniteSet(0 .. N - 1)
      /\ Cardinality(0 .. N - 1) = IF 0 > N - 1 THEN 0 ELSE (N - 1) - 0 + 1
  BY SolverAssumption, FS_Interval
<1> QED
  BY <1>1, SolverAssumption DEF Var

(* Among the variables a larger set has more elements. *)
LEMMA MoreElements ==
  ASSUME NEW S \in SUBSET Var, NEW T \in SUBSET Var, S \subseteq T, S # T
  PROVE  /\ Cardinality(S) \in Nat /\ Cardinality(T) \in Nat
         /\ Cardinality(S) + 1 <= Cardinality(T) /\ Cardinality(T) <= N
<1>1. IsFiniteSet(T) /\ Cardinality(T) <= N
  BY VarFinite, FS_Subset
<1>2. IsFiniteSet(S) /\ Cardinality(S) \in Nat /\ Cardinality(T) \in Nat
  BY <1>1, VarFinite, FS_Subset, FS_CardinalityType
<1>3. PICK x \in T : x \notin S
  OBVIOUS
<1>4. IsFiniteSet(S \cup {x}) /\ Cardinality(S \cup {x}) = Cardinality(S) + 1
  BY <1>2, <1>3, FS_AddElement
<1>5. Cardinality(S \cup {x}) <= Cardinality(T)
  BY <1>1, <1>3, FS_Subset
<1> QED
  BY <1>1, <1>2, <1>4, <1>5

LEMMA FedClosed ==
  ASSUME sys \in Systems
  PROVE  /\ Fed \in SUBSET Var
         /\ \A v \in Var : Pinned(v) => v \in Fed
         /\ \A c \in ToSet(Constraints) : ToSet(LhsVars(c)) \subseteq Fed => Rhs(c) \in Fed
<1>1. PICK f : FedBy(f)
  BY FedIterates
<1>2. /\ f \in [Nat -> SUBSET Var] /\ f[0] = {v \in Var : Pinned(v)}
      /\ \A n \in Nat : f[n + 1] = Feeds(f[n])
      /\ Fed = f[N] /\ N \in Nat
  BY <1>1, SolverAssumption DEF FedBy
<1>3. \A n \in Nat : f[n] \in SUBSET Var /\ f[n + 1] \in SUBSET Var /\ f[n] \subseteq f[n + 1]
  BY <1>2 DEF Feeds
<1> DEFINE Grew == {n \in Nat : f[n + 1] = f[n] \/ n + 1 <= Cardinality(f[n + 1])}
           Kept == {n \in Nat : f[0] \subseteq f[n]}
<1>4. 0 \in Grew
  <2>1. f[0] \in SUBSET Var /\ f[0 + 1] \in SUBSET Var /\ f[0] \subseteq f[0 + 1]
    BY <1>3
  <2>2. PICK S \in SUBSET Var : S = f[0]
    BY <2>1
  <2>3. PICK T \in SUBSET Var : T = f[0 + 1]
    BY <2>1
  <2>4. S # T => /\ Cardinality(S) \in Nat /\ Cardinality(T) \in Nat
                 /\ Cardinality(S) + 1 <= Cardinality(T)
    BY <2>1, <2>2, <2>3, MoreElements
  <2> QED
    BY <2>2, <2>3, <2>4
<1>5. \A n \in Nat : n \in Grew => n + 1 \in Grew
  <2> SUFFICES ASSUME NEW n \in Nat, n \in Grew, f[(n + 1) + 1] # f[n + 1]
               PROVE  (n + 1) + 1 <= Cardinality(f[(n + 1) + 1])
    OBVIOUS
  <2>1. f[n + 1] # f[n]
    BY <1>2
  <2>2. /\ f[n + 1] \in SUBSET Var /\ f[(n + 1) + 1] \in SUBSET Var
        /\ f[n + 1] \subseteq f[(n + 1) + 1]
    BY <1>3
  <2>3. PICK S \in SUBSET Var : S = f[n + 1]
    BY <2>2
  <2>4. PICK T \in SUBSET Var : T = f[(n + 1) + 1]
    BY <2>2
  <2>5. /\ Cardinality(S) \in Nat /\ Cardinality(T) \in Nat
        /\ Cardinality(S) + 1 <= Cardinality(T)
    BY <2>2, <2>3, <2>4, MoreElements
  <2> QED
    BY <2>1, <2>3, <2>4, <2>5
<1>6. Nat \subseteq Grew
  <2> HIDE DEF Grew
  <2> QED
    BY <1>4, <1>5, SetInduction
<1>7. f[N + 1] = f[N]
  <2>1. Cardinality(f[N + 1]) <= N /\ Cardinality(f[N + 1]) \in Nat
    <3>1. f[N + 1] \in SUBSET Var
      BY <1>2, <1>3
    <3> QED
      BY <3>1, VarFinite, FS_Subset, FS_CardinalityType
  <2> QED
    BY <1>2, <1>6, <2>1
<1>8. Nat \subseteq Kept
  <2>1. 0 \in Kept
    OBVIOUS
  <2>2. \A n \in Nat : n \in Kept => n + 1 \in Kept
    BY <1>3
  <2> HIDE DEF Kept
  <2> QED
    BY <2>1, <2>2, SetInduction
<1>9. Feeds(Fed) = Fed
  BY <1>2, <1>7
<1> QED
  BY <1>2, <1>8, <1>9 DEF Feeds

LEMMA FedLeast ==
  ASSUME sys \in Systems, NEW S, \A v \in Var : Pinned(v) => v \in S,
         \A c \in ToSet(Constraints) : ToSet(LhsVars(c)) \subseteq S => Rhs(c) \in S
  PROVE  Fed \subseteq S
<1>1. PICK f : FedBy(f)
  BY FedIterates
<1>2. /\ f[0] = {v \in Var : Pinned(v)} /\ \A n \in Nat : f[n + 1] = Feeds(f[n])
      /\ Fed = f[N] /\ N \in Nat
  BY <1>1, SolverAssumption DEF FedBy
<1> DEFINE Inside == {n \in Nat : f[n] \subseteq S}
<1>3. 0 \in Inside
  BY <1>2
<1>4. \A n \in Nat : n \in Inside => n + 1 \in Inside
  BY <1>2 DEF Feeds
<1>5. Nat \subseteq Inside
  <2> HIDE DEF Inside
  <2> QED
    BY <1>3, <1>4, SetInduction
<1> QED
  BY <1>2, <1>5

FedIsLeast ==
  /\ Fed \in SUBSET Var
  /\ \A v \in Var : Pinned(v) => v \in Fed
  /\ \A c \in ToSet(Constraints) : ToSet(LhsVars(c)) \subseteq Fed => Rhs(c) \in Fed
  /\ \A S : /\ \A v \in Var : Pinned(v) => v \in S
            /\ \A c \in ToSet(Constraints) : ToSet(LhsVars(c)) \subseteq S => Rhs(c) \in S
            => Fed \subseteq S

LEMMA FedFacts == sys \in Systems => FedIsLeast
BY FedClosed, FedLeast DEF FedIsLeast

LEMMA FedSame ==
  ASSUME sys \in Systems, UNCHANGED sys
  PROVE  Fed' = Fed
<1>1. FedIsLeast
  BY FedFacts
<1>2. FedIsLeast'
  <2>1. (sys \in Systems => FedIsLeast)'
    BY FedFacts, PTL
  <2> QED
    BY <2>1
<1>3. /\ Constraints' = Constraints
      /\ \A v : Pinned(v)' <=> Pinned(v)
  BY SameSystem DEF Constraints, Canonical
<1>4. PICK F : F = Fed'
  OBVIOUS
<1>5. /\ \A v \in Var : Pinned(v) => v \in F
      /\ \A c \in ToSet(Constraints) : ToSet(LhsVars(c)) \subseteq F => Rhs(c) \in F
      /\ \A S : /\ \A v \in Var : Pinned(v) => v \in S
                /\ \A c \in ToSet(Constraints) : ToSet(LhsVars(c)) \subseteq S => Rhs(c) \in S
                => F \subseteq S
  BY <1>2, <1>3, <1>4 DEF FedIsLeast
<1>6. Fed \subseteq F /\ F \subseteq Fed
  BY <1>1, <1>5 DEF FedIsLeast
<1> QED
  BY <1>4, <1>6

(* Without hard floors, ... *)
Unfloored == sys.hardLo = << >>

LEMMA NoFloor ==
  ASSUME Ordered, Unfloored, NEW v \in Var
  PROVE  hardLo[v] = NEGINF
<1>1. FloorsOf(v) = {}
  BY DEF Unfloored, FloorsOf
<1>2. FloorOf(v) = Max({NEGINF})
  BY <1>1 DEF FloorOf
<1>3. Max({NEGINF}) = NEGINF
  BY EndpointFacts DEF Max
<1> QED
  BY <1>2, <1>3 DEF Ordered, Prepared

(* ... what is live is fed by live variables and stays so, ... *)
Live(r) == {v \in Var : ~IsEmpty(r[v])}

Fills(v, S) == \E c \in ToSet(byRhs[v]) : ToSet(LhsVars(c)) \subseteq S

Filled(V, S) == \A v \in V : ~isFixed[v] /\ Fills(v, S) => v \in S

Supported ==
  /\ Live(ranges) \subseteq Fed
  /\ \A v \in Live(ranges) : isFixed[v] \/ Fills(v, Live(ranges))

(* ... a join tells whether a constraint is fed, ... *)
JoinLive ==
  compPc = "join" =>
    /\ acc \in Tidy
    /\ ~IsEmpty(acc) <=> \E k \in DOMAIN byRhs[call.comp[pos]] :
                           k < ci /\ ToSet(LhsVars(byRhs[call.comp[pos]][k])) \subseteq Live(ranges)

(* ... every round fills another variable until none is left to fill, ... *)
Enough(S, k) == Filled(ToSet(call.comp), S) \/ k <= Cardinality(S)

RoundLive ==
  /\ compPc = "round" => Enough(Live(ranges), iter)
  /\ compPc \in {"var", "join"} =>
       /\ Enough(Live(prev), iter)
       /\ Live(prev) \subseteq Live(ranges)
       /\ Filled(ToSet(call.comp), Live(prev)) => Live(ranges) = Live(prev)
       /\ \A i \in 1 .. Len(call.comp) :
            i < pos /\ ~isFixed[call.comp[i]] /\ Fills(call.comp[i], Live(prev))
              => call.comp[i] \in Live(ranges)

(* ... and no component is left with one. *)
AllFilled ==
  settled \/ N <= MaxIters => \A i \in 1 .. SolvedUpTo : Filled(Members(i), Live(ranges))

LiveInv ==
  phase # "prepare" /\ Unfloored => Supported /\ JoinLive /\ RoundLive /\ AllFilled

FedInv == VerdictInv /\ LiveInv

(* A constraint sends a value just when all that it reads is live. *)
LEMMA SendsLive ==
  ASSUME Ordered, NEW r \in [Var -> Interval], NEW i \in 1 .. Len(order), NEW v \in Members(i),
         NEW c \in ToSet(byRhs[v])
  PROVE  /\ EvalConstraint(c, r) \in Tidy
         /\ ~IsEmpty(EvalConstraint(c, r)) <=> ToSet(LhsVars(c)) \subseteq Live(r)
<1>1. c \in ConstraintOver(Var) /\ \A x \in ToSet(LhsVars(c)) : x \in Var
  BY Sources
<1> QED
  BY <1>1, EvalTidy, EvalEmpty DEF Live

LEMMA HullTidy ==
  ASSUME NEW x \in Tidy, NEW y \in Tidy
  PROVE  Hull(x, y) \in Tidy /\ (IsEmpty(Hull(x, y)) <=> IsEmpty(x) /\ IsEmpty(y))
<1>1. x \in Interval /\ y \in Interval
  BY DEF Tidy
<1>2. CASE IsEmpty(x) \/ IsEmpty(y)
  BY <1>2 DEF Hull, Tidy
<1>3. CASE ~IsEmpty(x) /\ ~IsEmpty(y)
  <2>1. Hull(x, y) = [lo |-> Lesser(x.lo, y.lo), hi |-> Greater(x.hi, y.hi)]
    BY <1>3 DEF Hull
  <2>2. Hull(x, y) \in Interval /\ ~IsEmpty(Hull(x, y))
    BY <1>1, <1>3, <2>1, IntervalFacts DEF Lesser, Greater, Interval, IsEmpty
  <2> QED
    BY <1>3, <2>2 DEF Tidy
<1> QED
  BY <1>2, <1>3

(* Widening neither empties a range nor fills one. *)
LEMMA WidenLive ==
  ASSUME NEW j \in Tidy, NEW p \in Interval
  PROVE  IsEmpty(CP!Widen(j, p)) <=> IsEmpty(j)
<1>1. j \in Interval
  BY DEF Tidy
<1>2. /\ j.lo \in Int /\ j.hi \in Int /\ NEGINF <= j.lo /\ j.hi <= INF
      /\ p.lo \in Int /\ p.hi \in Int /\ p.lo <= INF /\ NEGINF <= p.hi
      /\ NEGINF \in Int /\ INF \in Int /\ NEGINF < INF
  BY <1>1, IntervalFacts, EndpointFacts
<1>3. /\ CP!Widen(j, p).lo = IF j.lo < p.lo THEN NEGINF ELSE j.lo
      /\ CP!Widen(j, p).hi = IF j.hi > p.hi THEN INF ELSE j.hi
  BY CompSame DEF CP!Widen
<1>4. CASE IsEmpty(j)
  <2>1. j.lo = INF /\ j.hi = NEGINF
    BY <1>4 DEF Tidy, Empty
  <2>2. CP!Widen(j, p).lo = INF /\ CP!Widen(j, p).hi = NEGINF
    BY <1>2, <1>3, <2>1
  <2> QED
    BY <1>2, <1>4, <2>2 DEF IsEmpty
<1>5. CASE ~IsEmpty(j)
  <2>1. j.lo <= j.hi
    BY <1>2, <1>5 DEF IsEmpty
  <2>2. CP!Widen(j, p).lo <= CP!Widen(j, p).hi /\ CP!Widen(j, p).lo \in Int /\ CP!Widen(j, p).hi \in Int
    BY <1>2, <1>3, <2>1
  <2> QED
    BY <1>5, <2>2 DEF IsEmpty
<1> QED
  BY <1>4, <1>5

(* The visited variable becomes, or stays, live just when it is fed. *)
LEMMA AssignLive ==
  ASSUME FedInv, phase = "solve", Unfloored, CP!AssignVar
  PROVE  LET w == call.comp[pos]
         IN  /\ w \in Var /\ w \in Members(next - 1) /\ ~isFixed[w]
             /\ ranges' \in [Var -> Interval]
             /\ \A x \in Var : x # w => ranges'[x] = ranges[x]
             /\ ~IsEmpty(ranges'[w]) <=> Fills(w, Live(ranges))
<1> DEFINE w == call.comp[pos]
<1>1. compPc = "join" /\ SolveInv /\ ranges \in [Var -> Interval] /\ JoinLive
  BY DEF FedInv, VerdictInv, SolveInv, CompInv, LiveInv, CP!AssignVar
<1>2. /\ Ordered /\ Called /\ next - 1 \in 1 .. Len(order)
      /\ w \in Members(next - 1) /\ ~isFixed[w]
  BY <1>1, Visiting
<1>3. w \in Var /\ hardLo[w] = NEGINF
  BY <1>2, MembersFacts, NoFloor
<1>4. CP!ConvergedInv' /\ CP!TypeOK
  BY <1>2, CompKept DEF Called, CP!Next, CP!Step, CP!ConvergedInv, CP!TypeInv
<1>5. ranges' \in [Var -> Interval] /\ prev \in [Var -> Interval]
  BY <1>4, CompSame DEF CP!ConvergedInv, CP!TypeInv, CP!TypeOK
<1>6. acc \in Tidy /\ acc \in Interval
  BY <1>1 DEF JoinLive, Tidy
<1>7. CP!Floor(acc, call.hardLo[w]) = acc
  <2>1. call.hardLo[w] = NEGINF /\ ~(acc.lo < NEGINF)
    BY <1>2, <1>3, <1>6, IntervalFacts, EndpointFacts DEF Called
  <2> QED
    BY <2>1 DEF CP!Floor
<1>8. /\ ranges' = [ranges EXCEPT ![w] = CP!Widened(acc)]
      /\ ci > Len(byRhs[w])
  BY <1>2, <1>7 DEF CP!AssignVar, CP!cur, Called
<1>9. IsEmpty(CP!Widened(acc)) <=> IsEmpty(acc)
  <2>1. prev[w] \in Interval
    BY <1>3, <1>5
  <2>2. IsEmpty(CP!Widen(acc, prev[w])) <=> IsEmpty(acc)
    BY <1>6, <2>1, WidenLive
  <2>3. CP!Widened(acc) = CP!Widen(acc, prev[w]) \/ CP!Widened(acc) = acc
    BY DEF CP!Widened, CP!cur
  <2> QED
    BY <2>2, <2>3
<1>10. ~IsEmpty(acc) <=> Fills(w, Live(ranges))
  <2>1. byRhs[w] \in Seq(ConstraintOver(Var)) /\ ci \in Nat
    BY <1>2, <1>3, <1>4 DEF CP!TypeOK, CP!Call, Called
  <2>2. \A k \in DOMAIN byRhs[w] : k < ci
    BY <1>8, <2>1
  <2>3. ~IsEmpty(acc) <=> \E k \in DOMAIN byRhs[w] : ToSet(LhsVars(byRhs[w][k])) \subseteq Live(ranges)
    BY <1>1, <2>2 DEF JoinLive
  <2> QED
    BY <2>3 DEF Fills, ToSet
<1> HIDE DEF w
<1>11. ranges'[w] = CP!Widened(acc) /\ \A x \in Var : x # w => ranges'[x] = ranges[x]
  BY <1>1, <1>3, <1>8
<1>12. ~IsEmpty(ranges'[w]) <=> Fills(w, Live(ranges))
  BY <1>9, <1>10, <1>11
<1> QED
  BY <1>2, <1>3, <1>5, <1>11, <1>12 DEF w

(* What is live after the visit. *)
LEMMA AssignGrows ==
  ASSUME FedInv, phase = "solve", Unfloored, CP!AssignVar
  PROVE  LET w == call.comp[pos]
         IN  /\ Live(ranges') = IF Fills(w, Live(ranges)) THEN Live(ranges) \cup {w} ELSE Live(ranges)
             /\ w \in Live(ranges) => Fills(w, Live(ranges))
<1> DEFINE w == call.comp[pos]
<1>1. /\ w \in Var /\ ~isFixed[w]
      /\ \A x \in Var : x # w => ranges'[x] = ranges[x]
      /\ ~IsEmpty(ranges'[w]) <=> Fills(w, Live(ranges))
  BY AssignLive
<1> HIDE DEF w
<1>2. phase # "prepare" => Supported
  BY DEF FedInv, LiveInv
<1>3. w \in Live(ranges) => Fills(w, Live(ranges))
  BY <1>1, <1>2 DEF Supported
<1>4. PICK L : L = Live(ranges)
  OBVIOUS
<1>5. \A x \in Var : x # w => (x \in Live(ranges') <=> x \in L)
  BY <1>1, <1>4 DEF Live
<1>6. w \in Live(ranges') <=> Fills(w, L)
  BY <1>1, <1>4 DEF Live
<1>7. Live(ranges') \subseteq Var /\ L \subseteq Var
  BY <1>4 DEF Live
<1>8. Live(ranges') = IF Fills(w, L) THEN L \cup {w} ELSE L
  BY <1>1, <1>3, <1>4, <1>5, <1>6, <1>7
<1> QED
  BY <1>3, <1>4, <1>8 DEF w

(* The constraints into a variable, seen from Fed. *)
LEMMA FillsFed ==
  ASSUME Ordered, NEW v \in Var, NEW S, S \subseteq Fed, Fills(v, S)
  PROVE  v \in Fed
<1>1. sys \in Systems /\ byRhs[v] = Into(v)
  BY DEF Ordered, Prepared
<1>2. PICK c \in ToSet(Into(v)) : ToSet(LhsVars(c)) \subseteq S
  BY <1>1 DEF Fills
<1>3. c \in ToSet(Constraints) /\ Rhs(c) = v
  BY <1>1, <1>2, ConstraintsIn
<1> QED
  BY <1>1, <1>2, <1>3, FedFacts DEF FedIsLeast

LEMMA FillsMore ==
  ASSUME NEW v, NEW S, NEW T, S \subseteq T, Fills(v, S)
  PROVE  Fills(v, T)
BY DEF Fills

(* Filling a variable of the component being solved fills nothing new in  *)
(* the components before it.                                               *)
LEMMA FilledKept ==
  ASSUME Ordered, NEW n \in 1 .. Len(order), NEW w \in Members(n),
         NEW i \in 1 .. n - 1, NEW S, NEW T, S \subseteq T, T \subseteq S \cup {w},
         Filled(Members(i), S)
  PROVE  Filled(Members(i), T)
<1> SUFFICES ASSUME NEW v \in Members(i), ~isFixed[v], Fills(v, T)
             PROVE  v \in T
  BY DEF Filled
<1>1. Len(order) \in Nat /\ i \in 1 .. Len(order) /\ i # n
  BY OrderResult, SolverAssumption DEF Ordered
<1>2. PICK c \in ToSet(byRhs[v]) : ToSet(LhsVars(c)) \subseteq T
  BY DEF Fills
<1>3. ASSUME NEW y \in ToSet(LhsVars(c))
      PROVE  y # w
  <2>1. PICK j \in 1 .. i : y \in Members(j)
    BY <1>1, <1>2, Sources
  <2>2. j \in 1 .. Len(order) /\ j # n
    BY <1>1, <2>1
  <2> QED
    BY <2>1, <2>2, MembersOnce
<1>4. ToSet(LhsVars(c)) \subseteq S
  BY <1>2, <1>3
<1>5. Fills(v, S)
  BY <1>2, <1>4 DEF Fills
<1> QED
  BY <1>5 DEF Filled

(* When all of a component has been visited, another variable is live, or  *)
(* none is left to fill.                                                   *)
LEMMA RoundFills ==
  ASSUME RoundLive, compPc = "var", pos \in Nat, Len(call.comp) \in Nat,
         DOMAIN call.comp = 1 .. Len(call.comp), pos > Len(call.comp), iter \in Nat
  PROVE  /\ Live(ranges) = Live(prev) => Filled(ToSet(call.comp), Live(ranges))
         /\ Enough(Live(ranges), iter + 1)
<1> DEFINE P == Live(prev)
           L == Live(ranges)
           B == ToSet(call.comp)
<1>1. /\ Enough(P, iter) /\ P \subseteq L
      /\ Filled(B, P) => L = P
      /\ \A i \in 1 .. Len(call.comp) :
            i < pos /\ ~isFixed[call.comp[i]] /\ Fills(call.comp[i], P) => call.comp[i] \in L
  BY DEF RoundLive
<1>2. P \in SUBSET Var /\ L \in SUBSET Var
  BY DEF Live
<1> HIDE DEF P, L
<1>3. \A v \in B : ~isFixed[v] /\ Fills(v, P) => v \in L
  <2> SUFFICES ASSUME NEW v \in B, ~isFixed[v], Fills(v, P)
               PROVE  v \in L
    OBVIOUS
  <2>1. PICK i \in 1 .. Len(call.comp) : v = call.comp[i]
    BY DEF ToSet
  <2>2. i < pos
    BY <2>1
  <2> QED
    BY <1>1, <2>1, <2>2
<1>4. L = P => Filled(B, L)
  BY <1>3 DEF Filled
<1>5. L # P => iter + 1 <= Cardinality(L)
  <2> SUFFICES ASSUME L # P
               PROVE  iter + 1 <= Cardinality(L)
    OBVIOUS
  <2>1. iter <= Cardinality(P)
    BY <1>1 DEF Enough
  <2>2. /\ Cardinality(P) \in Nat /\ Cardinality(L) \in Nat
        /\ Cardinality(P) + 1 <= Cardinality(L)
    BY <1>1, <1>2, MoreElements
  <2> QED
    BY <2>1, <2>2
<1>6. Enough(L, iter + 1)
  BY <1>4, <1>5 DEF Enough
<1> QED
  BY <1>4, <1>6 DEF P, L

(* A step of solve_component, one part of the invariant at a time. *)
Running ==
  /\ FedInv /\ phase = "solve" /\ Unfloored /\ CP!Step
  /\ UNCHANGED <<sys, phase, isFixed, hardLo, byRhs, next, comps, order>>

LEMMA RunningFacts ==
  ASSUME Running
  PROVE  /\ compPc # "done" /\ call' = call /\ SolveInv
         /\ Ordered /\ Called /\ next - 1 \in 1 .. Len(order) /\ Fed' = Fed
         /\ ToSet(call.comp) = Members(next - 1)
         /\ ranges \in [Var -> Interval] /\ CP!TypeInv
         /\ Supported /\ JoinLive /\ RoundLive /\ AllFilled
<1>1. compPc # "done" /\ call' = call
  BY DEF Running, CP!Step, CP!StartRound, CP!HitCap, CP!SkipFixed, CP!BeginVar,
         CP!JoinConstraint, CP!AssignVar, CP!EndRound
<1>2. SolveInv /\ ranges \in [Var -> Interval]
  BY DEF Running, FedInv, VerdictInv, SolveInv, CompInv
<1>3. /\ Ordered /\ Called /\ next - 1 \in 1 .. Len(order)
      /\ ToSet(call.comp) = Members(next - 1)
  BY <1>1, <1>2, Visiting DEF Running
<1>4. CP!TypeInv
  BY <1>3 DEF Called, CP!ConvergedInv
<1>5. Fed' = Fed
  BY <1>3, FedSame DEF Running, Ordered
<1>6. Supported /\ JoinLive /\ RoundLive /\ AllFilled
  BY DEF Running, FedInv, LiveInv
<1> QED
  BY <1>1, <1>2, <1>3, <1>4, <1>5, <1>6

LEMMA SupportedStep == Running => Supported'
<1> SUFFICES ASSUME Running
             PROVE  Supported'
  OBVIOUS
<1>1. CASE CP!AssignVar
  <2> DEFINE w == call.comp[pos]
  <2>1. /\ w \in Var /\ ~isFixed[w]
        /\ Live(ranges') = IF Fills(w, Live(ranges)) THEN Live(ranges) \cup {w} ELSE Live(ranges)
    BY <1>1, AssignLive, AssignGrows DEF Running
  <2> HIDE DEF w
  <2>2. Supported /\ Ordered
    BY RunningFacts
  <2>3. PICK L : L = Live(ranges)
    OBVIOUS
  <2>4. PICK K : K = Live(ranges')
    OBVIOUS
  <2>5. L \subseteq K /\ K \subseteq L \cup {w} /\ (w \in K => w \in L \/ Fills(w, L))
    BY <2>1, <2>3, <2>4
  <2>6. L \subseteq Fed /\ \A v \in L : isFixed[v] \/ Fills(v, L)
    BY <2>2, <2>3 DEF Supported
  <2>7. K \subseteq Fed
    BY <2>1, <2>2, <2>5, <2>6, FillsFed
  <2>8. \A v \in K : isFixed[v] \/ Fills(v, K)
    BY <2>5, <2>6, FillsMore
  <2>9. K = Live(ranges)'
    BY <2>4 DEF Live
  <2>10. \A v : Fills(v, K)' <=> Fills(v, K)
    BY DEF Running, Fills
  <2>11. Fed' = Fed /\ isFixed' = isFixed
    BY RunningFacts DEF Running
  <2> QED
    BY <2>7, <2>8, <2>9, <2>10, <2>11 DEF Supported
<1>2. CASE ~CP!AssignVar
  <2>1. ranges' = ranges
    BY <1>2 DEF Running, CP!Step, CP!StartRound, CP!HitCap, CP!SkipFixed, CP!BeginVar,
                CP!JoinConstraint, CP!EndRound
  <2> QED
    BY <2>1, RunningFacts DEF Running, Supported, Live, Fills
<1> QED
  BY <1>1, <1>2

LEMMA JoinLiveStep == Running => JoinLive'
<1> SUFFICES ASSUME Running, compPc' = "join"
             PROVE  JoinLive'
  BY DEF JoinLive
<1> DEFINE w == call.comp[pos]
<1>1. CASE CP!BeginVar
  <2>1. acc' = Empty /\ ci' = 1 /\ UNCHANGED <<ranges, pos>> /\ call' = call /\ compPc = "var"
        /\ pos <= Len(call.comp)
    BY <1>1, CompSame DEF CP!BeginVar
  <2>2. Empty \in Tidy /\ IsEmpty(Empty)
    BY ConstantTypes DEF Tidy
  <2>3. w \in Members(next - 1)
    <3>1. call.comp \in Seq(Var) /\ pos \in 1 .. Len(call.comp)
      BY <2>1, RunningFacts DEF CP!TypeInv, CP!TypeOK, CP!Call
    <3>2. w \in ToSet(call.comp)
      BY <3>1 DEF ToSet
    <3> QED
      BY <3>2, RunningFacts
  <2>4. w \in Var
    BY <2>3, RunningFacts, MembersFacts
  <2>5. byRhs[w] \in Seq(ConstraintOver(Var))
    BY <2>4, RunningFacts DEF CP!TypeInv, CP!TypeOK, CP!Call, Called
  <2>6. \A k \in DOMAIN byRhs[w] : ~(k < 1)
    BY <2>5
  <2> QED
    BY <2>1, <2>2, <2>6 DEF JoinLive, Running
<1>2. CASE CP!JoinConstraint
  <2>1. /\ compPc = "join" /\ ci <= Len(call.byRhs[w]) /\ ci' = ci + 1
        /\ acc' = Hull(acc, EvalConstraint(call.byRhs[w][ci], ranges))
        /\ UNCHANGED <<ranges, pos>> /\ call' = call
    BY <1>2, CompSame DEF CP!JoinConstraint, CP!cur
  <2>2. w \in Members(next - 1) /\ call.byRhs = byRhs
    BY <2>1, RunningFacts, Visiting DEF Running, Called
  <2>3. w \in Var
    BY <2>2, RunningFacts, MembersFacts
  <2>4. byRhs[w] \in Seq(ConstraintOver(Var)) /\ ci \in Nat \ {0}
    BY <2>2, <2>3, RunningFacts DEF CP!TypeInv, CP!TypeOK, CP!Call
  <2>5. PICK c : c = byRhs[w][ci]
    OBVIOUS
  <2>6. ci \in DOMAIN byRhs[w] /\ c \in ToSet(byRhs[w])
    BY <2>1, <2>2, <2>4, <2>5 DEF ToSet
  <2>7. PICK e : e = EvalConstraint(c, ranges)
    OBVIOUS
  <2> DEFINE reads(k) == ToSet(LhsVars(byRhs[w][k])) \subseteq Live(ranges)
  <2>8. e \in Tidy /\ (~IsEmpty(e) <=> reads(ci))
    <3>1. PICK r \in [Var -> Interval] : r = ranges
      BY RunningFacts
    <3>2. PICK i \in 1 .. Len(order) : i = next - 1
      BY RunningFacts
    <3>3. /\ EvalConstraint(c, r) \in Tidy
          /\ ~IsEmpty(EvalConstraint(c, r)) <=> ToSet(LhsVars(c)) \subseteq Live(r)
      BY <2>2, <2>6, <3>2, RunningFacts, SendsLive
    <3> QED
      BY <2>5, <2>7, <3>1, <3>3
  <2>9. acc \in Tidy /\ (~IsEmpty(acc) <=> \E k \in DOMAIN byRhs[w] : k < ci /\ reads(k))
    BY <2>1, RunningFacts DEF JoinLive
  <2>10. acc' = Hull(acc, e)
    BY <2>1, <2>2, <2>5, <2>7
  <2>11. acc' \in Tidy /\ (~IsEmpty(acc') <=> ~IsEmpty(acc) \/ ~IsEmpty(e))
    BY <2>8, <2>9, <2>10, HullTidy
  <2> HIDE DEF reads
  <2>12. (\E k \in DOMAIN byRhs[w] : k < ci + 1 /\ reads(k))
           <=> (\E k \in DOMAIN byRhs[w] : k < ci /\ reads(k)) \/ reads(ci)
    <3>1. DOMAIN byRhs[w] \subseteq Nat
      BY <2>4
    <3>2. \A k \in DOMAIN byRhs[w] : k < ci + 1 <=> k < ci \/ k = ci
      BY <2>4, <3>1
    <3> HIDE DEF w
    <3> QED
      BY <2>6, <3>2
  <2>13. ~IsEmpty(acc') <=> \E k \in DOMAIN byRhs[w] : k < ci + 1 /\ reads(k)
    BY <2>8, <2>9, <2>11, <2>12
  <2> QED
    BY <2>1, <2>11, <2>13 DEF JoinLive, Running, reads, Live, IsEmpty
<1>3. CASE ~CP!BeginVar /\ ~CP!JoinConstraint
  BY <1>3 DEF Running, CP!Step, CP!StartRound, CP!HitCap, CP!SkipFixed, CP!AssignVar, CP!EndRound
<1> QED
  BY <1>1, <1>2, <1>3

LEMMA RoundLiveStep == Running => RoundLive'
<1> SUFFICES ASSUME Running
             PROVE  RoundLive'
  OBVIOUS
<1>1. /\ call' = call /\ RoundLive /\ Supported
      /\ pos \in 1 .. Len(call.comp) + 1 /\ iter \in Nat
      /\ Len(call.comp) \in Nat /\ DOMAIN call.comp = 1 .. Len(call.comp)
  BY RunningFacts, SolverAssumption DEF CP!TypeInv, CP!TypeOK, CP!Call
<1>2. /\ \A v, S : Fills(v, S)' <=> Fills(v, S)
      /\ \A V, S : Filled(V, S)' <=> Filled(V, S)
      /\ \A S, k : Enough(S, k)' <=> Enough(S, k)
      /\ isFixed' = isFixed
  BY <1>1 DEF Running, Fills, Filled, Enough
<1>3. PICK L, P : L = Live(ranges) /\ P = Live(prev)
  OBVIOUS
<1>4. PICK K, Q : K = Live(ranges)' /\ Q = Live(prev)'
  OBVIOUS
<1>5. (ranges' = ranges => K = L) /\ (prev' = prev => Q = P) /\ (prev' = ranges => Q = L)
  BY <1>3, <1>4 DEF Live
<1>6. CASE CP!StartRound
  <2>1. /\ compPc = "round" /\ compPc' = "var" /\ prev' = ranges /\ pos' = 1
        /\ UNCHANGED <<ranges, iter>>
    BY <1>6 DEF CP!StartRound
  <2>2. K = L /\ Q = L /\ Enough(L, iter)
    BY <1>1, <1>3, <1>5, <2>1 DEF RoundLive
  <2>3. \A i \in 1 .. Len(call.comp) : ~(i < 1)
    BY <1>1
  <2> QED
    BY <1>1, <1>2, <1>4, <2>1, <2>2, <2>3 DEF RoundLive
<1>7. CASE CP!AssignVar
  <2> DEFINE w == call.comp[pos]
  <2>1. /\ compPc = "join" /\ compPc' = "var" /\ pos' = pos + 1 /\ UNCHANGED <<prev, iter>>
    BY <1>7 DEF CP!AssignVar
  <2>2. /\ ~isFixed[w] /\ w \in Members(next - 1)
        /\ K = IF Fills(w, L) THEN L \cup {w} ELSE L
    <3>1. Live(ranges)' = Live(ranges')
      BY DEF Live
    <3> QED
      BY <1>3, <1>4, <1>7, <3>1, AssignLive, AssignGrows DEF Running
  <2>3. w \in ToSet(call.comp)
    BY <2>2, RunningFacts
  <2>4. /\ Enough(P, iter) /\ P \subseteq L /\ (Filled(ToSet(call.comp), P) => L = P)
        /\ \A i \in 1 .. Len(call.comp) :
             i < pos /\ ~isFixed[call.comp[i]] /\ Fills(call.comp[i], P) => call.comp[i] \in L
    BY <1>1, <1>3, <2>1 DEF RoundLive
  <2>5. Q = P /\ L \subseteq K
    BY <1>5, <2>1, <2>2
  <2>6. Filled(ToSet(call.comp), P) => K = P
    <3> SUFFICES ASSUME Filled(ToSet(call.comp), P)
                 PROVE  K = P
      OBVIOUS
    <3>1. L = P
      BY <2>4
    <3>2. Fills(w, P) => w \in P
      BY <2>2, <2>3 DEF Filled
    <3> HIDE DEF w
    <3> QED
      BY <2>2, <3>1, <3>2
  <2>7. ASSUME NEW i \in 1 .. Len(call.comp), i < pos + 1,
               ~isFixed[call.comp[i]], Fills(call.comp[i], P)
        PROVE  call.comp[i] \in K
    <3>1. CASE i < pos
      BY <2>4, <2>5, <2>7, <3>1
    <3>2. CASE i = pos
      <4>1. Fills(w, L)
        BY <2>4, <2>7, <3>2, FillsMore
      <4> QED
        BY <2>2, <3>2, <4>1
    <3> QED
      BY <1>1, <2>7, <3>1, <3>2
  <2> HIDE DEF w
  <2>8. P \subseteq K
    BY <2>4, <2>5
  <2> QED
    BY <1>1, <1>2, <1>4, <2>1, <2>4, <2>5, <2>6, <2>7, <2>8 DEF RoundLive
<1>8. CASE CP!SkipFixed
  <2>1. /\ compPc = "var" /\ compPc' = "var" /\ pos' = pos + 1 /\ UNCHANGED <<ranges, prev, iter>>
        /\ pos <= Len(call.comp) /\ call.comp[pos] \in call.fixed
    BY <1>8 DEF CP!SkipFixed, CP!cur
  <2>2. isFixed[call.comp[pos]]
    BY <2>1, RunningFacts DEF Called
  <2>3. /\ Enough(P, iter) /\ P \subseteq L /\ (Filled(ToSet(call.comp), P) => L = P)
        /\ \A i \in 1 .. Len(call.comp) :
             i < pos /\ ~isFixed[call.comp[i]] /\ Fills(call.comp[i], P) => call.comp[i] \in L
    BY <1>1, <1>3, <2>1 DEF RoundLive
  <2>4. K = L /\ Q = P
    BY <1>5, <2>1
  <2>5. \A i \in 1 .. Len(call.comp) : i < pos + 1 => i < pos \/ i = pos
    BY <1>1
  <2>6. \A i \in 1 .. Len(call.comp) :
          i < pos + 1 /\ ~isFixed[call.comp[i]] /\ Fills(call.comp[i], P) => call.comp[i] \in L
    BY <2>2, <2>3, <2>5
  <2> QED
    BY <1>1, <1>2, <1>4, <2>1, <2>3, <2>4, <2>6 DEF RoundLive
<1>9. CASE CP!BeginVar \/ CP!JoinConstraint
  <2>1. /\ compPc \in {"var", "join"} /\ compPc' = "join" /\ UNCHANGED <<ranges, prev, iter, pos>>
    BY <1>9 DEF CP!BeginVar, CP!JoinConstraint
  <2>2. K = L /\ Q = P
    BY <1>5, <2>1
  <2> QED
    BY <1>1, <1>2, <1>3, <1>4, <2>1, <2>2 DEF RoundLive
<1>10. CASE CP!EndRound
  <2>1. /\ compPc = "var" /\ pos > Len(call.comp) /\ UNCHANGED <<ranges, prev, pos>>
        /\ compPc' = "done" \/ (compPc' = "round" /\ iter' = iter + 1)
    BY <1>10 DEF CP!EndRound
  <2>2. Enough(L, iter + 1)
    BY <1>1, <1>3, <2>1, RoundFills
  <2>3. K = L
    BY <1>5, <2>1
  <2> QED
    BY <1>2, <1>4, <2>1, <2>2, <2>3 DEF RoundLive
<1>11. CASE CP!HitCap
  <2>1. compPc' = "done"
    BY <1>11 DEF CP!HitCap
  <2> QED
    BY <2>1 DEF RoundLive
<1> QED
  BY <1>6, <1>7, <1>8, <1>9, <1>10, <1>11 DEF Running, CP!Step

LEMMA AllLive ==
  ASSUME NEW S \in SUBSET Var, N <= Cardinality(S)
  PROVE  S = Var
<1>1. N \in Nat /\ IsFiniteSet(Var) /\ Cardinality(Var) = N
  BY VarFinite, SolverAssumption
<1> SUFFICES ASSUME S # Var
             PROVE  FALSE
  OBVIOUS
<1>2. /\ Cardinality(S) \in Nat /\ Cardinality(Var) \in Nat
      /\ Cardinality(S) + 1 <= Cardinality(Var)
  BY MoreElements
<1> QED
  BY <1>1, <1>2

(* A call that ends by itself, or was given rounds enough, leaves nothing *)
(* in its component to fill.                                               *)
LEMMA CallFills ==
  ASSUME Running, compPc' = "done", ~changed \/ N <= MaxIters
  PROVE  Filled(ToSet(call.comp), Live(ranges))
<1>1. /\ RoundLive /\ CP!ConvergedInv
      /\ pos \in 1 .. Len(call.comp) + 1 /\ iter \in Nat
      /\ Len(call.comp) \in Nat /\ DOMAIN call.comp = 1 .. Len(call.comp)
  BY RunningFacts, SolverAssumption DEF Called, CP!TypeInv, CP!TypeOK, CP!Call
<1>2. CASE CP!EndRound
  <2>1. compPc = "var" /\ pos > Len(call.comp) /\ ~changed
    BY <1>2 DEF CP!EndRound
  <2>2. ranges = prev
    BY <1>1, <2>1 DEF CP!ConvergedInv, CP!Unchanged
  <2> QED
    BY <1>1, <2>1, <2>2, RoundFills
<1>3. CASE CP!HitCap
  <2>1. compPc = "round" /\ iter = MaxIters
    BY <1>3 DEF CP!HitCap
  <2>2. changed
    BY <1>1, <2>1, SolverAssumption DEF CP!ConvergedInv, CP!GoesOn
  <2>3. Enough(Live(ranges), MaxIters) /\ N <= MaxIters
    BY <1>1, <2>1, <2>2 DEF RoundLive
  <2>4. PICK L \in SUBSET Var : L = Live(ranges)
    BY DEF Live
  <2>5. CASE MaxIters <= Cardinality(L)
    <3>1. N <= Cardinality(L)
      <4>1. Cardinality(L) \in Nat
        BY VarFinite, FS_Subset, FS_CardinalityType
      <4> QED
        BY <2>3, <2>5, <4>1, SolverAssumption
    <3>2. L = Var
      BY <3>1, AllLive
    <3>3. ToSet(call.comp) \subseteq Var
      BY RunningFacts, MembersFacts
    <3> QED
      BY <2>4, <3>2, <3>3 DEF Filled
  <2> QED
    BY <2>3, <2>4, <2>5 DEF Enough
<1> QED
  BY <1>2, <1>3 DEF Running, CP!Step, CP!StartRound, CP!SkipFixed, CP!BeginVar,
                    CP!JoinConstraint, CP!AssignVar

LEMMA AllFilledStep ==
  ASSUME Running, settled' = (settled /\ ~(compPc' = "done" /\ changed))
  PROVE  AllFilled'
<1>1. /\ Ordered /\ AllFilled /\ compPc # "done" /\ next - 1 \in 1 .. Len(order)
      /\ ToSet(call.comp) = Members(next - 1) /\ next \in Nat
  BY RunningFacts DEF SolveInv, CompInv
<1>2. PICK n \in 1 .. Len(order) : n = next - 1
  BY <1>1
<1>3. n \in Nat /\ SolvedUpTo = n - 1
  BY <1>1, <1>2, OrderResult, SolverAssumption DEF SolvedUpTo, Ordered
<1>4. /\ \A V, S : Filled(V, S)' <=> Filled(V, S)
      /\ \A i : Members(i)' = Members(i)
  BY DEF Running, Fills, Filled, Members
<1>5. PICK L, K : L = Live(ranges) /\ K = Live(ranges)'
  OBVIOUS
<1> SUFFICES ASSUME settled' \/ N <= MaxIters, NEW i \in 1 .. SolvedUpTo'
             PROVE  Filled(Members(i), K)
  BY <1>4, <1>5 DEF AllFilled
<1>6. (settled' => settled) /\ (settled' /\ compPc' = "done" => ~changed)
  OBVIOUS
<1>7. \A j \in 1 .. n - 1 : Filled(Members(j), L)
  BY <1>1, <1>3, <1>5, <1>6 DEF AllFilled
<1>8. CASE CP!AssignVar
  <2>1. compPc' = "var"
    BY <1>8 DEF CP!AssignVar
  <2>2. SolvedUpTo' = n - 1
    BY <1>1, <1>2, <2>1 DEF SolvedUpTo, Running
  <2>3. PICK w \in Members(n) : w = call.comp[pos]
    BY <1>2, <1>8, AssignLive DEF Running
  <2>4. L \subseteq K /\ K \subseteq L \cup {w}
    <3>1. Live(ranges)' = Live(ranges')
      BY DEF Live
    <3> QED
      BY <1>5, <1>8, <2>3, <3>1, AssignGrows DEF Running
  <2> QED
    BY <1>1, <1>7, <2>2, <2>3, <2>4, FilledKept
<1>9. CASE ~CP!AssignVar
  <2>1. ranges' = ranges
    BY <1>9 DEF Running, CP!Step, CP!StartRound, CP!HitCap, CP!SkipFixed, CP!BeginVar,
                CP!JoinConstraint, CP!EndRound
  <2>2. K = L
    BY <1>5, <2>1 DEF Live
  <2>3. CASE compPc' # "done"
    <3>1. SolvedUpTo' = n - 1
      BY <1>1, <1>2, <2>3 DEF SolvedUpTo, Running
    <3> QED
      BY <1>7, <2>2, <3>1
  <2>4. CASE compPc' = "done"
    <3>1. SolvedUpTo' = n
      BY <1>1, <1>2, <2>4 DEF SolvedUpTo, Running
    <3>2. Filled(Members(n), L)
      BY <1>1, <1>2, <1>5, <1>6, <2>4, CallFills
    <3> QED
      BY <1>3, <1>7, <2>2, <3>1, <3>2
  <2> QED
    BY <2>3, <2>4
<1> QED
  BY <1>8, <1>9

LEMMA LivePrepare == FedInv /\ Prepare => LiveInv'
<1> SUFFICES ASSUME FedInv, Prepare
             PROVE  LiveInv'
  OBVIOUS
<1>1. /\ ranges' = [v \in Var |-> StartRange(v)] /\ isFixed' = [v \in Var |-> Pinned(v)]
      /\ sys' = sys /\ UNCHANGED <<next, compPc>> /\ phase = "prepare"
  BY DEF Prepare
<1>2. sys \in Systems /\ next = 1 /\ compPc = "done"
  BY <1>1 DEF FedInv, VerdictInv, SolveInv, PrepInv, CompInv
<1>3. SolvedUpTo' = 0
  BY <1>1, <1>2 DEF SolvedUpTo
<1>4. Fed' = Fed /\ FedIsLeast
  BY <1>1, <1>2, FedSame, FedFacts
<1>5. ASSUME NEW v \in Live(ranges)'
      PROVE  v \in Fed /\ isFixed'[v]
  <2>1. v \in Var /\ ~IsEmpty(StartRange(v))
    BY <1>1 DEF Live
  <2>2. Pinned(v)
    BY <1>2, <2>1, StartRangeType
  <2> QED
    BY <1>1, <1>4, <2>1, <2>2 DEF FedIsLeast
<1>6. Supported'
  BY <1>4, <1>5 DEF Supported
<1>7. JoinLive' /\ RoundLive'
  BY <1>1, <1>2 DEF JoinLive, RoundLive
<1>8. AllFilled'
  BY <1>3 DEF AllFilled
<1> QED
  BY <1>6, <1>7, <1>8 DEF LiveInv

(* Nothing that the invariant is about changes. *)
LEMMA LiveSame ==
  ASSUME sys \in Systems, UNCHANGED <<sys, isFixed, byRhs, ranges>>
  PROVE  /\ Fed' = Fed /\ (Unfloored' <=> Unfloored) /\ Live(ranges)' = Live(ranges)
         /\ \A v, S : Fills(v, S)' <=> Fills(v, S)
         /\ \A V, S : Filled(V, S)' <=> Filled(V, S)
         /\ Supported' <=> Supported
<1>1. Fed' = Fed
  BY FedSame
<1> QED
  BY <1>1 DEF Unfloored, Live, Fills, Filled, Supported

LEMMA LiveCall == FedInv /\ CallComponent => LiveInv'
<1> SUFFICES ASSUME FedInv, CallComponent, Unfloored'
             PROVE  LiveInv'
  BY DEF LiveInv
<1>1. /\ phase = "solve" /\ compPc = "done" /\ compPc' = "round" /\ next' = next + 1
      /\ iter' = 0
      /\ UNCHANGED <<sys, phase, isFixed, hardLo, byRhs, settled, ranges>>
      /\ UNCHANGED <<comps, order>>
  BY DEF CallComponent, Between, sccVars, topoVars
<1>2. next \in Nat /\ sys \in Systems
  BY DEF FedInv, VerdictInv, SolveInv, CompInv, PrepInv
<1>3. SolvedUpTo' = SolvedUpTo /\ \A i : Members(i)' = Members(i)
  BY <1>1, <1>2 DEF SolvedUpTo, Members
<1>4. Supported /\ AllFilled
  BY <1>1 DEF FedInv, LiveInv, Unfloored
<1>5. Supported' /\ AllFilled'
  BY <1>1, <1>2, <1>3, <1>4, LiveSame DEF AllFilled
<1>6. RoundLive'
  <2>1. PICK L \in SUBSET Var : L = Live(ranges)'
    BY DEF Live
  <2>2. 0 <= Cardinality(L)
    BY VarFinite, FS_Subset, FS_CardinalityType
  <2>3. Enough(L, 0)'
    BY <2>2 DEF Enough
  <2> QED
    BY <1>1, <2>1, <2>3 DEF RoundLive
<1>7. JoinLive'
  BY <1>1 DEF JoinLive
<1> QED
  BY <1>5, <1>6, <1>7 DEF LiveInv

LEMMA LiveComponent == FedInv /\ ComponentStep => LiveInv'
<1> SUFFICES ASSUME FedInv, ComponentStep, Unfloored'
             PROVE  LiveInv'
  BY DEF LiveInv
<1>1. Running /\ settled' = (settled /\ ~(compPc' = "done" /\ changed))
  BY StepsSame DEF ComponentStep, sccVars, topoVars, Running, Unfloored
<1> QED
  BY <1>1, SupportedStep, JoinLiveStep, RoundLiveStep, AllFilledStep DEF LiveInv

LEMMA LiveOther ==
  FedInv /\ (SccStep \/ SccDone \/ TopoStep \/ TopoDone \/ EvaluateQueries \/ UNCHANGED vars)
    => LiveInv'
<1> SUFFICES ASSUME FedInv,
                    SccStep \/ SccDone \/ TopoStep \/ TopoDone \/ EvaluateQueries \/ UNCHANGED vars,
                    phase' # "prepare", Unfloored'
             PROVE  LiveInv'
  BY DEF LiveInv
<1>1. /\ UNCHANGED <<sys, isFixed, byRhs, next, settled>> /\ UNCHANGED compVars
      /\ phase # "prepare"
      /\ phase \in {"solve", "done"} => UNCHANGED <<comps, order>>
  BY DEF SccStep, SccDone, TopoStep, TopoDone, EvaluateQueries, Between,
         vars, ownVars, sccVars, topoVars
<1>2. UNCHANGED <<call, ranges, iter, prev, pos, ci, acc, compPc>>
  BY <1>1 DEF compVars
<1>3. sys \in Systems /\ phase \in {"scc", "topo", "solve", "done"}
  BY <1>1 DEF FedInv, VerdictInv, SolveInv, PrepInv
<1>4. /\ Fed' = Fed /\ Unfloored /\ Live(ranges)' = Live(ranges)
      /\ \A v, S : Fills(v, S)' <=> Fills(v, S)
      /\ \A V, S : Filled(V, S)' <=> Filled(V, S)
      /\ Supported' <=> Supported
  BY <1>1, <1>2, <1>3, LiveSame
<1>5. Supported /\ JoinLive /\ RoundLive /\ AllFilled
  BY <1>1, <1>4 DEF FedInv, LiveInv
<1>6. JoinLive'
  BY <1>1, <1>2, <1>5 DEF JoinLive, Live, IsEmpty
<1>7. RoundLive'
  BY <1>1, <1>2, <1>5 DEF RoundLive, Enough, Filled, Fills, Live, IsEmpty
<1>8. AllFilled'
  <2>1. SolvedUpTo' = SolvedUpTo
    BY <1>1, <1>2 DEF SolvedUpTo
  <2>2. CASE phase \in {"solve", "done"}
    <3>1. \A i : Members(i)' = Members(i)
      BY <1>1, <2>2 DEF Members
    <3> QED
      BY <1>1, <1>4, <1>5, <2>1, <3>1 DEF AllFilled
  <2>3. CASE phase \in {"scc", "topo"}
    <3>1. next = 1 /\ compPc = "done"
      BY <2>3 DEF FedInv, VerdictInv, SolveInv, CompInv
    <3>2. SolvedUpTo' = 0
      BY <2>1, <3>1 DEF SolvedUpTo
    <3> QED
      BY <3>2 DEF AllFilled
  <2> QED
    BY <1>3, <2>2, <2>3
<1> QED
  BY <1>4, <1>5, <1>6, <1>7, <1>8 DEF LiveInv

LEMMA StepFed == FedInv /\ [Next]_vars => FedInv'
<1> SUFFICES ASSUME FedInv, [Next]_vars
             PROVE  FedInv'
  OBVIOUS
<1>1. VerdictInv'
  BY StepVerdict DEF FedInv
<1>2. LiveInv'
  BY LivePrepare, LiveCall, LiveComponent, LiveOther DEF Next, Step, Terminated
<1> QED
  BY <1>1, <1>2 DEF FedInv

(* In the end the live variables are those that are fed: they are closed   *)
(* under the constraints, whose every variable is in a solved component.   *)
LEMMA DoneFed ==
  ASSUME FedInv, phase = "done", Unfloored, settled \/ N <= MaxIters
  PROVE  Live(ranges) = Fed
<1>1. SolveInv /\ Ordered /\ Pins /\ Supported /\ AllFilled /\ sys \in Systems
  BY OrderedFacts DEF FedInv, VerdictInv, LiveInv, Ordered
<1>2. Len(order) \in Nat
  BY <1>1, OrderResult, SolverAssumption DEF Ordered
<1>3. \A i \in 1 .. Len(order) : i \in 1 .. SolvedUpTo
  BY <1>1, <1>2 DEF SolvedUpTo, SolveInv, CompInv
<1>4. ASSUME NEW v \in Var, ~isFixed[v], Fills(v, Live(ranges))
      PROVE  v \in Live(ranges)
  <2>1. PICK i \in 1 .. Len(order) : order[i] = compOf[v]
    BY <1>1, OrderResult DEF Ordered
  <2>2. v \in Members(i)
    BY <1>1, <2>1, MembersFacts
  <2> QED
    BY <1>1, <1>3, <1>4, <2>2 DEF AllFilled, Filled
<1>5. \A v \in Var : Pinned(v) <=> isFixed[v]
  BY <1>1 DEF Ordered, Prepared
<1>6. ASSUME NEW v \in Var, isFixed[v]
      PROVE  v \in Live(ranges)
  <2>1. ranges[v] = StartRange(v) /\ ~IsEmpty(StartRange(v))
    BY <1>1, <1>5, <1>6, StartRangeType DEF Pins
  <2> QED
    BY <2>1 DEF Live
<1>7. ASSUME NEW c \in ToSet(Constraints), ToSet(LhsVars(c)) \subseteq Live(ranges)
      PROVE  Rhs(c) \in Live(ranges)
  <2>1. Rhs(c) \in Var /\ c \in ToSet(Into(Rhs(c)))
    BY <1>1, ConstraintsIn
  <2>2. Fills(Rhs(c), Live(ranges))
    BY <1>1, <1>7, <2>1 DEF Fills, Ordered, Prepared
  <2> QED
    BY <1>4, <1>6, <2>1, <2>2
<1>8. PICK L : L = Live(ranges)
  OBVIOUS
<1>9. Fed \subseteq L
  BY <1>1, <1>5, <1>6, <1>7, <1>8, FedLeast
<1> QED
  BY <1>1, <1>8, <1>9 DEF Supported

(* "An empty operand is the bottom": without hard floors, an unreachable   *)
(* variable stays empty and no other does - no cycle, coefficient or       *)
(* widening invents a value, and none is lost - whenever no cap was hit,   *)
(* and even then if a component is given as many rounds as there are       *)
(* variables.                                                              *)
THEOREM FedCorrect == Spec => [](settled \/ N <= MaxIters => OnlyFedHaveValues)
<1>1. Init => FedInv
  <2> SUFFICES ASSUME Init
               PROVE  FedInv
    OBVIOUS
  <2>1. phase = "prepare"
    BY DEF Init
  <2> QED
    BY <2>1, InitVerdict DEF FedInv, LiveInv
<1>2. ASSUME FedInv
      PROVE  settled \/ N <= MaxIters => OnlyFedHaveValues
  <2> SUFFICES ASSUME settled \/ N <= MaxIters, phase = "done", sys.hardLo = << >>,
                      NEW v \in Var
               PROVE  ~IsEmpty(ranges[v]) <=> v \in Fed
    BY DEF OnlyFedHaveValues
  <2>1. Live(ranges) = Fed
    BY <1>2, DoneFed DEF Unfloored
  <2> QED
    BY <2>1 DEF Live
<1> QED
  BY <1>1, <1>2, StepFed, PTL DEF Spec
=============================================================================
