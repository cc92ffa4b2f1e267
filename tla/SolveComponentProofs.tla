------------------------ MODULE SolveComponentProofs ------------------------
(***************************************************************************)
(* Theorems about solve_component, for every component, every system of    *)
(* constraints, every sentinel INF and every cap on the rounds.            *)
(***************************************************************************)
EXTENDS SolveComponent, TLAPS

-----------------------------------------------------------------------------
(* Facts about ranges. *)

LEMMA EndpointFacts ==
  /\ INF \in Int /\ NEGINF \in Int /\ NEGINF < INF
  /\ \A x \in Endpoint : x \in Int /\ NEGINF <= x /\ x <= INF
  /\ NEGINF \in Endpoint /\ INF \in Endpoint
BY INFAssumption DEF NEGINF, Endpoint

(* The constants and the join are ranges. *)
LEMMA EmptyType == Empty \in Interval /\ IsEmpty(Empty)
BY EndpointFacts DEF Empty, Interval, IsEmpty

LEMMA HullType ==
  ASSUME NEW x \in Interval, NEW y \in Interval
  PROVE  Hull(x, y) \in Interval
BY EndpointFacts DEF Hull, Interval, Lesser, Greater, IsEmpty

LEMMA FloorType ==
  ASSUME NEW r \in Interval, NEW lo \in Endpoint
  PROVE  Floor(r, lo) \in Interval
BY EndpointFacts DEF Floor, Interval

LEMMA WidenType ==
  ASSUME NEW r \in Interval, NEW p \in Interval
  PROVE  Widen(r, p) \in Interval
BY EndpointFacts DEF Widen, Interval

(* The join contains both its operands. *)
LEMMA HullCovers ==
  ASSUME NEW x \in Interval, NEW y \in Interval
  PROVE  Leq(x, Hull(x, y)) /\ Leq(y, Hull(x, y))
<1>1. x.lo \in Int /\ x.hi \in Int /\ y.lo \in Int /\ y.hi \in Int
  BY EndpointFacts DEF Interval
<1>2. CASE IsEmpty(x)
  BY <1>1, <1>2 DEF Hull, Leq
<1>3. CASE ~IsEmpty(x) /\ IsEmpty(y)
  BY <1>1, <1>3 DEF Hull, Leq
<1>4. CASE ~IsEmpty(x) /\ ~IsEmpty(y)
  BY <1>1, <1>4 DEF Hull, Leq, Lesser, Greater
<1> QED
  BY <1>2, <1>3, <1>4

LEMMA LeqTransitive ==
  ASSUME NEW x \in Interval, NEW y \in Interval, NEW z \in Interval,
         Leq(x, y), Leq(y, z)
  PROVE  Leq(x, z)
<1>1. /\ x.lo \in Int /\ x.hi \in Int /\ y.lo \in Int
      /\ y.hi \in Int /\ z.lo \in Int /\ z.hi \in Int
  BY EndpointFacts DEF Interval
<1> QED
  BY <1>1 DEF IsEmpty, Leq

(* Neither the floor nor the widening uncovers what the join covered. *)
LEMMA FloorWidenCovers ==
  ASSUME NEW s \in Interval, NEW j \in Interval, NEW p \in Interval,
         NEW lo \in Endpoint, Leq(s, j)
  PROVE  /\ Covers(Floor(j, lo), s, lo)
         /\ Covers(Widen(Floor(j, lo), p), s, lo)
<1>1. /\ s.lo \in Int /\ s.hi \in Int /\ j.lo \in Int /\ j.hi \in Int
      /\ p.lo \in Int /\ p.hi \in Int /\ lo \in Int
      /\ NEGINF <= lo /\ s.hi <= INF /\ NEGINF \in Int /\ INF \in Int
  BY EndpointFacts DEF Interval
<1>2. CASE IsEmpty(s)
  BY <1>2 DEF Covers
<1>3. CASE ~IsEmpty(s)
  <2>1. ~IsEmpty(j) /\ s.hi <= j.hi /\ j.lo <= s.lo
    BY <1>1, <1>3 DEF IsEmpty, Leq
  <2>2. Floor(j, lo).hi = j.hi /\ Floor(j, lo).lo = IF j.lo < lo THEN lo ELSE j.lo
    BY <2>1 DEF Floor, Interval
  <2>3. /\ s.hi <= Floor(j, lo).hi
        /\ Floor(j, lo).lo <= Greater(s.lo, lo)
        /\ Floor(j, lo).lo \in Int /\ Floor(j, lo).hi \in Int
    BY <1>1, <2>1, <2>2 DEF Greater
  <2>4. /\ s.hi <= Widen(Floor(j, lo), p).hi
        /\ Widen(Floor(j, lo), p).lo <= Greater(s.lo, lo)
    BY <1>1, <2>3 DEF Widen, Greater
  <2> QED
    BY <2>3, <2>4 DEF Covers
<1> QED
  BY <1>2, <1>3

-----------------------------------------------------------------------------
(* Type correctness.  While constraints are joined, pos is inside comp, and *)
(* no round starts at the cap.                                              *)

InJoin  == pc = "join" => pos <= Len(call.comp) /\ cur \notin call.fixed
InRound == pc \in {"var", "join"} => iter < MaxIters

TypeInv == TypeOK /\ InJoin /\ InRound

LEMMA CallFacts ==
  ASSUME call \in Call, NEW i \in 1 .. Len(call.comp)
  PROVE  /\ call.comp[i] \in Var
         /\ call.byRhs[call.comp[i]] \in Seq(Constraint)
         /\ call.hardLo[call.comp[i]] \in Endpoint
BY DEF Call

LEMMA TypeInit == Init => TypeInv
<1> SUFFICES ASSUME Init PROVE TypeInv
  OBVIOUS
<1>1. call \in Call
  BY ProblemAssumption DEF Init
<1>2. call.start \in [Var -> Interval] /\ Len(call.comp) \in Nat
  BY <1>1 DEF Call
<1>3. changed \in BOOLEAN
  BY DEF Init
<1> QED
  BY <1>1, <1>2, <1>3, MaxItersAssumption, EmptyType
  DEF Init, TypeInv, TypeOK, InJoin, InRound

LEMMA TypeStep == TypeInv /\ [Next]_vars => TypeInv'
<1> SUFFICES ASSUME TypeInv, [Next]_vars PROVE TypeInv'
  OBVIOUS
<1> USE DEF TypeInv, TypeOK, InJoin, InRound
<1>1. Len(call.comp) \in Nat
  BY DEF Call
<1>2. CASE StartRound
  <2>1. changed' \in BOOLEAN
    BY <1>2 DEF StartRound
  <2> QED
    BY <1>1, <1>2, <2>1 DEF StartRound, cur
<1>3. CASE HitCap
  BY <1>1, <1>3 DEF HitCap, cur
<1>4. CASE SkipFixed
  BY <1>1, <1>4 DEF SkipFixed, cur
<1>5. CASE BeginVar
  BY <1>1, <1>5, EmptyType DEF BeginVar, cur
<1>6. CASE JoinConstraint
  <2>1. pos \in 1 .. Len(call.comp)
    BY <1>1, <1>6 DEF JoinConstraint
  <2>2. call.byRhs[cur][ci] \in Constraint
    BY <1>6, <2>1, CallFacts DEF JoinConstraint, cur
  <2>3. Eval(call.byRhs[cur][ci], ranges) \in Interval
    BY <2>2, EvalAssumption
  <2>4. acc' \in Interval
    BY <1>6, <2>3, HullType DEF JoinConstraint
  <2> QED
    BY <1>1, <1>6, <2>4 DEF JoinConstraint, cur
<1>7. CASE AssignVar
  <2>1. pos \in 1 .. Len(call.comp)
    BY <1>1, <1>7 DEF AssignVar
  <2>2. cur \in Var /\ call.hardLo[cur] \in Endpoint
    BY <2>1, CallFacts DEF cur
  <2>3. Floor(acc, call.hardLo[cur]) \in Interval
    BY <2>2, FloorType
  <2>4. Widened(Floor(acc, call.hardLo[cur])) \in Interval
    BY <2>2, <2>3, WidenType DEF Widened
  <2>5. ranges' \in [Var -> Interval]
    BY <1>7, <2>2, <2>4 DEF AssignVar
  <2>6. changed' \in BOOLEAN
    BY <1>7 DEF AssignVar
  <2> QED
    BY <1>1, <1>7, <2>1, <2>5, <2>6 DEF AssignVar, cur
<1>8. CASE EndRound
  BY <1>1, <1>8, MaxItersAssumption DEF EndRound, cur
<1>9. CASE UNCHANGED vars
  BY <1>9 DEF vars, cur
<1> QED
  BY <1>2, <1>3, <1>4, <1>5, <1>6, <1>7, <1>8, <1>9
  DEF Next, Step, Terminated

(* In every reachable state the ranges are ranges, whatever Eval computes, *)
(* the positions stay inside the component, and iter never passes the cap. *)
THEOREM TypeCorrect == Spec => []TypeOK
<1>1. TypeInv => TypeOK
  BY DEF TypeInv
<1> QED
  BY <1>1, TypeInit, TypeStep, PTL DEF Spec

-----------------------------------------------------------------------------
(* A round that changes nothing leaves a solution.  The invariant: as long *)
(* as a round has changed nothing, the ranges are those it started with    *)
(* and the variables visited so far are closed under them; and the join    *)
(* under construction contains what the constraints joined so far yield.   *)

Unchanged == pc \in {"var", "join"} /\ ~changed => ranges = prev

Joined ==
  pc = "join" =>
    \A k \in 1 .. ci - 1 : Leq(Eval(call.byRhs[cur][k], ranges), acc)

Visited ==
  pc \in {"var", "join"} /\ ~changed =>
    \A i \in Active : i < pos => Closed(call.comp[i])

GoesOn == pc = "round" => iter = 0 \/ changed

ConvergedInv ==
  /\ TypeInv
  /\ Unchanged
  /\ Joined
  /\ Visited
  /\ GoesOn
  /\ ConvergedIsSolution

LEMMA ConvergedInit == Init => ConvergedInv
BY TypeInit DEF Init, ConvergedInv, Unchanged, Joined, Visited, GoesOn,
                ConvergedIsSolution

(* The visit that ends a join closes its variable, if it changes nothing. *)
LEMMA AssignCloses ==
  ASSUME ConvergedInv, AssignVar, ~changed'
  PROVE  ranges' = ranges /\ Closed(cur)
<1> USE DEF ConvergedInv
<1> DEFINE new == Widened(Floor(acc, call.hardLo[cur]))
<1>1. pos \in 1 .. Len(call.comp) /\ cur \notin call.fixed
  BY DEF AssignVar, TypeInv, TypeOK, InJoin, Call
<1>2. /\ cur \in Var
      /\ call.byRhs[cur] \in Seq(Constraint)
      /\ call.hardLo[cur] \in Endpoint
  BY <1>1, CallFacts DEF cur, TypeInv, TypeOK
<1>3. new = ranges[cur] /\ ranges' = [ranges EXCEPT ![cur] = new]
  BY DEF AssignVar
<1>4. ranges' = ranges
  BY <1>2, <1>3 DEF TypeInv, TypeOK
<1>5. ASSUME NEW k \in 1 .. Len(call.byRhs[cur])
      PROVE  Covers(ranges[cur], Eval(call.byRhs[cur][k], ranges), call.hardLo[cur])
  <2> DEFINE s == Eval(call.byRhs[cur][k], ranges)
  <2>1. call.byRhs[cur][k] \in Constraint
    BY <1>2
  <2>2. s \in Interval
    BY <2>1, EvalAssumption DEF TypeInv, TypeOK
  <2>3. k \in 1 .. ci - 1
    BY <1>2 DEF AssignVar, TypeInv, TypeOK
  <2>4. Leq(s, acc)
    BY <2>3 DEF Joined, AssignVar
  <2>5. acc \in Interval /\ prev[cur] \in Interval
    BY <1>2 DEF TypeInv, TypeOK
  <2>6. Covers(Floor(acc, call.hardLo[cur]), s, call.hardLo[cur])
    BY <1>2, <2>2, <2>4, <2>5, FloorWidenCovers
  <2>7. Covers(Widen(Floor(acc, call.hardLo[cur]), prev[cur]), s, call.hardLo[cur])
    BY <1>2, <2>2, <2>4, <2>5, FloorWidenCovers
  <2>8. Covers(new, s, call.hardLo[cur])
    BY <2>6, <2>7 DEF Widened
  <2> QED
    BY <1>3, <2>8
<1> QED
  BY <1>4, <1>5 DEF Closed

(* A join covers one constraint more. *)
LEMMA JoinCovers ==
  ASSUME ConvergedInv, JoinConstraint
  PROVE  Joined'
<1> USE DEF ConvergedInv
<1>1. pos \in 1 .. Len(call.comp) /\ ci \in 1 .. Len(call.byRhs[cur])
  BY DEF JoinConstraint, TypeInv, TypeOK, InJoin, Call
<1>2. call.byRhs[cur] \in Seq(Constraint)
  BY <1>1, CallFacts DEF cur, TypeInv, TypeOK
<1>3. UNCHANGED <<call, ranges, pos>> /\ cur' = cur
  BY DEF JoinConstraint, cur
<1>4. \A k \in 1 .. ci : Eval(call.byRhs[cur][k], ranges) \in Interval
  <2>1. \A k \in 1 .. ci : call.byRhs[cur][k] \in Constraint
    BY <1>1, <1>2
  <2> QED
    BY <2>1, EvalAssumption DEF TypeInv, TypeOK
<1>5. acc \in Interval /\ acc' \in Interval
  BY <1>1, <1>4, HullType DEF JoinConstraint, TypeInv, TypeOK
<1>6. Leq(acc, acc') /\ Leq(Eval(call.byRhs[cur][ci], ranges), acc')
  BY <1>1, <1>4, <1>5, HullCovers DEF JoinConstraint
<1>7. ASSUME NEW k \in 1 .. ci
      PROVE  Leq(Eval(call.byRhs[cur][k], ranges), acc')
  <2>1. CASE k = ci
    BY <2>1, <1>6
  <2>2. CASE k # ci
    <3>1. k \in 1 .. ci - 1
      BY <2>2, <1>1
    <3>2. Leq(Eval(call.byRhs[cur][k], ranges), acc)
      BY <3>1 DEF Joined, JoinConstraint
    <3> QED
      BY <3>2, <1>4, <1>5, <1>6, LeqTransitive
  <2> QED
    BY <2>1, <2>2
<1>8. ci' - 1 = ci
  BY <1>1 DEF JoinConstraint
<1> QED
  BY <1>3, <1>7, <1>8 DEF Joined

LEMMA ConvergedStep == ConvergedInv /\ [Next]_vars => ConvergedInv'
<1> SUFFICES ASSUME ConvergedInv, [Next]_vars PROVE ConvergedInv'
  OBVIOUS
<1> USE DEF ConvergedInv
<1>0. TypeInv'
  BY TypeStep
<1>1. CASE StartRound
  <2>1. Visited'
    BY <1>1 DEF StartRound, Visited, Active
  <2> QED
    BY <1>0, <1>1, <2>1
    DEF StartRound, Unchanged, Joined, GoesOn, ConvergedIsSolution
<1>2. CASE HitCap
  <2>1. changed
    BY <1>2, MaxItersAssumption DEF HitCap, GoesOn
  <2>2. pc' = "done" /\ changed' = changed
    BY <1>2 DEF HitCap
  <2>3. Unchanged' /\ Joined' /\ Visited' /\ GoesOn'
    BY <2>2 DEF Unchanged, Joined, Visited, GoesOn
  <2>4. ConvergedIsSolution'
    BY <2>1, <2>2 DEF ConvergedIsSolution
  <2> QED
    BY <1>0, <2>3, <2>4
<1>3. CASE SkipFixed
  <2>1. Visited'
    <3>1. /\ pos' = pos + 1 /\ call.comp[pos] \in call.fixed
          /\ call' = call /\ ranges' = ranges /\ changed' = changed /\ pc' = pc
      BY <1>3 DEF SkipFixed, cur
    <3>2. Active' = Active /\ pos \notin Active /\ \A w : Closed(w)' = Closed(w)
      BY <3>1 DEF Active, Closed
    <3>3. \A i \in Active : i < pos + 1 => i < pos
      BY <3>2 DEF Active, TypeInv, TypeOK
    <3> QED
      BY <3>1, <3>2, <3>3 DEF Visited, Closed
  <2> QED
    BY <1>0, <1>3, <2>1
    DEF SkipFixed, Unchanged, Joined, GoesOn, ConvergedIsSolution
<1>4. CASE BeginVar
  <2>1. Visited'
    BY <1>4 DEF BeginVar, Visited, Active, Closed
  <2>2. Joined'
    BY <1>4 DEF BeginVar, Joined
  <2> QED
    BY <1>0, <1>4, <2>1, <2>2
    DEF BeginVar, Unchanged, GoesOn, ConvergedIsSolution
<1>5. CASE JoinConstraint
  <2>1. Visited'
    BY <1>5 DEF JoinConstraint, Visited, Active, Closed
  <2> QED
    BY <1>0, <1>5, <2>1, JoinCovers
    DEF JoinConstraint, Unchanged, GoesOn, ConvergedIsSolution
<1>6. CASE AssignVar
  <2>1. Visited' /\ Unchanged'
    <3>1. CASE changed'
      BY <3>1 DEF Visited, Unchanged
    <3>2. CASE ~changed'
      <4>1. ranges' = ranges /\ Closed(cur) /\ ~changed
        BY <1>6, <3>2, AssignCloses DEF AssignVar
      <4>2. \A i \in Active : i < pos + 1 => Closed(call.comp[i])
        BY <1>6, <4>1 DEF AssignVar, Visited, Active, cur, TypeInv, TypeOK
      <4> QED
        BY <1>6, <4>1, <4>2 DEF AssignVar, Visited, Unchanged, Active, Closed
    <3> QED
      BY <3>1, <3>2
  <2> QED
    BY <1>0, <1>6, <2>1 DEF AssignVar, Joined, GoesOn, ConvergedIsSolution
<1>7. CASE EndRound
  <2>1. ConvergedIsSolution'
    <3>1. CASE changed
      BY <1>7, <3>1 DEF EndRound, ConvergedIsSolution
    <3>2. CASE ~changed
      <4>1. \A i \in Active : i < pos
        BY <1>7 DEF EndRound, Active, TypeInv, TypeOK, Call
      <4>2. \A i \in Active : Closed(call.comp[i])
        BY <1>7, <3>2, <4>1 DEF EndRound, Visited
      <4> QED
        BY <1>7, <4>2 DEF EndRound, ConvergedIsSolution, Active, Closed
    <3> QED
      BY <3>1, <3>2
  <2> QED
    BY <1>0, <1>7, <2>1 DEF EndRound, Unchanged, Joined, Visited, GoesOn
<1>8. CASE UNCHANGED vars
  BY <1>0, <1>8 DEF vars, Unchanged, Joined, Visited, GoesOn, cur,
                    ConvergedIsSolution, Active, Closed
<1> QED
  BY <1>1, <1>2, <1>3, <1>4, <1>5, <1>6, <1>7, <1>8
  DEF Next, Step, Terminated

(* When the iteration stops on a round that changed nothing, the ranges    *)
(* satisfy every constraint into the component: for every component, every *)
(* set of constraints and every order in which they are visited.           *)
THEOREM ConvergedSolves == Spec => []ConvergedIsSolution
<1>1. ConvergedInv => ConvergedIsSolution
  BY DEF ConvergedInv
<1> QED
  BY <1>1, ConvergedInit, ConvergedStep, PTL DEF Spec
-----------------------------------------------------------------------------
(* Outside cycles the result is exact, for every cap of at least two       *)
(* rounds.  Facts about joins first.                                       *)

LEMMA Ints ==
  ASSUME NEW r \in Interval
  PROVE  r.lo \in Int /\ r.hi \in Int
BY EndpointFacts DEF Interval

LEMMA HullIsLeast ==
  ASSUME NEW x \in Interval, NEW y \in Interval, NEW b \in Interval,
         Leq(x, b), Leq(y, b)
  PROVE  Leq(Hull(x, y), b)
<1>1. /\ x.lo \in Int /\ x.hi \in Int /\ y.lo \in Int
      /\ y.hi \in Int /\ b.lo \in Int /\ b.hi \in Int
  BY Ints
<1> QED
  BY <1>1 DEF Hull, Leq, IsEmpty, Lesser, Greater

LEMMA LeqAntisymmetric ==
  ASSUME NEW x \in Interval, NEW y \in Interval, ~IsEmpty(x), ~IsEmpty(y),
         Leq(x, y), Leq(y, x)
  PROVE  x = y
<1>1. /\ x.lo \in Int /\ x.hi \in Int /\ y.lo \in Int /\ y.hi \in Int
  BY Ints
<1>2. x.lo = y.lo /\ x.hi = y.hi
  BY <1>1 DEF Leq
<1> QED
  BY <1>2 DEF Interval

(* A range is not widened against itself. *)
LEMMA WidenSame ==
  ASSUME NEW r \in Interval
  PROVE  Widen(r, r) = r
<1>1. ~(r.lo < r.lo) /\ ~(r.hi > r.hi)
  BY Ints
<1> QED
  BY <1>1 DEF Widen, Interval

-----------------------------------------------------------------------------
(* What the constraints into the one variable of the call cl send to it,   *)
(* and the join of the first n as the code computes it: an empty operand   *)
(* is neutral, so of empty ranges only the last remains.                   *)

Lone(cl) == cl.comp[1]

Sends(cl, k) == Eval(cl.byRhs[Lone(cl)][k], cl.start)

Inflows(cl) == Len(cl.byRhs[Lone(cl)])

Alone(cl) ==
  /\ cl \in Call
  /\ Len(cl.comp) = 1
  /\ Lone(cl) \notin cl.fixed
  /\ \A k \in 1 .. Inflows(cl) : \A x \in Interval :
       Eval(cl.byRhs[Lone(cl)][k], [cl.start EXCEPT ![Lone(cl)] = x]) = Sends(cl, k)

JoinOf(cl, n, a) ==
  IF \A k \in 1 .. n : IsEmpty(Sends(cl, k))
  THEN a = IF n = 0 THEN Empty ELSE Sends(cl, n)
  ELSE ~IsEmpty(a) /\ IsJoin(a, {Sends(cl, k) : k \in 1 .. n})

(* The range the variable has in the end. *)
Final(cl, r) ==
  \E j \in Interval :
    JoinOf(cl, Inflows(cl), j) /\ r = Floor(j, cl.hardLo[Lone(cl)])

LEMMA AloneFacts ==
  ASSUME NEW cl, Alone(cl)
  PROVE  /\ Lone(cl) \in Var /\ Inflows(cl) \in Nat
         /\ cl.hardLo[Lone(cl)] \in Endpoint
         /\ cl.start \in [Var -> Interval]
         /\ \A k \in 1 .. Inflows(cl) : Sends(cl, k) \in Interval
<1>1. cl \in Call /\ Len(cl.comp) = 1
  BY DEF Alone
<1>2. Lone(cl) \in Var /\ cl.start \in [Var -> Interval]
  BY <1>1 DEF Lone, Call
<1>3. cl.byRhs[Lone(cl)] \in Seq(Constraint) /\ cl.hardLo[Lone(cl)] \in Endpoint
  BY <1>1, <1>2 DEF Call
<1>4. ASSUME NEW k \in 1 .. Inflows(cl)
      PROVE  Sends(cl, k) \in Interval
  <2>1. cl.byRhs[Lone(cl)][k] \in Constraint
    BY <1>3, <1>4 DEF Inflows
  <2> QED
    BY <1>2, <2>1, EvalAssumption DEF Sends
<1> QED
  BY <1>2, <1>3, <1>4 DEF Inflows

LEMMA EmptyLeq ==
  ASSUME NEW x, IsEmpty(x), NEW y
  PROVE  Leq(x, y)
BY DEF Leq

LEMMA JoinOfIsJoin ==
  ASSUME NEW cl, NEW n \in Nat, NEW a, JoinOf(cl, n, a)
  PROVE  IsJoin(a, {Sends(cl, k) : k \in 1 .. n})
<1>1. CASE \A k \in 1 .. n : IsEmpty(Sends(cl, k))
  <2>1. IsEmpty(a)
    <3>1. a = IF n = 0 THEN Empty ELSE Sends(cl, n)
      BY <1>1 DEF JoinOf
    <3>2. n # 0 => n \in 1 .. n
      OBVIOUS
    <3> QED
      BY <1>1, <3>1, <3>2, EmptyType
  <2> QED
    BY <1>1, <2>1, EmptyLeq DEF IsJoin
<1>2. CASE ~\A k \in 1 .. n : IsEmpty(Sends(cl, k))
  BY <1>2 DEF JoinOf
<1> QED
  BY <1>1, <1>2

LEMMA JoinOfUnique ==
  ASSUME NEW cl, NEW n \in Nat, NEW a \in Interval, NEW b \in Interval,
         JoinOf(cl, n, a), JoinOf(cl, n, b)
  PROVE  a = b
<1>1. CASE \A k \in 1 .. n : IsEmpty(Sends(cl, k))
  BY <1>1 DEF JoinOf
<1>2. CASE ~\A k \in 1 .. n : IsEmpty(Sends(cl, k))
  <2>1. ~IsEmpty(a) /\ ~IsEmpty(b)
    BY <1>2 DEF JoinOf
  <2>2. Leq(a, b) /\ Leq(b, a)
    BY JoinOfIsJoin DEF IsJoin
  <2> QED
    BY <2>1, <2>2, LeqAntisymmetric
<1> QED
  BY <1>1, <1>2

(* One constraint more. *)
LEMMA JoinOfNext ==
  ASSUME NEW cl, Alone(cl), NEW n \in Nat, n + 1 <= Inflows(cl),
         NEW a \in Interval, JoinOf(cl, n, a)
  PROVE  JoinOf(cl, n + 1, Hull(a, Sends(cl, n + 1)))
<1> DEFINE s == Sends(cl, n + 1)
           h == Hull(a, s)
<1>1. \A k \in 1 .. n + 1 : Sends(cl, k) \in Interval
  BY AloneFacts
<1>2. n + 1 \in 1 .. n + 1 /\ (\A k \in 1 .. n + 1 : k \in 1 .. n \/ k = n + 1)
      /\ (\A k \in 1 .. n : k \in 1 .. n + 1)
  OBVIOUS
<1>3. s \in Interval
  BY <1>1, <1>2
<1>4. h \in Interval
  BY <1>3, HullType
<1>5. IsJoin(a, {Sends(cl, k) : k \in 1 .. n})
  BY JoinOfIsJoin
<1> HIDE DEF s, h
<1>6. CASE \A k \in 1 .. n + 1 : IsEmpty(Sends(cl, k))
  <2>1. \A k \in 1 .. n : IsEmpty(Sends(cl, k))
    BY <1>2, <1>6
  <2>2. IsEmpty(a)
    <3>1. a = IF n = 0 THEN Empty ELSE Sends(cl, n)
      BY <2>1 DEF JoinOf
    <3>2. n # 0 => n \in 1 .. n
      OBVIOUS
    <3> QED
      BY <2>1, <3>1, <3>2, EmptyType
  <2>3. h = s
    BY <2>2 DEF h, Hull
  <2>4. n + 1 # 0
    OBVIOUS
  <2> QED
    BY <1>6, <2>3, <2>4 DEF JoinOf, h, s
<1>7. CASE ~\A k \in 1 .. n + 1 : IsEmpty(Sends(cl, k))
  <2>1. ~IsEmpty(h)
    <3>1. CASE IsEmpty(s)
      <4>1. ~\A k \in 1 .. n : IsEmpty(Sends(cl, k))
        BY <1>2, <1>7, <3>1 DEF s
      <4>2. ~IsEmpty(a)
        BY <4>1 DEF JoinOf
      <4> QED
        BY <3>1, <4>2 DEF h, Hull
    <3>2. CASE ~IsEmpty(s)
      <4>1. Leq(s, h)
        BY <1>3, HullCovers DEF h
      <4> QED
        BY <1>3, <1>4, <3>2, <4>1, Ints DEF Leq, IsEmpty
    <3> QED
      BY <3>1, <3>2
  <2>2. \A k \in 1 .. n + 1 : Leq(Sends(cl, k), h)
    <3> TAKE k \in 1 .. n + 1
    <3>1. CASE k = n + 1
      BY <1>3, <3>1, HullCovers DEF h, s
    <3>2. CASE k \in 1 .. n
      <4>1. Leq(Sends(cl, k), a)
        BY <1>5, <3>2 DEF IsJoin
      <4>2. Leq(a, h)
        BY <1>3, HullCovers DEF h
      <4> QED
        BY <1>1, <1>4, <4>1, <4>2, LeqTransitive
    <3> QED
      BY <1>2, <3>1, <3>2
  <2>3. ASSUME NEW b \in Interval, \A k \in 1 .. n + 1 : Leq(Sends(cl, k), b)
        PROVE  Leq(h, b)
    <3>1. Leq(s, b)
      BY <1>2, <2>3 DEF s
    <3>2. \A x \in {Sends(cl, k) : k \in 1 .. n} : Leq(x, b)
      BY <1>2, <2>3
    <3>3. Leq(a, b)
      BY <1>5, <3>2 DEF IsJoin
    <3> QED
      BY <1>3, <3>1, <3>3, HullIsLeast DEF h
  <2>4. IsJoin(h, {Sends(cl, k) : k \in 1 .. n + 1})
    BY <2>2, <2>3 DEF IsJoin
  <2> QED
    BY <1>7, <2>1, <2>4 DEF JoinOf, h, s
<1> QED
  BY <1>6, <1>7

-----------------------------------------------------------------------------
(* The inductive invariant.  Only the one variable changes ... *)
OnlyHome == ranges = [call.start EXCEPT ![Lone(call)] = ranges[Lone(call)]]

(* ... the join is that of the constraints seen so far ... *)
HoldsJoin ==
  pc = "join" =>
    /\ pos = 1 /\ ci <= Inflows(call) + 1
    /\ JoinOf(call, ci - 1, acc)

(* ... the first visit settles the variable ... *)
Settled ==
  iter = 1 \/ pc = "done" \/ (pc = "var" /\ pos # 1) => Final(call, ranges[Lone(call)])

(* ... and the second round finds it settled. *)
Confirmed ==
  /\ iter <= 1
  /\ iter = 1 /\ pc \in {"var", "join"} => prev[Lone(call)] = ranges[Lone(call)] /\ ~changed
  /\ pc = "done" => ~changed

ExactInv ==
  /\ TypeInv
  /\ MaxIters > 1 /\ Alone(call) => OnlyHome /\ HoldsJoin /\ Settled /\ Confirmed

LEMMA ExactInit == Init => ExactInv
<1> SUFFICES ASSUME Init
             PROVE  ExactInv
  OBVIOUS
<1>1. TypeInv
  BY TypeInit
<1>2. ASSUME Alone(call)
      PROVE  OnlyHome
  <2>1. Lone(call) \in Var /\ call.start \in [Var -> Interval] /\ ranges = call.start
    BY <1>2, AloneFacts DEF Init
  <2> QED
    BY <2>1 DEF OnlyHome
<1>3. HoldsJoin /\ Settled /\ Confirmed
  BY DEF Init, HoldsJoin, Settled, Confirmed
<1> QED
  BY <1>1, <1>2, <1>3 DEF ExactInv

(* What the invariant says of the present position. *)
LEMMA PlaceFacts ==
  ASSUME TypeInv, Alone(call)
  PROVE  /\ Len(call.comp) = 1 /\ pos \in {1, 2} /\ iter \in Nat
         /\ pos = 1 => cur = Lone(call) /\ cur \notin call.fixed
         /\ Lone(call) \in Var
         /\ acc \in Interval /\ ci \in Nat \ {0} /\ ranges \in [Var -> Interval]
         /\ prev \in [Var -> Interval]
<1>1. Len(call.comp) = 1 /\ Lone(call) \notin call.fixed
  BY DEF Alone
<1>2. /\ pos \in 1 .. Len(call.comp) + 1 /\ iter \in 0 .. MaxIters
      /\ acc \in Interval /\ ci \in Nat \ {0} /\ ranges \in [Var -> Interval]
      /\ prev \in [Var -> Interval]
  BY DEF TypeInv, TypeOK
<1>3. pos \in {1, 2}
  BY <1>1, <1>2
<1> QED
  BY <1>1, <1>2, <1>3, AloneFacts DEF cur, Lone

(* The constraints see only what the call started with. *)
LEMMA SeesStart ==
  ASSUME TypeInv, Alone(call), OnlyHome, NEW k \in 1 .. Inflows(call)
  PROVE  Eval(call.byRhs[Lone(call)][k], ranges) = Sends(call, k)
<1>1. PICK x \in Interval : x = ranges[Lone(call)]
  BY PlaceFacts
<1>2. ranges = [call.start EXCEPT ![Lone(call)] = x]
  BY <1>1 DEF OnlyHome
<1> QED
  BY <1>2 DEF Alone

LEMMA ExactJoin == ExactInv /\ JoinConstraint => ExactInv'
<1> SUFFICES ASSUME ExactInv, JoinConstraint
             PROVE  ExactInv'
  OBVIOUS
<1>1. TypeInv /\ TypeInv'
  BY TypeStep DEF ExactInv, Next, Step
<1>2. /\ pc = "join" /\ pc' = "join" /\ ci <= Len(call.byRhs[cur]) /\ ci' = ci + 1
      /\ acc' = Hull(acc, Eval(call.byRhs[cur][ci], ranges))
      /\ UNCHANGED <<call, ranges, iter, prev, changed, pos>>
  BY DEF JoinConstraint
<1>3. ASSUME MaxIters > 1, Alone(call)
      PROVE  OnlyHome' /\ HoldsJoin' /\ Settled' /\ Confirmed'
  <2>1. OnlyHome /\ HoldsJoin /\ Settled /\ Confirmed
    BY <1>3 DEF ExactInv
  <2>2. pos = 1 /\ JoinOf(call, ci - 1, acc) /\ cur = Lone(call)
        /\ ci \in Nat \ {0} /\ acc \in Interval
    BY <1>1, <1>2, <1>3, <2>1, PlaceFacts DEF HoldsJoin
  <2>3. ci \in 1 .. Inflows(call) /\ ci - 1 \in Nat /\ (ci - 1) + 1 = ci /\ Inflows(call) \in Nat
    BY <1>2, <1>3, <2>2, AloneFacts DEF Inflows
  <2>4. acc' = Hull(acc, Sends(call, ci))
    BY <1>1, <1>2, <1>3, <2>1, <2>2, <2>3, SeesStart
  <2>5. JoinOf(call, ci, acc')
    <3>1. PICK n \in Nat : n = ci - 1 /\ n + 1 = ci
      BY <2>3
    <3>2. JoinOf(call, n, acc) /\ n + 1 <= Inflows(call)
      BY <2>2, <2>3, <3>1
    <3>3. JoinOf(call, n + 1, Hull(acc, Sends(call, n + 1)))
      BY <1>3, <2>2, <3>2, JoinOfNext
    <3> QED
      BY <2>4, <3>1, <3>3
  <2>6. HoldsJoin'
    <3>1. ci' - 1 = ci /\ ci' <= Inflows(call) + 1
      BY <1>2, <2>3
    <3> QED
      BY <1>2, <2>2, <2>5, <3>1 DEF HoldsJoin
  <2> QED
    BY <1>2, <2>1, <2>6 DEF OnlyHome, Settled, Confirmed
<1> QED
  BY <1>1, <1>2, <1>3 DEF ExactInv

LEMMA ExactAssign == ExactInv /\ AssignVar => ExactInv'
<1> SUFFICES ASSUME ExactInv, AssignVar
             PROVE  ExactInv'
  OBVIOUS
<1>1. TypeInv /\ TypeInv'
  BY TypeStep DEF ExactInv, Next, Step
<1> DEFINE new == Widened(Floor(acc, call.hardLo[cur]))
<1>2. /\ pc = "join" /\ pc' = "var" /\ ci > Len(call.byRhs[cur]) /\ pos' = pos + 1
      /\ ranges' = [ranges EXCEPT ![cur] = new]
      /\ changed' = (changed \/ new # ranges[cur])
      /\ UNCHANGED <<call, iter, prev, ci, acc>>
  BY DEF AssignVar
<1> HIDE DEF new
<1>3. ASSUME MaxIters > 1, Alone(call)
      PROVE  OnlyHome' /\ HoldsJoin' /\ Settled' /\ Confirmed'
  <2>1. OnlyHome /\ HoldsJoin /\ Settled /\ Confirmed
    BY <1>3 DEF ExactInv
  <2>2. /\ pos = 1 /\ JoinOf(call, ci - 1, acc) /\ cur = Lone(call)
        /\ ci \in Nat \ {0} /\ acc \in Interval /\ ci <= Inflows(call) + 1
        /\ ranges \in [Var -> Interval] /\ cur \in Var /\ iter \in Nat
    BY <1>1, <1>2, <1>3, <2>1, PlaceFacts DEF HoldsJoin
  <2>3. ci - 1 = Inflows(call) /\ Inflows(call) \in Nat
    BY <1>2, <1>3, <2>2, AloneFacts DEF Inflows
  <2> DEFINE f == Floor(acc, call.hardLo[cur])
  <2>4. f \in Interval /\ Final(call, f)
    <3>1. call.hardLo[cur] \in Endpoint
      BY <1>3, <2>2, AloneFacts
    <3> QED
      BY <2>2, <2>3, <3>1, FloorType DEF Final
  <2>5. new = f
    <3>1. CASE iter = 0
      BY <3>1 DEF new, Widened
    <3>2. CASE iter = 1
      <4>1. prev[cur] = ranges[cur] /\ Final(call, ranges[cur])
        BY <1>2, <2>1, <2>2, <3>2 DEF Confirmed, Settled
      <4>2. PICK j \in Interval : /\ JoinOf(call, Inflows(call), j)
                                  /\ ranges[cur] = Floor(j, call.hardLo[cur])
        BY <2>2, <4>1 DEF Final
      <4>3. JoinOf(call, Inflows(call), acc)
        BY <2>2, <2>3
      <4>4. j = acc
        BY <2>2, <2>3, <4>2, <4>3, JoinOfUnique
      <4>5. prev[cur] = f
        BY <4>1, <4>2, <4>4
      <4>6. Widen(f, f) = f
        BY <2>4, WidenSame
      <4> HIDE DEF f
      <4>7. new = IF iter > 0 /\ ~IsEmpty(prev[cur]) THEN Widen(f, prev[cur]) ELSE f
        BY DEF new, Widened, f
      <4> QED
        BY <4>5, <4>6, <4>7
    <3>3. iter = 0 \/ iter = 1
      BY <2>1, <2>2 DEF Confirmed
    <3> QED
      BY <3>1, <3>2, <3>3
  <2> HIDE DEF f
  <2>6. ranges'[Lone(call)] = f /\ ranges' = [ranges EXCEPT ![Lone(call)] = f]
    BY <1>2, <2>2, <2>5
  <2>7. OnlyHome'
    <3>1. call' = call /\ call.start \in [Var -> Interval]
      BY <1>2, <1>3, AloneFacts
    <3>2. ranges = [call.start EXCEPT ![Lone(call)] = ranges[Lone(call)]]
      BY <2>1 DEF OnlyHome
    <3>3. ranges' = [call.start EXCEPT ![Lone(call)] = f]
      BY <2>2, <2>6, <3>1, <3>2
    <3> QED
      BY <2>6, <3>1, <3>3 DEF OnlyHome
  <2>8. Settled'
    BY <1>2, <2>4, <2>6 DEF Settled
  <2>9. Confirmed'
    <3>1. CASE iter = 1
      <4>1. prev[Lone(call)] = ranges[Lone(call)] /\ ~changed /\ Final(call, ranges[Lone(call)])
        BY <1>2, <2>1, <3>1 DEF Confirmed, Settled
      <4>2. PICK j \in Interval : /\ JoinOf(call, Inflows(call), j)
                                  /\ ranges[Lone(call)] = Floor(j, call.hardLo[Lone(call)])
        BY <4>1 DEF Final
      <4>3. j = acc
        BY <2>2, <2>3, <4>2, JoinOfUnique
      <4>4. ranges[Lone(call)] = f
        BY <2>2, <4>2, <4>3 DEF f
      <4> QED
        BY <1>2, <2>1, <2>2, <2>5, <2>6, <4>1, <4>4 DEF Confirmed
    <3>2. CASE iter # 1
      BY <1>2, <2>1, <3>2 DEF Confirmed
    <3> QED
      BY <3>1, <3>2
  <2>10. HoldsJoin'
    BY <1>2 DEF HoldsJoin
  <2> QED
    BY <2>7, <2>8, <2>9, <2>10
<1> QED
  BY <1>1, <1>2, <1>3 DEF ExactInv

(* The other steps leave the ranges alone. *)
LEMMA ExactOther ==
  ExactInv /\ (StartRound \/ HitCap \/ SkipFixed \/ BeginVar \/ EndRound \/ UNCHANGED vars)
    => ExactInv'
<1> SUFFICES ASSUME ExactInv,
                    StartRound \/ HitCap \/ SkipFixed \/ BeginVar \/ EndRound \/ UNCHANGED vars
             PROVE  ExactInv'
  OBVIOUS
<1>1. TypeInv /\ TypeInv'
  BY TypeStep DEF ExactInv, Next, Step
<1>2. UNCHANGED <<call, ranges>>
  BY DEF StartRound, HitCap, SkipFixed, BeginVar, EndRound, vars
<1>3. ASSUME MaxIters > 1, Alone(call)
      PROVE  OnlyHome' /\ HoldsJoin' /\ Settled' /\ Confirmed'
  <2>1. OnlyHome /\ HoldsJoin /\ Settled /\ Confirmed
    BY <1>3 DEF ExactInv
  <2>2. /\ Len(call.comp) = 1 /\ pos \in {1, 2} /\ iter \in Nat
        /\ pos = 1 => cur \notin call.fixed
    BY <1>1, <1>3, PlaceFacts
  <2>3. Inflows(call) \in Nat
    BY <1>3, AloneFacts
  <2>4. OnlyHome'
    BY <1>2, <2>1 DEF OnlyHome
  <2>5. CASE StartRound
    BY <1>2, <2>1, <2>2, <2>5 DEF StartRound, HoldsJoin, Settled, Confirmed, OnlyHome
  <2>6. CASE HitCap
    BY <1>3, <2>1, <2>2, <2>6 DEF HitCap, Confirmed
  <2>7. CASE SkipFixed
    <3>1. pos = 1
      BY <2>2, <2>7 DEF SkipFixed
    <3> QED
      BY <2>2, <2>7, <3>1 DEF SkipFixed
  <2>8. CASE BeginVar
    <3>1. /\ pc = "var" /\ pc' = "join" /\ acc' = Empty /\ ci' = 1 /\ pos <= Len(call.comp)
          /\ UNCHANGED <<call, ranges, iter, prev, changed, pos>>
      BY <2>8 DEF BeginVar
    <3>2. pos = 1
      BY <2>2, <3>1
    <3>3. JoinOf(call, 0, Empty)
      BY DEF JoinOf
    <3>4. HoldsJoin'
      BY <2>3, <3>1, <3>2, <3>3 DEF HoldsJoin
    <3> QED
      BY <2>1, <2>4, <3>1, <3>4 DEF Settled, Confirmed
  <2>9. CASE EndRound
    <3>1. /\ pc = "var" /\ pos # 1 /\ UNCHANGED <<call, ranges, prev, changed, pos>>
          /\ \/ changed /\ pc' = "round" /\ iter' = iter + 1
             \/ ~changed /\ pc' = "done" /\ iter' = iter
      BY <2>2, <2>9 DEF EndRound
    <3>2. Final(call, ranges[Lone(call)])
      BY <2>1, <3>1 DEF Settled
    <3>3. changed => iter = 0
      BY <2>1, <2>2, <3>1 DEF Confirmed
    <3>4. Settled'
      BY <3>1, <3>2 DEF Settled
    <3>5. Confirmed'
      BY <2>1, <3>1, <3>3 DEF Confirmed
    <3>6. HoldsJoin'
      BY <3>1 DEF HoldsJoin
    <3> QED
      BY <2>4, <3>4, <3>5, <3>6
  <2>10. CASE UNCHANGED vars
    BY <2>1, <2>4, <2>10 DEF vars, HoldsJoin, Settled, Confirmed
  <2> QED
    BY <2>4, <2>5, <2>6, <2>7, <2>8, <2>9, <2>10
<1> QED
  BY <1>1, <1>2, <1>3 DEF ExactInv

LEMMA ExactStep == ExactInv /\ [Next]_vars => ExactInv'
BY ExactJoin, ExactAssign, ExactOther DEF Next, Step, Terminated

LEMMA InvIsExact == ExactInv => (MaxIters > 1 => AcyclicIsExact)
<1> SUFFICES ASSUME ExactInv, MaxIters > 1, pc = "done", Acyclic
             PROVE  LET w == call.comp[1]
                    IN  /\ ~changed
                        /\ iter <= 1
                        /\ \E j \in Interval :
                             /\ IsJoin(j, {Eval(c, ranges) : c \in Inflow(w)})
                             /\ ranges[w] = Floor(j, call.hardLo[w])
  BY DEF AcyclicIsExact
<1>1. TypeInv /\ call \in Call
  BY DEF ExactInv, TypeInv, TypeOK
<1>2. Alone(call)
  <2>1. Len(call.comp) = 1 /\ Lone(call) \notin call.fixed
    BY DEF Acyclic, Lone
  <2>2. \A c \in Inflow(Lone(call)) : Independent(c, Lone(call))
    BY DEF Acyclic, Lone
  <2>3. ASSUME NEW k \in 1 .. Inflows(call), NEW x \in Interval
        PROVE  Eval(call.byRhs[Lone(call)][k], [call.start EXCEPT ![Lone(call)] = x])
                 = Sends(call, k)
    <3>1. PICK c : c = call.byRhs[Lone(call)][k]
      OBVIOUS
    <3>2. c \in Inflow(Lone(call))
      BY <3>1 DEF Inflow, Inflows
    <3>3. Independent(c, Lone(call))
      BY <2>2, <3>2
    <3>4. Eval(c, [call.start EXCEPT ![Lone(call)] = x]) = Eval(c, call.start)
      BY <3>3 DEF Independent
    <3> QED
      BY <3>1, <3>4 DEF Sends
  <2> QED
    BY <1>1, <2>1, <2>3 DEF Alone
<1>3. OnlyHome /\ Settled /\ Confirmed
  BY <1>2 DEF ExactInv
<1>4. PICK j \in Interval : /\ JoinOf(call, Inflows(call), j)
                            /\ ranges[Lone(call)] = Floor(j, call.hardLo[Lone(call)])
  BY <1>3 DEF Settled, Final
<1>5. IsJoin(j, {Sends(call, k) : k \in 1 .. Inflows(call)})
  BY <1>2, <1>4, AloneFacts, JoinOfIsJoin
<1>6. \A k \in 1 .. Inflows(call) : Eval(call.byRhs[Lone(call)][k], ranges) = Sends(call, k)
  BY <1>1, <1>2, <1>3, SeesStart
<1>7. {Eval(c, ranges) : c \in Inflow(Lone(call))} = {Sends(call, k) : k \in 1 .. Inflows(call)}
  <2>1. Inflow(Lone(call)) = {call.byRhs[Lone(call)][k] : k \in 1 .. Inflows(call)}
    BY DEF Inflow, Inflows
  <2>2. {Eval(c, ranges) : c \in Inflow(Lone(call))}
          = {Eval(call.byRhs[Lone(call)][k], ranges) : k \in 1 .. Inflows(call)}
    BY <2>1
  <2> QED
    BY <1>6, <2>2
<1>8. ~changed /\ iter <= 1
  BY <1>3 DEF Confirmed
<1> QED
  BY <1>4, <1>5, <1>7, <1>8 DEF Lone

(* Merges outside cycles "are never widened, so finite ranges stay exact": *)
(* with a cap of two rounds or more, a variable that no constraint into it *)
(* depends on ends with exactly the join of its constraints, cut by its    *)
(* floor, after one round that sets it and at most one that confirms it.   *)
THEOREM AcyclicExact == Spec => [](MaxIters > 1 => AcyclicIsExact)
<1> QED
  BY ExactInit, ExactStep, InvIsExact, PTL DEF Spec

=============================================================================
