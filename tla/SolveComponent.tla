--------------------------- MODULE SolveComponent ---------------------------
(***************************************************************************)
(* solver.rs solve_component: the fixpoint iteration over one strongly     *)
(* connected component, with interval widening and a cap on the rounds.    *)
(*                                                                         *)
(* The function is sequential.  Its rounds visit the component's variables *)
(* in the order of comp, and a visit joins the constraints that flow into  *)
(* the variable one at a time, each evaluated on the ranges as they are    *)
(* then, those already updated in the same round included.  A visit        *)
(* replaces the variable's range, it does not join with it.                *)
(*                                                                         *)
(* What a constraint evaluates to is the parameter Eval, of which the      *)
(* component needs only that it yields ranges (EvalAssumption).            *)
(***************************************************************************)
EXTENDS Ranges, Sequences

CONSTANTS
  Var,           \* the canonical variables
  Constraint,    \* the constraints of the system
  Eval(_, _),    \* Eval(c, ranges): what c sends to its right-hand side
  MaxIters,      \* the cap on the rounds, 1000 in the code
  Problem        \* the calls: component, constraints, pins, floors, ranges

ASSUME MaxItersAssumption == MaxIters \in Nat \ {0}

ASSUME EvalAssumption ==
  \A c \in Constraint : \A r \in [Var -> Interval] : Eval(c, r) \in Interval

(* What the function is called with.  A variable without a hard lower     *)
(* bound has the floor NEGINF, which is where solve starts every floor.    *)
Call == [comp   : Seq(Var),
         byRhs  : [Var -> Seq(Constraint)],
         fixed  : SUBSET Var,
         hardLo : [Var -> Endpoint],
         start  : [Var -> Interval]]

ASSUME ProblemAssumption == \A p \in Problem : p \in Call

VARIABLES
  call,     \* the arguments; never changes
  ranges,   \* the assignment under construction
  iter,     \* the round, from 0
  prev,     \* the ranges at the start of the round
  changed,  \* has this round changed a range
  pos,      \* the position in comp
  ci,       \* the position among the constraints of comp[pos]
  acc,      \* their join so far
  pc        \* "round", "var", "join", "done"

vars == <<call, ranges, iter, prev, changed, pos, ci, acc, pc>>

Init ==
  /\ call \in Problem
  /\ ranges = call.start
  /\ prev = call.start
  /\ iter = 0
  /\ changed = FALSE
  /\ pos = 1
  /\ ci = 1
  /\ acc = Empty
  /\ pc = "round"

(* The variable being visited. *)
cur == call.comp[pos]

-----------------------------------------------------------------------------
(* Mutant: the rounds are not capped. *)
StartRoundUncapped ==
  /\ pc = "round"
  /\ prev' = ranges
  /\ changed' = FALSE
  /\ pos' = 1
  /\ pc' = "var"
  /\ UNCHANGED <<call, ranges, iter, ci, acc>>

(* for iter in 0..max_iters: snapshot the component. *)
StartRound ==
  /\ pc = "round"
  /\ iter < MaxIters
  /\ prev' = ranges
  /\ changed' = FALSE
  /\ pos' = 1
  /\ pc' = "var"
  /\ UNCHANGED <<call, ranges, iter, ci, acc>>

(* The loop's range is exhausted. *)
HitCap ==
  /\ pc = "round"
  /\ iter = MaxIters
  /\ pc' = "done"
  /\ UNCHANGED <<call, ranges, iter, prev, changed, pos, ci, acc>>

SkipFixed ==
  /\ pc = "var"
  /\ pos <= Len(call.comp)
  /\ cur \in call.fixed
  /\ pos' = pos + 1
  /\ UNCHANGED <<call, ranges, iter, prev, changed, ci, acc, pc>>

BeginVar ==
  /\ pc = "var"
  /\ pos <= Len(call.comp)
  /\ cur \notin call.fixed
  /\ acc' = Empty
  /\ ci' = 1
  /\ pc' = "join"
  /\ UNCHANGED <<call, ranges, iter, prev, changed, pos>>

JoinConstraint ==
  /\ pc = "join"
  /\ ci <= Len(call.byRhs[cur])
  /\ acc' = Hull(acc, Eval(call.byRhs[cur][ci], ranges))
  /\ ci' = ci + 1
  /\ UNCHANGED <<call, ranges, iter, prev, changed, pos, pc>>

(* A hard lower bound cuts a non-empty join, which may empty it. *)
Floor(r, lo) == IF ~IsEmpty(r) /\ r.lo < lo THEN [r EXCEPT !.lo = lo] ELSE r

(* Mutant: an endpoint that stays put is widened too. *)
WidenUnlessShrunk(r, p) ==
  [lo |-> IF r.lo <= p.lo THEN NEGINF ELSE r.lo,
   hi |-> IF r.hi >= p.hi THEN INF ELSE r.hi]

(* After the first round an endpoint that grew since the round started    *)
(* jumps to infinity.                                                      *)
Widen(r, p) ==
  [lo |-> IF r.lo < p.lo THEN NEGINF ELSE r.lo,
   hi |-> IF r.hi > p.hi THEN INF ELSE r.hi]

Widened(r) == IF iter > 0 /\ ~IsEmpty(prev[cur]) THEN Widen(r, prev[cur]) ELSE r

(* Mutant: changed tells only whether the last visit changed its range. *)
AssignVarForgetsChange ==
  LET new == Widened(Floor(acc, call.hardLo[cur]))
  IN  /\ pc = "join"
      /\ ci > Len(call.byRhs[cur])
      /\ ranges' = [ranges EXCEPT ![cur] = new]
      /\ changed' = (new # ranges[cur])
      /\ pos' = pos + 1
      /\ pc' = "var"
      /\ UNCHANGED <<call, iter, prev, ci, acc>>

(* The visit ends: the join, floored and widened, replaces the range. *)
AssignVar ==
  LET new == Widened(Floor(acc, call.hardLo[cur]))
  IN  /\ pc = "join"
      /\ ci > Len(call.byRhs[cur])
      /\ ranges' = [ranges EXCEPT ![cur] = new]
      /\ changed' = (changed \/ new # ranges[cur])
      /\ pos' = pos + 1
      /\ pc' = "var"
      /\ UNCHANGED <<call, iter, prev, ci, acc>>

(* Mutant: instead of counting, the rounds after the first are all alike. *)
EndRoundUncounted ==
  /\ pc = "var"
  /\ pos > Len(call.comp)
  /\ IF changed THEN pc' = "round" /\ iter' = 1
                ELSE pc' = "done" /\ iter' = iter
  /\ UNCHANGED <<call, ranges, prev, changed, pos, ci, acc>>

(* if !changed { break }, else the next round. *)
EndRound ==
  /\ pc = "var"
  /\ pos > Len(call.comp)
  /\ IF changed THEN pc' = "round" /\ iter' = iter + 1
                ELSE pc' = "done" /\ iter' = iter
  /\ UNCHANGED <<call, ranges, prev, changed, pos, ci, acc>>

Terminated == pc = "done" /\ UNCHANGED vars

Step == \/ StartRound \/ HitCap \/ SkipFixed \/ BeginVar
        \/ JoinConstraint \/ AssignVar \/ EndRound

Next == Step \/ Terminated

(* The function is ordinary sequential code: it always takes its next step. *)
Spec     == Init /\ [][Next]_vars
FairSpec == Spec /\ WF_vars(Step)

-----------------------------------------------------------------------------
TypeOK ==
  /\ call \in Call
  /\ ranges \in [Var -> Interval]
  /\ prev \in [Var -> Interval]
  /\ iter \in 0 .. MaxIters
  /\ changed \in BOOLEAN
  /\ pos \in 1 .. Len(call.comp) + 1
  /\ ci \in Nat \ {0}
  /\ acc \in Interval
  /\ pc \in {"round", "var", "join", "done"}

(* Range r contains range s, except for what lies below the floor lo. *)
Covers(r, s, lo) == IsEmpty(s) \/ (s.hi <= r.hi /\ r.lo <= Greater(s.lo, lo))

(* Every constraint into w is satisfied by the current ranges. *)
Closed(w) ==
  \A k \in 1 .. Len(call.byRhs[w]) :
    Covers(ranges[w], Eval(call.byRhs[w][k], ranges), call.hardLo[w])

Active == {i \in 1 .. Len(call.comp) : call.comp[i] \notin call.fixed}

(* "the least assignment ... satisfying all subset / min-subset           *)
(* constraints" (solver.rs header), the part of it that holds: when the    *)
(* iteration stops because a round changed nothing, the ranges satisfy     *)
(* every constraint into the component, although they were computed one    *)
(* variable at a time from a mixture of old and new ranges, and by         *)
(* replacing and widening instead of joining.                              *)
ConvergedIsSolution ==
  pc = "done" /\ ~changed => \A i \in Active : Closed(call.comp[i])

(* A component is acyclic when none of its constraints depends on it. *)
Independent(c, w) ==
  \A r \in {ranges, call.start} : \A x \in Interval :
    Eval(c, [r EXCEPT ![w] = x]) = Eval(c, r)

Inflow(w) == {call.byRhs[w][k] : k \in 1 .. Len(call.byRhs[w])}

Acyclic ==
  /\ Len(call.comp) = 1
  /\ IsEmpty(call.start[call.comp[1]])
  /\ call.comp[1] \notin call.fixed
  /\ \A c \in Inflow(call.comp[1]) : Independent(c, call.comp[1])

IsJoin(j, S) ==
  /\ \A s \in S : Leq(s, j)
  /\ \A b \in Interval : (\A s \in S : Leq(s, b)) => Leq(j, b)

(* "Acyclic merges stabilize in one pass and are never widened, so finite *)
(* ranges stay exact" (solver.rs header): a variable outside every cycle   *)
(* ends with the join of its constraints, cut by its floor, after one      *)
(* round that sets it and at most one that confirms it.                    *)
AcyclicIsExact ==
  pc = "done" /\ Acyclic =>
    LET w == call.comp[1]
    IN  /\ ~changed
        /\ iter <= 1
        /\ \E j \in Interval :
             /\ IsJoin(j, {Eval(c, ranges) : c \in Inflow(w)})
             /\ ranges[w] = Floor(j, call.hardLo[w])

(* Whatever the constraints, and although a cycle may go round forever    *)
(* without settling, the function returns.                                 *)
Terminates == <>(pc = "done")
=============================================================================
