------------------------------- MODULE Solver -------------------------------
(***************************************************************************)
(* solver.rs solve: from a constraint system to the queries that fail.     *)
(*                                                                         *)
(* The phases are those of the function: pin the fixed variables, collect  *)
(* the floors and group the constraints (Prepare); condense the influence  *)
(* graph (the steps of Tarjan); order its components (the steps of         *)
(* TopoOrder); solve them one after the other (the steps of                *)
(* SolveComponent, one call per component); evaluate the queries.          *)
(*                                                                         *)
(* A system is what System::solve hands over: its pins, floors,            *)
(* constraints and queries in the order they were added, and canon, the    *)
(* representative of each variable.                                        *)
(***************************************************************************)
EXTENDS Constraints

CONSTANTS
  N,         \* the number of variables
  MaxIters,  \* the cap on the rounds of a component
  Systems    \* the systems solve is called with

Var == 0 .. N - 1

(* A query a >= b. *)
Query == [a : TermOver(Var), b : TermOver(Var)]

(* What a variable is pinned to: top pins it to the full range, eq to a    *)
(* constant.                                                               *)
PinRange == {Top} \cup {Singleton(n) : n \in Endpoint}

System == [constraints : Seq(ConstraintOver(Var)),
           fixed       : Seq(Var \X PinRange),
           hardLo      : Seq(Var \X Endpoint),
           canon       : [Var -> Var],
           queries     : Seq(Query)]

ASSUME SolverAssumption ==
  /\ N \in Nat \ {0}
  /\ MaxIters \in Nat \ {0}
  /\ \A s \in Systems : /\ s \in System
                        /\ \A v \in Var : s.canon[s.canon[v]] = s.canon[v]

VARIABLES
  sys,      \* the system; never changes
  phase,    \* "prepare", "scc", "topo", "solve", "done"
  isFixed, hardLo, byRhs,
  next,     \* position in order of the component to solve next
  results,  \* the failed queries with their ranges, in whatever order
  settled,  \* history: has every component so far stopped before its cap
  \* tarjan_scc
  succ, index, lowlink, onStack, stack, compOf, comps, counter, start, work,
  \* topo_order
  m, flow, scanned, seen, dag, indeg, queue, head, di, order, cand, topoPc,
  \* solve_component
  call, ranges, iter, prev, changed, pos, ci, acc, compPc

sccVars  == <<succ, index, lowlink, onStack, stack, compOf, comps, counter, start, work>>
topoVars == <<m, flow, scanned, seen, dag, indeg, queue, head, di, order, cand, topoPc>>
compVars == <<call, ranges, iter, prev, changed, pos, ci, acc, compPc>>
ownVars  == <<sys, phase, isFixed, hardLo, byRhs, next, results, settled>>
vars     == <<ownVars, sccVars, topoVars, compVars>>

Scc  == INSTANCE Tarjan WITH Graph <- {}
Topo == INSTANCE TopoOrder WITH Input <- {}, pc <- topoPc
Comp == INSTANCE SolveComponent WITH
          Constraint <- {}, Problem <- {}, Eval <- EvalConstraint, pc <- compPc

-----------------------------------------------------------------------------
(* What Prepare computes. *)

(* A constraint on the representatives of its variables. *)
Canonical(c) ==
  LET rep(v) == sys.canon[v]
      term(t) == [t EXCEPT !.terms =
                    [i \in DOMAIN @ |-> <<t.terms[i][1], rep(t.terms[i][2])>>]]
      item(it) == IF it.item = "term" THEN [it EXCEPT !.var = rep(@)] ELSE it
  IN  IF c.form = "subset"
      THEN Subset(term(c.lhs), rep(c.var))
      ELSE MinSubset([i \in DOMAIN c.items |-> item(c.items[i])], rep(c.var))

Constraints == [i \in DOMAIN sys.constraints |-> Canonical(sys.constraints[i])]

CanonicalQuery(q) ==
  LET term(t) == Canonical(Subset(t, 0)).lhs
  IN  [a |-> term(q.a), b |-> term(q.b)]

(* The pins of one variable; the last one counts. *)
PinsOf(v) == {i \in DOMAIN sys.fixed : sys.canon[sys.fixed[i][1]] = v}

Pinned(v) == PinsOf(v) # {}

StartRange(v) == IF Pinned(v) THEN sys.fixed[Max(PinsOf(v))][2] ELSE Empty

(* The strongest hard lower bound of a variable. *)
FloorsOf(v) == {i \in DOMAIN sys.hardLo : sys.canon[sys.hardLo[i][1]] = v}
FloorOf(v)  == Max({NEGINF} \cup {sys.hardLo[i][2] : i \in FloorsOf(v)})

Into(v) ==
  FlattenSeq([i \in DOMAIN Constraints |->
    IF Rhs(Constraints[i]) = v THEN <<Constraints[i]>> ELSE << >>])

(* Mutant: only the first variable of a left-hand side is an influence. *)
InfluencedByFirst(v) ==
  FlattenSeq([i \in DOMAIN Constraints |->
    LET vs == LhsVars(Constraints[i])
    IN  IF vs # << >> /\ vs[1] = v THEN <<Rhs(Constraints[i])>> ELSE << >>])

(* The variables a variable flows into, one entry for each occurrence. *)
InfluencedBy(v) ==
  FlattenSeq([i \in DOMAIN Constraints |->
    LET vs == LhsVars(Constraints[i])
    IN  FlattenSeq([k \in DOMAIN vs |-> IF vs[k] = v THEN <<Rhs(Constraints[i])>> ELSE << >>])])

-----------------------------------------------------------------------------
Init ==
  /\ sys \in Systems
  /\ phase = "prepare"
  /\ isFixed = [v \in Var |-> FALSE]
  /\ hardLo = [v \in Var |-> NEGINF]
  /\ byRhs = [v \in Var |-> << >>]
  /\ next = 1
  /\ results = {}
  /\ settled = TRUE
  /\ succ = [v \in Var |-> << >>]
  /\ index = [v \in Var |-> Scc!None]
  /\ lowlink = [v \in Var |-> 0]
  /\ onStack = [v \in Var |-> FALSE]
  /\ stack = << >>
  /\ compOf = [v \in Var |-> Scc!None]
  /\ comps = << >>
  /\ counter = 0
  /\ start = 0
  /\ work = << >>
  /\ Topo!Start([m |-> 0, flow |-> << >>])
  /\ ranges = [v \in Var |-> Empty]
  /\ call = [comp |-> << >>, byRhs |-> byRhs, fixed |-> {}, hardLo |-> hardLo,
             start |-> ranges]
  /\ prev = ranges
  /\ iter = 0
  /\ changed = FALSE
  /\ pos = 1
  /\ ci = 1
  /\ acc = Empty
  /\ compPc = "done"

Prepare ==
  /\ phase = "prepare"
  /\ isFixed' = [v \in Var |-> Pinned(v)]
  /\ ranges' = [v \in Var |-> StartRange(v)]
  /\ hardLo' = [v \in Var |-> FloorOf(v)]
  /\ byRhs' = [v \in Var |-> Into(v)]
  /\ succ' = [v \in Var |-> InfluencedBy(v)]
  /\ phase' = "scc"
  /\ UNCHANGED <<sys, next, results, settled, topoVars>>
  /\ UNCHANGED <<index, lowlink, onStack, stack, compOf, comps, counter, start, work>>
  /\ UNCHANGED <<call, iter, prev, changed, pos, ci, acc, compPc>>

SccStep ==
  /\ phase = "scc"
  /\ Scc!Step
  /\ UNCHANGED <<ownVars, topoVars, compVars>>

(* Mutant: the edges between components point the wrong way. *)
ComponentFlowReversed ==
  FlattenSeq([i \in 1 .. N |->
    [k \in DOMAIN succ[i - 1] |-> <<compOf[succ[i - 1][k]], compOf[i - 1]>>]])

(* The edges between components, as the loops of topo_order meet them. *)
ComponentFlow ==
  FlattenSeq([i \in 1 .. N |->
    [k \in DOMAIN succ[i - 1] |-> <<compOf[i - 1], compOf[succ[i - 1][k]]>>]])

SccDone ==
  /\ phase = "scc"
  /\ Scc!Finished
  /\ m' = Len(comps)
  /\ flow' = ComponentFlow
  /\ dag' = [c \in 0 .. Len(comps) - 1 |-> << >>]
  /\ indeg' = [c \in 0 .. Len(comps) - 1 |-> 0]
  /\ phase' = "topo"
  /\ UNCHANGED <<sys, isFixed, hardLo, byRhs, next, results, settled, sccVars, compVars>>
  /\ UNCHANGED <<scanned, seen, queue, head, di, order, cand, topoPc>>

TopoStep ==
  /\ phase = "topo"
  /\ Topo!Step
  /\ UNCHANGED <<ownVars, sccVars, compVars>>

TopoDone ==
  /\ phase = "topo"
  /\ topoPc = "done"
  /\ phase' = "solve"
  /\ UNCHANGED <<sys, isFixed, hardLo, byRhs, next, results, settled>>
  /\ UNCHANGED <<sccVars, topoVars, compVars>>

Between == phase = "solve" /\ compPc = "done"

(* Call solve_component for the next component of the order. *)
CallComponent ==
  /\ Between
  /\ next <= Len(order)
  /\ call' = [comp |-> comps[order[next] + 1], byRhs |-> byRhs,
              fixed |-> {v \in Var : isFixed[v]}, hardLo |-> hardLo,
              start |-> ranges]
  /\ prev' = ranges
  /\ iter' = 0
  /\ changed' = FALSE
  /\ pos' = 1
  /\ ci' = 1
  /\ acc' = Empty
  /\ compPc' = "round"
  /\ next' = next + 1
  /\ UNCHANGED <<sys, phase, isFixed, hardLo, byRhs, results, settled, ranges>>
  /\ UNCHANGED <<sccVars, topoVars>>

ComponentStep ==
  /\ phase = "solve"
  /\ Comp!Step
  /\ settled' = (settled /\ ~(compPc' = "done" /\ changed))
  /\ UNCHANGED <<sys, phase, isFixed, hardLo, byRhs, next, results>>
  /\ UNCHANGED <<sccVars, topoVars>>

(* A query a >= b and the ranges of its sides. *)
Answer(q, r) ==
  LET c == CanonicalQuery(q)
  IN  [query |-> q, a |-> EvalTerm(c.a, r), b |-> EvalTerm(c.b, r)]

(* It fails unless the least a is at least the greatest b. *)
Failed(r) ==
  {x \in {Answer(q, r) : q \in ToSet(sys.queries)} : ~EpGe(x.a.lo, x.b.hi)}

EvaluateQueries ==
  /\ Between
  /\ next > Len(order)
  /\ results' = Failed(ranges)
  /\ phase' = "done"
  /\ UNCHANGED <<sys, isFixed, hardLo, byRhs, next, settled, sccVars, topoVars, compVars>>

Step == \/ Prepare \/ SccStep \/ SccDone \/ TopoStep \/ TopoDone
        \/ CallComponent \/ ComponentStep \/ EvaluateQueries

Terminated == phase = "done" /\ UNCHANGED vars

Next == Step \/ Terminated

(* solve is one sequential function: it always takes its next step. *)
Spec == Init /\ [][Next]_vars /\ WF_vars(Step)

-----------------------------------------------------------------------------
TypeOK ==
  /\ phase \in {"prepare", "scc", "topo", "solve", "done"}
  /\ ranges \in [Var -> Interval]
  /\ next \in 1 .. N + 1
  /\ results \subseteq [query : ToSet(sys.queries), a : Interval, b : Interval]
  /\ phase # "prepare" => Scc!TypeOK
  /\ phase \in {"topo", "solve", "done"} => Topo!TypeOK

Members(i) == ToSet(comps[order[i] + 1])

(* "All variables this component depends on are already final" (the       *)
(* comment on solve_component): whatever a constraint into the component   *)
(* being solved reads is in that component or in one solved before it, and *)
(* no component is solved twice.                                           *)
InputsAreFinal ==
  phase = "solve" =>
    \A i \in 1 .. next - 1 : \A v \in Members(i) :
      /\ \A k \in DOMAIN byRhs[v] :
           ToSet(LhsVars(byRhs[v][k])) \subseteq UNION {Members(j) : j \in 1 .. i}
      /\ \A j \in 1 .. i - 1 : v \notin Members(j)

-----------------------------------------------------------------------------
(* The reference: the least assignment that contains the pins and all that *)
(* the constraints send, by iteration from the empty ranges.               *)

(* The smallest range that contains the ranges of R. *)
Join(R) ==
  LET full == {r \in R : ~IsEmpty(r)}
  IN  IF full = {} THEN Empty
      ELSE [lo |-> Min({r.lo : r \in full}), hi |-> Max({r.hi : r \in full})]

Sent(r, v) == {EvalConstraint(c, r) : c \in ToSet(Into(v))}

Update(r, v) ==
  IF Pinned(v) THEN StartRange(v) ELSE Comp!Floor(Join(Sent(r, v)), FloorOf(v))

Kleene(r) == LET new == [v \in Var |-> Update(r, v)] IN IF new = r THEN r ELSE new

(* Each round but the last makes a range wider, and none can grow more     *)
(* often than this.                                                        *)
Least ==
  LET L[k \in Nat] == IF k = 0 THEN [v \in Var |-> Empty]
                      ELSE LET r == L[k - 1] IN Kleene(r)
  IN  L[N * (2 * INF + 2)]

(* The variables that some chain of constraints feeds from constants and  *)
(* pins, every operand of each constraint being fed.                       *)
Fed ==
  LET F[k \in Nat] ==
        IF k = 0 THEN {v \in Var : Pinned(v)}
        ELSE LET fed == F[k - 1]
             IN  fed \cup {Rhs(c) : c \in {d \in ToSet(Constraints) :
                                             ToSet(LhsVars(d)) \subseteq fed}}
  IN  F[N]

(* The original solver computes the least assignment exactly; this one     *)
(* widens.  Unless a cap was hit it errs on the safe side: every range     *)
(* contains the least one, and so every query that fails for the least     *)
(* assignment is reported.                                                 *)
VerdictIsSound ==
  phase = "done" /\ settled =>
    LET least == Least
    IN  /\ \A v \in Var : Leq(least[v], ranges[v])
        /\ {x.query : x \in Failed(least)} \subseteq {x.query : x \in results}

(* "Acyclic merges stabilize in one pass and are never widened, so finite *)
(* ranges stay exact": on an influence graph without cycles the ranges are *)
(* the least ones and exactly the queries that fail for them are reported. *)
ExactWhenAcyclic ==
  phase = "done" /\ (\A i \in DOMAIN comps : Len(comps[i]) = 1)
                 /\ (\A v \in Var : v \notin ToSet(succ[v])) =>
    LET least == Least
    IN  /\ settled
        /\ ranges = least
        /\ results = Failed(least)

(* An unreachable variable stays empty, and a query about it holds          *)
(* vacuously: no cycle, coefficient or widening invents a value, and none   *)
(* is lost (range.rs: an empty operand is the bottom).                      *)
OnlyFedHaveValues ==
  phase = "done" /\ sys.hardLo = << >> =>
    \A v \in Var : sys.canon[v] = v => (~IsEmpty(ranges[v]) <=> v \in Fed)

Terminates == <>(phase = "done")
=============================================================================
