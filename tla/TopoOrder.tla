----------------------------- MODULE TopoOrder -----------------------------
(***************************************************************************)
(* solver.rs topo_order: Kahn's algorithm on the components.               *)
(*                                                                         *)
(* flow lists the pairs <<comp_of[v], comp_of[w]>> in the order in which   *)
(* the first loops meet the edges v -> w, edges inside a component and     *)
(* repetitions included; components are numbered 0 .. m-1.                 *)
(***************************************************************************)
EXTENDS Naturals, Sequences, FiniteSets

CONSTANT Input     \* the calls: records with the fields m and flow

ASSUME InputAssumption ==
  \A i \in Input : /\ i.m \in Nat
                   /\ i.flow \in Seq((0 .. i.m - 1) \X (0 .. i.m - 1))

VARIABLES
  m, flow,   \* the arguments; never change
  scanned,   \* the pairs of flow looked at
  seen,      \* the edges between components met so far
  dag,       \* for each component the components it flows into
  indeg,     \* the edges into a component that are not yet relaxed
  queue, head,
  di,        \* position in the dag list of the component being visited
  order,     \* the result
  cand,      \* the component a loop over 0 .. m-1 looks at
  pc         \* "scan", "seed", "next", "relax", "rest", "done"

vars == <<m, flow, scanned, seen, dag, indeg, queue, head, di, order, cand, pc>>

Comp == 0 .. m - 1

Start(input) ==
  /\ m = input.m
  /\ flow = input.flow
  /\ scanned = 0
  /\ seen = {}
  /\ dag = [c \in 0 .. input.m - 1 |-> << >>]
  /\ indeg = [c \in 0 .. input.m - 1 |-> 0]
  /\ queue = << >>
  /\ head = 0
  /\ di = 1
  /\ order = << >>
  /\ cand = 0
  /\ pc = "scan"

Init == \E input \in Input : Start(input)

-----------------------------------------------------------------------------
(* Mutant: a repeated edge is counted again, but listed once. *)
ScanEdgeCountsAgain ==
  LET c == flow[scanned + 1][1]
      d == flow[scanned + 1][2]
      new == c # d /\ <<c, d>> \notin seen
  IN  /\ pc = "scan"
      /\ scanned < Len(flow)
      /\ scanned' = scanned + 1
      /\ seen' = IF new THEN seen \cup {<<c, d>>} ELSE seen
      /\ dag' = IF new THEN [dag EXCEPT ![c] = Append(@, d)] ELSE dag
      /\ indeg' = IF c # d THEN [indeg EXCEPT ![d] = @ + 1] ELSE indeg
      /\ UNCHANGED <<m, flow, queue, head, di, order, cand, pc>>

(* if cv != cw && seen.insert((cv, cw)) *)
ScanEdge ==
  LET c == flow[scanned + 1][1]
      d == flow[scanned + 1][2]
      new == c # d /\ <<c, d>> \notin seen
  IN  /\ pc = "scan"
      /\ scanned < Len(flow)
      /\ scanned' = scanned + 1
      /\ seen' = IF new THEN seen \cup {<<c, d>>} ELSE seen
      /\ dag' = IF new THEN [dag EXCEPT ![c] = Append(@, d)] ELSE dag
      /\ indeg' = IF new THEN [indeg EXCEPT ![d] = @ + 1] ELSE indeg
      /\ UNCHANGED <<m, flow, queue, head, di, order, cand, pc>>

ScanDone ==
  /\ pc = "scan"
  /\ scanned = Len(flow)
  /\ pc' = "seed"
  /\ UNCHANGED <<m, flow, scanned, seen, dag, indeg, queue, head, di, order, cand>>

(* Queue the components without an edge into them, in ascending order. *)
Seed ==
  /\ pc = "seed"
  /\ cand < m
  /\ queue' = IF indeg[cand] = 0 THEN Append(queue, cand) ELSE queue
  /\ cand' = cand + 1
  /\ UNCHANGED <<m, flow, scanned, seen, dag, indeg, head, di, order, pc>>

SeedDone ==
  /\ pc = "seed"
  /\ cand = m
  /\ pc' = "next"
  /\ UNCHANGED <<m, flow, scanned, seen, dag, indeg, queue, head, di, order, cand>>

(* Take the next component off the queue and place it. *)
Visit ==
  /\ pc = "next"
  /\ head < Len(queue)
  /\ head' = head + 1
  /\ order' = Append(order, queue[head + 1])
  /\ di' = 1
  /\ pc' = "relax"
  /\ UNCHANGED <<m, flow, scanned, seen, dag, indeg, queue, cand>>

visited == queue[head]

(* Mutant: a component is queued whenever an edge into it is relaxed. *)
RelaxQueuesAlways ==
  LET d == dag[visited][di]
  IN  /\ pc = "relax"
      /\ di <= Len(dag[visited])
      /\ indeg' = [indeg EXCEPT ![d] = @ - 1]
      /\ queue' = Append(queue, d)
      /\ di' = di + 1
      /\ UNCHANGED <<m, flow, scanned, seen, dag, head, order, cand, pc>>

Relax ==
  LET d == dag[visited][di]
  IN  /\ pc = "relax"
      /\ di <= Len(dag[visited])
      /\ indeg' = [indeg EXCEPT ![d] = @ - 1]
      /\ queue' = IF indeg[d] = 1 THEN Append(queue, d) ELSE queue
      /\ di' = di + 1
      /\ UNCHANGED <<m, flow, scanned, seen, dag, head, order, cand, pc>>

VisitDone ==
  /\ pc = "relax"
  /\ di > Len(dag[visited])
  /\ pc' = "next"
  /\ UNCHANGED <<m, flow, scanned, seen, dag, indeg, queue, head, di, order, cand>>

Placed == {order[i] : i \in 1 .. Len(order)}

(* The queue is used up.  Components that never got into it, if any, are   *)
(* appended in ascending order.                                            *)
QueueEmpty ==
  /\ pc = "next"
  /\ head = Len(queue)
  /\ cand' = 0
  /\ pc' = IF Len(order) < m THEN "rest" ELSE "done"
  /\ UNCHANGED <<m, flow, scanned, seen, dag, indeg, queue, head, di, order>>

AppendRest ==
  /\ pc = "rest"
  /\ cand < m
  /\ order' = IF cand \in Placed THEN order ELSE Append(order, cand)
  /\ cand' = cand + 1
  /\ UNCHANGED <<m, flow, scanned, seen, dag, indeg, queue, head, di, pc>>

RestDone ==
  /\ pc = "rest"
  /\ cand = m
  /\ pc' = "done"
  /\ UNCHANGED <<m, flow, scanned, seen, dag, indeg, queue, head, di, order, cand>>

Step == \/ ScanEdge \/ ScanDone \/ Seed \/ SeedDone
        \/ Visit \/ Relax \/ VisitDone \/ QueueEmpty
        \/ AppendRest \/ RestDone

Terminated == pc = "done" /\ UNCHANGED vars

Next == Step \/ Terminated

Spec == Init /\ [][Next]_vars /\ WF_vars(Step)

-----------------------------------------------------------------------------
TypeOK ==
  /\ m \in Nat
  /\ flow \in Seq(Comp \X Comp)
  /\ scanned \in 0 .. Len(flow)
  /\ seen \subseteq Comp \X Comp
  /\ dag \in [Comp -> Seq(Comp)]
  /\ indeg \in [Comp -> Nat]
  /\ queue \in Seq(Comp)
  /\ head \in 0 .. Len(queue)
  /\ di \in Nat \ {0}
  /\ order \in Seq(Comp)
  /\ cand \in 0 .. m
  /\ pc \in {"scan", "seed", "next", "relax", "rest", "done"}

Flows == {flow[i] : i \in 1 .. Len(flow)}

(* The component at position j comes after those that flow into it. *)
FollowsInputs(j) ==
  \A e \in Flows :
    e[2] = order[j] /\ e[1] # e[2] => \E i \in 1 .. j - 1 : order[i] = e[1]

(* The edges lead to smaller numbers, as those that tarjan_scc gives do. *)
Descending == \A e \in Flows : e[2] <= e[1]

(* "a component is processed after every component that flows into it"    *)
(* (the comment on topo_order): those that the queue placed in any graph,  *)
(* and all of them where numbers descend, as they do in solve: there the   *)
(* fallback, which knows no order, has nothing left to place, however      *)
(* often the constraints repeat an edge.                                   *)
OrderRespectsFlow ==
  /\ \A j \in 1 .. head : FollowsInputs(j)
  /\ pc = "done" /\ Descending => \A j \in 1 .. Len(order) : FollowsInputs(j)

(* Nothing is lost and nothing is repeated: solve_component is called      *)
(* exactly once for each component.                                        *)
OrderIsPermutation ==
  /\ \A i, j \in 1 .. Len(order) : i # j => order[i] # order[j]
  /\ pc = "done" => Placed = Comp
=============================================================================
