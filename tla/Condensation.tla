---------------------------- MODULE Condensation ----------------------------
(***************************************************************************)
(* What the solver needs of a strongly-connected-components algorithm:     *)
(* the components of the influence graph, each exactly once, and none      *)
(* before all the components it flows into.                                *)
(***************************************************************************)
EXTENDS Naturals, Sequences, FiniteSets

CONSTANT Node

VARIABLES
  edges,     \* the graph, a set of pairs of nodes; never changes
  emitted    \* the components found so far, a sequence of sets of nodes

vars == <<edges, emitted>>

(* Nodes reachable from x. *)
Reach(x) ==
  LET R[n \in Nat] ==
        IF n = 0 THEN {x}
        ELSE LET near == R[n - 1]
             IN  near \cup {e[2] : e \in {f \in edges : f[1] \in near}}
  IN  R[Cardinality(Node)]

IsComponent(S) ==
  \E x \in S : S = {y \in Reach(x) : x \in Reach(y)}

Found == UNION {emitted[i] : i \in DOMAIN emitted}

FlowsInto(S) == {e[2] : e \in {f \in edges : f[1] \in S}} \ S

Init == edges \in SUBSET (Node \X Node) /\ emitted = << >>

Emit(S) ==
  /\ emitted' = Append(emitted, S)
  /\ UNCHANGED edges
  /\ S \cap Found = {}
  /\ FlowsInto(S) \subseteq Found
  /\ IsComponent(S)

Next == \E S \in SUBSET Node : Emit(S)

Spec == Init /\ [][Next]_vars

(* What it owes in the end: a component for every node. *)
Completes == <>(Found = Node)
=============================================================================
