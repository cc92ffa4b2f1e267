------------------------------ MODULE MCTarjan ------------------------------
EXTENDS Tarjan

(* Lists over the first n nodes: of at most two, or without repetition. *)
Lists(n) == UNION {{s \in [1 .. k -> 0 .. n - 1] : k <= 2 \/ IsInjective(s)} : k \in 0 .. n}

(* Every graph on three nodes, self loops and the order of the successors *)
(* included, and every graph on four nodes without self loops.             *)
Graphs3 == {[x \in Node |-> IF x = 3 THEN << >> ELSE g[x]] : g \in [0 .. 2 -> Lists(3)]}
Graphs4 == {[x \in Node |-> SetToSeq(g[x])] :
              g \in {h \in [Node -> SUBSET Node] : \A x \in Node : x \notin h[x]}}

MCGraph == Graphs3 \cup Graphs4
=============================================================================
