---------------------------- MODULE MCTopoOrder ----------------------------
EXTENDS TopoOrder, SequencesExt

Pairs(n) == (0 .. n - 1) \X (0 .. n - 1)

(* Three components with any list of at most three edges, cyclic ones,     *)
(* repetitions and edges within a component included; four components with *)
(* any set of edges to smaller numbers; and lists of four such edges with  *)
(* repetitions.                                                            *)
Any3  == {[m |-> 3, flow |-> f] : f \in UNION {[1 .. k -> Pairs(3)] : k \in 0 .. 3}}
Desc4 == {[m |-> 4, flow |-> SetToSeq(S)] :
            S \in SUBSET {e \in Pairs(4) : e[2] < e[1]}}
Twice == {[m |-> 3, flow |-> f] :
            f \in [1 .. 4 -> {e \in Pairs(3) : e[2] < e[1]}]}

MCInput == Any3 \cup Desc4 \cup Twice
=============================================================================
