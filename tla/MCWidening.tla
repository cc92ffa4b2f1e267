----------------------------- MODULE MCWidening -----------------------------
(***************************************************************************)
(* solve with the constants of the code on the constraints of a loop whose *)
(* body grows a length and passes it round a cycle of three variables:     *)
(* 1 \subseteq x,  x + 1 \subseteq t,  t \subseteq l,  l \subseteq x.      *)
(* Three buffers of 600 bytes hold strings of these lengths, and each is   *)
(* queried against its own.                                                *)
(***************************************************************************)
EXTENDS Solver

x == 0
t == 1
l == 2

GrowingLoop ==
  {[constraints |-> <<Subset(ConstTerm(1), x),
                      Subset([terms |-> <<<<1, x>>>>, konst |-> 1], t),
                      Subset(VarTerm(t), l), Subset(VarTerm(l), x)>>,
    fixed |-> << >>, hardLo |-> << >>, canon |-> [v \in Var |-> v],
    queries |-> [i \in 1 .. N |-> [a |-> ConstTerm(600), b |-> VarTerm(i - 1)]]]}

(* "A cycle that keeps growing (t+1 \subseteq t, as forceLenTop builds) is *)
(* widened to +Infinity on its second visit" (solver.rs header), and the   *)
(* three queries, each of which fails for +Infinity, are reported.         *)
GrowthReachesInfinity ==
  phase = "done" => /\ \A v \in Var : ranges[v].hi = INF
                    /\ {f.query : f \in results} = ToSet(sys.queries)
=============================================================================
