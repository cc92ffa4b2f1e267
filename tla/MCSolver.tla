------------------------------ MODULE MCSolver ------------------------------
(***************************************************************************)
(* Small systems of three variables, each with the queries 2 >= v and      *)
(* v >= 1 of every variable v.                                             *)
(***************************************************************************)
EXTENDS Solver

Lin(k, c, v) == [terms |-> <<<<c, v>>>>, konst |-> k]
Sum(v, w)    == [terms |-> <<<<1, v>>, <<1, w>>>>, konst |-> 0]

Queries == [i \in 1 .. 2 * N |->
              IF i <= N THEN [a |-> ConstTerm(2), b |-> VarTerm(i - 1)]
              ELSE [a |-> VarTerm(i - N - 1), b |-> ConstTerm(1)]]

Identity == [v \in Var |-> v]

ASystem(cs, fixed, floors, canon) ==
  [constraints |-> SetToSeq(cs), fixed |-> fixed, hardLo |-> floors,
   canon |-> canon, queries |-> Queries]

Flows(v, w) ==
  {Subset(VarTerm(v), w), Subset(Lin(1, 1, v), w), Subset(Lin(0, -1, v), w),
   Subset(Lin(0, 0, v), w), MinSubset(<<MinConst(1), MinTerm(2, v)>>, w)}

(* Two flows anywhere, self loops included, and two seeds. *)
Loose ==
  {ASystem({f1, f2, Subset(ConstTerm(1), 0), Subset(ConstTerm(2), s)},
           << >>, << >>, Identity) :
     f1 \in UNION {Flows(0, w) : w \in Var},
     f2 \in UNION {Flows(v, w) : v \in 1 .. 2, w \in Var},
     s \in 0 .. 1}

(* Every graph of copies and increments on three variables with an out-    *)
(* degree of at most one, with one seed.                                   *)
Functional ==
  {ASystem({Subset(Lin(k[v], 1, v), to[v]) : v \in {x \in Var : to[x] < N}}
             \cup {Subset(ConstTerm(1), 0)}, << >>, << >>, Identity) :
     to \in [Var -> 0 .. N], k \in [Var -> {0, 1}]}

(* Pins, repeated pins, merged variables, sums of two operands, floors. *)
Mixed ==
  {ASystem({Subset(Sum(0, 1), 2), Subset(VarTerm(0), 1), f, Subset(ConstTerm(1), 0)},
           fixed, floors, canon) :
     f \in UNION {Flows(2, w) : w \in Var},
     fixed \in {<< >>, <<<<1, Singleton(2)>>>>, <<<<1, Singleton(2)>>, <<1, Top>>>>,
                <<<<0, Singleton(1)>>, <<1, Singleton(2)>>>>},
     floors \in {<< >>, <<<<2, 1>>, <<2, 0>>>>},
     canon \in {Identity, [Identity EXCEPT ![1] = 0], [Identity EXCEPT ![0] = 2]}}

MCSystems == Loose \cup Functional \cup Mixed
=============================================================================
