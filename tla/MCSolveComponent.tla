-------------------------- MODULE MCSolveComponent --------------------------
(***************************************************************************)
(* Small instances of SolveComponent: every call over two variables whose  *)
(* constraints come from a small universe, and cycles of three variables.  *)
(***************************************************************************)
EXTENDS SolveComponent, Constraints

Lin(k, c, w) == [terms |-> <<<<c, w>>>>, konst |-> k]

(* Seeds, and steps that copy, grow, shrink, flip or cut a variable. *)
Seeds(w)  == {Subset(ConstTerm(1), w), Subset(ConstTerm(2), w)}

Copy(u, w) == Subset(VarTerm(u), w)
Grow(u, w) == Subset(Lin(1, 1, u), w)

Steps(u, w) ==
  {Copy(u, w), Grow(u, w), Subset(Lin(-1, 1, u), w), Subset(Lin(0, -1, u), w),
   MinSubset(<<MinTerm(1, u), MinConst(1)>>, w)}

Into(w, sources) == Seeds(w) \cup UNION {Steps(u, w) : u \in sources}

AtMost(k, S) == {T \in SUBSET S : Cardinality(T) <= k}

ACall(comp, flow, fixed, hardLo, start) ==
  [comp |-> comp, byRhs |-> [w \in Var |-> SetToSeq(flow[w])],
   fixed |-> fixed, hardLo |-> hardLo, start |-> start]

AllEmpty == [w \in Var |-> Empty]
AllFree  == [w \in Var |-> {}]
NoFloor  == [w \in Var |-> NEGINF]

-----------------------------------------------------------------------------
(* One variable fed by itself and by a variable that is final, and two     *)
(* variables that feed each other, the second possibly pinned.             *)

Two   == 1 .. 2
Three == 1 .. 3

PairConstraints == Into(1, Two) \cup Into(2, Two)

SingleCalls ==
  {ACall(<<1>>, [AllFree EXCEPT ![1] = into], {}, [NoFloor EXCEPT ![1] = lo],
         [AllEmpty EXCEPT ![2] = final]) :
     into \in AtMost(2, Into(1, Two)),
     lo \in {NEGINF, 1, 2},
     final \in {Empty, [lo |-> -1, hi |-> 2]}}

PairCalls ==
  {ACall(<<2, 1>>, [AllFree EXCEPT ![1] = into1, ![2] = into2], fixed, NoFloor,
         [AllEmpty EXCEPT ![2] = IF fixed = {} THEN Empty ELSE Singleton(2)]) :
     into1 \in AtMost(2, Into(1, {2})),
     into2 \in AtMost(2, Into(2, {1})),
     fixed \in {{}, {2}}}

-----------------------------------------------------------------------------
(* Cycles 1 -> 2 -> 3 -> 1 of copying and growing steps, visited with the  *)
(* flow and against it.                                                    *)

Pred(w) == IF w = 1 THEN 3 ELSE w - 1

CycleConstraints ==
  UNION {Seeds(w) \cup {Copy(Pred(w), w), Grow(Pred(w), w)} : w \in Three}

CycleCalls ==
  {ACall(comp,
         [w \in Three |->
            {IF w \in grows THEN Grow(Pred(w), w) ELSE Copy(Pred(w), w)}
            \cup {Subset(ConstTerm(n), w) : n \in seeds[w]}],
         {}, NoFloor, AllEmpty) :
     comp \in {<<3, 2, 1>>, <<1, 2, 3>>},
     grows \in SUBSET Three,
     seeds \in [Three -> SUBSET {1, 2}]}

AllConstraints == PairConstraints \cup CycleConstraints

AllCalls == SingleCalls \cup PairCalls \cup CycleCalls
=============================================================================
