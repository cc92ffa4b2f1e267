----------------------------- MODULE Constraints -----------------------------
(***************************************************************************)
(* Linear terms, the two forms of constraint and what they evaluate to     *)
(* (constraint.rs Term and Constraint, solver.rs eval_constraint).         *)
(*                                                                         *)
(* A term is a sequence of (coefficient, variable) pairs and a constant.   *)
(* Variables are those of the solver, already canonical: solver.rs maps    *)
(* every variable through canon[] just before it uses it.                  *)
(***************************************************************************)
EXTENDS Ranges, FiniteSets, SequencesExt

-----------------------------------------------------------------------------
(* Terms. *)

ConstTerm(k) == [terms |-> << >>, konst |-> k]
VarTerm(v)   == [terms |-> <<<<1, v>>>>, konst |-> 0]

IsConstant(t) == t.terms = << >>

(* 1*v + k: the terms "eq" may pin; 1*v alone: those it may merge. *)
IsSingleVarAny(t) == Len(t.terms) = 1 /\ t.terms[1][1] = 1
IsSingleVar(t)    == IsSingleVarAny(t) /\ t.konst = 0
TheVar(t)         == t.terms[1][2]

(* Two entries for one variable merge only when their signs agree, for    *)
(* 2S - S is not S when S is a range; otherwise a new entry is appended.   *)
SameSign(c, d) == (c >= 0 /\ d >= 0) \/ (c <= 0 /\ d <= 0)

AddEntry(entries, e) ==
  LET slots == {i \in DOMAIN entries :
                  entries[i][2] = e[2] /\ SameSign(entries[i][1], e[1])}
  IN  IF slots = {} THEN Append(entries, e)
      ELSE LET i == CHOOSE j \in slots : \A k \in slots : j <= k
           IN  [entries EXCEPT ![i][1] = @ + e[1]]

AddTerms(s, t) ==
  [terms |-> FoldLeft(AddEntry, s.terms, t.terms), konst |-> s.konst + t.konst]

Scale(t, c) ==
  [terms |-> [i \in DOMAIN t.terms |-> <<c * t.terms[i][1], t.terms[i][2]>>],
   konst |-> c * t.konst]

Negate(t) == Scale(t, -1)

SubTerms(s, t) == AddTerms(s, Negate(t))

-----------------------------------------------------------------------------
(* Constraints:  lhs \subseteq var  and  min(items) \subseteq var.         *)

Subset(lhs, v)      == [form |-> "subset", lhs |-> lhs, var |-> v]
MinSubset(items, v) == [form |-> "min", items |-> items, var |-> v]

(* The operands of a minimum: a constant or a multiple of a variable. *)
MinConst(k)   == [item |-> "const", n |-> k]
MinTerm(c, v) == [item |-> "term", n |-> c, var |-> v]

(* Mutant: what the right-hand side has besides its variable moves over    *)
(* without changing its sign.                                              *)
MovedUnnegated(lhs, rhs) ==
  LET rest == [terms |-> Tail(rhs.terms), konst |-> rhs.konst]
  IN  Subset(AddTerms(lhs, rest), rhs.terms[1][2])

(* lhs \subseteq rhs, with everything but the first variable of rhs moved *)
(* over, and scaled by that variable's coefficient if it is not 1.         *)
Moved(lhs, rhs) ==
  LET rest == [terms |-> Tail(rhs.terms), konst |-> rhs.konst]
      c    == rhs.terms[1][1]
      eff  == SubTerms(lhs, rest)
  IN  Subset(IF c # 1 /\ c # 0 THEN Scale(eff, c) ELSE eff, rhs.terms[1][2])

(* The constraints "subset" adds: none when the right side is a constant. *)
SubsetOf(lhs, rhs) == IF IsConstant(rhs) THEN << >> ELSE <<Moved(lhs, rhs)>>

(* min(x, y) \subseteq z, for a new z.  An operand that is neither a       *)
(* constant nor a variable gets a variable of its own, after z.            *)
NeedsVar(t) == ~IsConstant(t) /\ ~IsSingleVar(t)

MinVars(x, y) == 1 + Cardinality({t \in {<<1, x>>, <<2, y>>} : NeedsVar(t[2])})

MinOf(x, y, z) ==
  LET wx == z + 1
      wy == IF NeedsVar(x) THEN z + 2 ELSE z + 1
      Item(t, w) == IF IsConstant(t) THEN MinConst(t.konst)
                    ELSE MinTerm(1, IF NeedsVar(t) THEN w ELSE TheVar(t))
      Routed(t, w) == IF NeedsVar(t) THEN SubsetOf(t, VarTerm(w)) ELSE << >>
  IN  Routed(x, wx) \o Routed(y, wy) \o <<MinSubset(<<Item(x, wx), Item(y, wy)>>, z)>>

(* Terms, operands of minima and constraints over the variables V. *)
EntryOver(V) == Int \X V
TermOver(V)  == [terms : Seq(EntryOver(V)), konst : Int]
ItemOver(V)  == [item : {"const"}, n : Int] \cup [item : {"term"}, n : Int, var : V]
ConstraintOver(V) == [form : {"subset"}, lhs : TermOver(V), var : V]
                     \cup [form : {"min"}, items : Seq(ItemOver(V)), var : V]

Rhs(c) == c.var

(* The variables of the left-hand side, in the order of the code. *)
LhsVars(c) ==
  IF c.form = "subset"
  THEN [i \in DOMAIN c.lhs.terms |-> c.lhs.terms[i][2]]
  ELSE FlattenSeq([i \in DOMAIN c.items |->
                     IF c.items[i].item = "term" THEN <<c.items[i].var>> ELSE << >>])

EvalTerm(t, ranges) ==
  FoldLeft(LAMBDA acc, e : Add(acc, Mul(e[1], ranges[e[2]])),
           Singleton(t.konst), t.terms)

EvalItem(it, ranges) ==
  IF it.item = "const" THEN Singleton(it.n) ELSE Mul(it.n, ranges[it.var])

EvalConstraint(c, ranges) ==
  IF c.form = "subset" THEN EvalTerm(c.lhs, ranges)
  ELSE FoldLeft(LAMBDA acc, it : RMin(acc, EvalItem(it, ranges)),
                Singleton(INF), c.items)

-----------------------------------------------------------------------------
(* Meanings, for the properties. *)

(* The value of a term when its variables have the given values. *)
ValueOf(t, val) ==
  FoldLeft(LAMBDA acc, e : acc + e[1] * val[e[2]], t.konst, t.terms)

(* Every variable's range contains what its constraints send to it. *)
Solves(ranges, cs) == \A c \in cs : Leq(EvalConstraint(c, ranges), ranges[Rhs(c)])
==============================================================================
