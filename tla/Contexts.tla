------------------------------ MODULE Contexts ------------------------------
(***************************************************************************)
(* The contexts that walk.rs gives to expressions, and the System that it  *)
(* collects constraints and queries in.                                    *)
(*                                                                         *)
(* A system s has the number of its variables s.vars, the constraints      *)
(* s.cons and the queries s.queries.  The walker never merges variables;   *)
(* the ones it pins are in s.pins.  (ConstraintSystem has the whole of the *)
(* System.)                                                                *)
(***************************************************************************)
EXTENDS Constraints

Unsolved == [vars |-> 0, cons |-> << >>, queries |-> << >>, pins |-> << >>]

NewTerm(s)  == VarTerm(s.vars)
(* Mutant: a fresh variable is not counted. *)
GrownNot(s) == s
Grown(s)    == [s EXCEPT !.vars = @ + 1]

(* siz >= len: the buffer; or len >= 1: a dereference. *)
Queried(s, name, siz, len) ==
  [s EXCEPT !.queries = Append(@, [name |-> name, siz |-> siz, len |-> len])]

AddSubset(s, lhs, rhs) == [s EXCEPT !.cons = @ \o SubsetOf(lhs, rhs)]

AddSubsets(s, lhss, rhs) == FoldLeft(LAMBDA t, lhs : AddSubset(t, lhs, rhs), s, lhss)

(* The store with min(x, y) in it; the term of the minimum is NewTerm(s). *)
AddMin(s, x, y) ==
  [s EXCEPT !.cons = @ \o MinOf(x, y, s.vars), !.vars = @ + MinVars(x, y)]

Pinned(s, v, range) == [s EXCEPT !.pins = Append(@, [var |-> v, range |-> range])]

-----------------------------------------------------------------------------
(* Contexts (Ctx). *)

NoneCtx      == [kind |-> "none"]
StrCtx(s, l) == [kind |-> "str", siz |-> s, len |-> l]
IntCtx(t)    == [kind |-> "int", val |-> t]

IsStr(c) == c.kind = "str"
IsInt(c) == c.kind = "int"

One == ConstTerm(1)

(* Mutant: the bytes skipped are added. *)
advanceBack(ctx, i) == StrCtx(AddTerms(ctx.siz, i), AddTerms(ctx.len, i))

(* p + i is Str { siz - i, len - i }. *)
advance(ctx, i) == StrCtx(SubTerms(ctx.siz, i), SubTerms(ctx.len, i))

(* A new (siz, len) pair and its query; the pair of a store s. *)
fresh_str(s, name) ==
  LET t == Grown(Grown(s)) IN Queried(t, name, NewTerm(s), NewTerm(Grown(s)))
NewStr(s) == StrCtx(NewTerm(s), NewTerm(Grown(s)))

(* 1 and t+1 are in t: t grows without bound. *)
force_len_top(s, t) == AddSubset(AddSubset(s, One, t), AddTerms(t, One), t)

(* dst = src.  Values of different kinds are ignored. *)
assign(s, dst, src) ==
  CASE IsInt(dst) /\ IsInt(src) -> AddSubset(s, src.val, dst.val)
    [] IsStr(dst) /\ IsStr(src) -> AddSubset(AddSubset(s, src.len, dst.len), src.siz, dst.siz)
    [] OTHER -> s

(* In an initializer the size is fixed by the declaration. *)
assign_init(s, dst, src) ==
  IF IsStr(dst) /\ IsStr(src) THEN AddSubset(s, src.len, dst.len) ELSE assign(s, dst, src)

-----------------------------------------------------------------------------
(* The least solution of a system, and the queries that fail on it.        *)
(* (Solver.tla relates it to what the solver computes.)                    *)

(* One visit of every constraint; pinned variables stay as they are. *)
Round(cons, pins, r) ==
  FoldLeft(LAMBDA f, c : IF Rhs(c) \in pins THEN f
                         ELSE [f EXCEPT ![Rhs(c)] = Hull(@, EvalConstraint(c, f))], r, cons)

Start(s) ==
  FoldLeft(LAMBDA f, p : [f EXCEPT ![p.var] = p.range],
           [v \in 0 .. s.vars - 1 |-> Empty], s.pins)

Least(s) ==
  LET pins == {s.pins[i].var : i \in DOMAIN s.pins}
      Fix[r \in [0 .. s.vars - 1 -> Interval]] ==
        LET next == Round(s.cons, pins, r) IN IF next = r THEN r ELSE Fix[next]
  IN  Fix[Start(s)]

Fails(q, r) == ~EpGe(EvalTerm(q.siz, r).lo, EvalTerm(q.len, r).hi)
=============================================================================
