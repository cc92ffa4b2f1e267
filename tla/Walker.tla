------------------------------- MODULE Walker -------------------------------
(***************************************************************************)
(* walk.rs: the state of the walker, how names, types and struct fields    *)
(* get their contexts, and the walk over expressions.                      *)
(*                                                                         *)
(* A walker w is a System (Contexts) together with the walker's tables.    *)
(* Walking an expression yields the walker after it, the context of the    *)
(* expression and its C type.  The models of library calls that need       *)
(* nothing but the System are in LibraryCalls.                             *)
(***************************************************************************)
EXTENDS Contexts, Types
LOCAL INSTANCE FiniteSetsExt

(* Canonical names: a raw name and the scope that tells it apart. *)
Global == "global"
Return == "return"

NoVar == -1

NewWalker(file) ==
  Unsolved @@
  [top |-> NoVar, tenv |-> [typedefs |-> << >>, structs |-> << >>],
   var_map |-> << >>,       \* canonical name |-> context and declared type
   fun_map |-> << >>,       \* function |-> contexts of its formals
   struct_map |-> << >>,    \* fields met: name, type of the struct, context
   global_canon |-> << >>,  \* raw global name |-> canonical name
   cur_func |-> Global, locals |-> {}, file |-> file,
   lost |-> FALSE]          \* history: a value was assigned that was ignored

fret_name(f) == <<f, Return>>

canonical_local(w, raw) == <<raw, w.cur_func>>

(* Mutant: the locals are not looked up. *)
resolve_nameGlobally(w, raw) ==
  IF raw \in DOMAIN w.global_canon THEN w.global_canon[raw] ELSE <<raw, Global>>

resolve_name(w, raw) ==
  IF raw \in w.locals THEN canonical_local(w, raw)
  ELSE IF raw \in DOMAIN w.global_canon THEN w.global_canon[raw]
  ELSE <<raw, Global>>

StarArgv == <<"argv[0]", "main">>

-----------------------------------------------------------------------------
(* Contexts of variables. *)

(* char x[N] and char x[]: the form of the declaration decides here, before *)
(* typedefs are resolved.                                                  *)
IsCharArray(ty) == ty.spec = Char /\ Len(ty.derivs) = 1 /\ is_array(ty)
IsSized(ty)     == IsCharArray(ty) /\ ty.derivs[1].size # NoSize

KindOf(w, ty) == kind(resolve(w.tenv, ty))

CtxOf(w, ty) ==
  CASE KindOf(w, ty) = "str"  -> NewStr(w)
    [] KindOf(w, ty) = "int"  -> IntCtx(NewTerm(w))
    [] KindOf(w, ty) = "none" -> NoneCtx

(* fresh_var_ctx: its variables, the size of char x[N], the query.  The    *)
(* context is CtxOf(w, ty).                                                *)
fresh_var_ctx(w, ty, name) ==
  CASE IsSized(ty) -> AddSubset(fresh_str(w, name), ConstTerm(ty.derivs[1].size), NewTerm(w))
    [] ~IsSized(ty) /\ KindOf(w, ty) = "str" -> fresh_str(w, name)
    [] KindOf(w, ty) = "int"  -> Grown(w)
    [] KindOf(w, ty) = "none" -> w

Bind(w, canon, ctx, ty) ==
  [w EXCEPT !.var_map = (canon :> [ctx |-> ctx, type |-> ty]) @@ @]

(* A later declaration of a name that has a context changes nothing. *)
new_var(w, canon, ty) ==
  IF canon \in DOMAIN w.var_map THEN w
  ELSE Bind(fresh_var_ctx(w, ty, canon), canon, CtxOf(w, ty), ty)

(* The variable "top", pinned to all integers, made when first needed. *)
WithTop(w) ==
  IF w.top # NoVar THEN w ELSE [Pinned(Grown(w), w.vars, Top) EXCEPT !.top = w.vars]

(* assign; the history notes that a value did not reach its target. *)
Assigned(w, dst, src) ==
  [assign(w, dst, src) EXCEPT !.lost = @ \/ (dst.kind # "none" /\ src.kind # dst.kind)]

-----------------------------------------------------------------------------
(* The outcome of walking an expression. *)

Got(w, ctx, ty) == [w |-> w, ctx |-> ctx, type |-> ty]
GotInt(w, t)    == Got(w, IntCtx(t), int)

promote(g) == [g EXCEPT !.type = array_to_ptr(@)]

(* A new variable that holds the values of both terms. *)
Either(w, t, u) == AddSubsets(Grown(w), <<t, u>>, NewTerm(w))

(* A truth value: 0 or 1. *)
bool_term(w, ty) == Got(Either(w, ConstTerm(0), One), IntCtx(NewTerm(w)), ty)

(* A field of one type of struct has one context in the whole program. *)
get_field(w, ty, id) ==
  LET known == {i \in DOMAIN w.struct_map :
                  w.struct_map[i].id = id /\ type_eq(w.tenv, ty, w.struct_map[i].type)}
      ft    == field_ctype(w.tenv, ty, id)
  IN  IF known # {} THEN Got(w, w.struct_map[Min(known)].ctx, ft)
      ELSE Got([fresh_var_ctx(w, ft, <<id, "field">>) EXCEPT
                  !.struct_map = Append(@, [id |-> id, type |-> ty, ctx |-> CtxOf(w, ft)])],
               CtxOf(w, ft), ft)

(* *(argv) and *(argv + i) in main are the buffer argv[0]@main(). *)
IsArgvName(w, e) == e.expr = "var" /\ resolve_name(w, e.name) = <<"argv", "main">>

is_argv(w, e) ==
  \/ IsArgvName(w, e)
  \/ e.expr = "binary" /\ e.op = "+" /\ IsArgvName(w, e.a)

(* What a dereference is reported as. *)
Dereference == <<"string dereference", "deref">>

(* Mutant: the query compares with the size. *)
DereferencedInSize(operand, g) ==
  IF IsStr(g.ctx)
  THEN Got(Queried(g.w, Dereference, g.ctx.siz, One), NoneCtx, deref(g.type))
  ELSE IF g.ctx.kind = "none" /\ is_argv(g.w, operand) /\ StarArgv \in DOMAIN g.w.var_map
  THEN Got(g.w, g.w.var_map[StarArgv].ctx, deref(g.type))
  ELSE Got(g.w, NoneCtx, deref(g.type))

Dereferenced(operand, g) ==
  IF IsStr(g.ctx)
  THEN Got(Queried(g.w, Dereference, g.ctx.len, One), NoneCtx, deref(g.type))
  ELSE IF g.ctx.kind = "none" /\ is_argv(g.w, operand) /\ StarArgv \in DOMAIN g.w.var_map
  THEN Got(g.w, g.w.var_map[StarArgv].ctx, deref(g.type))
  ELSE Got(g.w, NoneCtx, deref(g.type))

(* Mutant: the alternative of a conditional is forgotten. *)
MergedLeft(t, f) ==
  CASE IsInt(t.ctx) /\ IsInt(f.ctx) ->
         Got(Either(f.w, t.ctx.val, t.ctx.val), IntCtx(NewTerm(f.w)), t.type)
    [] IsStr(t.ctx) /\ IsStr(f.ctx) -> Got(f.w, t.ctx, t.type)
    [] OTHER -> Got(f.w, NoneCtx, t.type)

(* The value of a conditional is that of either side. *)
Merged(t, f) ==
  CASE IsInt(t.ctx) /\ IsInt(f.ctx) ->
         Got(Either(f.w, t.ctx.val, f.ctx.val), IntCtx(NewTerm(f.w)), t.type)
    [] IsStr(t.ctx) /\ IsStr(f.ctx) ->
         LET new == NewStr(f.w)
             s   == AddSubsets(fresh_str(f.w, <<"(unnamed)", Global>>),
                               <<t.ctx.siz, f.ctx.siz>>, new.siz)
         IN  Got(AddSubsets(s, <<t.ctx.len, f.ctx.len>>, new.len), new, t.type)
    [] OTHER -> Got(f.w, NoneCtx, t.type)

CastTo(ty, g) ==
  CASE kind(ty) = "int" /\ ~IsInt(g.ctx) ->
         Got(WithTop(g.w), IntCtx(VarTerm(WithTop(g.w).top)), ty)
    [] kind(ty) = g.ctx.kind             -> Got(g.w, g.ctx, ty)
    [] OTHER                             -> Got(g.w, NoneCtx, ty)

SizeOfType(w, ty) ==
  LET n == sizeof_type(w.tenv, ty)
  IN  IF n = NoSize THEN Got(w, NoneCtx, int) ELSE GotInt(w, ConstTerm(n))

SizeOfValue(g) == IF IsStr(g.ctx) THEN GotInt(g.w, g.ctx.siz) ELSE SizeOfType(g.w, g.type)

-----------------------------------------------------------------------------
(* Binary operators. *)

Compared == {"<", "<=", ">", ">=", "==", "!=", "&&", "||", "%", "&", "|", "^", "<<", ">>"}

Times(w, x, y, ty) ==
  CASE IsConstant(x)                   -> Got(w, IntCtx(Scale(y, x.konst)), ty)
    [] ~IsConstant(x) /\ IsConstant(y) -> Got(w, IntCtx(Scale(x, y.konst)), ty)
    [] OTHER -> Got(WithTop(w), IntCtx(VarTerm(WithTop(w).top)), ty)

(* The result of + and - on a pointer has the type of the pointer. *)
BinaryType(op, ty) ==
  IF op \in {"+", "-"} /\ (is_pointer(ty) \/ is_array(ty)) THEN ty ELSE int

OnInts(op, w, x, y, ty) ==
  CASE op = "+" -> Got(w, IntCtx(AddTerms(x, y)), ty)
    [] op = "-" -> Got(w, IntCtx(SubTerms(x, y)), ty)
    [] op = "*" -> Times(w, x, y, ty)
    [] op = "/" -> Got(WithTop(w), IntCtx(VarTerm(WithTop(w).top)), ty)
    [] op \in Compared -> bool_term(w, ty)

Operated(op, a, b) ==
  LET ty == BinaryType(op, a.type) IN
  CASE IsInt(a.ctx) /\ IsInt(b.ctx) -> OnInts(op, b.w, a.ctx.val, b.ctx.val, ty)
    [] op = "+" /\ IsStr(a.ctx) /\ IsInt(b.ctx) -> Got(b.w, advance(a.ctx, b.ctx.val), ty)
    [] OTHER -> Got(b.w, NoneCtx, ty)

-----------------------------------------------------------------------------
(* Calls of functions of the program. *)

(* do_formals: arguments and formals, as far as both go. *)
do_formals(w, f, actuals) ==
  IF f \notin DOMAIN w.fun_map THEN w
  ELSE FoldLeft(LAMBDA u, i : Assigned(u, w.fun_map[f][i], actuals[i]), w,
                [i \in 1 .. Lesser(Len(w.fun_map[f]), Len(actuals)) |-> i])

do_ret(w, f) ==
  IF fret_name(f) \in DOMAIN w.var_map THEN w.var_map[fret_name(f)].ctx ELSE NoneCtx

(* check_str_op: the models that use the walker's tables or only a range. *)
Between(w, hi) == Got(Either(w, ConstTerm(0), ConstTerm(hi)), IntCtx(NewTerm(w)), int)

HostEntry == CType(NamedAggregate("hostent"), << >>)

(* The name of a host is of any length, its address too. *)
HostByName(w) ==
  LET name == get_field(w, HostEntry, "h_name")
      size == get_field(WithTop(name.w), HostEntry, "h_length")
      s    == IF IsInt(size.ctx) THEN AddSubset(size.w, VarTerm(size.w.top), size.ctx.val) ELSE size.w
  IN  IF IsStr(name.ctx) THEN force_len_top(s, name.ctx.len) ELSE name.w

apply_fun(w, f, actuals) ==
  CASE f = "gethostbyname" -> Got(HostByName(w), NoneCtx, void)
    [] f = "syserror"      -> Between(w, 48)
    [] f = "syssignal"     -> Between(w, 25)
    [] OTHER -> LET u == do_formals(w, f, actuals) IN Got(u, do_ret(u, f), void)

-----------------------------------------------------------------------------
(* Walker::expr *)

RECURSIVE expr(_, _)

Promoted(w, e) == promote(expr(w, e))

Variable(w, raw) ==
  LET canon == resolve_name(w, raw)
      known == new_var(w, canon, void)
  IN  Got(known, known.var_map[canon].ctx, known.var_map[canon].type)

Binary(w, op, a, b) ==
  LET left == Promoted(w, a) IN Operated(op, left, Promoted(left.w, b))

(* The right-hand side of an assignment around dst; a op= b is a = a op b. *)
Source(w, e) == IF e.op = "" THEN Promoted(w, e.b) ELSE promote(Binary(w, e.op, e.a, e.b))

Store(dst, src) == Got(Assigned(src.w, dst.ctx, src.ctx), src.ctx, src.type)

assignment(w, e) == LET dst == expr(w, e.a) IN Store(dst, Source(dst.w, e))

eval_deref(w, operand) == Dereferenced(operand, Promoted(w, operand))

Member(g, id) == get_field(g.w, g.type, id)

Conditional(w, e) ==
  LET then == Promoted(expr(w, e.c).w, e.a) IN Merged(then, Promoted(then.w, e.b))

Arguments(w, args) ==
  FoldLeft(LAMBDA acc, a : LET g == Promoted(acc.w, a)
                           IN  [w |-> g.w, ctxs |-> Append(acc.ctxs, g.ctx)],
           [w |-> w, ctxs |-> << >>], args)

Called(e, callee, args) ==
  IF e.a.expr # "var" THEN Got(args.w, NoneCtx, callee.type)
  ELSE [apply_fun(args.w, e.a.name, args.ctxs) EXCEPT !.type = callee.type]

call(w, e) == LET callee == Promoted(w, e.a) IN Called(e, callee, Arguments(callee.w, e.args))

Negated(g) ==
  Got(g.w, IF IsInt(g.ctx) THEN IntCtx(Negate(g.ctx.val)) ELSE NoneCtx, g.type)

Address(g) == Got(g.w, NoneCtx, [g.type EXCEPT !.derivs = <<Pointer>> \o @])

expr(w, e) ==
  CASE e.expr = "var"     -> Variable(w, e.name)
    [] e.expr = "int"     -> GotInt(w, ConstTerm(e.n))
    [] e.expr = "char"    -> Got(w, NoneCtx, char)
    [] e.expr = "lit"     -> Got(w, StrCtx(ConstTerm(e.n + 1), ConstTerm(e.n + 1)), string)
    [] e.expr = "other"   -> Got(w, NoneCtx, void)
    [] e.expr = "?:"      -> Conditional(w, e)
    [] e.expr = "call"    -> call(w, e)
    [] e.expr = "*"       -> eval_deref(w, e.a)
    [] e.expr = "&"       -> Address(expr(w, e.a))
    [] e.expr = "neg"     -> Negated(expr(w, e.a))
    [] e.expr = "!"       -> bool_term(expr(w, e.a).w, int)
    [] e.expr = "~"       -> expr(w, e.a)
    [] e.expr = "binary"  -> Binary(w, e.op, e.a, e.b)
    [] e.expr = "="       -> assignment(w, e)
    [] e.expr = ","       -> Promoted(expr(w, e.a).w, e.b)
    [] e.expr = "cast"    -> CastTo(resolve(w.tenv, e.type), expr(w, e.a))
    [] e.expr = "sizeof"  -> SizeOfValue(expr(w, e.a))
    [] e.expr = "sizeoft" -> SizeOfType(w, e.type)
    [] e.expr = "->"      -> Member(promote(eval_deref(w, e.a)), e.name)
    [] e.expr = "."       -> Member(Promoted(w, e.a), e.name)
    [] e.expr = "[]"      -> eval_deref(w, [expr |-> "binary", op |-> "+", a |-> e.a, b |-> e.b])

-----------------------------------------------------------------------------
(* Declarations. *)

(* Mutant: the NUL always counts (the original BOON). *)
do_initWithNul(w, ty, ctx, e, src) ==
  IF IsSized(ty) THEN assign_init(w, ctx, src) ELSE Assigned(w, ctx, src)

(* A literal that fills a sized array leaves its NUL out; one that         *)
(* initializes an unsized array gives it its size, pinned.                 *)
do_init(w, ty, ctx, e, src) ==
  CASE IsSized(ty) /\ IsStr(ctx) /\ e.expr = "lit" ->
         AddSubset(w, ConstTerm(Lesser(e.n + 1, ty.derivs[1].size)), ctx.len)
    [] IsSized(ty) /\ ~(IsStr(ctx) /\ e.expr = "lit") -> assign_init(w, ctx, src)
    [] IsCharArray(ty) /\ ~IsSized(ty) /\ IsStr(ctx) /\ e.expr = "lit" ->
         Pinned(assign_init(w, ctx, src), TheVar(ctx.siz), Singleton(src.siz.konst))
    [] OTHER -> Assigned(w, ctx, src)

Initialized(v, canon, g) == do_init(g.w, v.type, g.w.var_map[canon].ctx, v.init, g.ctx)

(* A declaration and its initializer, if it is an expression. *)
decl_two(w, v) ==
  LET canon == canonical_local(w, v.name)
      known == new_var(w, canon, v.type)
  IN  IF v.init.expr \in {"none", "list"} THEN known
      ELSE Initialized(v, canon, expr(known, v.init))
=============================================================================
