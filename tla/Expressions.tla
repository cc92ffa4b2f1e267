---------------------------- MODULE Expressions ----------------------------
(***************************************************************************)
(* walk.rs: the walk over expressions, beside what C makes of them.        *)
(*                                                                         *)
(* A program is a set of expression statements on declared variables.      *)
(* "walk": the walker visits the statements one by one.  Solve takes the   *)
(* least solution of the constraints and answers the queries.  "run":      *)
(* the statements are executed in any order and any number of times, for   *)
(* the analysis takes no order of them, until one reads past the end of a  *)
(* string.                                                                 *)
(*                                                                         *)
(* A value of C is an integer, a place in an object that holds a string,   *)
(* a pointer to a struct, or a struct.  No statement writes into a string; *)
(* that is LibraryCalls.                                                   *)
(***************************************************************************)
EXTENDS Walker
LOCAL INSTANCE FiniteSetsExt

CONSTANTS
  TypeEnv,   \* the typedefs and structs of the program
  Decls,     \* the declarations of its variables, in their order
  Pool,      \* the statements programs are made of
  MaxStmts,  \* bound on the statements of a program
  MaxInt     \* bound on the integers and lengths of a run

VARIABLES
  phase,    \* "walk", "run" or "past"
  program,  \* the statements walked, by their places in the pool
  walker,   \* the walker's state
  solved,   \* Solve: ranges of variables and fields; is a dereference reported
  memory    \* run: what each variable and each field of a struct holds

vars == <<phase, program, walker, solved, memory>>

-----------------------------------------------------------------------------
(* Abstract syntax. *)

Var(x)          == [expr |-> "var", name |-> x]
Int1(n)         == [expr |-> "int", n |-> n]
Lit(n)          == [expr |-> "lit", n |-> n]
CharLit         == [expr |-> "char"]
Cond(c, a, b)   == [expr |-> "?:", c |-> c, a |-> a, b |-> b]
Op(op, a, b)    == [expr |-> "binary", op |-> op, a |-> a, b |-> b]
OpSet(op, a, b) == [expr |-> "=", op |-> op, a |-> a, b |-> b]
Set(a, b)       == OpSet("", a, b)
Unary(op, a)    == [expr |-> op, a |-> a]
Comma(a, b)     == [expr |-> ",", a |-> a, b |-> b]
Cast(ty, a)     == [expr |-> "cast", type |-> ty, a |-> a]
SizeofType(ty)  == [expr |-> "sizeoft", type |-> ty]
Dot(a, id)      == [expr |-> ".", a |-> a, name |-> id]
Arrow(a, id)    == [expr |-> "->", a |-> a, name |-> id]
Index(a, b)     == [expr |-> "[]", a |-> a, b |-> b]
Call(f, args)   == [expr |-> "call", a |-> Var(f), args |-> args]

-----------------------------------------------------------------------------
(* "walk" and Solve. *)

Walk(i) ==
  /\ phase = "walk"
  /\ \A j \in program : j < i
  /\ Cardinality(program) < MaxStmts
  /\ walker' = expr(walker, Pool[i]).w
  /\ program' = program \cup {i}
  /\ UNCHANGED <<phase, solved, memory>>

RangesOf(ctx, r) ==
  CASE ctx.kind = "int"  -> [kind |-> "int", val |-> EvalTerm(ctx.val, r)]
    [] ctx.kind = "str"  -> [kind |-> "str", siz |-> EvalTerm(ctx.siz, r), len |-> EvalTerm(ctx.len, r)]
    [] ctx.kind = "none" -> ctx

Solve ==
  /\ phase = "walk"
  /\ program # {}
  /\ \E r \in {Least(walker)} :
       solved' = [vars   |-> [x \in DOMAIN walker.var_map |-> RangesOf(walker.var_map[x].ctx, r)],
                  fields |-> [i \in DOMAIN walker.struct_map |->
                                [walker.struct_map[i] EXCEPT !.ctx = RangesOf(@, r)]],
                  lost   |-> walker.lost,
                  reported |-> \E i \in DOMAIN walker.queries :
                                 walker.queries[i].name = Dereference /\ Fails(walker.queries[i], r)]
  /\ phase' = "run"
  /\ walker' = NewWalker("")
  /\ UNCHANGED <<program, memory>>

-----------------------------------------------------------------------------
(* What C makes of an expression: the set of its outcomes, each with the   *)
(* memory after it, the value, and whether it read past the end of a       *)
(* string.  Where C leaves the behaviour undefined there is no outcome.    *)

Number(n)           == [val |-> "int", n |-> n]
Place(size, len, k) == [val |-> "str", size |-> size, used |-> len, at |-> k]
PointerTo(o)        == [val |-> "ptr", of |-> o]
Struct(o)           == [val |-> "struct", of |-> o]
Unset               == [val |-> "unset"]

Out(m, v)  == [mem |-> m, v |-> v, past |-> FALSE]
Truth(b)   == Number(IF b THEN 1 ELSE 0)
Ints       == -MaxInt .. MaxInt
Cell(x)    == <<x, "">>
IsTrue(v)  == v.val # "int" \/ v.n # 0

(* Values of ordinary size, as far as the bound goes. *)
Bounded(m, n) == IF n \in Ints THEN {Out(m, Number(n))} ELSE {}

(* The size of an object of a library is not stated: only its string is. *)
Extent(v) == IF v.size = NoSize THEN v.used ELSE v.size

(* A place may be moved up to the end of its object. *)
MovedTo(m, v, n) ==
  IF v.at + n \in 0 .. Extent(v) THEN {Out(m, [v EXCEPT !.at = @ + n])} ELSE {}

ApplyInts(m, op, x, y) ==
  CASE op = "+" -> Bounded(m, x + y)
    [] op = "-" -> Bounded(m, x - y)
    [] op = "*" -> Bounded(m, x * y)
    [] op = "/" -> IF x >= 0 /\ y > 0 THEN Bounded(m, x \div y) ELSE {}
    [] op = "<" -> {Out(m, Truth(x < y))}
    [] op = "==" -> {Out(m, Truth(x = y))}
    [] op = "&&" -> {Out(m, Truth(x # 0 /\ y # 0))}

Apply(m, op, v, w) ==
  CASE v.val = "int" /\ w.val = "int"              -> ApplyInts(m, op, v.n, w.n)
    [] v.val = "str" /\ w.val = "int" /\ op = "+"  -> MovedTo(m, v, w.n)
    [] v.val = "str" /\ w.val = "int" /\ op = "-"  -> MovedTo(m, v, -w.n)
    [] v.val = "ptr" /\ op = "+"                   -> {Out(m, v)}
    [] OTHER                                       -> {}

(* The byte at a place: some character, or the NUL where the string ends. *)
Byte(m, v) ==
  IF v.at >= v.used THEN {[Out(m, Number(1)) EXCEPT !.past = TRUE]}
  ELSE {Out(m, Truth(v.at < v.used - 1))}

Target(m, v) ==
  CASE v.val = "str" -> Byte(m, v)
    [] v.val = "ptr" -> {Out(m, Struct(v.of))}
    [] OTHER         -> {}

Fetch(m, cell) == IF m[cell] = Unset THEN {} ELSE {Out(m, m[cell])}

(* A pointer converted to an integer is any of two addresses. *)
Converted(m, ty, v) ==
  CASE kind(ty) = "int" /\ v.val # "int" -> {Out(m, Number(n)) : n \in {0, MaxInt}}
    [] kind(ty) # "int" /\ v.val = "int" -> {}
    [] OTHER                             -> {Out(m, v)}

DeclOf(x) == Decls[CHOOSE i \in DOMAIN Decls : Decls[i].name = x]

DeclaredType(x) == resolve(TypeEnv, DeclOf(x).type)

(* An array without a size has that of the literal it is made from. *)
ArraySize(d) ==
  LET n == d.type.derivs[1].size IN IF n = NoSize THEN d.init.n + 1 ELSE n

SizeOf(e) ==
  CASE e.expr = "var" ->
         LET ty == DeclaredType(e.name)
         IN  IF is_array(ty) THEN ArraySize(DeclOf(e.name)) * SpecSize(ty.spec)
             ELSE SpecSize(ty.spec)
    [] e.expr = "*" -> SpecSize(DeclaredType(e.a.name).spec)

RECURSIVE Outcomes(_, _)

(* What follows an outcome, unless that read past the end. *)
Then(outs, F(_)) == UNION {IF o.past THEN {o} ELSE F(o) : o \in outs}

Operands(m, a, b, F(_, _, _)) ==
  Then(Outcomes(m, a), LAMBDA x : Then(Outcomes(x.mem, b), LAMBDA y : F(y.mem, x.v, y.v)))

Written(m, cell, v) == {Out([m EXCEPT ![cell] = v], v)}

Source1(e) == IF e.op = "" THEN e.b ELSE Op(e.op, e.a, e.b)

FieldsOf(o, m) == {c \in DOMAIN m : c[1] = o /\ c # Cell(o)}

(* A struct is copied field by field. *)
Copied(m, o, from) ==
  {Out([c \in DOMAIN m |-> IF c \in FieldsOf(o, m) THEN m[<<from, c[2]>>] ELSE m[c]], Struct(o))}

AssignTo(m, lhs, v) ==
  CASE lhs.expr = "var" /\ v.val # "struct" -> Written(m, Cell(lhs.name), v)
    [] lhs.expr = "var" /\ v.val = "struct" -> Copied(m, lhs.name, v.of)
    [] lhs.expr \in {".", "->"} ->
         Then(Outcomes(m, lhs.a), LAMBDA o : Written(o.mem, <<o.v.of, lhs.name>>, v))

(* A host has a name of any length. *)
Entry == "h"
Hosts(m) ==
  {Out([m EXCEPT ![<<Entry, "h_name">>] = Place(NoSize, k, 0), ![<<Entry, "h_length">>] = Number(4)],
       PointerTo(Entry)) : k \in 1 .. MaxInt}

Outcomes(m, e) ==
  CASE e.expr = "var"     -> Fetch(m, Cell(e.name))
    [] e.expr = "int"     -> {Out(m, Number(e.n))}
    [] e.expr = "char"    -> {Out(m, Number(1))}
    [] e.expr = "lit"     -> {Out(m, Place(e.n + 1, e.n + 1, 0))}
    [] e.expr = "?:"      -> Then(Outcomes(m, e.c), LAMBDA o :
                                  Outcomes(o.mem, IF IsTrue(o.v) THEN e.a ELSE e.b))
    [] e.expr = "call"    -> IF e.a.name = "gethostbyname" THEN Hosts(m)
                             ELSE {Out(m, Number(n)) : n \in 0 .. MaxInt}
    [] e.expr = "*"       -> Then(Outcomes(m, e.a), LAMBDA o : Target(o.mem, o.v))
    [] e.expr = "[]"      -> Operands(m, e.a, e.b, LAMBDA n, v, w :
                                      Then(Apply(n, "+", v, w), LAMBDA o : Target(o.mem, o.v)))
    [] e.expr = "&"       -> {Out(m, PointerTo(e.a.name))}
    [] e.expr = "neg"     -> Then(Outcomes(m, e.a), LAMBDA o : Bounded(o.mem, -o.v.n))
    [] e.expr = "!"       -> Then(Outcomes(m, e.a), LAMBDA o : {Out(o.mem, Truth(~IsTrue(o.v)))})
    [] e.expr = "binary"  -> Operands(m, e.a, e.b, LAMBDA n, v, w : Apply(n, e.op, v, w))
    [] e.expr = "="       -> Then(Outcomes(m, Source1(e)), LAMBDA o : AssignTo(o.mem, e.a, o.v))
    [] e.expr = ","       -> Then(Outcomes(m, e.a), LAMBDA o : Outcomes(o.mem, e.b))
    [] e.expr = "cast"    -> Then(Outcomes(m, e.a), LAMBDA o :
                                  Converted(o.mem, resolve(TypeEnv, e.type), o.v))
    [] e.expr = "sizeof"  -> Bounded(m, SizeOf(e.a))
    [] e.expr = "sizeoft" -> Bounded(m, SpecSize(resolve(TypeEnv, e.type).spec))
    [] e.expr \in {".", "->"} -> Then(Outcomes(m, e.a), LAMBDA o : Fetch(o.mem, <<o.v.of, e.name>>))

Run(i) ==
  /\ phase = "run"
  /\ i \in program
  /\ \E o \in Outcomes(memory, Pool[i]) :
       /\ memory' = o.mem
       /\ phase' = IF o.past THEN "past" ELSE "run"
  /\ UNCHANGED <<program, walker, solved>>

-----------------------------------------------------------------------------
(* Types have been collected, variables made and their initializers walked. *)
Declared ==
  FoldLeft(decl_two, [NewWalker("") EXCEPT !.tenv = TypeEnv], Decls)

(* A struct, or an array of them, is one object; an array of characters is *)
(* the place where it starts.                                              *)
IsStruct(d) == DeclaredType(d.name).spec.spec \in {"aggregate", "tag"}

Initial(d) ==
  LET ty == DeclaredType(d.name) IN
  CASE IsStruct(d) /\ ty.derivs = << >> -> Struct(d.name)
    [] IsStruct(d) /\ is_array(ty)      -> PointerTo(d.name)
    [] kind(ty) = "str" /\ is_array(ty) ->
         Place(ArraySize(d), Lesser(d.init.n + 1, ArraySize(d)), 0)
    [] OTHER -> Unset

Cells ==
  {Cell(d.name) : d \in ToSet(Decls)}
  \cup UNION {{<<d.name, f.name>> : f \in ToSet(DeclaredType(d.name).spec.fields)}
                : d \in {x \in ToSet(Decls) : IsStruct(x) /\ ~is_pointer(DeclaredType(x.name))}}

Init ==
  /\ phase = "walk"
  /\ program = {}
  /\ walker = Declared
  /\ solved = [vars |-> << >>, fields |-> << >>, lost |-> FALSE, reported |-> FALSE]
  /\ memory = [c \in Cells |->
                 IF c[2] # "" THEN Unset
                 ELSE Initial(DeclOf(c[1]))]

Next == Solve \/ \E i \in DOMAIN Pool : Walk(i) \/ Run(i)

Spec == Init /\ [][Next]_vars

-----------------------------------------------------------------------------
(* Properties.                                                             *)

Exists(t, w) == \A i \in DOMAIN t.terms : t.terms[i][2] \in 0 .. w.vars - 1

Known(ctx, w) ==
  CASE ctx.kind = "int"  -> Exists(ctx.val, w)
    [] ctx.kind = "str"  -> Exists(ctx.siz, w) /\ Exists(ctx.len, w)
    [] ctx.kind = "none" -> TRUE

(* Contexts, constraints and queries mention variables that exist.         *)
TypeOK ==
  /\ phase \in {"walk", "run", "past"}
  /\ program \in SUBSET DOMAIN Pool
  /\ \A x \in DOMAIN walker.var_map : Known(walker.var_map[x].ctx, walker)
  /\ \A i \in DOMAIN walker.struct_map : Known(walker.struct_map[i].ctx, walker)
  /\ \A i \in DOMAIN walker.queries :
       Exists(walker.queries[i].siz, walker) /\ Exists(walker.queries[i].len, walker)
  /\ \A c \in DOMAIN memory : memory[c].val = "str" => memory[c].at \in 0 .. Extent(memory[c])

(* Nothing is promised of programs that assign a value the walker has no   *)
(* context for ("No string/integer information").                          *)
Promised == phase # "walk" /\ ~solved.lost

Covers(ranges, v) ==
  CASE v.val = "int" -> ranges.kind = "int" => In(v.n, ranges.val)
    [] v.val = "str" -> ranges.kind = "str" => /\ v.size # NoSize => In(v.size - v.at, ranges.siz)
                                               /\ In(v.used - v.at, ranges.len)
    [] OTHER         -> TRUE

(* "siz bytes allocated", "len bytes used": whatever the statements do, in *)
(* whatever order, what a variable holds lies in its ranges, and so does   *)
(* what is left of a string after pointer arithmetic.                      *)
VariablesAreCovered ==
  Promised => \A d \in ToSet(Decls) : Covers(solved.vars[<<d.name, Global>>], memory[Cell(d.name)])

(* "struct fields merge by field name and struct type": every access to a  *)
(* field, however its struct is spelled and reached, has ranges that hold  *)
(* what any object of that type holds.                                     *)
FieldsAreCovered ==
  Promised =>
    \A i \in DOMAIN solved.fields : \A c \in {k \in DOMAIN memory : k[2] = solved.fields[i].id} :
      resolve(TypeEnv, solved.fields[i].type).spec = DeclaredType(c[1]).spec =>
        Covers(solved.fields[i].ctx, memory[c])

(* A dereference at or after the end of a string is reported ("deref past  *)
(* the end fencepost check").                                              *)
DereferenceIsReported == Promised /\ phase = "past" => solved.reported
=============================================================================
