------------------------------ MODULE Scoping ------------------------------
(***************************************************************************)
(* From source files to constraints (main.rs main; parse.rs; walk.rs       *)
(* analyze): how declarations find their types, names their contexts, and  *)
(* calls their callees.                                                    *)
(*                                                                         *)
(* "parse": the declarations of every file, one after the other, form one  *)
(* program.  collect_types takes its types.  "one": pass_one makes the     *)
(* contexts of globals, returns and formals.  "bounds": generic_bounds     *)
(* feeds main.  "two" and "body": pass_two makes the locals of a function  *)
(* and walks its body, whose blocks share one scope.                       *)
(***************************************************************************)
EXTENDS Walker, Parser
LOCAL INSTANCE FiniteSetsExt

CONSTANT Programs  \* the programs to analyze: sequences of files

VARIABLES
  files,   \* the files, each a sequence of the nodes at its top level
  pc,      \* "parse", "one", "bounds", "two", "body" or "done"
  file,    \* the file that is parsed
  at,      \* the node or declaration under the hand
  parser,  \* the parser's scope, and the declarations of all files so far
  walker,  \* the walker's state
  todo,    \* the statements of the body still to walk
  source,  \* history: what C makes of the files
  uses     \* history: the contexts that the uses of each object got

vars == <<files, pc, file, at, parser, walker, todo, source, uses>>

File(i) == <<"first.c", "second.c">>[i]

Here == parser.out[at]

Advance(phase, next) ==
  IF at < Len(parser.out)
  THEN at' = at + 1 /\ pc' = phase
  ELSE at' = 1 /\ pc' = next

-----------------------------------------------------------------------------
(* The history "source": what C makes of the files, for the properties.    *)

(* The nodes under a node, itself included. *)
RECURSIVE Nodes(_)
Nodes(n) ==
  {n} \cup UNION {Nodes(c) : c \in (IF "subs" \in DOMAIN n THEN ToSet(n.subs) ELSE {})
                                   \cup (IF "init" \in DOMAIN n THEN {n.init} ELSE {})}

Declarations(nodes) == {n \in nodes : n.node = "declaration"}

(* The variables that declarations declare, sizes taken in a scope. *)
Variables(nodes, scope) ==
  {d \in UNION {ToSet(declaration([NewParser EXCEPT !.scope = scope], n).out)
                  : n \in Declarations(nodes)} : d.decl = "var"}

(* Each name of a set of declarations with the type it has there. *)
TypeIn(decls) == [x \in {d.name : d \in decls} |-> (CHOOSE d \in decls : d.name = x).type]

(* The typedefs and structs of the program, local ones included. *)
TypesOfDecls(decls) ==
  [typedefs |-> TypeIn({d \in decls : d.decl = "typedef"}),
   structs  |-> [x \in {d.name : d \in {e \in decls : e.decl = "struct"}} |->
                   (CHOOSE d \in decls : d.decl = "struct" /\ d.name = x).fields]]

ExprsOf(n) == (IF "value" \in DOMAIN n THEN {n.value} ELSE {})
              \cup (IF "exprs" \in DOMAIN n THEN ToSet(n.exprs) ELSE {})

Named1(params) == {VarDecl(p.name, FALSE, p.type, NoExpr) : p \in {q \in params : q.name # NoName}}

(* A function: its variables, those of any block, hide global ones.        *)
FunctionC(def, nodes, globals) ==
  LET params == Named1(ToSet(def.params))
  IN  [name |-> def.name, params |-> def.params,
       vars |-> params \cup Variables(nodes, TypeIn(Variables(nodes, << >>) \cup params) @@ TypeIn(globals)),
       exprs |-> UNION {ExprsOf(n) : n \in nodes},
       returned |-> {n.value : n \in {m \in nodes : m.node = "return_statement"}}]

(* The definition that the node of a function makes, without its body. *)
Signature(n) == Last(top_decl(NewParser, [n EXCEPT !.subs = << >>]).out)

SourceOf(tops) ==
  LET globals == Variables(tops, << >>)
  IN  [types   |-> TypesOfDecls(UNION {ToSet(top_decl(NewParser, n).out) : n \in
                     {m \in UNION {Nodes(t) : t \in tops} : m.node # "function_definition"}}),
       globals |-> globals,
       funs    |-> {FunctionC(Signature(n), Nodes(n), globals) : n \in
                      {m \in tops : m.node = "function_definition"}}]

(* An object is a variable of a function or of the program, or a field of  *)
(* a struct.                                                               *)
VarsOf(f) == UNION {g.vars : g \in {h \in source.funs : h.name = f}}

ObjectNamed(x, f) == IF \E d \in VarsOf(f) : d.name = x THEN <<x, f>> ELSE <<x, Global>>

(* The types an object is declared with. *)
TypesOf(o) ==
  IF Len(o) = 2
  THEN {d.type : d \in {e \in (IF o[2] = Global THEN source.globals ELSE VarsOf(o[2])) : e.name = o[1]}}
  ELSE {f.type : f \in {g \in ToSet(source.types.structs[o[3]]) : g.name = o[1]}}

StructOf(o) == resolve(source.types, CHOOSE ty \in TypesOf(o) : TRUE).spec.name

ObjectOf(e, f) ==
  IF e.expr = "var" THEN ObjectNamed(e.name, f)
  ELSE <<e.name, "field", StructOf(ObjectNamed(e.a.name, f))>>

(* The variables and fields that an expression mentions. *)
RECURSIVE Mentioned(_)
Mentioned(e) ==
  LET parts == IF e.expr = "call" THEN ToSet(e.args)
               ELSE {e[k] : k \in DOMAIN e \cap {"a", "b", "c"}}
  IN  (IF e.expr \in {"var", "."} THEN {e} ELSE {}) \cup UNION {Mentioned(part) : part \in parts}

Use(e) ==
  uses' = uses \cup {<<ObjectOf(m, walker'.cur_func), expr(walker', m).ctx>> : m \in Mentioned(e)}

-----------------------------------------------------------------------------
(* main: the files are parsed and merged; the name of the last is kept.    *)

Init ==
  /\ files \in Programs
  /\ pc = "parse"
  /\ file = 1
  /\ at = 1
  /\ parser = NewParser
  /\ walker = NewWalker(File(1))
  /\ todo = << >>
  /\ source = SourceOf(UNION {ToSet(files[i]) : i \in DOMAIN files})
  /\ uses = {}

ParseNode ==
  /\ pc = "parse" /\ at <= Len(files[file])
  /\ parser' = top_decl(parser, files[file][at])
  /\ at' = at + 1
  /\ UNCHANGED <<files, source, pc, file, walker, todo, uses>>

(* Every file has a parser of its own. *)
NextFile ==
  /\ pc = "parse" /\ at > Len(files[file]) /\ file < Len(files)
  /\ file' = file + 1
  /\ at' = 1
  /\ parser' = [NewParser EXCEPT !.out = parser.out]
  /\ UNCHANGED <<files, source, pc, walker, todo, uses>>

collect_types(w, d) ==
  CASE d.decl = "typedef" -> [w EXCEPT !.tenv.typedefs = (d.name :> d.type) @@ @]
    [] d.decl = "struct"  -> [w EXCEPT !.tenv.structs = (d.name :> d.fields) @@ @]
    [] d.decl \notin {"typedef", "struct"} -> w

CollectTypes ==
  /\ pc = "parse" /\ at > Len(files[file]) /\ file = Len(files)
  /\ walker' = FoldLeft(collect_types, NewWalker(File(file)), parser.out)
  /\ pc' = "one"
  /\ at' = 1
  /\ UNCHANGED <<files, source, file, parser, todo, uses>>

-----------------------------------------------------------------------------
(* Pass one. *)

SkipType(phase, next) ==
  /\ pc = phase /\ Here.decl \in {"typedef", "struct"}
  /\ Advance(phase, next)
  /\ UNCHANGED <<files, source, file, parser, walker, todo, uses>>

(* A variable: a static one gets the file into its name. *)
CollectGlobal ==
  /\ pc = "one" /\ Here.decl = "var"
  /\ LET canon == <<Here.name, IF Here.static THEN walker.file ELSE Global>>
     IN  walker' = new_var([walker EXCEPT !.global_canon = (Here.name :> canon) @@ @,
                                          !.cur_func = Global], canon, Here.type)
  /\ Advance("one", "bounds")
  /\ UNCHANGED <<files, source, file, parser, todo, uses>>

(* A formal already recorded keeps its context, and a definition binds its *)
(* own name to it; one not seen before is a variable of the function in a  *)
(* definition, a nameless context in a prototype.                          *)
RememberParam(known, f, ignore_names, acc, i, p) ==
  LET canon == <<p.name, f>>
      bound == ~ignore_names /\ p.name # NoName
  IN CASE i <= Len(known) /\ bound ->
            [w |-> Bind(acc.w, canon, known[i], p.type), info |-> Append(acc.info, known[i])]
       [] i <= Len(known) /\ ~bound ->
            [acc EXCEPT !.info = Append(@, known[i])]
       [] i > Len(known) /\ bound ->
            LET w == new_var(acc.w, canon, p.type)
            IN  [w |-> w, info |-> Append(acc.info, w.var_map[canon].ctx)]
       [] i > Len(known) /\ ~bound ->
            [w    |-> fresh_var_ctx(acc.w, p.type, <<p.name, "formal">>),
             info |-> Append(acc.info, CtxOf(acc.w, p.type))]

(* Mutant: what an earlier prototype recorded is forgotten. *)
remember_fun_paramsAnew(w, f, params, ignore_names) ==
  LET seen == FoldLeftDomain(
                LAMBDA acc, i : RememberParam(<< >>, f, ignore_names, acc, i, params[i]),
                [w |-> w, info |-> << >>], params)
  IN  [seen.w EXCEPT !.fun_map = (f :> seen.info) @@ @]

remember_fun_params(w, f, params, ignore_names) ==
  LET known == IF f \in DOMAIN w.fun_map THEN w.fun_map[f] ELSE << >>
      seen  == FoldLeftDomain(
                 LAMBDA acc, i : RememberParam(known, f, ignore_names, acc, i, params[i]),
                 [w |-> w, info |-> << >>], params)
  IN  [seen.w EXCEPT !.fun_map = (f :> (seen.info \o SubSeq(known, Len(params) + 1, Len(known)))) @@ @]

CollectFunction(tag, ignore_names) ==
  /\ pc = "one" /\ Here.decl = tag
  /\ walker' = remember_fun_params(
                 new_var([walker EXCEPT !.cur_func = Global], fret_name(Here.name), Here.returns),
                 Here.name, Here.params, ignore_names)
  /\ Advance("one", "bounds")
  /\ UNCHANGED <<files, source, file, parser, todo, uses>>

(* generic_bounds: argc is 0..+Infinity; argv[0] is a buffer of its own. *)
WithArgc(w) ==
  LET argc == NewTerm(w) IN AddSubset(AddSubset(Grown(w), ConstTerm(0), argc), AddTerms(argc, One), argc)

WithStarArgv(w) == Bind(fresh_str(w, StarArgv), StarArgv, NewStr(w), string)

GenericBounds ==
  /\ pc = "bounds"
  /\ walker' = do_formals(WithStarArgv(WithArgc(walker)), "main", <<IntCtx(NewTerm(walker)), NoneCtx>>)
  /\ pc' = "two"
  /\ UNCHANGED <<files, source, file, at, parser, todo, uses>>

-----------------------------------------------------------------------------
(* Pass two. *)

WalkGlobal ==
  /\ pc = "two" /\ Here.decl = "var"
  /\ walker' = decl_two([walker EXCEPT !.cur_func = Global, !.locals = {}], Here)
  /\ Use(Here.init)
  /\ Advance("two", "done")
  /\ UNCHANGED <<files, source, file, parser, todo>>

SkipPrototype ==
  /\ pc = "two" /\ Here.decl = "fundecl"
  /\ Advance("two", "done")
  /\ UNCHANGED <<files, source, file, parser, walker, todo, uses>>

(* The order in which stmt and walk_block visit what makes constraints.    *)
RECURSIVE Leaves(_)
Leaves(s) ==
  IF s.stmt = "control"
  THEN [i \in DOMAIN s.exprs |-> ExprStmt(s.exprs[i])]
       \o FlattenSeq([i \in DOMAIN s.subs |-> Leaves(s.subs[i])])
  ELSE <<s>>

(* Mutant: of the statements in a statement only the first is walked. *)
BodyFirst(body) == Leaves(Control(<< >>, [i \in DOMAIN body |->
  IF body[i].stmt = "control" THEN [body[i] EXCEPT !.subs = SubSeq(@, 1, Lesser(1, Len(@)))] ELSE body[i]]))

Body(body) == Leaves(Control(<< >>, body))

(* collect_block_locals *)
LocalDecls(body) == SelectSeq(Body(body), LAMBDA s : s.stmt = "decl")

BoundNames(d) ==
  ({p.name : p \in ToSet(d.params)} \ {NoName}) \cup {s.var.name : s \in ToSet(LocalDecls(d.body))}

(* A context for each local; parameters have theirs.                       *)
EnterFunction ==
  /\ pc = "two" /\ Here.decl = "fundef"
  /\ walker' = FoldLeft(LAMBDA w, s : new_var(w, canonical_local(w, s.var.name), s.var.type),
                        [walker EXCEPT !.cur_func = Here.name, !.locals = BoundNames(Here)],
                        LocalDecls(Here.body))
  /\ todo' = Body(Here.body)
  /\ pc' = "body"
  /\ UNCHANGED <<files, source, file, at, parser, uses>>

Statement(tag) ==
  /\ pc = "body" /\ todo # << >>
  /\ Head(todo).stmt = tag
  /\ todo' = Tail(todo)
  /\ UNCHANGED <<files, source, pc, file, at, parser>>

WalkDecl ==
  /\ Statement("decl")
  /\ walker' = decl_two(walker, Head(todo).var)
  /\ Use(Head(todo).var.init)

WalkExpr ==
  /\ Statement("expr")
  /\ walker' = expr(walker, Head(todo).value).w
  /\ Use(Head(todo).value)

Returned(g) == Assigned(g.w, g.w.var_map[fret_name(g.w.cur_func)].ctx, g.ctx)

WalkReturn ==
  /\ Statement("return")
  /\ walker' = IF Head(todo).value = NoExpr THEN walker ELSE Returned(expr(walker, Head(todo).value))
  /\ Use(Head(todo).value)

LeaveFunction ==
  /\ pc = "body" /\ todo = << >>
  /\ Advance("two", "done")
  /\ UNCHANGED <<files, source, file, parser, walker, todo, uses>>

Next ==
  \/ ParseNode \/ NextFile \/ CollectTypes
  \/ SkipType("one", "bounds") \/ CollectGlobal
  \/ CollectFunction("fundef", FALSE) \/ CollectFunction("fundecl", TRUE)
  \/ GenericBounds
  \/ SkipType("two", "done") \/ WalkGlobal \/ SkipPrototype
  \/ EnterFunction \/ LeaveFunction
  \/ WalkDecl \/ WalkExpr \/ WalkReturn

Spec == Init /\ [][Next]_vars

-----------------------------------------------------------------------------
(* Contexts, constraints and queries mention variables that exist, and the *)
(* walk stays inside the program.                                          *)
Exists(t) == \A i \in DOMAIN t.terms : t.terms[i][2] \in 0 .. walker.vars - 1

Known(ctx) ==
  CASE ctx.kind = "int"  -> Exists(ctx.val)
    [] ctx.kind = "str"  -> Exists(ctx.siz) /\ Exists(ctx.len)
    [] ctx.kind = "none" -> TRUE

TypeOK ==
  /\ pc \in {"parse", "one", "bounds", "two", "body", "done"}
  /\ pc # "parse" => at \in DOMAIN parser.out
  /\ \A x \in DOMAIN walker.var_map : Known(walker.var_map[x].ctx)
  /\ \A f \in DOMAIN walker.fun_map : \A i \in DOMAIN walker.fun_map[f] : Known(walker.fun_map[f][i])
  /\ \A x \in DOMAIN walker.global_canon : walker.global_canon[x] \in DOMAIN walker.var_map
  /\ \A i \in DOMAIN walker.queries : Exists(walker.queries[i].siz) /\ Exists(walker.queries[i].len)

(* What C binds a name to and the context the walker finds for it agree:   *)
(* all uses of an object merge into one context and two objects never      *)
(* share one, whatever was declared before, in whatever file and order.    *)
OneContextPerObject ==
  \A u, v \in uses :
    /\ u[1] = v[1] => u[2] = v[2]
    /\ u[1] # v[1] /\ u[2].kind # "none" => u[2] # v[2]

(* The type an object has in C decides what the analysis tracks of it: the *)
(* typedefs and structs it is declared with are found wherever they stand. *)
ContextMatchesType ==
  pc = "done" =>
    \A u \in uses : \A ty \in TypesOf(u[1]) : u[2].kind = kind(resolve(source.types, ty))

-----------------------------------------------------------------------------
(* What the program copies, and from where to where.                       *)

ContextsOf(o) == {u[2] : u \in {v \in uses : v[1] = o}}

ReturnOf(f) == {walker.var_map[c].ctx : c \in {fret_name(f)} \cap DOMAIN walker.var_map}

(* The contexts that hold the value of an expression. *)
ValuesOf(e, f) ==
  CASE e.expr \in {"var", "."} -> ContextsOf(ObjectOf(e, f))
    [] e.expr \in {"int", "lit"} -> {expr(walker, e).ctx}
    [] e.expr = "call" -> ReturnOf(e.a.name)
    [] OTHER -> {}

Flow(lhs, rhs) == ToSet(SubsetOf(lhs, rhs))

(* Length or value, and the size too unless it is fixed. *)
Reaches(src, dst, fixed) ==
  CASE IsInt(src) /\ IsInt(dst) -> Flow(src.val, dst.val) \subseteq ToSet(walker.cons)
    [] IsStr(src) /\ IsStr(dst) ->
         Flow(src.len, dst.len) \cup (IF fixed THEN {} ELSE Flow(src.siz, dst.siz)) \subseteq ToSet(walker.cons)
    [] OTHER -> TRUE

(* Literals in arrays are cut to fit: ArraysKeepTheirSize. *)
IsCopied(d) == d.init.expr \in {"var", "int", "call", "."} \/ (d.init.expr = "lit" /\ ~is_array(d.type))

Initializers ==
  UNION {{[to |-> ObjectNamed(d.name, b.name), from |-> d.init, in |-> b.name, fixed |-> is_array(d.type)]
            : d \in {v \in b.vars : IsCopied(v)}}
           : b \in source.funs \cup {[name |-> Global, vars |-> source.globals]}}

IsAssignment(e) == e.expr = "=" /\ e.op = "" /\ e.a.expr \in {"var", "."}

Assignments ==
  UNION {{[to |-> ObjectOf(e.a, b.name), from |-> e.b, in |-> b.name, fixed |-> FALSE]
            : e \in {x \in b.exprs : IsAssignment(x)}}
           : b \in source.funs}

(* "all assignments ... flow-insensitive": once the program is walked, the *)
(* value of every assignment and initializer of the source has flowed into *)
(* the context that the uses of its target have, in whatever statement of  *)
(* whatever block it stands.                                               *)
AssignmentsAreMerged ==
  pc = "done" =>
    \A c \in Initializers \cup Assignments :
      \A src \in ValuesOf(c.from, c.in), dst \in ContextsOf(c.to) : Reaches(src, dst, c.fixed)

CallsIn(b) ==
  {e \in b.exprs \cup {x.b : x \in {y \in b.exprs : y.expr = "="}} \cup {d.init : d \in b.vars}
     : e.expr = "call"}

(* "function parameters and return values merge across all call sites":    *)
(* every argument reaches the context that the callee's body has for the   *)
(* parameter, and every value returned the context of the result, whether  *)
(* the callee is defined before or after, in this file or another, with a  *)
(* prototype before, after or none.                                        *)
CallsConnect ==
  pc = "done" =>
    \A g \in source.funs :
      /\ \A b \in source.funs : \A c \in CallsIn(b) : c.a.name = g.name =>
           \A i \in DOMAIN g.params \cap DOMAIN c.args :
             \A src \in ValuesOf(c.args[i], b.name), dst \in ContextsOf(<<g.params[i].name, g.name>>) :
               Reaches(src, dst, FALSE)
      /\ \A e \in g.returned : \A src \in ValuesOf(e, g.name), dst \in ReturnOf(g.name) :
           Reaches(src, dst, FALSE)

-----------------------------------------------------------------------------
SizesOf(o) == {ty.derivs[1].size : ty \in {t \in TypesOf(o) : IsSized(t)}}

(* Uses of arrays that their declarations give a size; of a global array   *)
(* the first must, a later one may leave it out: extern char a[];          *)
ArrayUses ==
  LET DeclaredAt(x) == {i \in DOMAIN parser.out : parser.out[i].decl = "var" /\ parser.out[i].name = x}
      DecidingTypes(o) == IF o[2] = Global THEN {parser.out[Min(DeclaredAt(o[1]))].type} ELSE TypesOf(o)
  IN  {u \in uses : /\ Len(u[1]) = 2 /\ IsStr(u[2]) /\ SizesOf(u[1]) # {}
                    /\ \A ty \in DecidingTypes(u[1]) : IsSized(ty)}

(* An array has the size that its declarations give it, sizeof in them     *)
(* standing for what it does in C: it is there, however often, wherever    *)
(* and in whatever file the array is declared again, and nothing that is   *)
(* assigned, passed or returned changes it; and the literal that           *)
(* initializes the array fits it.                                          *)
ArraysKeepTheirSize ==
  pc = "done" =>
    \A u \in ArrayUses :
      LET cons == {c \in ToSet(walker.cons) : c.form = "subset"}
          sent == {c.lhs : c \in {d \in cons : VarTerm(d.var) = u[2].siz}}
      IN  /\ sent # {}
          /\ sent \subseteq {ConstTerm(n) : n \in SizesOf(u[1])}
          /\ \A c \in cons : VarTerm(c.var) = u[2].len /\ IsConstant(c.lhs) =>
               \E n \in SizesOf(u[1]) : c.lhs.konst <= n
=============================================================================
