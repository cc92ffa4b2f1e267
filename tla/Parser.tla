------------------------------- MODULE Parser -------------------------------
(***************************************************************************)
(* parse.rs: from the syntax tree of a C file to the declarations that the *)
(* walker sees (ast.rs).                                                   *)
(*                                                                         *)
(* A parser p has the scope p.scope, which maps the names declared so far  *)
(* to their types, and the top-level declarations p.out.  Every operator   *)
(* that may declare something yields the parser after it.  Expressions are *)
(* those of Walker; types in them are taken as parsed.                     *)
(***************************************************************************)
EXTENDS Types, TLC
LOCAL INSTANCE SequencesExt

NoName == ""
NoExpr == [expr |-> "none"]

NewParser == [scope |-> << >>, out |-> << >>]

Push(p, decl)        == [p EXCEPT !.out = Append(@, decl)]
InScope(p, name, ty) == [p EXCEPT !.scope = (name :> ty) @@ @]

-----------------------------------------------------------------------------
(* The declarations of ast.rs. *)

VarDecl(x, static, ty, init) ==
  [decl |-> "var", name |-> x, static |-> static, type |-> ty, init |-> init]
FunDef(f, ty, params, body) ==
  [decl |-> "fundef", name |-> f, returns |-> ty, params |-> params, body |-> body]
FunDecl(f, ty, params)  == [decl |-> "fundecl", name |-> f, returns |-> ty, params |-> params]
TypeDef(name, ty)       == [decl |-> "typedef", name |-> name, type |-> ty]
StructDef(tag, fields)  == [decl |-> "struct", name |-> tag, fields |-> fields]

(* Statements.  If, While, DoWhile, For, Switch, Case, Labeled and Block    *)
(* are one form, for the walker visits their expressions and then their    *)
(* statements; Goto, Break and Continue are that form with neither.        *)
Control(exprs, subs) == [stmt |-> "control", exprs |-> exprs, subs |-> subs]
ExprStmt(e)          == [stmt |-> "expr", value |-> e]
Return1(e)           == [stmt |-> "return", value |-> e]
DeclStmt(v)          == [stmt |-> "decl", var |-> v]

-----------------------------------------------------------------------------
(* Constants in the sizes of arrays. *)

sizeof_of_ctype(ty) == IF ty.derivs = << >> THEN SpecSize(ty.spec) ELSE NoSize

eval_sizeof(scope, e) ==
  CASE e.expr = "cast" -> sizeof_of_ctype(e.type)
    [] e.expr = "var" /\ e.name \in DOMAIN scope -> sizeof_of_ctype(scope[e.name])
    [] OTHER -> NoSize

Folded(op, l, r) ==
  CASE NoSize \in {l, r}          -> NoSize
    [] NoSize \notin {l, r} /\ op = "+" -> l + r
    [] NoSize \notin {l, r} /\ op = "-" -> l - r
    [] NoSize \notin {l, r} /\ op = "*" -> l * r
    [] NoSize \notin {l, r} /\ op = "/" /\ r # 0 -> l \div r
    [] OTHER -> NoSize

RECURSIVE const_int(_, _)
const_int(scope, e) ==
  CASE e.expr = "int"     -> e.n
    [] e.expr = "binary"  -> Folded(e.op, const_int(scope, e.a), const_int(scope, e.b))
    [] e.expr = "sizeoft" -> sizeof_of_ctype(e.type)
    [] e.expr = "sizeof"  -> eval_sizeof(scope, e.a)
    [] OTHER              -> NoSize

-----------------------------------------------------------------------------
(* Types and declarators. *)

(* prim_spec, sized types and the implicit int: the words of the type. *)
SpecOfWords(words) ==
  CASE "char" \in words                  -> Char
    [] words = {"void"}                  -> Void
    [] {"float", "double"} \cap words # {} -> Real
    [] OTHER                             -> Integer

RECURSIVE declarator(_, _, _), spec_from_node(_, _)

(* What a declarator declares on a specifier: the name, its type, the      *)
(* parameter list if there is one, and whether parentheses wrap the name.  *)
Info(p, spec, name) ==
  [p |-> p, name |-> name, type |-> CType(spec, << >>), params |-> << >>, via_parens |-> FALSE]

Derived(info, deriv) == [info EXCEPT !.type.derivs = <<deriv>> \o @]
Sized(info, size)    == Derived(info, Array(const_int(info.p.scope, size)))

(* A parameter's name comes into the scope too. *)
Parameter(params, info) ==
  [p      |-> IF info.name = NoName THEN info.p ELSE InScope(info.p, info.name, info.type),
   params |-> Append(params, [name |-> info.name, type |-> info.type])]

Declared1(spec, d) == declarator(spec.p, spec.spec, d)

parameters(p, pds) ==
  FoldLeft(LAMBDA acc, pd :
             Parameter(acc.params, Declared1(spec_from_node(acc.p, pd.type), pd.declarator)),
           [p |-> p, params |-> << >>], pds)

(* Of several parameter lists the innermost is kept. *)
WithParams(info, ps) ==
  [info EXCEPT !.p = ps.p, !.params = IF @ = << >> THEN <<ps.params>> ELSE @]

OfFunction(info, pds) == WithParams(info, parameters(info.p, pds))

declarator(p, spec, d) ==
  CASE d.form = "name"     -> Info(p, spec, d.name)
    [] d.form = "pointer"  -> Derived(declarator(p, spec, d.of), Pointer)
    [] d.form = "array"    -> Sized(declarator(p, spec, d.of), d.size)
    [] d.form = "function" -> OfFunction(declarator(p, spec, d.of), d.params)
    [] d.form = "parens"   -> [declarator(p, spec, d.of) EXCEPT !.via_parens = TRUE]

WithField(acc, info) ==
  [p      |-> info.p,
   fields |-> IF info.name = NoName THEN acc.fields
              ELSE Append(acc.fields, [name |-> info.name, type |-> info.type])]

WithFields(acc, spec, declarators) ==
  FoldLeft(LAMBDA a, d : WithField(a, declarator(a.p, spec.spec, d.declarator)),
           [acc EXCEPT !.p = spec.p], declarators)

struct_fields(p, decls) ==
  FoldLeft(LAMBDA acc, n : WithFields(acc, spec_from_node(acc.p, n.type), n.declarators),
           [p |-> p, fields |-> << >>], decls)

(* A struct with a tag is registered, and known by its tag from then on.   *)
register_struct(body, tag) ==
  IF tag = NoTag THEN [p |-> body.p, spec |-> Aggregate(NoTag, body.fields)]
  ELSE [p |-> Push(body.p, StructDef(tag, body.fields)), spec |-> NamedAggregate(tag)]

spec_from_node(p, t) ==
  CASE t.type = "words"  -> [p |-> p, spec |-> SpecOfWords(t.words)]
    [] t.type = "enum"   -> [p |-> p, spec |-> Integer]
    [] t.type = "name"   -> [p |-> p, spec |-> Named(t.name)]
    [] t.type = "tag"    -> [p |-> p, spec |-> NamedAggregate(t.name)]
    [] t.type = "struct" -> register_struct(struct_fields(p, t.fields), t.name)

-----------------------------------------------------------------------------
(* Declarations. *)

(* One declarator: a prototype or a variable, pointers to functions being  *)
(* variables.                                                              *)
Declare(info, static, init) ==
  CASE info.name = NoName -> info.p
    [] info.name # NoName /\ info.params # << >> /\ ~info.via_parens ->
         Push(info.p, FunDecl(info.name, info.type, info.params[1]))
    [] OTHER ->
         Push(InScope(info.p, info.name, info.type), VarDecl(info.name, static, info.type, init))

DeclareAll(spec, n) ==
  FoldLeft(LAMBDA q, d : Declare(declarator(q, spec.spec, d.declarator), n.static, d.init),
           spec.p, n.declarators)

declaration(p, n) == DeclareAll(spec_from_node(p, n.type), n)

DefineType(info) == IF info.name = NoName THEN info.p ELSE Push(info.p, TypeDef(info.name, info.type))

DefineTypes(spec, n) ==
  FoldLeft(LAMBDA q, d : DefineType(declarator(q, spec.spec, d.declarator)), spec.p, n.declarators)

type_definition(p, n) == DefineTypes(spec_from_node(p, n.type), n)

-----------------------------------------------------------------------------
(* Statements.  Parsing one yields no statement or one, but for a local    *)
(* declaration, which yields one for each variable.                        *)

Parsed(p, stmts) == [p |-> p, stmts |-> stmts]

RECURSIVE stmt(_, _)

Followed(acc, r) == Parsed(r.p, acc.stmts \o r.stmts)

(* block *)
Children(p, nodes) ==
  FoldLeft(LAMBDA acc, n : Followed(acc, stmt(acc.p, n)), Parsed(p, << >>), nodes)

DeclStmts(decls) == [i \in DOMAIN decls |-> DeclStmt(decls[i])]

IsVariable(d)  == d.decl = "var"
IsHoisted(d)  == d.decl # "var"

(* Mutant: what is not a variable is dropped. *)
HoistedVariables(out, q) == Parsed([q EXCEPT !.out = out], DeclStmts(SelectSeq(q.out, IsVariable)))

(* A local declaration: the structs and prototypes in it go to the top.    *)
Hoisted(out, q) ==
  Parsed([q EXCEPT !.out = out \o SelectSeq(@, IsHoisted)], DeclStmts(SelectSeq(q.out, IsVariable)))

Within(exprs, body) == Parsed(body.p, <<Control(exprs, body.stmts)>>)

(* Variables declared in the head of a for go to the top level.            *)
for_statement(p, n) ==
  Within(n.exprs, Children(IF n.init.node = "declaration" THEN declaration(p, n.init) ELSE p, n.subs))

IsStmt(n) == n.node \notin {"type_definition", "struct_specifier"}

(* The first statement of a case or behind a label, an empty one included, *)
(* stands for all of it.                                                   *)
FirstOf(nodes) == LET stmts == SelectSeq(nodes, IsStmt) IN SubSeq(stmts, 1, IF stmts = << >> THEN 0 ELSE 1)

(* A type defined in a block, and a struct declared on its own, are no     *)
(* statements.                                                             *)
stmt(p, n) ==
  CASE n.node = "compound_statement"   -> Within(<< >>, Children(p, n.subs))
    [] n.node = "expression_statement" -> Parsed(p, IF n.value = NoExpr THEN << >> ELSE <<ExprStmt(n.value)>>)
    [] n.node = "return_statement"     -> Parsed(p, <<Return1(n.value)>>)
    [] n.node \in {"if_statement", "while_statement", "do_statement", "switch_statement"} ->
         Within(n.exprs, Children(p, n.subs))
    [] n.node = "for_statement"        -> for_statement(p, n)
    [] n.node \in {"case_statement", "labeled_statement"} -> Within(<< >>, Children(p, FirstOf(n.subs)))
    [] n.node \in {"goto_statement", "break_statement", "continue_statement"} ->
         Parsed(p, <<Control(<< >>, << >>)>>)
    [] n.node = "declaration"          -> Hoisted(p.out, declaration([p EXCEPT !.out = << >>], n))
    [] ~IsStmt(n)                      -> Parsed(p, << >>)

-----------------------------------------------------------------------------
(* The top level. *)

(* main(argc): the name read as a type, the parameters as its declarator.  *)
kr_params(d) ==
  IF d.form = "parens" /\ d.of.form = "name" /\ d.of.name # "void"
  THEN <<[name |-> d.of.name, type |-> int]>> ELSE << >>

Defined(body, f, ty, params) == Push(body.p, FunDef(f, ty, params, body.stmts))

Define(info, n) ==
  CASE info.params = << >> /\ info.type.spec.spec = "named" ->
         Defined(Children(info.p, n.subs), info.type.spec.name, int, kr_params(n.declarator))
    [] info.name # NoName /\ (info.params # << >> \/ info.type.spec.spec # "named") ->
         Defined(Children(info.p, n.subs), info.name, info.type,
                 IF info.params = << >> THEN << >> ELSE info.params[1])
    [] OTHER -> info.p

function_definition(p, n) == Define(Declared1(spec_from_node(p, n.type), n.declarator), n)

top_decl(p, n) ==
  CASE n.node = "function_definition" -> function_definition(p, n)
    [] n.node = "declaration"         -> declaration(p, n)
    [] n.node = "type_definition"     -> type_definition(p, n)
    [] n.node = "struct_specifier" /\ n.type.name # NoTag -> spec_from_node(p, n.type).p
    [] OTHER                          -> p
=============================================================================
