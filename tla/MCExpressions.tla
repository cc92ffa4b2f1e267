--------------------------- MODULE MCExpressions ---------------------------
(***************************************************************************)
(* Programs of up to MaxStmts statements on integers, strings and structs  *)
(* of two types with the same field names.                                 *)
(***************************************************************************)
EXTENDS Expressions

Field(id, ty) == [name |-> id, type |-> ty]
Decl(x, ty, init) == [name |-> x, type |-> ty, init |-> init]

NoInit == [expr |-> "none"]

S == NamedAggregate("S")

Structs ==
  [S       |-> <<Field("n", int), Field("f", string)>>,
   T       |-> <<Field("n", CType(Named("number"), << >>)), Field("f", string)>>,
   hostent |-> <<Field("h_name", string), Field("h_length", int)>>]

(* Names for S, one by way of another, for a pointer to it, for a number   *)
(* and a string; cycle stands for itself.                                  *)
Typedefs ==
  [s1     |-> CType(S, << >>),
   s2     |-> CType(Named("s1"), << >>),
   sp     |-> CType(Named("s2"), <<Pointer>>),
   number |-> int,
   text   |-> string,
   cycle  |-> CType(Named("cycle"), << >>)]

Env == [typedefs |-> Typedefs, structs |-> Structs]

Variables ==
  <<Decl("x", int, NoInit), Decl("y", CType(Named("number"), << >>), Int1(2)),
    Decl("p", string, NoInit), Decl("q", CType(Named("text"), << >>), Lit(2)),
    Decl("a", CType(Char, <<Array(4)>>), Lit(1)),
    Decl("b", CType(Char, <<Array(3)>>), Lit(3)),
    Decl("e", CType(Char, <<Array(NoSize)>>), Lit(0)),
    Decl("s", CType(S, << >>), NoInit), Decl("r", CType(Named("s2"), <<Array(2)>>), NoInit),
    Decl("t", CType(NamedAggregate("T"), << >>), NoInit),
    Decl("ps", CType(S, <<Pointer>>), NoInit), Decl("pr", CType(Named("s2"), <<Pointer>>), NoInit),
    Decl("h", HostEntry, NoInit), Decl("hp", CType(HostEntry.spec, <<Pointer>>), NoInit),
    Decl("z", CType(Named("cycle"), << >>), NoInit)>>

Inc(e)  == OpSet("+", e, Int1(1))
Dec(e)  == OpSet("-", e, Int1(1))
Next1(e) == Op("+", e, Int1(1))

Numbers ==
  <<Set(Var("x"), Int1(1)), Set(Var("x"), Var("y")), Inc(Var("x")), Dec(Var("y")),
    OpSet("*", Var("x"), Unary("neg", Int1(2))), Set(Var("y"), Op("*", Var("x"), Var("y"))),
    Set(Var("y"), Op("-", Int1(1), Var("x"))),
    Set(Var("x"), Op("/", Var("y"), Int1(2))), Set(Var("y"), Unary("!", Var("x"))),
    Set(Var("x"), Op("<", Var("x"), Var("y"))),
    Set(Var("y"), Cond(Var("x"), Int1(4), Unary("neg", Var("x")))),
    Set(Var("x"), Unary("sizeof", Var("a"))), Set(Var("x"), Unary("sizeof", Var("e"))),
    Set(Var("y"), Unary("sizeof", Unary("*", Var("p")))), Set(Var("x"), SizeofType(int)),
    Set(Var("x"), Cast(int, Var("p"))), Set(Var("y"), Call("syserror", << >>))>>

Texts ==
  <<Set(Var("p"), Var("a")), Set(Var("p"), Var("b")), Set(Var("p"), Lit(3)),
    Set(Var("p"), Next1(Var("q"))), Inc(Var("p")), Dec(Var("p")),
    Set(Var("q"), Op("+", Var("e"), Var("x"))),
    Set(Var("q"), Cond(Var("x"), Var("p"), Op("+", Var("b"), Int1(2)))),
    Set(Var("q"), Cast(string, Comma(Set(Var("p"), Var("a")), Next1(Var("p"))))),
    Unary("*", Var("p")), Index(Var("q"), Var("x")), Unary("*", Inc(Var("p"))),
    Cond(Unary("*", Var("q")), Inc(Var("q")), Lit(0))>>

Fields ==
  <<Set(Dot(Var("s"), "n"), Int1(3)), Set(Arrow(Var("pr"), "n"), Var("x")),
    Set(Var("x"), Dot(Index(Var("r"), Int1(1)), "n")), Inc(Arrow(Var("ps"), "n")),
    Set(Dot(Var("t"), "n"), Dot(Var("s"), "n")), Set(Var("s"), Unary("*", Var("r"))),
    Set(Var("ps"), Unary("&", Var("s"))), Set(Var("pr"), Var("r")),
    Set(Arrow(Cast(CType(Named("sp"), << >>), Var("ps")), "f"), Var("p")),
    Set(Dot(Var("t"), "f"), Lit(2)), Set(Var("p"), Dot(Var("t"), "f")),
    Set(Var("q"), Dot(Unary("*", Var("pr")), "f")),
    Set(Var("hp"), Call("gethostbyname", <<Var("q")>>)),
    Set(Var("p"), Arrow(Var("hp"), "h_name")), Set(Var("x"), Arrow(Var("hp"), "h_length")),
    Set(Var("z"), Int1(1))>>

Statements == Numbers \o Texts \o Fields

(* A typedef for a pointer to S: typedef struct S *sp; *)
Handles == <<Decl("s", CType(S, << >>), NoInit), Decl("pr", CType(Named("sp"), << >>), NoInit)>>

Accesses == <<Set(Dot(Var("s"), "n"), Int1(3)), Set(Arrow(Var("pr"), "n"), Int1(4))>>
=============================================================================
