----------------------------- MODULE MCScoping -----------------------------
(***************************************************************************)
(* Programs of a global a, or a prototype of f, of a function f and of     *)
(* main, which calls f: in every order, in one file or two, under a header *)
(* with a typedef and a struct; and of two declarations of a, f and main.  *)
(***************************************************************************)
EXTENDS Scoping

Words(w)  == [type |-> "words", words |-> w]
CharT     == Words({"char"})
IntT      == Words({"unsigned", "int"})
TypeName(x)    == [type |-> "name", name |-> x]
Tag(x)         == [type |-> "tag", name |-> x]
StructT(x, fs) == [type |-> "struct", name |-> x, fields |-> fs]

N(x)       == [form |-> "name", name |-> x]
Ptr(d)     == [form |-> "pointer", of |-> d]
Arr(d, e)  == [form |-> "array", of |-> d, size |-> e]
Fn(d, ps)  == [form |-> "function", of |-> d, params |-> ps]
Parens(d)  == [form |-> "parens", of |-> d]

Is(d, init)     == [declarator |-> d, init |-> init]
Plain(d)        == Is(d, NoExpr)
Decl(ty, ds)    == [node |-> "declaration", static |-> FALSE, type |-> ty, declarators |-> ds]
Static(ty, d)   == [Decl(ty, <<Plain(d)>>) EXCEPT !.static = TRUE]
Param(ty, d)    == [type |-> ty, declarator |-> d]
Fun(ty, d, b)   == [node |-> "function_definition", type |-> ty, declarator |-> d, subs |-> b]
Typedef(ty, d)  == [node |-> "type_definition", type |-> ty, declarators |-> <<Plain(d)>>]

Do(e)              == [node |-> "expression_statement", value |-> e]
Ret(e)             == [node |-> "return_statement", value |-> e]
Over(what, es, ss) == [node |-> what, exprs |-> es, subs |-> ss]
For(init, es, ss)  == [node |-> "for_statement", init |-> init, exprs |-> es, subs |-> ss]
Around(what, ss)   == [node |-> what, subs |-> ss]
Jump               == [node |-> "break_statement"]
Empty1             == Do(NoExpr)

Var(x)         == [expr |-> "var", name |-> x]
Num(n)         == [expr |-> "int", n |-> n]
Lit(n)         == [expr |-> "lit", n |-> n]
Set(a, b)      == [expr |-> "=", op |-> "", a |-> a, b |-> b]
Plus(a, b)     == [expr |-> "binary", op |-> "+", a |-> a, b |-> b]
Dot(a, id)     == [expr |-> ".", a |-> a, name |-> id]
Index(a, b)    == [expr |-> "[]", a |-> a, b |-> b]
Call(f, args)  == [expr |-> "call", a |-> Var(f), args |-> args]

-----------------------------------------------------------------------------

Header ==
  <<Typedef(CharT, Ptr(N("text"))),
    [node |-> "struct_specifier",
     type |-> StructT("S", <<Decl(IntT, <<Plain(N("n"))>>), Decl(TypeName("text"), <<Plain(N("s"))>>)>>)]>>

(* The size depends on sizeof a constant type, or on nothing. *)
Two == Plus(Num(1), [expr |-> "sizeoft", type |-> char])

Globals ==
  {Decl(CharT, <<Is(Arr(N("a"), Two), init)>>) : init \in {NoExpr, Lit(2)}}
  \cup {Decl(CharT, <<Is(Arr(N("a"), NoExpr), Lit(3))>>),
        Decl(CharT, <<Plain(Ptr(N("c"))), Is(Ptr(N("a")), Var("c"))>>),
        Decl(TypeName("text"), <<Is(N("a"), Lit(0))>>),
        Static(CharT, Arr(N("a"), Num(2))), Static(TypeName("text"), N("a")),
        Decl(IntT, <<Is(N("a"), Num(3))>>),
        Decl(CharT, <<Plain(Ptr(Fn(Parens(Ptr(N("h"))), << >>))), Plain(Ptr(N("a")))>>)}

Pointer1(x) == Param(CharT, Ptr(N(x)))

FParams ==
  {<<Param(TypeName("text"), N("p"))>>, <<Pointer1("p"), Param(CharT, Arr(N("q"), NoExpr))>>,
   <<Pointer1("q"), Pointer1("p")>>}

FBodies ==
  {<<Do(Set(Var("p"), Var("a"))), Ret(Var("a"))>>,
   <<Decl(CharT, <<Is(Arr(N("a"), Num(2)), Lit(2))>>),
     Over("if_statement", <<Var("p")>>, <<Do(Set(Var("p"), Var("a"))), Do(Set(Var("p"), Lit(4)))>>), Ret(Var("p"))>>,
   <<Decl(CharT, <<Is(Arr(N("b"), NoExpr), Lit(3)), Is(Ptr(N("t")), Var("b"))>>),
     Over("do_statement", <<Set(Var("t"), Var("p"))>>, <<Around("compound_statement", <<Jump>>)>>), Ret(Var("t"))>>,
   <<Decl(IntT, <<Plain(N("n"))>>),
     Over("while_statement", <<Set(Var("n"), Num(1))>>,
          <<Around("compound_statement",
              <<Decl(CharT, <<Is(Arr(N("u"), Plus([expr |-> "sizeof", a |-> Var("n")], Num(1))), Lit(0))>>),
                Do(Set(Var("p"), Var("u")))>>)>>),
     Ret(Var("p"))>>,
   <<Decl(StructT("L", <<Decl(CharT, <<Plain(Ptr(N("s")))>>)>>), <<Plain(N("l"))>>),
     Do(Set(Dot(Var("l"), "s"), Var("p"))), Ret(Dot(Var("l"), "s"))>>,
   <<For(Decl(IntT, <<Is(N("i"), Num(0))>>), <<Set(Var("i"), Num(2)), Var("i")>>,
         <<Over("switch_statement", <<Var("i")>>,
                <<Around("case_statement", <<Do(Set(Var("p"), Lit(1))), Jump>>),
                  Around("case_statement", <<Empty1>>)>>)>>),
     Around("labeled_statement", <<Ret(Var("p"))>>)>>}

MBodies ==
  {<<Decl(CharT, <<Plain(Ptr(N("b")))>>), Do(Set(Var("b"), Call("f", <<Var("a"), Lit(2)>>))), Do(Set(Var("b"), Var("b")))>>,
   <<Decl(CharT, <<Is(Arr(N("a"), Num(1)), Lit(3))>>), Decl(TypeName("text"), <<Is(N("b"), Call("f", <<Var("a")>>))>>),
     Ret(Num(0)), Do(Var("b"))>>,
   <<Decl(CharT, <<Is(Ptr(N("p")), Var("a")), Plain(Ptr(N("b")))>>), Do(Call("f", <<Var("p"), Var("b")>>)),
     For(Empty1, <<Set(Var("b"), Call("f", <<Num(1)>>))>>, <<Do(Set(Var("p"), Index(Var("argv"), Num(1))))>>)>>,
   <<Decl(Tag("S"), <<Plain(N("s"))>>), Do(Set(Dot(Var("s"), "n"), Var("argc"))),
     Do(Set(Dot(Var("s"), "s"), Var("a"))), Do(Call("f", <<Dot(Var("s"), "s")>>)), Ret(Dot(Var("s"), "n"))>>}

FunctionOf(ps, b) == Fun(CharT, Ptr(Fn(N("f"), ps)), b)
Functions == {FunctionOf(ps, <<Ret(Var("p"))>>) : ps \in FParams}
             \cup {FunctionOf(<<Pointer1("p")>>, b) : b \in FBodies}

MainOf(b) == Fun(Words({}), Fn(N("main"), <<Param(IntT, N("argc")), Param(CharT, Ptr(Ptr(N("argv"))))>>), b)
OldMain   == Fun(TypeName("main"), Parens(N("void")), <<Do(Call("f", <<Lit(1)>>))>>)
Mains     == {MainOf(b) : b \in MBodies} \cup {OldMain}

Protos == {Decl(CharT, <<Plain(Ptr(Fn(N("f"), ps)))>>) :
             ps \in {<< >>, <<Pointer1("b")>>, <<Pointer1("p"), Param(CharT, Ptr(N(NoName)))>>}}

Orders(S, T, U) ==
  {<<Header \o <<x, y, z>>>> : x \in S, y \in T, z \in U}
  \cup {<<Header \o <<z, y>>, Header \o <<x>>>> : x \in S, y \in T, z \in U}
  \cup {<<Header \o <<y>>, Header \o <<z, x>>>> : x \in S, y \in T, z \in U}

(* The array a is declared twice, in one file or two, with and without a   *)
(* size.                                                                   *)
SizedA    == Decl(CharT, <<Plain(Arr(N("a"), Two))>>)
UnsizedA  == Decl(CharT, <<Plain(Arr(N("a"), NoExpr))>>)
FilledA   == Decl(CharT, <<Is(Arr(N("a"), Two), Lit(2))>>)
TwiceA    == {<<SizedA, FilledA>>, <<SizedA, UnsizedA>>, <<FilledA, UnsizedA>>, <<UnsizedA, FilledA>>}

Redeclared(S, T, U) ==
  {<<Header \o <<p[1], y>>, Header \o <<p[2], z>>>> : p \in S, y \in T, z \in U}
  \cup {<<Header \o <<p[1], y, z, p[2]>>>> : p \in S, y \in T, z \in U}

MCPrograms ==
  Orders(Globals \cup Protos, Functions, Mains) \cup Redeclared(TwiceA, Functions, Mains)

(* A static variable that starts as another:                               *)
(* char *b; static char *a = b; int main() { b = a; }                       *)
Statics ==
  {<<<<Decl(CharT, <<Plain(Ptr(N("b")))>>),
       [Decl(CharT, <<Is(Ptr(N("a")), Var("b"))>>) EXCEPT !.static = TRUE],
       Fun(IntT, Fn(N("main"), << >>), <<Do(Set(Var("b"), Var("a")))>>)>>>>}
=============================================================================
