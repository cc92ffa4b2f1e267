-------------------------- MODULE ConstraintSystem --------------------------
(***************************************************************************)
(* constraint.rs System: the store the walker fills and solve reads.       *)
(*                                                                         *)
(* One action per operation of its interface.  Variables are numbered in   *)
(* order of creation, from 0 as in the code; names says only whether a     *)
(* variable has a source-level name.  The walker reaches fresh, top,       *)
(* subset, min, union_term, queryge and the pinning form of eq; union (the *)
(* merging form of eq), hard_ge and the terms with several variables on    *)
(* the right are interface that no caller in the repository uses.          *)
(***************************************************************************)
EXTENDS Constraints

CONSTANTS
  Konst,      \* constants of terms, of pins and of floors
  MaxVars,    \* bound on the variables created by fresh and top
  MaxMerges,  \* bound on the variables merged away
  MaxStore,   \* bound on the other operations that add to the store
  MaxOperands \* bound on the variables there are when one of those is called

ASSUME KonstAssumption == Konst \subseteq Int

VARIABLES
  names,        \* for each variable: is it named
  parent,       \* the union-find forest
  constraints, queries, fixed, hardLo,
  topVar,       \* the cached top variable, or NoVar
  classes,      \* history: the classes of variables that eq merged
  asked         \* history: the other operations, with their operands

vars == <<names, parent, constraints, queries, fixed, hardLo, topVar, classes, asked>>
store == <<constraints, queries, fixed, hardLo>>

NoVar == -1

Vars == 0 .. Len(names) - 1

(* names is a sequence, so variable v is at position v + 1. *)
Named(v) == names[v + 1]

Init ==
  /\ names = << >>
  /\ parent = << >>
  /\ constraints = << >>
  /\ queries = << >>
  /\ fixed = << >>
  /\ hardLo = << >>
  /\ topVar = NoVar
  /\ classes = {}
  /\ asked = << >>

Ask(op, x, y, z) ==
  /\ Len(asked) < MaxStore
  /\ Len(names) <= MaxOperands
  /\ asked' = Append(asked, [op |-> op, x |-> x, y |-> y, z |-> z])

(* The terms callers build over the present variables: constants,          *)
(* variables, an offset, a difference and a multiple.                      *)
AConst   == {ConstTerm(k) : k \in Konst}
AVar     == {VarTerm(v) : v \in Vars}
Compound == IF names = << >> THEN {}
            ELSE {AddTerms(VarTerm(0), ConstTerm(1)),
                  SubTerms(VarTerm(Len(names) - 1), VarTerm(0)),
                  SubTerms(AddTerms(VarTerm(0), VarTerm(0)), ConstTerm(1))}
ATerm    == AConst \cup AVar \cup Compound

-----------------------------------------------------------------------------
(* Variables. *)

(* Mutant: the identifier is taken after the push. *)
NextVarOneBased(k) == Len(names) + k + 1

(* The variable numbered next, with k others created before it. *)
NextVar(k) == Len(names) + k

Grown(flags) ==
  /\ names' = names \o flags
  /\ parent' = parent \o [i \in 1 .. Len(flags) |-> NextVar(i - 1)]
  /\ classes' = classes \cup {{NextVar(i - 1)} : i \in 1 .. Len(flags)}

Fresh ==
  \E named \in BOOLEAN :
    /\ Len(names) < MaxVars
    /\ Grown(<<named>>)
    /\ UNCHANGED <<store, topVar, asked>>

(* Mutant: the top variable is not cached. *)
GetTopUncached ==
  /\ Len(names) < MaxVars
  /\ Grown(<<TRUE>>)
  /\ fixed' = Append(fixed, <<NextVar(0), Top>>)
  /\ topVar' = NextVar(0)
  /\ UNCHANGED <<constraints, queries, hardLo, asked>>

(* top(), also called by mul of two non-constants and by div. *)
GetTop ==
  /\ IF topVar # NoVar
     THEN UNCHANGED <<names, parent, classes, fixed, topVar>>
     ELSE /\ Len(names) < MaxVars
          /\ Grown(<<TRUE>>)
          /\ fixed' = Append(fixed, <<NextVar(0), Top>>)
          /\ topVar' = NextVar(0)
  /\ UNCHANGED <<constraints, queries, hardLo, asked>>

-----------------------------------------------------------------------------
(* Union-find. *)

(* The nodes on the way from v to its root, and the root. *)
Root(v) ==
  LET Up[k \in Nat] == IF k = 0 THEN v ELSE parent[Up[k - 1] + 1]
  IN  Up[Len(parent)]

Path(v) ==
  LET P[k \in Nat] == IF k = 0 THEN {v}
                     ELSE LET p == P[k - 1] IN p \cup {parent[x + 1] : x \in p}
  IN  P[Len(parent)]

(* Mutant: compression makes the visited nodes point at v's parent. *)
CompressedToParent(p, v) ==
  [x \in DOMAIN p |-> IF x - 1 \in Path(v) \ {Root(v)} THEN p[v + 1] ELSE p[x]]

(* Path compression from v. *)
Compressed(p, v) ==
  [x \in DOMAIN p |-> IF x - 1 \in Path(v) \ {Root(v)} THEN Root(v) ELSE p[x]]

Find ==
  \E v \in Vars :
    /\ parent' = Compressed(parent, v)
    /\ UNCHANGED <<names, store, topVar, classes, asked>>

(* "Keep a named representative if possible" *)
Link(p, ra, rb) ==
  IF ra = rb THEN p
  ELSE IF Named(ra) \/ ~Named(rb) THEN [p EXCEPT ![rb + 1] = ra]
  ELSE [p EXCEPT ![ra + 1] = rb]

ClassOf(v) == CHOOSE C \in classes : v \in C

Union(a, b) ==
  /\ Cardinality(Vars) - Cardinality(classes) < MaxMerges
  /\ parent' = Link(Compressed(Compressed(parent, a), b), Root(a), Root(b))
  /\ classes' = (classes \ {ClassOf(a), ClassOf(b)}) \cup {ClassOf(a) \cup ClassOf(b)}
  /\ UNCHANGED <<names, store, topVar, asked>>

-----------------------------------------------------------------------------
(* Constraints. *)

AddSubset ==
  \E lhs, rhs \in ATerm :
    /\ Ask("subset", lhs, rhs, NoVar)
    /\ constraints' = constraints \o SubsetOf(lhs, rhs)
    /\ UNCHANGED <<names, parent, queries, fixed, hardLo, topVar, classes>>

AddMin ==
  \E x, y \in ATerm :
    /\ Ask("min", x, y, NextVar(0))
    /\ Grown([i \in 1 .. MinVars(x, y) |-> FALSE])
    /\ constraints' = constraints \o MinOf(x, y, NextVar(0))
    /\ UNCHANGED <<queries, fixed, hardLo, topVar>>

UnionTerm ==
  \E x, y \in ATerm :
    LET z == VarTerm(NextVar(0))
    IN  /\ Ask("union_term", x, y, NextVar(0))
        /\ Grown(<<FALSE>>)
        /\ constraints' = constraints \o SubsetOf(x, z) \o SubsetOf(y, z)
        /\ UNCHANGED <<queries, fixed, hardLo, topVar>>

(* v + k = c pins v to c - k. *)
Pin(t, k) == <<TheVar(t), Singleton(k - t.konst)>>

Equate(a, b) ==
  LET pin == IF IsConstant(b) /\ IsSingleVarAny(a) THEN <<Pin(a, b.konst)>>
             ELSE IF IsConstant(a) /\ IsSingleVarAny(b) THEN <<Pin(b, a.konst)>>
             ELSE << >>
  IN  IF pin # << >>
      THEN /\ Ask("eq", a, b, NoVar)
           /\ fixed' = fixed \o pin
           /\ UNCHANGED <<names, parent, constraints, queries, hardLo, topVar, classes>>
      ELSE IF IsSingleVar(a) /\ IsSingleVar(b)
      THEN Union(TheVar(a), TheVar(b))
      ELSE /\ Ask("eq", a, b, NoVar)
           /\ constraints' = constraints \o SubsetOf(a, b) \o SubsetOf(b, a)
           /\ UNCHANGED <<names, parent, queries, fixed, hardLo, topVar, classes>>

Eq == \E a, b \in ATerm : Equate(a, b)

HardGe ==
  \E a \in ATerm, c \in Konst :
    /\ Ask("hard_ge", a, ConstTerm(c), NoVar)
    /\ hardLo' = IF IsSingleVar(a) THEN Append(hardLo, <<TheVar(a), c>>) ELSE hardLo
    /\ UNCHANGED <<names, parent, constraints, queries, fixed, topVar, classes>>

QueryGe ==
  \E a, b \in AConst \cup AVar :
    /\ Ask("queryge", a, b, NoVar)
    /\ queries' = Append(queries, [a |-> a, b |-> b])
    /\ UNCHANGED <<names, parent, constraints, fixed, hardLo, topVar, classes>>

Next == \/ Fresh \/ GetTop \/ Find \/ AddSubset \/ AddMin \/ UnionTerm
        \/ Eq \/ HardGe \/ QueryGe

Spec == Init /\ [][Next]_vars

-----------------------------------------------------------------------------
Mentioned ==
  (UNION {ToSet(LhsVars(c)) \cup {Rhs(c)} : c \in ToSet(constraints)})
  \cup (UNION {ToSet(LhsVars(Subset(q.a, 0))) \cup ToSet(LhsVars(Subset(q.b, 0))) :
                 q \in ToSet(queries)})
  \cup {p[1] : p \in ToSet(fixed)} \cup {p[1] : p \in ToSet(hardLo)}

(* Every variable that is mentioned exists: solve indexes ranges by it. *)
TypeOK ==
  /\ names \in Seq(BOOLEAN)
  /\ parent \in [1 .. Len(names) -> Vars]
  /\ topVar \in Vars \cup {NoVar}
  /\ Mentioned \subseteq Vars

(* Union-find keeps exactly the classes that the merges call for, whatever *)
(* the order of merges and path compressions, and its forest has no cycle: *)
(* find terminates.                                                        *)
ClassesAreMerged ==
  /\ \A v \in Vars : parent[Root(v) + 1] = Root(v)
  /\ \A v, w \in Vars : Root(v) = Root(w) <=> ClassOf(v) = ClassOf(w)

(* "a (cached) variable pinned to the full range": one variable at most is *)
(* pinned to top.                                                          *)
TopIsUnique ==
  \A i, j \in DOMAIN fixed : fixed[i][2] = Top /\ fixed[j][2] = Top => i = j

(* What an operation means of the values the variables stand for, and what *)
(* the store says after it.  A value satisfies  t \subseteq v  as a         *)
(* generator of v's range if v has the value of t, and a minimum likewise. *)
Valuation == [Vars -> -1 .. 1]

Holds(c, val) ==
  IF c.form = "subset" THEN ValueOf(c.lhs, val) = val[c.var]
  ELSE LET valueOf(it) == IF it.item = "const" THEN it.n ELSE it.n * val[it.var]
           values == {valueOf(it) : it \in ToSet(c.items)}
       IN  val[c.var] \in values /\ \A n \in values : val[c.var] <= n

PinsHold(val) == \A p \in ToSet(fixed) : p[2] # Top => p[2].lo = Clamp(val[p[1]])

Meant(a, val) ==
  LET x == ValueOf(a.x, val)
      y == ValueOf(a.y, val)
  IN  CASE a.op = "subset"     -> ~IsConstant(a.y) => x = y
        [] a.op = "min"        -> val[a.z] = Lesser(x, y)
        [] a.op = "union_term" -> x = y /\ x = val[a.z]
        [] a.op = "eq"         -> (IsConstant(a.x) /\ IsConstant(a.y)) \/ x = y
        [] OTHER               -> TRUE

(* "lhs \subseteq rhs ... extra vars, which get moved to the LHS": moving   *)
(* terms across, routing operands of min through fresh variables and       *)
(* pinning keep the meaning of the operation, when the variable kept on    *)
(* the right has coefficient 1 (any other is a "best effort").             *)
UnitRhs(t) == IsConstant(t) \/ t.terms[1][1] = 1

StoreMeansWhatWasAsked ==
  \A i \in DOMAIN asked :
    UnitRhs(asked[i].y) /\ (asked[i].op = "eq" => UnitRhs(asked[i].x)) =>
      \A val \in Valuation :
        (\A c \in ToSet(constraints) : Holds(c, val)) /\ PinsHold(val)
          => Meant(asked[i], val)
=============================================================================
