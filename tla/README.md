# A TLA+ model of boon-rs

boon-rs finds buffer overflows in C sources. It walks the syntax tree and gives
every string a pair of range variables, the bytes allocated (`siz`) and the
bytes used (`len`), and every integer one variable. Each assignment and library
call becomes a constraint between such variables. A solver computes ranges that
satisfy the constraints and reports every buffer for which `siz >= len` is not
sure. This directory models that machinery, checks it on small instances with
TLC, and proves some of it for all instances with TLAPS.

Paths below are relative to the repository. `src/` is where the Rust code is.

## The system

| component | code | state | operations | model |
|---|---|---|---|---|
| range arithmetic | `src/range.rs` | none; endpoints saturate at ±32767 | clamp, add, mul, sub, hull, rmin, ep_ge | `Ranges`, `Evaluation` |
| terms, constraints | `src/constraint.rs` | none | add, sub, scale of linear terms; what a constraint evaluates to | `Constraints` |
| constraint store | `src/constraint.rs` `System` | names, union-find parents, constraints, pins, floors, queries, cached top | fresh, top, find, union, subset, min, union_term, eq, hard_ge, queryge | `ConstraintSystem` |
| components of the influence graph | `src/solver.rs` `tarjan_scc` | explicit stack of frames, index, lowlink, marks | one step per loop iteration | `Condensation`, `Tarjan` |
| order of the components | `src/solver.rs` `topo_order` | in-degrees, queue, visited | Kahn's algorithm, with a fallback | `TopoOrder` |
| fixpoint of a component | `src/solver.rs` `solve_component` | ranges, the round's snapshot, `changed` | rounds of visits, floor, widening, a cap | `SolveComponent` |
| solver pipeline | `src/solver.rs` `solve` | all of the above | pins, components in order, queries | `Solver` |
| contexts | `src/walk.rs` `Ctx` | none of their own | assign, assign_init, advance, fresh_str, force_len_top | `Contexts` |
| walker: expressions, fields | `src/walk.rs` | struct_map, var_map, the store | expr, unary, binary, assignment, call, get_field, eval_deref, casts, sizeof | `Walker`, `Expressions` |
| walker: names and calls | `src/walk.rs` | var_map, fun_map, locals, cur_func, global_canon | collect_types, pass one, generic_bounds, pass two | `Walker`, `Scoping` |
| walker: library calls | `src/walk.rs` | as above, warned_strcat | check_str_op, sprintf, snprintf, the format scanner | `LibraryCalls`, `Walker` |
| report tiers | `src/walk.rs` | none | elt, chance | `Evaluation` |
| C types | `src/ctype.rs` | typedefs, structs | resolve, kind, deref, array_to_ptr, field_type, type_eq | `Types` |
| parser, syntax tree | `src/parse.rs`, `src/ast.rs` | the scope of names declared so far, the declarations so far | declarations, declarators, constant sizes, structs, functions, statements | `Parser` |
| command line | `src/main.rs` | the declarations of all files, the last file's name | parse and merge files; options, preprocessor, printing | `Scoping`, in part |
| Juliet driver | `src/bin/juliet.rs` | tallies | runs the analyzer over a directory | not modelled, see below |

The components interact by calls within one thread. `main` parses every file
with a `Parser` of its own and appends the declarations to one program; `analyze`
takes it through `collect_types`, `pass_one`, `generic_bounds` and `pass_two`.
The walker owns a `System`
and adds to it; `solve` takes the finished `System` once, canonicalizes every
variable, builds the influence graph, and calls `tarjan_scc`, `topo_order` and,
for each component in order, `solve_component`, which updates the shared vector
of ranges. The queries are answered on the final ranges.

Nothing runs concurrently, nothing is persisted, there are no messages and no
timeouts. What makes the program hard to get right, and hard to test, is this:

* Order. The analysis claims to be insensitive to the order of statements,
  declarations and files, yet names, sizes and formals are bound by whichever
  declaration comes first; components must be solved in an order that only
  `topo_order` ensures; ranges are updated in place while others still read them.
* Stale state. `prev` is a snapshot of the round, `top_var`, `canon`, `locals`,
  `cur_func` and `fun_map` are caches that outlive what they were made for, and a
  term such as `strlen(a)` outlives the string it was computed from.
* Limits. Endpoints saturate, two infinities of opposite sign meet, empty ranges
  and zero coefficients meet, the number of rounds is capped.
* Liveness. A cycle may swing between ranges for ever; only the cap stops it.
* Long legal sequences: prototype, calls, definition and other definitions in
  any order; merges and path compressions in any order; several `strncat`s.
* Names for one thing. A struct is reached by its tag, by a typedef, through a
  pointer or an array, and every spelling must find the same field; a typedef
  may name itself; a declaration in a block moves to the top of the program.

`PROJECT.json` lists the hazards line by line with the properties aimed at them.

What makes each component correct: saturated arithmetic must contain the exact
results and be monotone; the store must mean what its caller asked for; the
components must be exactly the strongly connected ones, the order must respect
flow; a fixpoint must be a solution, exact where nothing is cyclic; the
composed solver must miss no overflow that the least solution shows; one C
object must have one context of the kind its type says, and values must flow
through every assignment, initializer, call and return, wherever it stands; what
expressions compute must lie in the computed ranges; the library models must
cover what the C library does.

## Modules

**`Ranges`** holds the arithmetic as operators, with the sentinel as the
constant `INF`. **`Constraints`** holds terms, the two forms of constraint
(`lhs ⊆ var`, `min(...) ⊆ var`), how `subset` and `min` construct them and how
they are evaluated. Both are shared by everything below.

**`Evaluation`** runs the loops of `eval_term` and `eval_constraint`, one entry
per step, beside two companions: a value computed with ordinary integers from
values in the operands' ranges, and the same expression over wider ranges.

**`ConstraintSystem`** has one action per `System` operation. Two history
variables give the operations a meaning: the classes that were merged, as a
partition, and every request with its terms.

**`Condensation`** states what component search promises: components are
emitted one by one, each strongly connected, successors first.
**`Tarjan`** is the iterative algorithm with its explicit stack, and implements
`Condensation` (property `EmitsComponents`, by `INSTANCE ... WITH`).

**`TopoOrder`** follows the loops of `topo_order`: one edge scanned, one
component seeded, one visit, one edge relaxed, one component of the fallback
per step.

**`SolveComponent`** has one action per step of the loop nest: round, visit,
one constraint joined, assignment, end of round. What a constraint evaluates to
is the operator constant `Eval`, assumed only to yield ranges.

**`EvaluationProofs`**, **`ConstraintSystemProofs`**, **`TarjanProofs`**,
**`TopoOrderProofs`**, **`SolveComponentProofs`**, **`SolverProofs`** and
**`LibraryCallsProofs`** hold the theorems about the modules they are named after
(`TarjanProofs` also the refinement of `Condensation`), and **`Lemmas`** those
about ranges, terms and constraints, and on induction, recursive functions,
reachability and folds, that these proofs share.

**`Solver`** composes `Tarjan`, `TopoOrder` and `SolveComponent` on shared
variables, as `solve` does, and defines a Kleene iteration as reference. A
system is typed (`System`): its terms, pins, floors and queries are about its
variables, and its canonical variables are their own representatives. The
result is the set of the queries that fail, with the ranges of their sides.
**`MCWidening`** instantiates it with the constants of the code.

**`Types`** holds `CType`, its classification, and the environment that
resolves typedefs and tags. **`Contexts`** holds the contexts of expressions,
the part of the store a walker uses, and the least solution of a store.
**`Walker`** is the walker's state and `expr`: every expression form yields the
walker after it, a context and a type, as the function of the code does. It
also holds `do_init`, `decl_two`, `do_formals`, `do_ret`.

**`Parser`** turns the nodes of a syntax tree into the declarations of
`ast.rs`, declarator by declarator, with the scope that sizes are computed in
and with what it hoists out of blocks. Statements that only hold expressions and
statements (if, while, do, for, switch, case, label, block) are one form,
`Control`, since the walker visits the ones and then the others in all of them.

**`Scoping`** composes `Parser` and `Walker` as `main` and `analyze` do: one
action parses a top-level node, one goes on to the next file, then one action
per declaration in each pass and one per statement of a body. The history
`source` is what C makes of the files (which names denote which objects, which
expressions occur, what is returned), computed from the nodes and not from the
walker's tables; the history `uses` collects the context each object got at
each use.

**`Expressions`** has three phases. In the first the walker visits statements;
in the second the least solution is taken; in the third the statements run as C
defines them, in any order and any number of times, on memory that holds
integers, places in strings, pointers to structs and structs.

**`LibraryCalls`** has the same phases. In the first, one action per library
model makes constraints; in the second the least solution is taken (`Solver`
relates it to the computed one) and queries are answered; in the third the same
calls run as the C library defines them on buffers of bytes, in any order and
any number of times. The third part models C, which is not in the repository,
and is marked external, here and in `Expressions`.

`MC*` modules hold the instances. Definitions keep the names of the code where
they can; `PROJECT.json` maps each to its lines. Definitions under a comment
that starts with `Mutant:` are wrong variants, of no use in the specifications;
each shows that some property can fail.

## Runs

| run | instance | shows |
|---|---|---|
| `evaluation` | INF = 3; all ranges; up to two operands, coefficients -2..3 | saturation contains the exact values; evaluation is monotone; the query and the tiers mean what they say |
| `solve_component` | INF = 3, cap 6; one variable or a cycle of two with up to two constraints of 12 kinds each; all cycles of three of copies and increments | the function returns; a converged run is a solution; a variable outside cycles gets exactly the join |
| `tarjan` | every graph of three nodes with ordered, repeated successors and self loops; every graph of four nodes without | it emits exactly the components, successors first |
| `topo_order` | three components with up to three edges of any kind; every DAG of four; four edges with repetitions | flow is respected, by all components where numbers descend; every component comes once |
| `solver` | three variables; two arbitrary flows; every functional graph of copies and increments; pins, repeated pins, merges, floors, sums | inputs are final when read; no query that fails for the least solution is missed unless a cap was hit; acyclic systems are exact |
| `constraint_system` | three variables, two merges, one request | classes, top and the meaning of constraints |
| `scoping` | 1980 programs: a typedef and a struct; a global `a` (array, pointer, static, integer, pointer to function, with and without initializer) or a prototype of `f`; a function `f` (three parameter lists, six bodies with nested blocks, locals that hide `a`, a struct, loops, switch, labels); one of five `main`s; the three in three orders, in one file or spread over two; and programs that declare the array `a` twice, with and without a size, in one file or two | one context per object and of the kind of its type, flow of every assignment, initializer, argument and result, sizes of arrays |
| `expressions` | up to three of 46 statements on 15 variables, two struct types with the same field names, six typedefs, one of which names itself | variables and fields hold what their ranges say; a dereference past the end is reported |
| `library_calls` | up to three of 34 calls on arrays of 4 and 2 bytes, a heap cell, a reading pointer and an integer | ranges cover the memory, an overflow is reported |

The instances are small on purpose. Saturation, widening
and the cap happen with INF = 3 and a cap of 6 as they do with 32767 and 1000,
since every operator treats the finite endpoints alike; the cases differ by
sign, by emptiness, and by which operand is infinite, and all of these occur.
Three variables suffice for a component that feeds another, for cycles of two
and three and for a variable with two inputs. In `library_calls`, INF = 24 is
above anything that fits the arrays, and numbers print at most three characters
where the code allows 20 to 32 (`ConvMax`); in `expressions`, INF = 24 is above
what three statements make of integers up to `MaxInt` = 6. Three statements
suffice for a value to pass through a variable and a field, and for pointer
arithmetic before a dereference. The programs of `scoping` have one function
besides `main`, since functions interact only through globals, formals and the
walker state that one function leaves to the next. `MaxCalls`, `MaxStmts`,
`MaxInt`, `MaxLine`, `MaxVars`, `MaxMerges`, `MaxStore`, `MaxOperands` and
`MaxItems` bound inputs; none of them stands for anything in the code.

`expressions` promises nothing of a program that assigns a value for which the
walker has no context of the target's kind (`solved.lost`): "No
string/integer information" is what the tool says of such values.
`OverflowIsReported` excepts overflows by padding.

Fairness: `solve_component` and `solve` are ordinary sequential functions, so
`Terminates` assumes weak fairness of `Step`, which says that a function that
can take its next step takes it. `Tarjan`'s `FindsAllComponents` states that it
is done only when everything was emitted, and needs none. Deadlock is checked
except where the modelled thing simply ends.

### Where the code disagrees with itself

Three runs are expected to fail; each shows that the code does not do what one
of its comments or its README says. `PROJECT.json` quotes the lines.

* `widening`: on the cycle `1 ⊆ x, x+1 ⊆ t, t ⊆ l, l ⊆ x`, with the constants
  of the code, a visit *replaces* the range, a widened one included. Tarjan hands
  out the cycle as `l, t, x`, against its flow, so growth and widening take turns:
  in one round `l` and `x` are widened and `t`, recomputed from what `x` was, is
  finite again; in the next it is the other way round, all finite bounds one
  larger. The ranges never settle. The cap stops the loop with the upper ends of
  `x` and `l` at 500 and that of `t` at +Infinity. Of three buffers of 600 bytes
  that hold strings of these lengths, only the one for `t` is reported.
* `static_initializer`: pass two looks a `static` global up under its raw name,
  so `char *b; static char *a = b;` lets nothing flow into the uses of `a`.
* `typedef_field`: with `typedef struct S *sp; sp p;` the type of `*p` stays
  `sp`, and `p->n` does not merge with the field `n` of `struct S`.

Smaller divergences met while modelling, not made into runs:

* A finite merge that goes round a cycle is widened although it would settle:
  `1 ⊆ x, 2 ⊆ y, x ⊆ y, y ⊆ x` yields -Infinity..2, not 1..2. The result is a
  solution, and safe, but not the least one that `solver.rs:3` promises.
* A buffer of 32767 bytes or more has the size +Infinity and passes every query.
* A second pin of a variable replaces the first one.
* A floored range may be widened below its floor; `hard_ge` has no caller.
* `subset` scales by the coefficient of its target where it should divide; no C
  lvalue has a coefficient other than one.
* Coefficients are `i64` and unchecked; the models have unbounded integers.
* `strncpy` pads to its bound: with a bound above the size of the buffer and a
  short source the overflow is not reported, and a second `strncpy` may uncover
  NULs that the first one left, a string longer than the range says.
  `OverflowIsReported` excepts overflows by padding alone.
* `strcpy` yields the context of its source; C yields the destination.
* `gethostname` sets the length to exactly the bound; `snprintf` with a format
  that is no literal makes no constraint; `sizeof` of a pointer yields the size
  of what it points to; a length modifier after a width (`%5ld`) is taken for a
  conversion, so that later arguments are off by one; `%f` may print more than
  32 characters.
* Variables declared in the head of a `for` become globals, and their
  initializers are walked in the global scope; static variables of
  several files share the last file's name; a local `extern` is a local.
* A declaration without a size, met before the one with a size (`extern char
  b[];` in a header), decides: the buffer has no size, and `ArraysKeepTheirSize`
  leaves such arrays out. An array whose type is a typedef has none either.
* A width is read for `%s` only: `%30d` is taken for at most 20 characters.
* Types: anonymous structs equal nothing, themselves included, so each access to
  a field of one is a new context; `p - i`, comparisons of pointers and `*p`
  have no context; `~x` yields `x`, `% & | ^ << >>` yield 0..1, and a
  post-increment yields the new value. The size of the name that `gethostbyname`
  yields is never constrained, and neither are the ranges of `argv[i]`.
* In the parser: `char *a[10]` has its derivations in the other order than
  `ctype.rs:36` says; `char (*fp)(void)` is taken for a string; a `case` keeps
  its first statement only, an empty one included; typedefs in a block are
  dropped, although `parse.rs:557` says they are hoisted; the scope in which
  sizes are computed is flat, so that a local changes the size of a later global
  array (`parse.rs:41` says that is sufficient); `sizeof(int)+2` in a size is 4,
  for tree-sitter reads it as `sizeof((int)+2)`.

## Proofs

Eight modules have theorems or lemmas. Each proof about a specification follows
the same plan: an inductive invariant made of named parts, a lemma per action,
and a temporal step at the end.

### `Lemmas`: what recursive definitions are

The induction theorems of the library take an operator as a parameter, which the
installed provers cannot instantiate. The same principle can be had as a fact
about sets: `SetInduction` says that a set of numbers with 0 and with every
successor has them all, and follows from the library's theorem that an injection
of a finite set into itself is onto (the numbers up to a counterexample, less
one each, would be such an injection that misses the counterexample).
The rest follows from it:

* `Recursion` and `Iteration`: a function on the numbers defined from its value
  at 0 and a step exists, so that what a recursive function is defined by holds
  of it;
* `Saturation`: growing sets inside a finite set stand still after as many
  rounds as it has members; `ReachedFacts`: the rounds of reachability in a
  finite graph end with the transitive closure;
* `MaxOf`, `LastPosition`, `LeastExists`, `MaxExists`, `BoundedMax`,
  `BoundedMin`: extrema of sets of numbers;
* `FoldExists`: a fold of a sequence is the last of a sequence of intermediate
  results; `FlattenFacts`: the concatenation of sequences holds what they hold.

### `EvaluationProofs`: arithmetic

For every sentinel, every set of integers as coefficients, constants and values,
and sums and minima of any length:

* `TypeCorrect`: what is accumulated stays between the sentinels.
* `Monotone` (`EvaluationIsMonotone`): wider operands give a wider range.
* `ContainsValue` (`RangeContainsValue`): the range contains the value computed
  with ordinary integers. The invariant is `ContainsInv`: before the first item of a
  minimum nothing is contained and the range is the neutral one, and a sum has a
  range proper all along.
* `QueryIsExact` (`QueryDecidesGe`) and `TierIsExact` (`TierTellsCertainty`):
  a query and its tier say what they mean about all values of both sides.

### `Lemmas`: ranges, terms and constraints

These are the lemmas a reader of `range.rs` wants: `AddEp` and `MulEp`
stay between the sentinels, `AddEpMonotone`, `MulEpGrows` and `MulEpShrinks` are
their monotonicity (of products by the sign of the factor), `MulEpBounds` says on
which side of the exact product the saturated one lies, and `AddMonotone`,
`MulMonotone`, `RMinMonotone`, `AddContains`, `MulContains`, `RMinContains`
carry them over to ranges, empty and unbounded ones included.

About `eval_term` and `eval_constraint`, which are folds, there are three facts
each, for terms and minima of any length: the result is a range (`EvalTermType`,
`EvalType`; that of a term is `Tidy`, its only empty range is the canonical
one), wider operands give a wider result (`EvalTermMonotone`, `EvalMonotone`),
and the result depends on nothing but the variables of the left-hand side
(`EvalTermAgrees`, `EvalAgrees`). On ranges that are tidy the result is tidy
(`EvalTidy`), and it is empty exactly when a variable of the left-hand side has
no value (`EvalTermEmpty`, `EvalEmpty`). `FailureGrows` says that a query that fails
still fails on wider ranges.

### `TarjanProofs`: components

For every number of nodes and every graph, self loops and repeated edges
included:

* `TypeCorrect`: the arrays keep their ranges. That `counter` and the component
  numbers stay below the number of nodes is a matter of cardinality: `NumberInv`
  says that as many numbers were given as nodes were discovered, and that
  there are no more components than closed nodes, so that a node yet to discover
  or to close leaves room for one more (`RoomForOne`).
* `StackCorrect` (`StackHoldsOpenNodes`): stack, marks, `comp_of`, components and
  frames agree. `WorkInv` is needed for the step that closes a component: the
  frames below were discovered before the active node, what is popped was
  discovered with or after it, so no node of a frame is closed
  (`KeptWhenClosing`, with `PoppedFacts` for what is popped).

* `EmitsTheComponents` (`EmitsComponents`): `Tarjan` implements `Condensation`.
  Each closing of a component is a step of `Condensation`: what is popped is
  strongly connected, none of it was emitted before, and every node that it has
  an edge to was emitted already or goes with it. Every other step is a stutter.

The invariant `LinkInv` relates `lowlink` to what an open node reaches:

* `SeenAreFound`: the part of the edges that a frame has behind it leads to
  discovered nodes;
* `ClosedAreClosed`: a closed component has no edge out of the closed ones;
* `FramesReach`: a frame reaches every open node discovered after it;
* `OthersDescend`: an open node that has no frame any more reaches an open one
  with a smaller number, and so in the end a frame;
* `LowlinkBounds` and `LowlinkIsReached`: the lowlink of a frame bounds from
  below the numbers of the open nodes that are one edge away from what was
  discovered under it, and is the number of an open node that it reaches.

`EmissionInv` says what is left when it is `Finished` (`WhenFinished`): every node
has a component, `comp_of` and the components agree, and every edge leads into
the same component or an earlier one.

That a frame whose lowlink is its own number closes a whole component is
`PoppedIsComponent`. `ReachIsPath` says that the reachability of `Condensation`,
which is computed in rounds, is the existence of a path.

### `TopoOrderProofs`: order

For every number of components and every list of edges, cyclic ones and
repetitions included:

* `TypeCorrect`: no in-degree is decremented below 0.
* `PermutationCorrect` (`OrderIsPermutation`): every component once.
* `FlowRespected` (`OrderRespectsFlow`): a component taken off the queue comes
  after all that flow into it; if edges lead to smaller numbers, every component
  does.

`ScanInv` says that `seen` and `dag` hold each edge once. `CountInv` is the heart:
an in-degree is the number of edges that were not relaxed yet (`Pending`).
`QueueInv` says that the queue holds exactly those whose in-degree is 0,
`FlowInv` that they stand behind those that flow into them, `OrderInv` that
the order is the visited part of the queue followed by the fallback. That the
fallback is skipped rightly when the queue was as long as `m` takes a pigeonhole
argument (`FullOrder`).

`WhenDescending` is the second half of `FlowRespected`, and what `solve` makes of
it: if the numbers do not grow along
edges, as those of `tarjan_scc` do not, there are no cycles, the fallback adds
nothing, and every component comes after all that flow into it. It needs
`Drained` (the queue is used up before the fallback starts) and an argument by
descent: among the components left over, the one with the highest number would
have an edge into it from another that is left over and has a higher number.

### `SolveComponentProofs`: fixpoint

For every set of variables, every system of
constraints, every evaluation into ranges, every sentinel and every cap:

* `TypeCorrect`: endpoints stay between the sentinels, the rounds within the
  cap, and the positions within the component. `TypeOK` is strengthened with
  `InJoin` (a join is under way only inside the component and for a variable
  that is not pinned) and `InRound` (no round is under way at the cap).
* `ConvergedSolves`: when the loop ends because a round changed nothing, the
  ranges satisfy every constraint into the component, up to its floor. This is
  not inductive by itself, for it speaks about the end only. The invariant
  `ConvergedInv` says what a round knows while it is under way: if nothing has
  changed, the ranges are still those of the snapshot (`Unchanged`) and every
  variable visited is closed under them (`Visited`); the join contains what the
  constraints joined so far yield on the present ranges (`Joined`); and a round
  follows another only if that one changed something (`GoesOn`). The visit that
  changes nothing closes its variable because neither floor nor widening takes
  away what the join had (`FloorWidenCovers`).

* `AcyclicExact` (`AcyclicIsExact`, with a cap of at least two rounds): the range
  is exactly the join of what the constraints send, cut by the floor. The
  invariant says that only this variable changes (`OnlyHome`), so that every
  evaluation sees the ranges of the start; that the join under construction is
  the join of the constraints seen so far (`HoldsJoin`); that the first visit
  settles the range (`Settled`); and that the second round finds what it
  expects and widens nothing (`Confirmed`). That two rounds compute the very same
  join takes some care with empty ranges, of which there are many: `JoinOf`
  says which one the code ends up with, and `JoinOfUnique` that there is only
  one. With a cap of one round the property is false, for the confirming
  round is missing.

### `ConstraintSystemProofs`: the store

For every number of variables and any sequence of operations:

* `TypeCorrect`: every variable that is mentioned exists. The invariant
  `StoreInv` types the constraints themselves: terms are sequences of integer
  coefficients and variables that exist, which takes the lemmas about the
  operations on terms (`AddTermsType`, `ScaleType`, `SubTermsType`, `MovedType`,
  `MinOfType`, ...), for these are folds.
* `ClassesCorrect` (`ClassesAreMerged`): two variables have one root exactly when
  the merges put them in one class. `ForestInv` says that the classes are the
  connected sets of the forest, and that the forest has ranks that grow towards
  the roots. A path that follows the forest repeats no variable, so a root is
  met within as many steps as there are variables (`RootIs`, by a pigeonhole
  argument), which is why the bounded recursion in `Root` finds it. Path compression
  keeps roots (`CompressedKeeps`), linking two roots merges exactly their
  classes (`LinkKeeps`).
* `TopUnique` (`TopIsUnique`): one variable at most is pinned to the full range.
  The invariant adds that nothing is while the cache is empty
  (`CacheKnowsTop`); any other pin is a single value, which the full range is not
  (`TopIsWide`).
* `StoreMeans` (`StoreMeansWhatWasAsked`): whatever satisfies the store satisfies
  every request. The invariant `MeaningInv` says the same for all values between
  the sentinels (`MeaningIsKept`). What a term is worth is a sum over its entries, and the lemmas
  `TotalMerged`, `TotalScaled`, `TotalAppend`, `TotalEntries` say what addition of
  like terms, multiplication and concatenation do to it; `SumValue`,
  `ScaledValue`, `DifferenceValue` and `MovedMeans` follow: a term moved to the
  other side of a constraint keeps its meaning. `OperandMeans` and `MinMeans` do
  the same for operands that are routed through fresh variables. The property
  speaks of the values -1, 0 and 1, which lie between the sentinels if
  `INF > 1`; at a sentinel the code saturates. It has 32767.

### `SolverProofs`: the whole solver

For every number of variables and every typed system:

* `TypeCorrect`: the state is well typed in every phase, that of `tarjan_scc` and
  `topo_order` included, and answers are about queries that were asked.
* `InputsCorrect` (`InputsAreFinal`): whatever the constraints into a component
  read is in that component or in one solved before, and no component is solved
  twice.
* `VerdictCorrect` (`VerdictIsSound`): unless a cap was hit, every range contains
  the one of the least assignment, and every query that fails for the least
  assignment is reported.
* `ExactCorrect` (`ExactWhenAcyclic`, with a cap of at least two rounds): if the
  influence graph has no cycle, no cap is hit, every range is that of the least
  assignment, and the queries reported are exactly those that fail for it.
* `FedCorrect` (`OnlyFedHaveValues`): without floors, a variable has values in the
  end exactly when something feeds it. This is so unless a cap was hit, and even
  then if the cap is at least the number of variables. The run has a cap of that
  kind, and the code has 1000.

The proofs of the parts are used as they are, by instances of their modules
(`SP`, `TP`, `CP`) whose constants are what `solve` passes: all graphs over the
variables, all lists of edges between components, all typed calls. Their
assumptions are lemmas here (`SccAssumed`, `TopoAssumed`, `CompAssumed`; that
`eval_constraint` yields ranges is `EvalType`), and the actions of `Solver` are
theirs (`SccSame`, `TopoSame`, `StepsSame`).

The invariant `SolveInv` says what each phase hands to the next: what `Prepare`
computed (`Prepared`), that the steps of a part keep the invariant of that
part, that what it started from is where it may start (`StartsNext`), and that
what it left stays (`SccState`, `TopoState`, `Called`). `SccResult`, `FlowFacts`
and `OrderResult` put the parts together: every variable has a component, the
edges that `topo_order` scans are those of the influence graph, their numbers
descend, and so a component's inputs stand before it in the order (`Sources`,
`MembersOnce`).

`VerdictInv` adds that pinned variables keep their pins (`Pins`) and that the
components solved so far satisfy every constraint into them as long as no cap was
hit (`Solved`): the last one by `ConvergedIsSolution`, the ones before because a
visit changes a variable of a later component only, which none of their
constraints reads (`AssignKeeps`, by `EvalAgrees`). In the end every variable keeps
its pin or is satisfied (`DoneSolves`), and whatever is so lies above the rounds
of the Kleene iteration, one by one (`UpdateBelow`, `LeastBelow`, by
`EvalMonotone`). A converged component is a solution although it was widened, and
nothing is said of one that hit its cap: the run `widening` shows why.

`ExactSolveInv` is for the acyclic case. Every component is one variable then
(`LoneInv`), to which the invariant of `AcyclicIsExact` applies, and its range is
what a round of the Kleene iteration computes for it from the final ranges of
its inputs (`FlatInv`). Going along the order, that makes every range the least
one (`LeastExact`, by induction over the positions of the order).

`FedInv` is about which variables have values at all. No visit gives a value to a
variable that nothing feeds (`JoinLive`, `AssignLive`), and no visit takes a value away
(`AssignGrows`, `FilledKept`). A round of a component either fills one more
variable or finds everything filled that has filled inputs (`RoundFills`), so a
component that converges, or that has as many rounds as there are variables, leaves
nothing to fill (`CallFills`). Components solved before stay as they are. In the
end the variables with values are closed under feeding, hence all the fed ones
(`DoneFed`, `FedClosed`, `FedLeast`). Whether something has a value is a question
about the evaluation alone, which is what `EvalEmpty` is for. It also takes that no pin is
empty: `top` and `eq` pin to the full range or to one value (`PinRange`).

### `LibraryCallsProofs`: the models of the C library

For every pool of calls, with any arguments and formats of any length, any
arrays and any limits of conversions; a program is any part of the pool of at
most `MaxCalls` calls, whatever that bound is:

* `TypeCorrect`: every constraint is about variables that exist, and the memory
  of the running program stays inside its buffers.
* `LengthsCorrect` (`LengthsAreCovered`), `ValuesCorrect` (`ValuesAreCovered`) and
  `OverflowCorrect` (`OverflowIsReported`): the calls, run as C defines them in
  any order and any number of times, leave every string, size and number in its
  range, and a string written past the end of a buffer is reported.

The argument has two halves, joined by one predicate. `Sends(c, R)` says of a call
and of ranges `R` that whatever the call may do to strings and numbers that lie
in `R` has a result in `R` again.

The first half is about the walk. `WalkInv` says that every assignment of ranges
that satisfies the constraints made so far has `Sends` for every call walked so far
(`CountsFor`). It is inductive because constraints are only ever added (`Grew`), so
one lemma for each model (`StrcpyTaken`, `StrncpyTaken`, ... , `SprintfTaken`,
`SnprintfTaken`) is enough. They say what a term moved across a constraint holds
(`Holds`, `Less`): pointer arithmetic on the target subtracts from both sides. The
formats are a fold over their items; `Adding` says that the term added up has the
number of bytes written as its value, for values of its variables that lie in
their ranges, and that the entries of strings are few. The second part matters,
for sums of ranges saturate from below.

Between the halves stands `Least`, a search for a fixpoint. That it ends is a
matter of finitely many ranges that only grow (`Points` counts how far), and a
fixpoint of the round satisfies every constraint, so that `SolvedInv` has `Sends`
for the ranges solved.

The second half is about the run. What is true of a string is not inductive: a
write may put one NUL before another, and a later write may remove the first, so
that the string at the second appears again. `Covered` therefore speaks of every NUL
in memory, not only of the first one: wherever a string could end is in the range of its
length, except for the NULs that `strncpy` pads with (`NulCovered`, `PadsAt`), which
are uncovered only by a second `strncpy` to the same buffer, and `Promised` excludes that.
`Shows` and `ShowsEnv` say of the pointer that only reads what its own
range has of the string it points into. `MemoryOK` types the memory.

`Unsaturated` says that, once solved, the lower ends of lengths stay below the
sentinel, also when multiplied by the number of strings that a format could add up,
and so do the lower ends of sizes. It is there because the three properties are
false without it, and the code has the same limit at 32767: a lower end that
reaches the sentinel stays there under subtraction. With `INF` as small as an
array (5, for arrays of 5 and 4 bytes), TLC finds `strcpy(a, "....")` followed by
`strcpy(b, a + 1)`, where the length of `b` is taken to be at least 5, and is 4; and
an overflow of `a` that is not reported, for its size counts as infinite. In the
run `library_calls` `Unsaturated` holds in every state, as TLC finds when it is given
as an invariant. Ranges whose upper end is infinite, the
usual case, are no exception, and neither are empty ones.

### What the proofs assume, and what they leave

The assumptions are the named ones of the modules: INF and the cap are positive
(`INFAssumption` and the like), coefficients and constants are integers
(`TermAssumption`, `KonstAssumption`), so are values, and endpoints are among
them (`ValueAssumption`), `Eval` yields ranges, and the arguments of a call are
well typed (`TarjanAssumption`, `InputAssumption`, `SolverAssumption`). Seven theorems have a bound of their own, named in their statement: `AcyclicExact` and
`ExactCorrect` (a cap of two rounds), `StoreMeans` (`INF > 1`) and `FedCorrect`
(no cap hit, or a cap of at least as many rounds as there are variables: with a
smaller one a value may not get round a long cycle), and `LengthsCorrect`,
`ValuesCorrect` and `OverflowCorrect` (`Unsaturated`). `SolveComponentProofs`
assumes nothing about monotonicity; `Lemmas` shows that the evaluation of the code
has it. For the library calls, `PoolAssumption` and `ObjectAssumption` say that
the calls are those that C's types allow, and that the bytes that the arguments
of a format skip (`s + n`) sum up below the sentinel.

Every invariant that the runs check of `Evaluation`, `SolveComponent`, `Tarjan`,
`TopoOrder`, `ConstraintSystem`, `Solver` and `LibraryCalls` is a theorem. Only
model-checked: the walker (`Types`, `Walker`, `Parser`, `Scoping` and
`Expressions`) and liveness. Liveness and ENABLED are out of the prover's reach.
The modules of the walker declare or reach RECURSIVE operators, for expressions
and declarators are trees, and the prover has no arithmetic in such modules.
`SelectSeq` is opaque to the prover as well; the modules that are proved about
use folds instead.

## Not modelled

* In the parser: the translation of expression nodes and literals to `Expr`
  (the models start from `Expr`), the rewriting of the source text for an
  omitted return type (`fixup_implicit_int`), and types inside expressions.
  All of it is a function of the text, without state.
* Options, preprocessor and printing of the command line, and the Juliet driver:
  options, processes, output.
* `build_depends`, the wording of reports, and warnings.
* In the library models: `gethostname` and conversions cut short by the end of
  the format. `fprintf` and `printf` make no constraint.
* `CType::return_type` and derivations of functions, which no declaration makes.
* Writes through a second pointer to the same buffer: the tool ignores aliasing
  and says so in a warning.

## Plan

Done, in this order: ranges and constraints, the component fixpoint and its
proofs, Tarjan, the order of components, the composed solver, the store, the
library models, types and contexts, the walk over expressions, the parser,
the passes over programs of several files, and the proofs about evaluation,
components, their order, the fixpoint and the store, with the refinement of
`Condensation` by `Tarjan`, and from these the proofs about the whole solver, and
the soundness of the library models.

What is left is the walker: its invariants would need its recursive operators to
be rewritten as functions over bounded trees before they could be proved about.
