------------------------------- MODULE Tarjan -------------------------------
(***************************************************************************)
(* solver.rs tarjan_scc: strongly connected components with an explicit    *)
(* work stack of (node, next successor) frames.  Nodes are 0 .. n-1, succ  *)
(* lists a node's successors in order and with repetitions.                *)
(***************************************************************************)
EXTENDS Naturals, Sequences, SequencesExt

CONSTANTS
  N,       \* the number of nodes
  Graph    \* the graphs the function is called with

Node == 0 .. N - 1

None == N   \* stands for usize::MAX, "not yet"

ASSUME TarjanAssumption ==
  N \in Nat \ {0} /\ \A g \in Graph : g \in [Node -> Seq(Node)]

VARIABLES
  succ,      \* the graph; never changes
  index,     \* discovery number of a node, or None
  lowlink,
  onStack,
  stack,     \* discovered nodes whose component is still open; grows right
  compOf,    \* number of a node's component, or None
  comps,     \* the closed components, in the order they closed
  counter,   \* next discovery number
  start,     \* next start of the outer loop
  work       \* the frames, the active one last

vars == <<succ, index, lowlink, onStack, stack, compOf, comps, counter, start, work>>

Init ==
  /\ succ \in Graph
  /\ index = [u \in Node |-> None]
  /\ lowlink = [u \in Node |-> 0]
  /\ onStack = [u \in Node |-> FALSE]
  /\ stack = << >>
  /\ compOf = [u \in Node |-> None]
  /\ comps = << >>
  /\ counter = 0
  /\ start = 0
  /\ work = << >>

Frame(u) == [node |-> u, next |-> 1]

AtMost(x, y) == IF x <= y THEN x ELSE y

(* The active frame: node node and the successor it looks at. *)
top   == work[Len(work)]
node  == top.node
child == succ[node][top.next]
More  == work # << >> /\ top.next <= Len(succ[node])

Advanced == [work EXCEPT ![Len(work)].next = @ + 1]

(* Number node x and put it on both stacks, above the given frames. *)
Discover(x, frames) ==
  /\ index' = [index EXCEPT ![x] = counter]
  /\ lowlink' = [lowlink EXCEPT ![x] = counter]
  /\ counter' = counter + 1
  /\ stack' = Append(stack, x)
  /\ onStack' = [onStack EXCEPT ![x] = TRUE]
  /\ work' = Append(frames, Frame(x))
  /\ UNCHANGED <<succ, compOf, comps>>

-----------------------------------------------------------------------------
(* Mutant: a visited start ends the outer loop ("break" for "continue"). *)
SkipStartBreaks ==
  /\ work = << >>
  /\ start < N
  /\ index[start] # None
  /\ start' = N
  /\ UNCHANGED <<succ, index, lowlink, onStack, stack, compOf, comps, counter, work>>

(* The outer loop. *)
SkipStart ==
  /\ work = << >>
  /\ start < N
  /\ index[start] # None
  /\ start' = start + 1
  /\ UNCHANGED <<succ, index, lowlink, onStack, stack, compOf, comps, counter, work>>

(* Mutant: a start is not checked for having been visited. *)
BeginStartUnchecked ==
  /\ work = << >>
  /\ start < N
  /\ start' = start + 1
  /\ Discover(start, << >>)

BeginStart ==
  /\ work = << >>
  /\ start < N
  /\ index[start] = None
  /\ start' = start + 1
  /\ Discover(start, << >>)

(* The inner loop looks at one successor of the active node. *)
Descend ==
  /\ More
  /\ index[child] = None
  /\ Discover(child, Advanced)
  /\ UNCHANGED start

(* Mutant: an edge into a component already closed counts as a back edge. *)
BackEdgeAnywhere ==
  /\ More
  /\ index[child] # None
  /\ lowlink' = [lowlink EXCEPT ![node] = AtMost(@, index[child])]
  /\ work' = Advanced
  /\ UNCHANGED <<succ, index, onStack, stack, compOf, comps, counter, start>>

BackEdge ==
  /\ More
  /\ index[child] # None
  /\ onStack[child]
  /\ lowlink' = [lowlink EXCEPT ![node] = AtMost(@, index[child])]
  /\ work' = Advanced
  /\ UNCHANGED <<succ, index, onStack, stack, compOf, comps, counter, start>>

CrossEdge ==
  /\ More
  /\ index[child] # None
  /\ ~onStack[child]
  /\ work' = Advanced
  /\ UNCHANGED <<succ, index, lowlink, onStack, stack, compOf, comps, counter, start>>

(* The nodes above and including the active one, the last pushed first. *)
PoppedFrom(x) ==
  LET from == CHOOSE i \in 1 .. Len(stack) : stack[i] = x
  IN  Reverse(SubSeq(stack, from, Len(stack)))

(* Mutant: the popped nodes keep their on_stack mark. *)
CloseComponentKeepingMarks ==
  LET comp == PoppedFrom(node)
  IN  /\ stack' = SubSeq(stack, 1, Len(stack) - Len(comp))
      /\ onStack' = onStack
      /\ compOf' = [x \in Node |-> IF x \in ToSet(comp) THEN Len(comps) ELSE compOf[x]]
      /\ comps' = Append(comps, comp)

CloseComponent ==
  LET comp == PoppedFrom(node)
  IN  /\ stack' = SubSeq(stack, 1, Len(stack) - Len(comp))
      /\ onStack' = [x \in Node |-> onStack[x] /\ x \notin ToSet(comp)]
      /\ compOf' = [x \in Node |-> IF x \in ToSet(comp) THEN Len(comps) ELSE compOf[x]]
      /\ comps' = Append(comps, comp)

(* All successors done: close the component whose root this is, return to *)
(* the parent frame and hand it the lowlink.                               *)
Return ==
  /\ work # << >>
  /\ ~More
  /\ IF lowlink[node] = index[node]
     THEN CloseComponent
     ELSE UNCHANGED <<onStack, stack, compOf, comps>>
  /\ work' = SubSeq(work, 1, Len(work) - 1)
  /\ lowlink' = IF work' = << >> THEN lowlink
                ELSE [lowlink EXCEPT ![work'[Len(work')].node] = AtMost(@, lowlink[node])]
  /\ UNCHANGED <<succ, index, counter, start>>

Step == \/ SkipStart \/ BeginStart \/ Descend
        \/ BackEdge \/ CrossEdge \/ Return

Finished   == work = << >> /\ start = N
Terminated == Finished /\ UNCHANGED vars

Next == Step \/ Terminated

Spec == Init /\ [][Next]_vars /\ WF_vars(Step)

-----------------------------------------------------------------------------
TypeOK ==
  /\ succ \in [Node -> Seq(Node)]
  /\ index \in [Node -> 0 .. N]
  /\ lowlink \in [Node -> 0 .. N - 1]
  /\ onStack \in [Node -> BOOLEAN]
  /\ stack \in Seq(Node)
  /\ compOf \in [Node -> 0 .. N]
  /\ comps \in Seq(Seq(Node))
  /\ counter \in 0 .. N
  /\ start \in 0 .. N
  /\ work \in Seq([node : Node, next : Nat \ {0}])

(* Every discovered node is either on the stack, once, or in the component *)
(* compOf names; the stack is in order of discovery; and the frames are a  *)
(* path of the graph through open nodes.  The unwrap of stack.pop() and    *)
(* topo_order's comp_of[v] rely on it.                                     *)
StackHoldsOpenNodes ==
  /\ \A x \in Node : onStack[x] <=> x \in ToSet(stack)
  /\ \A x \in Node : onStack[x] <=> index[x] # None /\ compOf[x] = None
  /\ \A x \in Node : compOf[x] # None => x \in ToSet(comps[compOf[x] + 1])
  /\ \A i, j \in 1 .. Len(stack) : i < j => index[stack[i]] < index[stack[j]]
  /\ \A i \in 1 .. Len(work) : onStack[work[i].node]
  /\ \A i \in 1 .. Len(work) - 1 :
       work[i + 1].node = succ[work[i].node][work[i].next - 1]

(* The edges as a relation, and the components as sets. *)
Edges == {e \in Node \X Node : e[2] \in ToSet(succ[e[1]])}

Found == [i \in 1 .. Len(comps) |-> ToSet(comps[i])]

Abstract == INSTANCE Condensation WITH edges <- Edges, emitted <- Found

(* tarjan_scc implements Condensation: it emits exactly the strongly       *)
(* connected components, each once and after those it flows into ...       *)
EmitsComponents == Abstract!Spec

(* ... and goes on until every node has its component. *)
FindsAllComponents == Abstract!Completes
=============================================================================
