---------------------------- MODULE TarjanProofs ----------------------------
(***************************************************************************)
(* Theorems about tarjan_scc, for every number of nodes and every graph:   *)
(* its arrays agree, and it implements Condensation.                       *)
(***************************************************************************)
EXTENDS Tarjan, SequenceTheorems, Lemmas

-----------------------------------------------------------------------------
(* The inductive invariant. *)

Discovered == {x \in Node : index[x] # None}
Closed     == {x \in Node : compOf[x] # None}

(* Numbers are given once, in order, and only as many as there are nodes. *)
NumberInv ==
  /\ counter = Cardinality(Discovered)
  /\ Len(comps) <= Cardinality(Closed)
  /\ \A x \in Node : index[x] # None => index[x] < counter
  /\ \A x \in Node : compOf[x] # None => index[x] # None /\ compOf[x] < Len(comps)

(* A frame's node was discovered before those of the frames above it. *)
WorkInv ==
  \A i, j \in 1 .. Len(work) : i < j => index[work[i].node] < index[work[j].node]

Inv == TypeOK /\ NumberInv /\ WorkInv /\ StackHoldsOpenNodes

-----------------------------------------------------------------------------
LEMMA NodeFacts ==
  /\ N \in Nat \ {0} /\ None = N
  /\ \A x \in Node : x \in Nat /\ x < N
  /\ IsFiniteSet(Node) /\ Cardinality(Node) = N
<1>1. N \in Nat \ {0}
  BY TarjanAssumption
<1>2. /\ IsFiniteSet(0 .. N - 1)
      /\ Cardinality(0 .. N - 1) = IF 0 > N - 1 THEN 0 ELSE (N - 1) - 0 + 1
  <2>1. 0 \in Int /\ N - 1 \in Int
    BY <1>1
  <2> QED
    BY <2>1, FS_Interval
<1> QED
  BY <1>1, <1>2 DEF Node, None

(* A set of nodes without some node is smaller than N. *)
LEMMA RoomForOne ==
  ASSUME NEW S \in SUBSET Node, NEW x \in Node, x \notin S
  PROVE  /\ IsFiniteSet(S) /\ IsFiniteSet(S \cup {x})
         /\ Cardinality(S) \in Nat
         /\ Cardinality(S \cup {x}) = Cardinality(S) + 1
         /\ Cardinality(S) < N
<1>1. IsFiniteSet(S) /\ Cardinality(S) \in Nat
  BY NodeFacts, FS_Subset, FS_CardinalityType
<1>2. /\ IsFiniteSet(S \cup {x}) /\ Cardinality(S \cup {x}) = Cardinality(S) + 1
  BY <1>1, FS_AddElement
<1>3. S \cup {x} \in SUBSET Node
  OBVIOUS
<1>4. Cardinality(S \cup {x}) <= N
  BY <1>3, NodeFacts, FS_Subset
<1> QED
  BY <1>1, <1>2, <1>4, NodeFacts

FrameSet == [node : Node, next : Nat \ {0}]

LEMMA Element ==
  ASSUME NEW S, NEW s \in Seq(S), NEW i \in 1 .. Len(s)
  PROVE  s[i] \in S
OBVIOUS

LEMMA OneLonger ==
  ASSUME NEW n \in Nat, NEW l, l = n + 1
  PROVE  /\ \A i \in 1 .. l : i \in 1 .. n \/ i = n + 1
         /\ \A i \in 1 .. n : i \in 1 .. l /\ i < n + 1
         /\ n + 1 \in 1 .. l
OBVIOUS

LEMMA WorkFacts ==
  ASSUME TypeOK
  PROVE  /\ Len(work) \in Nat /\ Len(stack) \in Nat /\ Len(comps) \in Nat
         /\ \A i \in 1 .. Len(work) : work[i].node \in Node /\ work[i].next \in Nat \ {0}
         /\ \A i \in 1 .. Len(stack) : stack[i] \in Node
         /\ work # << >> => Len(work) \in 1 .. Len(work) /\ node \in Node
                             /\ node = work[Len(work)].node
<1>1. work \in Seq(FrameSet) /\ stack \in Seq(Node) /\ comps \in Seq(Seq(Node))
  BY DEF TypeOK, FrameSet
<1>2. \A i \in 1 .. Len(work) : work[i] \in FrameSet
  BY <1>1, Element
<1>3. work # << >> => Len(work) \in 1 .. Len(work)
  BY <1>1
<1>4. \A i \in 1 .. Len(stack) : stack[i] \in Node
  BY <1>1, Element
<1>5. \A i \in 1 .. Len(work) : work[i].node \in Node /\ work[i].next \in Nat \ {0}
  BY <1>2 DEF FrameSet
<1> QED
  BY <1>1, <1>3, <1>4, <1>5 DEF node, top

LEMMA InitInv == Init => Inv
<1> SUFFICES ASSUME Init
             PROVE  Inv
  OBVIOUS
<1>1. TypeOK
  BY NodeFacts, TarjanAssumption DEF Init, TypeOK
<1>2. NumberInv
  <2>1. Discovered = {} /\ Closed = {}
    BY DEF Init, Discovered, Closed
  <2> QED
    BY <2>1, FS_EmptySet DEF Init, NumberInv
<1>3. WorkInv
  BY DEF Init, WorkInv
<1>4. StackHoldsOpenNodes
  BY DEF Init, StackHoldsOpenNodes, ToSet
<1> QED
  BY <1>1, <1>2, <1>3, <1>4 DEF Inv

-----------------------------------------------------------------------------
(* Discovering a node: the frames below it are those of before, the active *)
(* one advanced past x.                                                    *)
LEMMA DiscoverStep ==
  ASSUME Inv, NEW x \in Node, index[x] = None, start' \in 0 .. N,
         NEW frames \in Seq(FrameSet), Len(frames) = Len(work),
         \A i \in 1 .. Len(work) : frames[i].node = work[i].node,
         \A i \in 1 .. Len(work) - 1 : frames[i].next = work[i].next,
         work # << >> => x = succ[node][frames[Len(work)].next - 1],
         Discover(x, frames)
  PROVE  Inv'
<1>1. /\ index' = [index EXCEPT ![x] = counter]
      /\ lowlink' = [lowlink EXCEPT ![x] = counter]
      /\ counter' = counter + 1
      /\ stack' = Append(stack, x)
      /\ onStack' = [onStack EXCEPT ![x] = TRUE]
      /\ work' = Append(frames, Frame(x))
      /\ UNCHANGED <<succ, compOf, comps>>
  BY DEF Discover
<1>2. TypeOK /\ NumberInv /\ WorkInv /\ StackHoldsOpenNodes
  BY DEF Inv
<1>3. /\ index \in [Node -> 0 .. N] /\ lowlink \in [Node -> 0 .. N - 1]
      /\ onStack \in [Node -> BOOLEAN] /\ stack \in Seq(Node)
      /\ Len(work) \in Nat /\ Len(stack) \in Nat
  BY <1>2, WorkFacts DEF TypeOK
<1>4. /\ counter = Cardinality(Discovered) /\ counter \in Nat /\ counter < N
      /\ counter # None
      /\ Cardinality(Discovered \cup {x}) = counter + 1
  <2>1. Discovered \in SUBSET Node /\ x \notin Discovered
    BY DEF Discovered
  <2>2. /\ Cardinality(Discovered) \in Nat /\ Cardinality(Discovered) < N
        /\ Cardinality(Discovered \cup {x}) = Cardinality(Discovered) + 1
    BY <2>1, RoomForOne
  <2>3. counter = Cardinality(Discovered)
    BY <1>2 DEF NumberInv
  <2> QED
    BY <2>2, <2>3, NodeFacts
<1>5. /\ index'[x] = counter /\ \A y \in Node : y # x => index'[y] = index[y]
      /\ onStack'[x] = TRUE /\ \A y \in Node : y # x => onStack'[y] = onStack[y]
  BY <1>1, <1>3
<1>6. Frame(x) \in FrameSet /\ Frame(x).node = x /\ Frame(x).next = 1
  BY DEF Frame, FrameSet
<1>7. /\ work' \in Seq(FrameSet) /\ Len(work') = Len(work) + 1
      /\ work'[Len(work) + 1] = Frame(x)
      /\ \A i \in 1 .. Len(work) : work'[i] = frames[i]
  BY <1>1, <1>3, <1>6
<1>8. /\ stack' \in Seq(Node) /\ Len(stack') = Len(stack) + 1
      /\ stack'[Len(stack) + 1] = x
      /\ \A i \in 1 .. Len(stack) : stack'[i] = stack[i]
  BY <1>1, <1>3
<1>9. /\ \A i \in 1 .. Len(stack') : i \in 1 .. Len(stack) \/ i = Len(stack) + 1
      /\ \A i \in 1 .. Len(stack) : i \in 1 .. Len(stack') /\ i < Len(stack) + 1
      /\ Len(stack) + 1 \in 1 .. Len(stack')
      /\ \A i \in 1 .. Len(work') : i \in 1 .. Len(work) \/ i = Len(work) + 1
      /\ \A i \in 1 .. Len(work) : i \in 1 .. Len(work') /\ i < Len(work) + 1
  BY <1>3, <1>7, <1>8, OneLonger
<1>10. TypeOK'
  <2>1. index' \in [Node -> 0 .. N] /\ lowlink' \in [Node -> 0 .. N - 1]
    BY <1>1, <1>3, <1>4, NodeFacts
  <2>2. onStack' \in [Node -> BOOLEAN] /\ counter' \in 0 .. N
    BY <1>1, <1>3, <1>4, NodeFacts
  <2>3. work' \in Seq([node : Node, next : Nat \ {0}])
    BY <1>7 DEF FrameSet
  <2>4. /\ succ' \in [Node -> Seq(Node)] /\ compOf' \in [Node -> 0 .. N]
        /\ comps' \in Seq(Seq(Node))
    BY <1>1, <1>2 DEF TypeOK
  <2> QED
    BY <1>8, <2>1, <2>2, <2>3, <2>4 DEF TypeOK
<1>11. \A y \in Node : index[y] # None => index[y] < counter
  BY <1>2 DEF NumberInv
<1>12. NumberInv'
  <2>1. Discovered' = Discovered \cup {x}
    BY <1>4, <1>5 DEF Discovered
  <2>2. Closed' = Closed
    BY <1>1 DEF Closed
  <2>3. \A y \in Node : index'[y] # None => index'[y] < counter'
    <3> TAKE y \in Node
    <3>1. CASE y = x
      BY <1>1, <1>4, <1>5, <3>1
    <3>2. CASE y # x
      BY <1>1, <1>3, <1>4, <1>5, <1>11, <3>2
    <3> QED
      BY <3>1, <3>2
  <2>4. \A y \in Node : compOf'[y] # None => index'[y] # None /\ compOf'[y] < Len(comps')
    BY <1>1, <1>2, <1>4, <1>5 DEF NumberInv
  <2> QED
    BY <1>1, <1>2, <1>4, <2>1, <2>2, <2>3, <2>4 DEF NumberInv
<1>13. \A y \in Node : onStack[y] => index[y] # None /\ index[y] < counter /\ y # x
  BY <1>2, <1>11 DEF StackHoldsOpenNodes
<1>14. \A i \in 1 .. Len(stack) : stack[i] \in Node /\ onStack[stack[i]]
  BY <1>2, WorkFacts DEF StackHoldsOpenNodes, ToSet
<1>15. \A i \in 1 .. Len(work) : work[i].node \in Node /\ onStack[work[i].node]
  BY <1>2, WorkFacts DEF StackHoldsOpenNodes
<1>16. /\ \A i \in 1 .. Len(work) : work'[i].node = work[i].node
       /\ work'[Len(work) + 1].node = x
  BY <1>6, <1>7
<1>17. WorkInv'
  <2> SUFFICES ASSUME NEW i \in 1 .. Len(work'), NEW j \in 1 .. Len(work'), i < j
               PROVE  index'[work'[i].node] < index'[work'[j].node]
    BY DEF WorkInv
  <2>1. i \in 1 .. Len(work)
    BY <1>3, <1>7
  <2>2. work'[i].node = work[i].node /\ index'[work[i].node] = index[work[i].node]
    BY <1>5, <1>13, <1>15, <1>16, <2>1
  <2>3. CASE j \in 1 .. Len(work)
    BY <1>2, <1>5, <1>13, <1>15, <1>16, <2>1, <2>2, <2>3 DEF WorkInv
  <2>4. CASE j = Len(work) + 1
    BY <1>5, <1>13, <1>15, <1>16, <2>1, <2>2, <2>4
  <2> QED
    BY <1>9, <2>3, <2>4
<1>18. StackHoldsOpenNodes'
  <2>1. \A y \in Node : onStack'[y] <=> y \in ToSet(stack')
    <3>1. ToSet(stack') = ToSet(stack) \cup {x}
      <4>1. DOMAIN stack = 1 .. Len(stack) /\ DOMAIN stack' = 1 .. Len(stack')
        BY <1>3, <1>8
      <4> QED
        BY <1>8, <1>9, <4>1 DEF ToSet
    <3> QED
      BY <1>2, <1>5, <3>1 DEF StackHoldsOpenNodes
  <2>2. \A y \in Node : onStack'[y] <=> index'[y] # None /\ compOf'[y] = None
    BY <1>1, <1>2, <1>4, <1>5 DEF StackHoldsOpenNodes, NumberInv
  <2>3. \A y \in Node : compOf'[y] # None => y \in ToSet(comps'[compOf'[y] + 1])
    BY <1>1, <1>2 DEF StackHoldsOpenNodes
  <2>4. \A i, j \in 1 .. Len(stack') : i < j => index'[stack'[i]] < index'[stack'[j]]
    <3> SUFFICES ASSUME NEW i \in 1 .. Len(stack'), NEW j \in 1 .. Len(stack'), i < j
                 PROVE  index'[stack'[i]] < index'[stack'[j]]
      OBVIOUS
    <3>1. i \in 1 .. Len(stack)
      BY <1>3, <1>8
    <3>2. stack'[i] = stack[i] /\ index'[stack[i]] = index[stack[i]]
      BY <1>5, <1>8, <1>13, <1>14, <3>1
    <3>3. CASE j \in 1 .. Len(stack)
      BY <1>2, <1>5, <1>8, <1>13, <1>14, <3>1, <3>2, <3>3 DEF StackHoldsOpenNodes
    <3>4. CASE j = Len(stack) + 1
      BY <1>5, <1>8, <1>13, <1>14, <3>1, <3>2, <3>4
    <3> QED
      BY <1>9, <3>3, <3>4
  <2>5. \A i \in 1 .. Len(work') : onStack'[work'[i].node]
    BY <1>5, <1>9, <1>13, <1>15, <1>16
  <2>6. \A i \in 1 .. Len(work') - 1 :
          work'[i + 1].node = succ'[work'[i].node][work'[i].next - 1]
    <3> SUFFICES ASSUME NEW i \in 1 .. Len(work') - 1
                 PROVE  work'[i + 1].node = succ[work'[i].node][work'[i].next - 1]
      BY <1>1
    <3>1. i \in 1 .. Len(work)
      BY <1>3, <1>7
    <3>2. CASE i = Len(work)
      <4>1. work # << >>
        BY <1>3, <3>1, <3>2
      <4>2. node = work[Len(work)].node
        BY <1>2, <4>1, WorkFacts
      <4> QED
        BY <1>7, <1>16, <3>1, <3>2, <4>1, <4>2
    <3>3. CASE i # Len(work)
      <4>1. i \in 1 .. Len(work) - 1 /\ i + 1 \in 1 .. Len(work)
        BY <1>3, <3>1, <3>3
      <4>2. work[i + 1].node = succ[work[i].node][work[i].next - 1]
        BY <1>2, <4>1 DEF StackHoldsOpenNodes
      <4> QED
        BY <1>7, <1>16, <3>1, <4>1, <4>2
    <3> QED
      BY <3>2, <3>3
  <2> QED
    BY <2>1, <2>2, <2>3, <2>4, <2>5, <2>6 DEF StackHoldsOpenNodes
<1> QED
  BY <1>10, <1>12, <1>17, <1>18 DEF Inv

LEMMA BeginStartStep == Inv /\ BeginStart => Inv'
<1> SUFFICES ASSUME Inv, BeginStart
             PROVE  Inv'
  OBVIOUS
<1>1. /\ work = << >> /\ start < N /\ index[start] = None /\ start' = start + 1
      /\ Discover(start, << >>)
  BY DEF BeginStart
<1>2. start \in Node /\ start' \in 0 .. N
  BY <1>1, NodeFacts DEF Inv, TypeOK, Node
<1>3. << >> \in Seq(FrameSet) /\ Len(<< >>) = Len(work) /\ Len(work) = 0
  BY <1>1
<1> QED
  BY <1>1, <1>2, <1>3, DiscoverStep

(* The active frame moved on to its next successor. *)
LEMMA AdvancedFacts ==
  ASSUME TypeOK, work # << >>
  PROVE  /\ Advanced \in Seq(FrameSet) /\ Len(Advanced) = Len(work)
         /\ \A i \in 1 .. Len(work) : Advanced[i].node = work[i].node
         /\ \A i \in 1 .. Len(work) - 1 : Advanced[i] = work[i]
         /\ Advanced[Len(work)].next = top.next + 1
<1>1. work \in Seq(FrameSet) /\ Len(work) \in 1 .. Len(work)
  BY WorkFacts DEF TypeOK, FrameSet
<1> DEFINE l == Len(work)
           f == [work[l] EXCEPT !.next = @ + 1]
<1>2. work[l] \in FrameSet /\ work[l].next \in Nat
  <2>1. work[l] \in FrameSet
    BY <1>1, Element
  <2> QED
    BY <2>1 DEF FrameSet
<1>3. f \in FrameSet /\ f.node = work[l].node /\ f.next = work[l].next + 1
  BY <1>2 DEF FrameSet
<1>4. Advanced = [work EXCEPT ![l] = f]
  BY DEF Advanced
<1> HIDE DEF f
<1>5. /\ Advanced \in Seq(FrameSet) /\ Len(Advanced) = l
      /\ Advanced[l] = f /\ \A i \in 1 .. l : i # l => Advanced[i] = work[i]
  BY <1>1, <1>3, <1>4, ExceptSeq
<1> QED
  BY <1>1, <1>3, <1>5 DEF top

LEMMA ChildIsNode ==
  ASSUME TypeOK, More
  PROVE  child \in Node /\ top.next \in 1 .. Len(succ[node]) /\ work # << >>
<1>1. work # << >> /\ top.next <= Len(succ[node])
  BY DEF More
<1>2. node \in Node /\ top.next \in Nat \ {0}
  BY <1>1, WorkFacts DEF top
<1>3. succ[node] \in Seq(Node)
  BY <1>2 DEF TypeOK
<1>4. top.next \in 1 .. Len(succ[node])
  BY <1>1, <1>2, <1>3
<1> QED
  BY <1>1, <1>3, <1>4, Element DEF child

LEMMA DescendStep == Inv /\ Descend => Inv'
<1> SUFFICES ASSUME Inv, Descend
             PROVE  Inv'
  OBVIOUS
<1>1. More /\ index[child] = None /\ Discover(child, Advanced) /\ start' = start
  BY DEF Descend
<1>2. TypeOK
  BY DEF Inv
<1>3. child \in Node /\ work # << >> /\ top.next \in Nat
  BY <1>1, <1>2, ChildIsNode
<1>4. child = succ[node][Advanced[Len(work)].next - 1]
  <2>1. Advanced[Len(work)].next - 1 = top.next
    BY <1>2, <1>3, AdvancedFacts
  <2> QED
    BY <2>1 DEF child
<1>5. start' \in 0 .. N
  BY <1>1, <1>2 DEF TypeOK
<1>6. /\ Advanced \in Seq(FrameSet) /\ Len(Advanced) = Len(work)
      /\ \A i \in 1 .. Len(work) : Advanced[i].node = work[i].node
      /\ \A i \in 1 .. Len(work) - 1 : Advanced[i].next = work[i].next
  BY <1>2, <1>3, AdvancedFacts
<1> QED
  BY <1>1, <1>3, <1>4, <1>5, <1>6, DiscoverStep

(* Steps that discover and close nothing. *)
LEMMA QuietStep ==
  ASSUME Inv, UNCHANGED <<succ, index, onStack, stack, compOf, comps, counter>>,
         lowlink' \in [Node -> 0 .. N - 1], start' \in 0 .. N,
         \/ UNCHANGED work
         \/ work # << >> /\ work' = Advanced
  PROVE  Inv'
<1>1. TypeOK /\ NumberInv /\ WorkInv /\ StackHoldsOpenNodes
  BY DEF Inv
<1>2. /\ work' \in Seq(FrameSet) /\ Len(work') = Len(work) /\ Len(work) \in Nat
      /\ \A i \in 1 .. Len(work) : work'[i].node = work[i].node
      /\ \A i \in 1 .. Len(work) - 1 : work'[i] = work[i]
  <2>1. CASE UNCHANGED work
    BY <1>1, <2>1 DEF TypeOK, FrameSet
  <2>2. CASE work # << >> /\ work' = Advanced
    BY <1>1, <2>2, AdvancedFacts, WorkFacts
  <2> QED
    BY <2>1, <2>2
<1>3. TypeOK'
  BY <1>1, <1>2 DEF TypeOK, FrameSet
<1>4. NumberInv'
  <2>1. Discovered' = Discovered /\ Closed' = Closed
    BY DEF Discovered, Closed
  <2> QED
    BY <1>1, <2>1 DEF NumberInv
<1>5. WorkInv'
  BY <1>1, <1>2 DEF WorkInv
<1>6. StackHoldsOpenNodes'
  <2>1. ToSet(stack') = ToSet(stack)
    OBVIOUS
  <2>2. \A i \in 1 .. Len(work') : onStack'[work'[i].node]
    BY <1>1, <1>2 DEF StackHoldsOpenNodes
  <2>3. \A i \in 1 .. Len(work') - 1 :
          work'[i + 1].node = succ'[work'[i].node][work'[i].next - 1]
    <3> SUFFICES ASSUME NEW i \in 1 .. Len(work) - 1
                 PROVE  work'[i + 1].node = succ[work'[i].node][work'[i].next - 1]
      BY <1>2
    <3>1. i + 1 \in 1 .. Len(work)
      BY <1>2
    <3> QED
      BY <1>1, <1>2, <3>1 DEF StackHoldsOpenNodes
  <2> QED
    BY <1>1, <2>1, <2>2, <2>3 DEF StackHoldsOpenNodes
<1> QED
  BY <1>3, <1>4, <1>5, <1>6 DEF Inv

LEMMA SkipStartStep == Inv /\ SkipStart => Inv'
<1> SUFFICES ASSUME Inv, SkipStart
             PROVE  Inv'
  OBVIOUS
<1>1. /\ start < N /\ start' = start + 1
      /\ UNCHANGED <<succ, index, lowlink, onStack, stack, compOf, comps, counter, work>>
  BY DEF SkipStart
<1>2. lowlink' \in [Node -> 0 .. N - 1] /\ start' \in 0 .. N
  BY <1>1, NodeFacts DEF Inv, TypeOK
<1> QED
  BY <1>1, <1>2, QuietStep

LEMMA EdgeStep == Inv /\ (BackEdge \/ CrossEdge) => Inv'
<1> SUFFICES ASSUME Inv, BackEdge \/ CrossEdge
             PROVE  Inv'
  OBVIOUS
<1>1. TypeOK
  BY DEF Inv
<1>2. /\ More /\ index[child] # None /\ work' = Advanced
      /\ UNCHANGED <<succ, index, onStack, stack, compOf, comps, counter, start>>
      /\ \/ lowlink' = lowlink
         \/ lowlink' = [lowlink EXCEPT ![node] = AtMost(@, index[child])]
  BY DEF BackEdge, CrossEdge
<1>3. child \in Node /\ work # << >> /\ node \in Node
  BY <1>1, <1>2, ChildIsNode, WorkFacts
<1>4. index[child] \in 0 .. N - 1
  BY <1>1, <1>2, <1>3, NodeFacts DEF TypeOK
<1>5. lowlink' \in [Node -> 0 .. N - 1] /\ start' \in 0 .. N
  <2>1. AtMost(lowlink[node], index[child]) \in 0 .. N - 1
    BY <1>1, <1>3, <1>4 DEF AtMost, TypeOK
  <2> QED
    BY <1>1, <1>2, <1>3, <2>1 DEF TypeOK
<1> QED
  BY <1>2, <1>3, <1>5, QuietStep

(* What the close of a component takes off the stack: everything from the *)
(* place of x upwards.                                                     *)
LEMMA PoppedFacts ==
  ASSUME Inv, NEW x \in Node, onStack[x]
  PROVE  \E from \in 1 .. Len(stack) :
           /\ stack[from] = x
           /\ PoppedFrom(x) \in Seq(Node)
           /\ Len(PoppedFrom(x)) = Len(stack) - from + 1
           /\ ToSet(PoppedFrom(x)) = {stack[j] : j \in from .. Len(stack)}
<1>1. TypeOK /\ StackHoldsOpenNodes
  BY DEF Inv
<1>2. /\ stack \in Seq(Node) /\ Len(stack) \in Nat /\ DOMAIN stack = 1 .. Len(stack)
      /\ \A i \in 1 .. Len(stack) : stack[i] \in Node
  BY <1>1, WorkFacts DEF TypeOK
<1>3. x \in ToSet(stack)
  BY <1>1 DEF StackHoldsOpenNodes
<1>4. \E i \in 1 .. Len(stack) : stack[i] = x
  BY <1>2, <1>3 DEF ToSet
<1> DEFINE place == CHOOSE i \in 1 .. Len(stack) : stack[i] = x
           above == SubSeq(stack, place, Len(stack))
<1>5. place \in 1 .. Len(stack) /\ stack[place] = x
  BY <1>4
<1>6. PoppedFrom(x) = Reverse(above)
  BY DEF PoppedFrom
<1> HIDE DEF place
<1>7. /\ above \in Seq(Node) /\ Len(above) = Len(stack) - place + 1
      /\ \A i \in 1 .. Len(stack) - place + 1 : above[i] = stack[place + i - 1]
  <2>1. \A i \in place .. Len(stack) : stack[i] \in Node
    BY <1>2, <1>5
  <2> QED
    BY <1>2, <1>5, <2>1, SubSeqProperties
<1> DEFINE k == Len(stack) - place + 1
<1>8. k \in Nat /\ Len(above) = k
  BY <1>2, <1>5, <1>7
<1>9. PoppedFrom(x) = [i \in 1 .. k |-> above[k - i + 1]]
  BY <1>6, <1>8 DEF Reverse
<1>10. \A i \in 1 .. k : k - i + 1 \in 1 .. k
  BY <1>8
<1> HIDE DEF above
<1>11. \A i \in 1 .. k : above[k - i + 1] = stack[Len(stack) - i + 1]
  <2> TAKE i \in 1 .. k
  <2>1. above[k - i + 1] = stack[place + (k - i + 1) - 1]
    BY <1>7, <1>10
  <2>2. place + (k - i + 1) - 1 = Len(stack) - i + 1
    BY <1>2, <1>5
  <2> QED
    BY <2>1, <2>2
<1>12. PoppedFrom(x) = [i \in 1 .. k |-> stack[Len(stack) - i + 1]]
  BY <1>9, <1>11
<1>13. \A i \in 1 .. k : Len(stack) - i + 1 \in place .. Len(stack)
  BY <1>2, <1>5
<1>14. \A i \in 1 .. k : stack[Len(stack) - i + 1] \in Node
  BY <1>2, <1>5, <1>13
<1>15. PoppedFrom(x) \in Seq(Node) /\ Len(PoppedFrom(x)) = k
  BY <1>8, <1>12, <1>14
<1>16. ToSet(PoppedFrom(x)) = {stack[j] : j \in place .. Len(stack)}
  <2>1. ToSet(PoppedFrom(x)) = {stack[Len(stack) - i + 1] : i \in 1 .. k}
    BY <1>12 DEF ToSet
  <2>2. \A j \in place .. Len(stack) :
          Len(stack) - j + 1 \in 1 .. k /\ Len(stack) - (Len(stack) - j + 1) + 1 = j
    BY <1>2, <1>5
  <2> HIDE DEF k
  <2>3. {stack[Len(stack) - i + 1] : i \in 1 .. k} \subseteq {stack[j] : j \in place .. Len(stack)}
    BY <1>13
  <2>4. {stack[j] : j \in place .. Len(stack)} \subseteq {stack[Len(stack) - i + 1] : i \in 1 .. k}
    <3> SUFFICES ASSUME NEW j \in place .. Len(stack)
                 PROVE  stack[j] \in {stack[Len(stack) - i + 1] : i \in 1 .. k}
      OBVIOUS
    <3>1. PICK i \in 1 .. k : Len(stack) - i + 1 = j
      BY <2>2
    <3> QED
      BY <3>1
  <2> QED
    BY <2>1, <2>3, <2>4
<1> QED
  BY <1>5, <1>15, <1>16

(* What Return does to the nodes, whether or not it closes a component. *)
NodesKept ==
  /\ onStack' \in [Node -> BOOLEAN] /\ stack' \in Seq(Node)
  /\ compOf' \in [Node -> 0 .. N] /\ comps' \in Seq(Seq(Node))
  /\ Len(comps') <= Cardinality(Closed')
  /\ \A x \in Node : compOf'[x] # None => index[x] # None /\ compOf'[x] < Len(comps')
  /\ \A x \in Node : onStack'[x] <=> x \in ToSet(stack')
  /\ \A x \in Node : onStack'[x] <=> index[x] # None /\ compOf'[x] = None
  /\ \A x \in Node : compOf'[x] # None => x \in ToSet(comps'[compOf'[x] + 1])
  /\ \A i, j \in 1 .. Len(stack') : i < j => index[stack'[i]] < index[stack'[j]]
  /\ \A i \in 1 .. Len(work) - 1 : onStack'[work[i].node]

LEMMA KeptWhenOpen ==
  ASSUME Inv, UNCHANGED <<onStack, stack, compOf, comps>>
  PROVE  NodesKept
<1>1. TypeOK /\ NumberInv /\ StackHoldsOpenNodes
  BY DEF Inv
<1>2. Closed' = Closed /\ ToSet(stack') = ToSet(stack)
  BY DEF Closed
<1>3. \A i \in 1 .. Len(work) - 1 : i \in 1 .. Len(work)
  BY <1>1, WorkFacts
<1>4. \A i \in 1 .. Len(work) - 1 : onStack'[work[i].node]
  BY <1>1, <1>3 DEF StackHoldsOpenNodes
<1>5. /\ onStack' \in [Node -> BOOLEAN] /\ stack' \in Seq(Node)
      /\ compOf' \in [Node -> 0 .. N] /\ comps' \in Seq(Seq(Node))
  BY <1>1 DEF TypeOK
<1>6. /\ Len(comps') <= Cardinality(Closed')
      /\ \A x \in Node : compOf'[x] # None => index[x] # None /\ compOf'[x] < Len(comps')
  BY <1>1, <1>2 DEF NumberInv
<1>7. /\ \A x \in Node : onStack'[x] <=> x \in ToSet(stack')
      /\ \A x \in Node : onStack'[x] <=> index[x] # None /\ compOf'[x] = None
      /\ \A x \in Node : compOf'[x] # None => x \in ToSet(comps'[compOf'[x] + 1])
      /\ \A i, j \in 1 .. Len(stack') : i < j => index[stack'[i]] < index[stack'[j]]
  BY <1>1, <1>2 DEF StackHoldsOpenNodes
<1> QED
  BY <1>4, <1>5, <1>6, <1>7 DEF NodesKept

LEMMA KeptWhenClosing ==
  ASSUME Inv, work # << >>, CloseComponent
  PROVE  NodesKept
<1>1. TypeOK /\ NumberInv /\ WorkInv /\ StackHoldsOpenNodes
  BY DEF Inv
<1>2. /\ stack \in Seq(Node) /\ Len(stack) \in Nat /\ DOMAIN stack = 1 .. Len(stack)
      /\ onStack \in [Node -> BOOLEAN] /\ index \in [Node -> 0 .. N]
      /\ compOf \in [Node -> 0 .. N] /\ comps \in Seq(Seq(Node)) /\ Len(comps) \in Nat
      /\ \A i \in 1 .. Len(stack) : stack[i] \in Node
  <2>1. /\ Len(stack) \in Nat /\ Len(comps) \in Nat
        /\ \A i \in 1 .. Len(stack) : stack[i] \in Node
    BY <1>1, WorkFacts
  <2>2. /\ stack \in Seq(Node) /\ onStack \in [Node -> BOOLEAN]
        /\ index \in [Node -> 0 .. N] /\ compOf \in [Node -> 0 .. N]
        /\ comps \in Seq(Seq(Node))
    BY <1>1 DEF TypeOK
  <2>3. DOMAIN stack = 1 .. Len(stack)
    BY <2>2
  <2> QED
    BY <2>1, <2>2, <2>3
<1>3. /\ node \in Node /\ Len(work) \in 1 .. Len(work) /\ node = work[Len(work)].node
      /\ Len(work) \in Nat
      /\ \A i \in 1 .. Len(work) : work[i].node \in Node
  BY <1>1, WorkFacts
<1>4. onStack[node]
  BY <1>1, <1>3 DEF StackHoldsOpenNodes
<1>5. PICK from \in 1 .. Len(stack) :
        /\ stack[from] = node
        /\ PoppedFrom(node) \in Seq(Node)
        /\ Len(PoppedFrom(node)) = Len(stack) - from + 1
        /\ ToSet(PoppedFrom(node)) = {stack[j] : j \in from .. Len(stack)}
  BY <1>3, <1>4, PoppedFacts
<1>6. PICK comp \in Seq(Node) : comp = PoppedFrom(node)
  BY <1>5
<1>7. PICK popped : popped = {stack[j] : j \in from .. Len(stack)}
  OBVIOUS
<1>8. ToSet(comp) = popped /\ Len(comp) = Len(stack) - from + 1
  BY <1>5, <1>6, <1>7
<1>9. /\ stack' = SubSeq(stack, 1, Len(stack) - Len(comp))
      /\ onStack' = [x \in Node |-> onStack[x] /\ x \notin popped]
      /\ compOf' = [x \in Node |-> IF x \in popped THEN Len(comps) ELSE compOf[x]]
      /\ comps' = Append(comps, comp)
  BY <1>6, <1>8 DEF CloseComponent
<1>10. stack' = SubSeq(stack, 1, from - 1)
  <2>1. Len(stack) - Len(comp) = from - 1
    BY <1>2, <1>5, <1>8
  <2> QED
    BY <1>9, <2>1
<1>11. /\ stack' \in Seq(Node) /\ Len(stack') = from - 1
       /\ \A i \in 1 .. from - 1 : stack'[i] = stack[i]
  <2>1. \A i \in 1 .. from - 1 : stack[i] \in Node
    BY <1>2
  <2>2. 1 \in Int /\ from - 1 \in Int
    OBVIOUS
  <2>3. /\ SubSeq(stack, 1, from - 1) \in Seq(Node)
        /\ Len(SubSeq(stack, 1, from - 1)) = IF 1 <= from - 1 THEN (from - 1) - 1 + 1 ELSE 0
        /\ \A i \in 1 .. (from - 1) - 1 + 1 : SubSeq(stack, 1, from - 1)[i] = stack[1 + i - 1]
    BY <2>1, <2>2, SubSeqProperties
  <2>4. Len(stack') = from - 1
    BY <1>10, <2>3
  <2>5. \A i \in 1 .. from - 1 : i \in 1 .. (from - 1) - 1 + 1 /\ 1 + i - 1 = i
    OBVIOUS
  <2>6. \A i \in 1 .. from - 1 : stack'[i] = stack[i]
    BY <1>10, <2>3, <2>5
  <2> QED
    BY <1>10, <2>3, <2>4, <2>6
<1>12. /\ \A i \in 1 .. from - 1 : i \in 1 .. Len(stack)
       /\ \A j \in from .. Len(stack) : j \in 1 .. Len(stack)
       /\ \A i \in 1 .. Len(stack) : i \in 1 .. from - 1 \/ i \in from .. Len(stack)
  BY <1>2
<1>13. \A i, j \in 1 .. Len(stack) : i < j => index[stack[i]] < index[stack[j]]
  BY <1>1 DEF StackHoldsOpenNodes
(* What is popped was discovered with or after the active node ... *)
<1>14. \A x \in popped : x \in Node /\ onStack[x] /\ index[x] >= index[node]
  <2> SUFFICES ASSUME NEW j \in from .. Len(stack)
               PROVE  stack[j] \in Node /\ onStack[stack[j]] /\ index[stack[j]] >= index[node]
    BY <1>7
  <2>1. j \in 1 .. Len(stack) /\ stack[j] \in Node
    BY <1>2, <1>12
  <2>2. onStack[stack[j]]
    <3>1. stack[j] \in ToSet(stack)
      BY <1>2, <2>1 DEF ToSet
    <3> QED
      BY <1>1, <2>1, <3>1 DEF StackHoldsOpenNodes
  <2>3. index[stack[j]] \in 0 .. N /\ index[node] \in 0 .. N
    BY <1>2, <1>3, <2>1
  <2>4. index[stack[j]] >= index[node]
    <3>1. CASE j = from
      BY <1>5, <2>3, <3>1, NodeFacts
    <3>2. CASE j # from
      <4>1. index[stack[from]] < index[stack[j]]
        BY <1>5, <1>13, <2>1, <3>2
      <4> QED
        BY <1>5, <2>3, <4>1, NodeFacts
    <3> QED
      BY <3>1, <3>2
  <2> QED
    BY <2>1, <2>2, <2>4
(* ... and what stays on the stack before it. *)
<1>15. \A i \in 1 .. from - 1 : stack[i] \in Node /\ stack[i] \notin popped
  <2> TAKE i \in 1 .. from - 1
  <2>1. i \in 1 .. Len(stack) /\ i < from
    BY <1>12
  <2>2. index[stack[i]] < index[node]
    BY <1>5, <1>13, <2>1
  <2>3. stack[i] \in Node /\ index[stack[i]] \in 0 .. N /\ index[node] \in 0 .. N
    BY <1>2, <1>3, <2>1
  <2> QED
    BY <1>14, <2>2, <2>3, NodeFacts
<1>16. ToSet(stack') = {stack[i] : i \in 1 .. from - 1}
  BY <1>11 DEF ToSet
<1>17. \A x \in Node : x \in ToSet(stack) <=> x \in ToSet(stack') \/ x \in popped
  <2>1. ToSet(stack) = {stack[i] : i \in 1 .. Len(stack)}
    BY <1>2 DEF ToSet
  <2> QED
    BY <1>7, <1>12, <1>16, <2>1
<1>18. node \in popped
  <2>1. from \in from .. Len(stack)
    BY <1>2
  <2>2. stack[from] = node
    BY <1>5
  <2> QED
    BY <1>7, <2>1, <2>2
<1>19. compOf[node] = None
  BY <1>1, <1>3, <1>4 DEF StackHoldsOpenNodes
<1>20. Closed \in SUBSET Node /\ node \notin Closed /\ Closed' \in SUBSET Node
  BY <1>19 DEF Closed
<1>21. /\ Cardinality(Closed) \in Nat /\ Cardinality(Closed) < N
       /\ Cardinality(Closed \cup {node}) = Cardinality(Closed) + 1
  BY <1>3, <1>20, RoomForOne
<1>22. Len(comps) <= Cardinality(Closed)
  BY <1>1 DEF NumberInv
<1>23. Len(comps) \in 0 .. N - 1 /\ Len(comps) # None
  BY <1>2, <1>21, <1>22, NodeFacts
<1>24. /\ comps' \in Seq(Seq(Node)) /\ Len(comps') = Len(comps) + 1
       /\ comps'[Len(comps) + 1] = comp
       /\ \A i \in 1 .. Len(comps) : comps'[i] = comps[i]
  BY <1>2, <1>9
<1>25. \A x \in Node : compOf'[x] = IF x \in popped THEN Len(comps) ELSE compOf[x]
  BY <1>9
<1>26. \A x \in Node : onStack'[x] <=> onStack[x] /\ x \notin popped
  BY <1>9
<1>27. Len(comps') <= Cardinality(Closed')
  <2>1. Closed \cup {node} \subseteq Closed'
    BY <1>3, <1>18, <1>20, <1>23, <1>25 DEF Closed
  <2>2. IsFiniteSet(Closed')
    BY <1>20, NodeFacts, FS_Subset
  <2>3. Cardinality(Closed \cup {node}) <= Cardinality(Closed')
    BY <2>1, <2>2, FS_Subset
  <2>4. Cardinality(Closed') \in Nat
    BY <2>2, FS_CardinalityType
  <2> QED
    BY <1>2, <1>21, <1>22, <1>24, <2>3, <2>4
<1>28. /\ onStack' \in [Node -> BOOLEAN]
       /\ compOf' \in [Node -> 0 .. N]
  <2>1. Len(comps) \in 0 .. N
    BY <1>23, NodeFacts
  <2> QED
    BY <1>2, <1>9, <2>1
<1>29. \A x \in Node : compOf'[x] # None => index[x] # None /\ compOf'[x] < Len(comps')
  <2> SUFFICES ASSUME NEW x \in Node, compOf'[x] # None
               PROVE  index[x] # None /\ compOf'[x] < Len(comps')
    OBVIOUS
  <2>1. CASE x \in popped
    <3>1. index[x] # None
      BY <1>1, <1>14, <2>1 DEF StackHoldsOpenNodes
    <3> QED
      BY <1>2, <1>24, <1>25, <2>1, <3>1
  <2>2. CASE x \notin popped
    <3>1. compOf'[x] = compOf[x] /\ compOf[x] \in Nat
      BY <1>2, <1>25, <2>2, NodeFacts
    <3>2. index[x] # None /\ compOf[x] < Len(comps)
      BY <1>1, <3>1 DEF NumberInv
    <3> QED
      BY <1>2, <1>24, <3>1, <3>2
  <2> QED
    BY <2>1, <2>2
<1>30. \A x \in Node : onStack'[x] <=> x \in ToSet(stack')
  <2> TAKE x \in Node
  <2>1. x \in ToSet(stack') => x \notin popped
    BY <1>15, <1>16
  <2>2. onStack[x] <=> x \in ToSet(stack)
    BY <1>1 DEF StackHoldsOpenNodes
  <2> QED
    BY <1>17, <1>26, <2>1, <2>2
<1>31. \A x \in Node : onStack'[x] <=> index[x] # None /\ compOf'[x] = None
  <2> TAKE x \in Node
  <2>1. onStack[x] <=> index[x] # None /\ compOf[x] = None
    BY <1>1 DEF StackHoldsOpenNodes
  <2>2. CASE x \in popped
    BY <1>23, <1>25, <1>26, <2>2
  <2>3. CASE x \notin popped
    BY <1>25, <1>26, <2>1, <2>3
  <2> QED
    BY <2>2, <2>3
<1>32. \A x \in Node : compOf'[x] # None => x \in ToSet(comps'[compOf'[x] + 1])
  <2> SUFFICES ASSUME NEW x \in Node, compOf'[x] # None
               PROVE  x \in ToSet(comps'[compOf'[x] + 1])
    OBVIOUS
  <2>1. CASE x \in popped
    BY <1>8, <1>24, <1>25, <2>1
  <2>2. CASE x \notin popped
    <3>1. compOf'[x] = compOf[x] /\ compOf[x] \in Nat
      BY <1>2, <1>25, <2>2, NodeFacts
    <3>2. compOf[x] < Len(comps)
      BY <1>1, <3>1 DEF NumberInv
    <3>3. compOf[x] + 1 \in 1 .. Len(comps)
      BY <1>2, <3>1, <3>2
    <3>4. comps'[compOf[x] + 1] = comps[compOf[x] + 1]
      BY <1>24, <3>3
    <3>5. x \in ToSet(comps[compOf[x] + 1])
      BY <1>1, <3>1 DEF StackHoldsOpenNodes
    <3> QED
      BY <3>1, <3>4, <3>5
  <2> QED
    BY <2>1, <2>2
<1>33. \A i, j \in 1 .. Len(stack') : i < j => index[stack'[i]] < index[stack'[j]]
  BY <1>11, <1>12, <1>13
<1>34. \A i \in 1 .. Len(work) - 1 : onStack'[work[i].node]
  <2> TAKE i \in 1 .. Len(work) - 1
  <2>1. i \in 1 .. Len(work) /\ i < Len(work)
    BY <1>3
  <2>2. work[i].node \in Node /\ index[work[i].node] \in 0 .. N /\ index[node] \in 0 .. N
    BY <1>2, <1>3, <2>1
  <2>3. index[work[i].node] < index[node]
    BY <1>1, <1>3, <2>1 DEF WorkInv
  <2>4. work[i].node \notin popped
    BY <1>14, <2>2, <2>3, NodeFacts
  <2>5. onStack[work[i].node]
    BY <1>1, <2>1 DEF StackHoldsOpenNodes
  <2> QED
    BY <1>26, <2>2, <2>4, <2>5
<1> QED
  BY <1>11, <1>24, <1>27, <1>28, <1>29, <1>30, <1>31, <1>32, <1>33, <1>34 DEF NodesKept

(* A sequence without its last element. *)
LEMMA Shortened ==
  ASSUME NEW S, NEW s \in Seq(S), s # << >>,
         NEW t, t = SubSeq(s, 1, Len(s) - 1)
  PROVE  /\ t \in Seq(S) /\ Len(t) = Len(s) - 1
         /\ \A i \in 1 .. Len(s) - 1 : t[i] = s[i]
<1>1. PICK l \in Nat : l = Len(s) /\ 1 <= l
  OBVIOUS
<1>2. \A i \in 1 .. l - 1 : s[i] \in S
  BY <1>1
<1>3. 1 \in Int /\ l - 1 \in Int
  BY <1>1
<1>4. t = SubSeq(s, 1, l - 1)
  BY <1>1
<1>5. /\ t \in Seq(S)
      /\ Len(t) = IF 1 <= l - 1 THEN (l - 1) - 1 + 1 ELSE 0
      /\ \A i \in 1 .. (l - 1) - 1 + 1 : t[i] = s[1 + i - 1]
  BY <1>2, <1>3, <1>4, SubSeqProperties
<1>6. Len(t) = l - 1
  BY <1>1, <1>5
<1>7. \A i \in 1 .. l - 1 : i \in 1 .. (l - 1) - 1 + 1 /\ 1 + i - 1 = i
  BY <1>1
<1>8. \A i \in 1 .. l - 1 : t[i] = s[i]
  BY <1>5, <1>7
<1> QED
  BY <1>1, <1>5, <1>6, <1>8

LEMMA ReturnStep == Inv /\ Return => Inv'
<1> SUFFICES ASSUME Inv, Return
             PROVE  Inv'
  OBVIOUS
<1>1. TypeOK /\ NumberInv /\ WorkInv /\ StackHoldsOpenNodes
  BY DEF Inv
<1>2. /\ work # << >> /\ work' = SubSeq(work, 1, Len(work) - 1)
      /\ lowlink' = IF work' = << >> THEN lowlink
                    ELSE [lowlink EXCEPT ![work'[Len(work')].node] = AtMost(@, lowlink[node])]
      /\ UNCHANGED <<succ, index, counter, start>>
  BY DEF Return
<1>3. NodesKept
  <2>1. CloseComponent \/ UNCHANGED <<onStack, stack, compOf, comps>>
    BY DEF Return
  <2> QED
    BY <1>2, <2>1, KeptWhenOpen, KeptWhenClosing
<1>4. /\ work \in Seq(FrameSet) /\ Len(work) \in Nat /\ Len(work) \in 1 .. Len(work)
      /\ node \in Node
      /\ \A i \in 1 .. Len(work) : work[i] \in FrameSet /\ work[i].node \in Node
  <2>1. work \in Seq(FrameSet)
    BY <1>1 DEF TypeOK, FrameSet
  <2>2. \A i \in 1 .. Len(work) : work[i] \in FrameSet
    BY <2>1, Element
  <2> QED
    BY <1>1, <1>2, <2>1, <2>2, WorkFacts
<1>5. /\ work' \in Seq(FrameSet) /\ Len(work') = Len(work) - 1
      /\ \A i \in 1 .. Len(work) - 1 : work'[i] = work[i]
  BY <1>2, <1>4, Shortened
<1>6. \A i \in 1 .. Len(work') : i \in 1 .. Len(work) /\ i \in 1 .. Len(work) - 1
  BY <1>4, <1>5
<1>7. lowlink' \in [Node -> 0 .. N - 1]
  <2>1. lowlink \in [Node -> 0 .. N - 1]
    BY <1>1 DEF TypeOK
  <2>2. CASE work' = << >>
    BY <1>2, <2>1, <2>2
  <2>3. CASE work' # << >>
    <3>1. Len(work') \in 1 .. Len(work')
      BY <1>5, <2>3
    <3>2. work'[Len(work')].node \in Node
      BY <1>4, <1>5, <1>6, <3>1
    <3>3. PICK y \in Node : y = work'[Len(work')].node
      BY <3>2
    <3>4. AtMost(lowlink[y], lowlink[node]) \in 0 .. N - 1
      BY <1>4, <2>1 DEF AtMost
    <3>5. lowlink' = [lowlink EXCEPT ![y] = AtMost(lowlink[y], lowlink[node])]
      BY <1>2, <2>3, <3>3
    <3> QED
      BY <2>1, <3>4, <3>5
  <2> QED
    BY <2>2, <2>3
<1>8. TypeOK'
  <2>1. /\ succ' \in [Node -> Seq(Node)] /\ index' \in [Node -> 0 .. N]
        /\ counter' \in 0 .. N /\ start' \in 0 .. N
    BY <1>1, <1>2 DEF TypeOK
  <2>2. /\ onStack' \in [Node -> BOOLEAN] /\ stack' \in Seq(Node)
        /\ compOf' \in [Node -> 0 .. N] /\ comps' \in Seq(Seq(Node))
    BY <1>3 DEF NodesKept
  <2>3. work' \in Seq([node : Node, next : Nat \ {0}])
    BY <1>5 DEF FrameSet
  <2> QED
    BY <1>7, <2>1, <2>2, <2>3 DEF TypeOK
<1>9. NumberInv'
  <2>1. Discovered' = Discovered
    BY <1>2 DEF Discovered
  <2>2. /\ counter' = Cardinality(Discovered')
        /\ \A x \in Node : index'[x] # None => index'[x] < counter'
    BY <1>1, <1>2, <2>1 DEF NumberInv
  <2>3. /\ Len(comps') <= Cardinality(Closed')
        /\ \A x \in Node : compOf'[x] # None => index'[x] # None /\ compOf'[x] < Len(comps')
    BY <1>2, <1>3 DEF NodesKept
  <2> QED
    BY <2>2, <2>3 DEF NumberInv
<1>10. WorkInv'
  <2> SUFFICES ASSUME NEW i \in 1 .. Len(work'), NEW j \in 1 .. Len(work'), i < j
               PROVE  index'[work'[i].node] < index'[work'[j].node]
    BY DEF WorkInv
  <2> QED
    BY <1>1, <1>2, <1>5, <1>6 DEF WorkInv
<1>11. StackHoldsOpenNodes'
  <2>1. /\ \A x \in Node : onStack'[x] <=> x \in ToSet(stack')
        /\ \A x \in Node : onStack'[x] <=> index'[x] # None /\ compOf'[x] = None
        /\ \A x \in Node : compOf'[x] # None => x \in ToSet(comps'[compOf'[x] + 1])
        /\ \A i, j \in 1 .. Len(stack') : i < j => index'[stack'[i]] < index'[stack'[j]]
    BY <1>2, <1>3 DEF NodesKept
  <2>2. \A i \in 1 .. Len(work') : onStack'[work'[i].node]
    BY <1>3, <1>5, <1>6 DEF NodesKept
  <2>3. \A i \in 1 .. Len(work') - 1 :
          work'[i + 1].node = succ'[work'[i].node][work'[i].next - 1]
    <3> SUFFICES ASSUME NEW i \in 1 .. Len(work') - 1
                 PROVE  work'[i + 1].node = succ[work'[i].node][work'[i].next - 1]
      BY <1>2
    <3>1. i \in 1 .. Len(work) - 1 /\ i + 1 \in 1 .. Len(work) - 1
      BY <1>4, <1>5
    <3> QED
      BY <1>1, <1>5, <3>1 DEF StackHoldsOpenNodes
  <2> QED
    BY <2>1, <2>2, <2>3 DEF StackHoldsOpenNodes
<1> QED
  BY <1>8, <1>9, <1>10, <1>11 DEF Inv

-----------------------------------------------------------------------------
LEMMA StepInv == Inv /\ [Next]_vars => Inv'
<1> SUFFICES ASSUME Inv, [Next]_vars
             PROVE  Inv'
  OBVIOUS
<1>1. CASE SkipStart
  BY <1>1, SkipStartStep
<1>2. CASE BeginStart
  BY <1>2, BeginStartStep
<1>3. CASE Descend
  BY <1>3, DescendStep
<1>4. CASE BackEdge \/ CrossEdge
  BY <1>4, EdgeStep
<1>5. CASE Return
  BY <1>5, ReturnStep
<1>6. CASE UNCHANGED vars
  <2>1. lowlink' \in [Node -> 0 .. N - 1] /\ start' \in 0 .. N
    BY <1>6 DEF Inv, TypeOK, vars
  <2>2. UNCHANGED <<succ, index, onStack, stack, compOf, comps, counter>> /\ UNCHANGED work
    BY <1>6 DEF vars
  <2> QED
    BY <2>1, <2>2, QuietStep
<1> QED
  BY <1>1, <1>2, <1>3, <1>4, <1>5, <1>6 DEF Next, Step, Terminated

LEMMA Invariance == Spec => []Inv
<1> QED
  BY InitInv, StepInv, PTL DEF Spec

(* tarjan_scc's arrays keep their ranges: no discovery number, lowlink or  *)
(* component number outgrows the graph, whatever the graph.                *)
THEOREM TypeCorrect == Spec => []TypeOK
<1>1. Inv => TypeOK
  BY DEF Inv
<1> QED
  BY <1>1, Invariance, PTL

(* At every step, of any graph, the stack of open nodes, the on_stack      *)
(* marks, comp_of and the emitted components agree, and the frames are a   *)
(* path of the graph: stack.pop().unwrap() always finds the node it looks  *)
(* for, and comp_of names the component a node is in.                      *)
THEOREM StackCorrect == Spec => []StackHoldsOpenNodes
<1>1. Inv => StackHoldsOpenNodes
  BY DEF Inv
<1> QED
  BY <1>1, Invariance, PTL

-----------------------------------------------------------------------------
(* The graph: its edges, and paths as what every set that is closed under  *)
(* the edges and contains the one node must contain.                       *)

Edge(x, y) == y \in ToSet(succ[x])

IsEdgeClosed(S) == \A x, y \in Node : x \in S /\ Edge(x, y) => y \in S

Path(x, y) == \A S \in SUBSET Node : x \in S /\ IsEdgeClosed(S) => y \in S

LEMMA PathRefl == \A x \in Node : Path(x, x)
BY DEF Path

LEMMA PathTrans ==
  \A x, y, z \in Node : Path(x, y) /\ Path(y, z) => Path(x, z)
BY DEF Path

LEMMA PathEdge ==
  \A x, y, z \in Node : Path(x, y) /\ Edge(y, z) => Path(x, z)
BY DEF Path, IsEdgeClosed

LEMMA SameGraph ==
  ASSUME UNCHANGED succ
  PROVE  /\ \A x, y \in Node : Edge(x, y)' <=> Edge(x, y)
         /\ \A x, y \in Node : Path(x, y)' <=> Path(x, y)
<1>1. \A x, y \in Node : Edge(x, y)' <=> Edge(x, y)
  BY DEF Edge
<1>2. \A S \in SUBSET Node : IsEdgeClosed(S)' <=> IsEdgeClosed(S)
  BY <1>1 DEF IsEdgeClosed
<1>3. \A x, y \in Node : Path(x, y)' <=> Path(x, y)
  BY <1>2 DEF Path
<1> QED
  BY <1>1, <1>3

-----------------------------------------------------------------------------
(* The inductive invariant. *)

(* The nodes that have a frame. *)
Frames == {work[i].node : i \in 1 .. Len(work)}

(* The edges that have been looked at: all but those a frame has yet to. *)
Seen(x, y) ==
  \E k \in 1 .. Len(succ[x]) :
    succ[x][k] = y /\ (\A i \in 1 .. Len(work) : work[i].node = x => k < work[i].next)

(* x is open and was discovered under g, and under no younger frame. *)
Under(x, g) ==
  /\ onStack[x]
  /\ index[g] <= index[x]
  /\ \A h \in Frames : index[h] <= index[x] => index[h] <= index[g]

(* An edge that has been looked at leads to a node that has a number. *)
SeenAreFound == \A x, y \in Node : index[x] # None /\ Seen(x, y) => index[y] # None

(* No edge leaves the closed components, and they hold nothing else. *)
ClosedAreClosed ==
  /\ IsEdgeClosed(Closed)
  /\ \A i \in 1 .. Len(comps) : ToSet(comps[i]) \subseteq Closed

(* A frame reaches all that is open and was discovered after it. *)
FramesReach ==
  \A g \in Frames, x \in Node : onStack[x] /\ index[g] <= index[x] => Path(g, x)

(* What is open without a frame reaches something older that is open. *)
OthersDescend ==
  \A x \in Node :
    onStack[x] /\ x \notin Frames =>
      \E y \in Node : onStack[y] /\ index[y] < index[x] /\ Path(x, y)

(* A frame's lowlink bounds from below the open nodes that are one edge    *)
(* away from what was discovered under it.                                 *)
LowlinkBounds ==
  \A g \in Frames, x, y \in Node :
    Under(x, g) /\ Seen(x, y) /\ onStack[y] => lowlink[g] <= index[y]

(* It is the number of an open node that the frame reaches. *)
LowlinkIsReached ==
  \A g \in Frames :
    /\ lowlink[g] <= index[g]
    /\ \E z \in Node : onStack[z] /\ index[z] = lowlink[g] /\ Path(g, z)

LinkInv ==
  /\ SeenAreFound /\ ClosedAreClosed /\ FramesReach
  /\ OthersDescend /\ LowlinkBounds /\ LowlinkIsReached

-----------------------------------------------------------------------------
LEMMA FrameFacts ==
  ASSUME Inv
  PROVE  /\ N \in Nat /\ None = N /\ counter \in 0 .. N
         /\ Frames \subseteq Node
         /\ \A g \in Frames : onStack[g]
         /\ \A x \in Node : /\ index[x] \in 0 .. N /\ lowlink[x] \in 0 .. N - 1
                            /\ onStack[x] \in BOOLEAN
                            /\ index[x] # None => index[x] < counter
                            /\ onStack[x] <=> index[x] # None /\ compOf[x] = None
         /\ \A x, y \in Node : onStack[x] /\ onStack[y] /\ index[x] = index[y] => x = y
         /\ work # << >> => node \in Frames /\ \A g \in Frames : index[g] <= index[node]
<1>1. TypeOK /\ NumberInv /\ WorkInv /\ StackHoldsOpenNodes
  BY DEF Inv
<1>2. /\ Len(work) \in Nat /\ Len(stack) \in Nat
      /\ \A i \in 1 .. Len(work) : work[i].node \in Node
      /\ \A i \in 1 .. Len(stack) : stack[i] \in Node
      /\ work # << >> => Len(work) \in 1 .. Len(work) /\ node \in Node
                             /\ node = work[Len(work)].node
  BY <1>1, WorkFacts
<1>3. Frames \subseteq Node /\ \A g \in Frames : onStack[g]
  BY <1>1, <1>2 DEF Frames, StackHoldsOpenNodes
<1>4. N \in Nat /\ None = N /\ counter \in 0 .. N
  BY <1>1, NodeFacts DEF TypeOK
<1>5. \A x \in Node : /\ index[x] \in 0 .. N /\ lowlink[x] \in 0 .. N - 1
                      /\ onStack[x] \in BOOLEAN
                      /\ index[x] # None => index[x] < counter
                      /\ onStack[x] <=> index[x] # None /\ compOf[x] = None
  BY <1>1 DEF TypeOK, NumberInv, StackHoldsOpenNodes
<1>6. \A x, y \in Node : onStack[x] /\ onStack[y] /\ index[x] = index[y] => x = y
  <2> SUFFICES ASSUME NEW x \in Node, NEW y \in Node, onStack[x], onStack[y], x # y
               PROVE  index[x] # index[y]
    OBVIOUS
  <2>1. stack \in Seq(Node) /\ x \in ToSet(stack) /\ y \in ToSet(stack)
    BY <1>1 DEF StackHoldsOpenNodes, TypeOK
  <2>2. PICK i \in 1 .. Len(stack) : stack[i] = x
    BY <2>1 DEF ToSet
  <2>3. PICK j \in 1 .. Len(stack) : stack[j] = y
    BY <2>1 DEF ToSet
  <2>4. i < j \/ j < i
    BY <2>2, <2>3
  <2>5. index[x] < index[y] \/ index[y] < index[x]
    BY <1>1, <2>2, <2>3, <2>4 DEF StackHoldsOpenNodes
  <2> QED
    BY <1>4, <1>5, <2>5
<1>7. ASSUME work # << >>
      PROVE  node \in Frames /\ \A g \in Frames : index[g] <= index[node]
  <2>1. node \in Frames
    BY <1>2, <1>7 DEF Frames
  <2>2. ASSUME NEW i \in 1 .. Len(work)
        PROVE  index[work[i].node] <= index[node]
    <3>1. work[i].node \in Node /\ index[work[i].node] \in 0 .. N /\ index[node] \in 0 .. N
      BY <1>2, <1>5, <1>7
    <3>2. CASE i = Len(work)
      BY <1>2, <1>4, <1>7, <3>1, <3>2
    <3>3. CASE i # Len(work)
      <4>1. i < Len(work)
        BY <1>2, <3>3
      <4>2. index[work[i].node] < index[node]
        BY <1>1, <1>2, <1>7, <4>1 DEF WorkInv
      <4> QED
        BY <1>4, <3>1, <4>2
    <3> QED
      BY <3>2, <3>3
  <2> QED
    BY <2>1, <2>2 DEF Frames
<1> QED
  BY <1>3, <1>4, <1>5, <1>6, <1>7

-----------------------------------------------------------------------------
(* How the steps change Frames and Seen. *)

LEMMA SeenAfterAdvance ==
  ASSUME TypeOK, UNCHANGED succ, work # << >>, Len(work') \in Nat, Len(work) <= Len(work'),
         \A i \in 1 .. Len(work) : work'[i].node = work[i].node,
         \A i \in 1 .. Len(work) - 1 : work'[i].next = work[i].next,
         work'[Len(work)].next = top.next + 1,
         NEW a \in Node, NEW b \in Node, Seen(a, b)'
  PROVE  Seen(a, b) \/ (a = node /\ b = child)
<1>1. /\ Len(work) \in Nat
      /\ \A i \in 1 .. Len(work) : work[i].next \in Nat
      /\ node = work[Len(work)].node
      /\ top.next = work[Len(work)].next
  BY WorkFacts DEF top
<1>2. PICK k \in 1 .. Len(succ[a]) :
        succ[a][k] = b /\ (\A i \in 1 .. Len(work') : work'[i].node = a => k < work'[i].next)
  BY DEF Seen
<1>3. succ[a] \in Seq(Node) /\ k \in Nat
  BY DEF TypeOK
<1>4. CASE \A i \in 1 .. Len(work) : work[i].node = a => k < work[i].next
  BY <1>2, <1>4 DEF Seen
<1>5. ASSUME NEW i \in 1 .. Len(work), work[i].node = a, ~(k < work[i].next)
      PROVE  a = node /\ b = child
  <2>1. i \in 1 .. Len(work') /\ work'[i].node = a
    BY <1>1, <1>5
  <2>2. k < work'[i].next
    BY <1>2, <2>1
  <2>3. i = Len(work)
    <3>1. i \in 1 .. Len(work) - 1 => work'[i].next = work[i].next
      OBVIOUS
    <3> QED
      BY <1>1, <1>5, <2>2, <3>1
  <2>4. k = top.next
    BY <1>1, <1>3, <1>5, <2>2, <2>3
  <2> QED
    BY <1>1, <1>2, <1>5, <2>3, <2>4 DEF child
<1> QED
  BY <1>4, <1>5

LEMMA FramesAfterAdvance ==
  ASSUME TypeOK, Len(work') = Len(work),
         \A i \in 1 .. Len(work) : work'[i].node = work[i].node
  PROVE  Frames' = Frames
BY DEF Frames

(* A new frame on top, which has looked at nothing yet. *)
LEMMA FramesAfterPush ==
  ASSUME TypeOK, UNCHANGED succ, NEW x \in Node,
         Len(work') = Len(work) + 1,
         \A i \in 1 .. Len(work) : work'[i].node = work[i].node,
         work'[Len(work) + 1] = Frame(x)
  PROVE  /\ Frames' = Frames \cup {x}
         /\ \A b \in Node : ~Seen(x, b)'
<1>1. /\ Len(work) \in Nat /\ Frame(x).node = x /\ Frame(x).next = 1
      /\ \A i \in 1 .. Len(work') : i \in 1 .. Len(work) \/ i = Len(work) + 1
      /\ \A i \in 1 .. Len(work) : i \in 1 .. Len(work')
      /\ Len(work) + 1 \in 1 .. Len(work')
  BY WorkFacts DEF Frame
<1>2. Frames' = {work'[i].node : i \in 1 .. Len(work')}
  BY DEF Frames
<1>3. Frames' = Frames \cup {x}
  <2>1. Frames' \subseteq Frames \cup {x}
    BY <1>1, <1>2 DEF Frames
  <2>2. Frames \cup {x} \subseteq Frames'
    BY <1>1, <1>2 DEF Frames
  <2> QED
    BY <2>1, <2>2
<1>4. ASSUME NEW b \in Node, Seen(x, b)'
      PROVE  FALSE
  <2>1. PICK k \in 1 .. Len(succ[x]) :
          \A i \in 1 .. Len(work') : work'[i].node = x => k < work'[i].next
    BY <1>4 DEF Seen
  <2>2. k < 1
    BY <1>1, <2>1
  <2> QED
    BY <2>2
<1> QED
  BY <1>3, <1>4

(* The active frame goes, having looked at everything. *)
LEMMA FramesAfterPop ==
  ASSUME Inv, UNCHANGED succ, work # << >>, ~More,
         work' = SubSeq(work, 1, Len(work) - 1)
  PROVE  /\ Frames = Frames' \cup {node} /\ node \notin Frames'
         /\ \A a, b \in Node : Seen(a, b)' => Seen(a, b)
         /\ work' # << >> => \E p \in Frames' :
               /\ p = work'[Len(work')].node
               /\ \A g \in Frames' : index[g] <= index[p]
<1>1. TypeOK /\ WorkInv
  BY DEF Inv
<1>2. /\ work \in Seq(FrameSet) /\ Len(work) \in Nat /\ Len(work) \in 1 .. Len(work)
      /\ node \in Node /\ node = work[Len(work)].node
      /\ \A i \in 1 .. Len(work) : work[i].node \in Node /\ work[i].next \in Nat
  BY <1>1, WorkFacts DEF TypeOK, FrameSet
<1>3. /\ Len(work') = Len(work) - 1
      /\ \A i \in 1 .. Len(work) - 1 : work'[i] = work[i]
  BY <1>2, Shortened
<1>4. /\ \A i \in 1 .. Len(work) : i \in 1 .. Len(work') \/ i = Len(work)
      /\ \A i \in 1 .. Len(work') : i \in 1 .. Len(work) /\ i < Len(work) /\ work'[i] = work[i]
  BY <1>2, <1>3
<1>5. Frames' = {work[i].node : i \in 1 .. Len(work')}
  BY <1>4 DEF Frames
<1>6. Frames = Frames' \cup {node}
  <2>1. Frames \subseteq Frames' \cup {node}
    BY <1>2, <1>4, <1>5 DEF Frames
  <2>2. Frames' \cup {node} \subseteq Frames
    BY <1>2, <1>4, <1>5 DEF Frames
  <2> QED
    BY <2>1, <2>2
<1>7. \A x \in Node : index[x] \in 0 .. N
  BY <1>1 DEF TypeOK
<1>8. node \notin Frames'
  <2> SUFFICES ASSUME NEW i \in 1 .. Len(work'), work[i].node = node
               PROVE  FALSE
    BY <1>5
  <2>1. index[work[i].node] < index[node]
    BY <1>1, <1>2, <1>4 DEF WorkInv
  <2> QED
    BY <1>2, <1>7, <2>1, NodeFacts
<1>9. ASSUME NEW a \in Node, NEW b \in Node, Seen(a, b)'
      PROVE  Seen(a, b)
  <2>1. PICK k \in 1 .. Len(succ[a]) :
          succ[a][k] = b /\ (\A i \in 1 .. Len(work') : work'[i].node = a => k < work'[i].next)
    BY <1>9 DEF Seen
  <2>2. work[Len(work)].node = a => k < work[Len(work)].next
    <3>1. ~(top.next <= Len(succ[node]))
      BY DEF More
    <3>2. succ[a] \in Seq(Node)
      BY <1>1 DEF TypeOK
    <3> QED
      BY <1>2, <3>1, <3>2 DEF top
  <2>3. \A i \in 1 .. Len(work) : work[i].node = a => k < work[i].next
    BY <1>4, <2>1, <2>2
  <2> QED
    BY <2>1, <2>3 DEF Seen
<1>10. ASSUME work' # << >>
       PROVE  \E p \in Frames' : /\ p = work'[Len(work')].node
                                 /\ \A g \in Frames' : index[g] <= index[p]
  <2>1. PICK l \in 1 .. Len(work') : l = Len(work')
    BY <1>2, <1>3, <1>10
  <2>2. PICK p : p = work[l].node
    OBVIOUS
  <2>3. p \in Frames' /\ p = work'[Len(work')].node /\ p \in Node
    BY <1>2, <1>4, <1>5, <2>1, <2>2
  <2>4. ASSUME NEW i \in 1 .. Len(work')
        PROVE  index[work[i].node] <= index[p]
    <3>1. work[i].node \in Node /\ index[work[i].node] \in 0 .. N /\ index[p] \in 0 .. N
      BY <1>2, <1>4, <1>7, <2>3
    <3>2. CASE i = l
      BY <2>2, <3>1, <3>2, NodeFacts
    <3>3. CASE i # l
      <4>1. i < l
        BY <1>2, <1>3, <2>1, <3>3
      <4>2. index[work[i].node] < index[p]
        BY <1>1, <1>4, <2>2, <4>1 DEF WorkInv
      <4> QED
        BY <3>1, <4>2, NodeFacts
    <3> QED
      BY <3>2, <3>3
  <2> QED
    BY <1>5, <2>3, <2>4
<1> QED
  BY <1>6, <1>8, <1>9, <1>10

-----------------------------------------------------------------------------
(* Discovering a node, from the active frame or as a start.                *)
LEMMA DiscoverLinks ==
  ASSUME Inv, LinkInv, UNCHANGED <<succ, compOf, comps>>,
         NEW x \in Node, index[x] = None, counter # None,
         index' = [index EXCEPT ![x] = counter],
         lowlink' = [lowlink EXCEPT ![x] = counter],
         onStack' = [onStack EXCEPT ![x] = TRUE],
         Frames' = Frames \cup {x},
         \A b \in Node : ~Seen(x, b)',
         \A a, b \in Node : Seen(a, b)' => Seen(a, b) \/ b = x,
         \A g \in Frames : Path(g, x)
  PROVE  LinkInv'
<1>1. /\ SeenAreFound /\ ClosedAreClosed /\ FramesReach
      /\ OthersDescend /\ LowlinkBounds /\ LowlinkIsReached
  BY DEF LinkInv
<1>2. /\ N \in Nat /\ None = N /\ counter \in 0 .. N
      /\ Frames \subseteq Node
      /\ \A g \in Frames : onStack[g]
      /\ \A y \in Node : /\ index[y] \in 0 .. N /\ lowlink[y] \in 0 .. N - 1
                         /\ onStack[y] \in BOOLEAN
                         /\ index[y] # None => index[y] < counter
                         /\ onStack[y] => index[y] # None
  BY FrameFacts
<1>3. /\ index'[x] = counter /\ lowlink'[x] = counter /\ onStack'[x]
      /\ \A y \in Node : y # x => /\ index'[y] = index[y] /\ lowlink'[y] = lowlink[y]
                                 /\ onStack'[y] = onStack[y]
  BY DEF Inv, TypeOK
<1>4. ~onStack[x] /\ x \notin Frames
  BY <1>2
<1>5. \A y \in Node : y # x /\ onStack[y] => index[y] < counter /\ index'[y] = index[y]
  BY <1>2, <1>3
<1>6. /\ \A a, b \in Node : Edge(a, b)' <=> Edge(a, b)
      /\ \A a, b \in Node : Path(a, b)' <=> Path(a, b)
  BY SameGraph
<1>7. SeenAreFound'
  <2> SUFFICES ASSUME NEW a \in Node, NEW b \in Node, index'[a] # None, Seen(a, b)'
               PROVE  index'[b] # None
    BY DEF SeenAreFound
  <2>1. CASE b = x
    BY <1>3, <2>1
  <2>2. CASE b # x
    <3>1. a # x /\ Seen(a, b)
      BY <2>2
    <3> QED
      BY <1>1, <1>3, <2>2, <3>1 DEF SeenAreFound
  <2> QED
    BY <2>1, <2>2
<1>8. ClosedAreClosed'
  <2>1. Closed' = Closed
    BY DEF Closed
  <2> QED
    BY <1>1, <1>6, <2>1 DEF ClosedAreClosed, IsEdgeClosed
<1>9. FramesReach'
  <2> SUFFICES ASSUME NEW g \in Frames', NEW y \in Node, onStack'[y], index'[g] <= index'[y]
               PROVE  Path(g, y)'
    BY DEF FramesReach
  <2>1. g \in Node
    BY <1>2
  <2>2. CASE y = x
    BY <1>6, <2>1, <2>2, PathRefl
  <2>3. CASE y # x
    <3>1. onStack[y] /\ index[y] < counter /\ index'[y] = index[y]
      BY <1>3, <1>5, <2>3
    <3>2. g # x
      BY <1>2, <1>3, <3>1
    <3>3. g \in Frames /\ index'[g] = index[g]
      BY <1>3, <2>1, <3>2
    <3> QED
      BY <1>1, <1>6, <2>1, <3>1, <3>3 DEF FramesReach
  <2> QED
    BY <2>2, <2>3
<1>10. OthersDescend'
  <2> SUFFICES ASSUME NEW y \in Node, onStack'[y], y \notin Frames'
               PROVE  \E z \in Node : onStack'[z] /\ index'[z] < index'[y] /\ Path(y, z)'
    BY DEF OthersDescend
  <2>1. y # x /\ onStack[y] /\ y \notin Frames
    BY <1>3
  <2>2. PICK z \in Node : onStack[z] /\ index[z] < index[y] /\ Path(y, z)
    BY <1>1, <2>1 DEF OthersDescend
  <2>3. z # x
    BY <1>4, <2>2
  <2> QED
    BY <1>3, <1>6, <2>1, <2>2, <2>3
<1>11. \A g \in Frames : lowlink[g] <= index[g] /\ g # x /\ index[g] < counter
  BY <1>1, <1>2, <1>4 DEF LowlinkIsReached
<1>12. LowlinkBounds'
  <2> SUFFICES ASSUME NEW g \in Frames', NEW a \in Node, NEW b \in Node,
                      Under(a, g)', Seen(a, b)', onStack'[b]
               PROVE  lowlink'[g] <= index'[b]
    BY DEF LowlinkBounds
  <2>1. a # x /\ g \in Node
    BY <1>2
  <2>2. onStack'[a] /\ index'[g] <= index'[a]
    BY DEF Under
  <2>3. onStack[a] /\ index'[a] = index[a] /\ index[a] < counter
    BY <1>3, <1>5, <2>1, <2>2
  <2>4. g # x
    BY <1>2, <1>3, <2>1, <2>2, <2>3
  <2>5. g \in Frames /\ index'[g] = index[g] /\ lowlink'[g] = lowlink[g]
    BY <1>3, <2>1, <2>4
  <2>6. CASE b = x
    BY <1>2, <1>3, <1>11, <2>1, <2>5, <2>6
  <2>7. CASE b # x
    <3>1. Seen(a, b) /\ onStack[b] /\ index'[b] = index[b]
      BY <1>3, <2>7
    <3>2. ASSUME NEW h \in Frames, index[h] <= index[a]
          PROVE  index[h] <= index[g]
      <4>1. h \in Frames' /\ h # x /\ index'[h] = index[h]
        BY <1>2, <1>3, <1>4
      <4> QED
        BY <2>3, <2>5, <3>2, <4>1 DEF Under
    <3>3. Under(a, g)
      BY <2>2, <2>3, <2>5, <3>2 DEF Under
    <3> QED
      BY <1>1, <2>5, <3>1, <3>3 DEF LowlinkBounds
  <2> QED
    BY <2>6, <2>7
<1>13. LowlinkIsReached'
  <2> SUFFICES ASSUME NEW g \in Frames'
               PROVE  /\ lowlink'[g] <= index'[g]
                      /\ \E z \in Node : onStack'[z] /\ index'[z] = lowlink'[g] /\ Path(g, z)'
    BY DEF LowlinkIsReached
  <2>1. CASE g = x
    BY <1>2, <1>3, <1>6, <2>1, PathRefl
  <2>2. CASE g # x
    <3>1. g \in Frames /\ g \in Node
      BY <1>2, <2>2
    <3>2. PICK z \in Node : onStack[z] /\ index[z] = lowlink[g] /\ Path(g, z)
      BY <1>1, <3>1 DEF LowlinkIsReached
    <3>3. z # x
      BY <1>4, <3>2
    <3> QED
      BY <1>3, <1>6, <1>11, <2>2, <3>1, <3>2, <3>3
  <2> QED
    BY <2>1, <2>2
<1> QED
  BY <1>7, <1>8, <1>9, <1>10, <1>12, <1>13 DEF LinkInv

(* The active frame looks at an edge to a node that has a number.          *)
LEMMA AdvanceLinks ==
  ASSUME Inv, LinkInv, UNCHANGED <<succ, index, onStack, compOf, comps>>,
         Frames' = Frames, node \in Frames, child \in Node,
         index[child] # None, Edge(node, child),
         \A a, b \in Node : Seen(a, b)' => Seen(a, b) \/ (a = node /\ b = child),
         IF onStack[child]
         THEN lowlink' = [lowlink EXCEPT ![node] = AtMost(@, index[child])]
         ELSE lowlink' = lowlink
  PROVE  LinkInv'
<1>1. /\ SeenAreFound /\ ClosedAreClosed /\ FramesReach
      /\ OthersDescend /\ LowlinkBounds /\ LowlinkIsReached
  BY DEF LinkInv
<1>2. /\ N \in Nat /\ None = N /\ Frames \subseteq Node
      /\ \A y \in Node : index[y] \in 0 .. N /\ lowlink[y] \in 0 .. N - 1
  BY FrameFacts
<1>3. PICK n \in Node : n = node
  BY <1>2
<1>4. PICK c \in Node : c = child
  OBVIOUS
<1>5. /\ \A y \in Node : y # n => lowlink'[y] = lowlink[y]
      /\ lowlink'[n] = lowlink[n] \/ (onStack[c] /\ lowlink'[n] = index[c])
      /\ lowlink'[n] <= lowlink[n]
      /\ onStack[c] => lowlink'[n] <= index[c]
  <2>1. lowlink \in [Node -> 0 .. N - 1]
    BY DEF Inv, TypeOK
  <2>2. CASE onStack[c]
    <3>1. lowlink' = [lowlink EXCEPT ![n] = AtMost(lowlink[n], index[c])]
      BY <1>3, <1>4, <2>2
    <3> QED
      BY <1>2, <2>1, <2>2, <3>1 DEF AtMost
  <2>3. CASE ~onStack[c]
    BY <1>2, <1>3, <1>4, <2>1, <2>3
  <2> QED
    BY <2>2, <2>3
<1>6. /\ \A a, b \in Node : Edge(a, b)' <=> Edge(a, b)
      /\ \A a, b \in Node : Path(a, b)' <=> Path(a, b)
  BY SameGraph
<1>7. SeenAreFound'
  BY <1>1 DEF SeenAreFound
<1>8. ClosedAreClosed'
  <2>1. Closed' = Closed
    BY DEF Closed
  <2> QED
    BY <1>1, <1>6, <2>1 DEF ClosedAreClosed, IsEdgeClosed
<1>9. FramesReach' /\ OthersDescend'
  <2>1. FramesReach'
    BY <1>1, <1>2, <1>6 DEF FramesReach
  <2>2. OthersDescend'
    BY <1>1, <1>2, <1>6 DEF OthersDescend
  <2> QED
    BY <2>1, <2>2
<1>10. \A a \in Node, g \in Frames : Under(a, g)' => Under(a, g)
  BY DEF Under
<1>11. LowlinkBounds'
  <2> SUFFICES ASSUME NEW g \in Frames, NEW a \in Node, NEW b \in Node,
                      Under(a, g), Seen(a, b)', onStack[b]
               PROVE  lowlink'[g] <= index[b]
    BY <1>10 DEF LowlinkBounds
  <2>1. lowlink'[g] <= lowlink[g] /\ g \in Node
    BY <1>2, <1>5
  <2>2. CASE Seen(a, b)
    <3>1. lowlink[g] <= index[b]
      BY <1>1, <2>2 DEF LowlinkBounds
    <3>2. lowlink'[g] \in Int
      BY <1>2, <1>5, <2>1
    <3> QED
      BY <1>2, <2>1, <3>1, <3>2
  <2>3. CASE a = n /\ b = c
    <3>1. index[n] <= index[g] /\ index[g] <= index[n]
      BY <1>2, <1>3, <2>3 DEF Under
    <3>2. g = n
      BY <1>2, <1>3, <2>1, <3>1, FrameFacts
    <3> QED
      BY <1>5, <2>3, <3>2
  <2> QED
    BY <1>3, <1>4, <2>2, <2>3
<1>12. LowlinkIsReached'
  <2> SUFFICES ASSUME NEW g \in Frames
               PROVE  /\ lowlink'[g] <= index[g]
                      /\ \E z \in Node : onStack[z] /\ index[z] = lowlink'[g] /\ Path(g, z)
    BY <1>2, <1>6 DEF LowlinkIsReached
  <2>1. g \in Node /\ lowlink[g] <= index[g]
    BY <1>1, <1>2 DEF LowlinkIsReached
  <2>2. CASE lowlink'[g] = lowlink[g]
    BY <1>1, <2>1, <2>2 DEF LowlinkIsReached
  <2>3. CASE lowlink'[g] # lowlink[g]
    <3>1. g = n /\ onStack[c] /\ lowlink'[g] = index[c] /\ lowlink'[n] <= lowlink[n]
      BY <1>5, <2>1, <2>3
    <3>2. Path(n, c)
      BY <1>3, <1>4, PathRefl, PathEdge
    <3> QED
      BY <1>2, <2>1, <3>1, <3>2
  <2> QED
    BY <2>2, <2>3
<1> QED
  BY <1>7, <1>8, <1>9, <1>11, <1>12 DEF LinkInv

-----------------------------------------------------------------------------
(* What Return pops from the stack: nothing, or all from the active node.  *)
Popped ==
  IF lowlink[node] = index[node]
  THEN {x \in Node : onStack[x] /\ index[node] <= index[x]}
  ELSE {}

(* No edge leaves what is closed once these are. *)
LEMMA PoppedIsClosed ==
  ASSUME Inv, LinkInv, work # << >>,
         \A a \in Popped, b \in Node : Edge(a, b) => Seen(a, b)
  PROVE  IsEdgeClosed(Closed \cup Popped)
<1>1. SeenAreFound /\ ClosedAreClosed /\ LowlinkBounds
  BY DEF LinkInv
<1>2. /\ N \in Nat /\ None = N /\ node \in Frames /\ node \in Node
      /\ \A g \in Frames : index[g] <= index[node]
      /\ \A x \in Node : /\ index[x] \in 0 .. N /\ lowlink[x] \in 0 .. N - 1
                         /\ onStack[x] <=> index[x] # None /\ compOf[x] = None
  BY FrameFacts
<1> SUFFICES ASSUME NEW a \in Node, NEW b \in Node, a \in Closed \cup Popped, Edge(a, b)
             PROVE  b \in Closed \cup Popped
  BY DEF IsEdgeClosed
<1>3. CASE a \in Closed
  BY <1>1, <1>3 DEF ClosedAreClosed, IsEdgeClosed
<1>4. CASE a \in Popped
  <2>1. /\ lowlink[node] = index[node] /\ onStack[a] /\ index[node] <= index[a]
        /\ Popped = {x \in Node : onStack[x] /\ index[node] <= index[x]}
    BY <1>4 DEF Popped
  <2>2. Seen(a, b) /\ index[b] # None
    BY <1>1, <1>2, <1>4, <2>1 DEF SeenAreFound
  <2>3. CASE compOf[b] # None
    BY <2>3 DEF Closed
  <2>4. CASE compOf[b] = None
    <3>1. onStack[b]
      BY <1>2, <2>2, <2>4
    <3>2. Under(a, node)
      BY <1>2, <2>1 DEF Under
    <3>3. lowlink[node] <= index[b]
      BY <1>1, <1>2, <2>2, <3>1, <3>2 DEF LowlinkBounds
    <3> QED
      BY <2>1, <3>1, <3>3
  <2> QED
    BY <2>3, <2>4
<1> QED
  BY <1>3, <1>4

(* The active frame goes, and its parent, if any, takes its lowlink.       *)
LEMMA ReturnLinks ==
  ASSUME Inv, LinkInv, work # << >>, UNCHANGED <<succ, index>>,
         \A x \in Node : onStack'[x] <=> onStack[x] /\ x \notin Popped,
         Closed' = Closed \cup Popped,
         \A i \in 1 .. Len(comps') : ToSet(comps'[i]) \subseteq Closed',
         Frames = Frames' \cup {node}, node \notin Frames',
         \A a, b \in Node : Seen(a, b)' => Seen(a, b),
         \A a \in Popped, b \in Node : Edge(a, b) => Seen(a, b),
         NEW p,
         Frames' # {} =>
           /\ p \in Frames' /\ \A g \in Frames' : index[g] <= index[p]
           /\ lowlink' = [lowlink EXCEPT ![p] = AtMost(@, lowlink[node])]
  PROVE  LinkInv'
<1>1. /\ SeenAreFound /\ ClosedAreClosed /\ FramesReach
      /\ OthersDescend /\ LowlinkBounds /\ LowlinkIsReached
  BY DEF LinkInv
<1>2. /\ N \in Nat /\ None = N /\ Frames \subseteq Node /\ node \in Frames
      /\ \A g \in Frames : onStack[g] /\ index[g] <= index[node]
      /\ \A y \in Node : index[y] \in 0 .. N /\ lowlink[y] \in 0 .. N - 1
      /\ \A x, y \in Node : onStack[x] /\ onStack[y] /\ index[x] = index[y] => x = y
  BY FrameFacts
<1>3. PICK n \in Node : n = node
  BY <1>2
<1>4. /\ \A a, b \in Node : Edge(a, b)' <=> Edge(a, b)
      /\ \A a, b \in Node : Path(a, b)' <=> Path(a, b)
  BY SameGraph
<1>5. \A g \in Frames' : g \in Frames /\ g \in Node /\ index[g] < index[n] /\ index[g] <= index[p]
  <2> SUFFICES ASSUME NEW g \in Frames'
               PROVE  index[g] < index[n]
    BY <1>2
  <2>1. g \in Frames /\ g \in Node /\ g # n
    BY <1>2, <1>3
  <2>2. index[g] # index[n] /\ index[g] <= index[n]
    BY <1>2, <1>3, <2>1
  <2> QED
    BY <1>2, <1>3, <2>1, <2>2
<1>6. \A x \in Node : x \in Popped <=> lowlink[n] = index[n] /\ onStack[x] /\ index[n] <= index[x]
  BY <1>3 DEF Popped
<1>7. \A g \in Frames' :
        /\ lowlink'[g] \in 0 .. N - 1 /\ lowlink'[g] <= lowlink[g]
        /\ g = p => lowlink'[g] <= lowlink[n]
        /\ lowlink'[g] = lowlink[g]
           \/ (g = p /\ lowlink'[g] = lowlink[n] /\ lowlink[n] < lowlink[g])
  <2> SUFFICES ASSUME NEW g \in Frames'
               PROVE  /\ lowlink'[g] \in 0 .. N - 1 /\ lowlink'[g] <= lowlink[g]
                      /\ g = p => lowlink'[g] <= lowlink[n]
                      /\ lowlink'[g] = lowlink[g]
                         \/ (g = p /\ lowlink'[g] = lowlink[n] /\ lowlink[n] < lowlink[g])
    OBVIOUS
  <2>1. g \in Node /\ p \in Node /\ lowlink \in [Node -> 0 .. N - 1]
    BY <1>5 DEF Inv, TypeOK
  <2>2. lowlink' = [lowlink EXCEPT ![p] = AtMost(lowlink[p], lowlink[n])]
    BY <1>3
  <2>3. CASE g = p
    <3>1. lowlink'[g] = AtMost(lowlink[g], lowlink[n])
      BY <2>1, <2>2, <2>3
    <3> QED
      BY <1>2, <2>1, <2>3, <3>1 DEF AtMost
  <2>4. CASE g # p
    <3>1. lowlink'[g] = lowlink[g]
      BY <2>1, <2>2, <2>4
    <3> QED
      BY <1>2, <2>1, <2>4, <3>1
  <2> QED
    BY <2>3, <2>4
<1>8. SeenAreFound'
  BY <1>1 DEF SeenAreFound
<1>9. ClosedAreClosed'
  <2>1. IsEdgeClosed(Closed \cup Popped)
    BY PoppedIsClosed
  <2>2. \A a, b \in Node : a \in Closed' /\ Edge(a, b)' => b \in Closed'
    BY <1>4, <2>1 DEF IsEdgeClosed
  <2>3. IsEdgeClosed(Closed)'
    BY <2>2 DEF IsEdgeClosed
  <2> QED
    BY <2>3 DEF ClosedAreClosed
<1>10. FramesReach'
  <2> SUFFICES ASSUME NEW g \in Frames', NEW x \in Node, onStack'[x], index[g] <= index[x]
               PROVE  Path(g, x)'
    BY DEF FramesReach
  <2> QED
    BY <1>1, <1>4, <1>5 DEF FramesReach
<1>11. OthersDescend'
  <2> SUFFICES ASSUME NEW x \in Node, onStack'[x], x \notin Frames'
               PROVE  \E z \in Node : onStack'[z] /\ index[z] < index[x] /\ Path(x, z)'
    BY DEF OthersDescend
  <2>1. onStack[x] /\ x \notin Popped
    OBVIOUS
  <2>2. CASE x = n
    <3>1. lowlink[n] # index[n]
      BY <1>2, <1>6, <2>1, <2>2
    <3>2. PICK z \in Node : onStack[z] /\ index[z] = lowlink[n] /\ Path(n, z)
      BY <1>1, <1>2, <1>3 DEF LowlinkIsReached
    <3>3. lowlink[n] <= index[n]
      BY <1>1, <1>2, <1>3 DEF LowlinkIsReached
    <3> QED
      BY <1>2, <1>4, <1>6, <2>2, <3>1, <3>2, <3>3
  <2>3. CASE x # n
    <3>1. x \notin Frames
      BY <1>3, <2>3
    <3>2. PICK z \in Node : onStack[z] /\ index[z] < index[x] /\ Path(x, z)
      BY <1>1, <2>1, <3>1 DEF OthersDescend
    <3>3. z \notin Popped
      BY <1>2, <1>6, <2>1, <3>2
    <3> QED
      BY <1>4, <3>2, <3>3
  <2> QED
    BY <2>2, <2>3
<1>12. LowlinkBounds'
  <2> SUFFICES ASSUME NEW g \in Frames', NEW a \in Node, NEW b \in Node,
                      Under(a, g)', Seen(a, b), onStack'[b]
               PROVE  lowlink'[g] <= index[b]
    BY DEF LowlinkBounds
  <2>1. /\ onStack[a] /\ a \notin Popped /\ onStack[b] /\ index[g] <= index[a]
        /\ \A h \in Frames' : index[h] <= index[a] => index[h] <= index[g]
    BY DEF Under
  <2>2. CASE index[a] < index[n]
    <3>1. Under(a, g)
      BY <1>2, <1>3, <2>1, <2>2 DEF Under
    <3>2. lowlink[g] <= index[b]
      BY <1>1, <1>5, <2>1, <3>1 DEF LowlinkBounds
    <3> QED
      BY <1>2, <1>5, <1>7, <3>2
  <2>3. CASE index[n] <= index[a]
    <3>1. Under(a, n)
      BY <1>2, <1>3, <2>1, <2>3 DEF Under
    <3>2. lowlink[n] <= index[b]
      BY <1>1, <1>2, <1>3, <2>1, <3>1 DEF LowlinkBounds
    <3>3. p \in Frames' /\ p \in Node /\ index[p] <= index[a]
      BY <1>2, <1>5, <2>3
    <3>4. index[p] <= index[g] /\ index[g] <= index[p]
      BY <1>5, <2>1, <3>3
    <3>5. g = p
      BY <1>2, <1>5, <3>3, <3>4
    <3> QED
      BY <1>2, <1>7, <3>2, <3>5
  <2> QED
    BY <1>2, <2>2, <2>3
<1>13. LowlinkIsReached'
  <2> SUFFICES ASSUME NEW g \in Frames'
               PROVE  /\ lowlink'[g] <= index[g]
                      /\ \E z \in Node : onStack'[z] /\ index[z] = lowlink'[g] /\ Path(g, z)'
    BY DEF LowlinkIsReached
  <2>1. g \in Frames /\ g \in Node /\ index[g] < index[n] /\ lowlink[g] <= index[g]
    BY <1>1, <1>5 DEF LowlinkIsReached
  <2>2. lowlink'[g] <= index[g] /\ lowlink'[g] < index[n]
    BY <1>2, <1>7, <2>1
  <2>3. CASE lowlink'[g] = lowlink[g]
    <3>1. PICK z \in Node : onStack[z] /\ index[z] = lowlink[g] /\ Path(g, z)
      BY <1>1, <2>1 DEF LowlinkIsReached
    <3>2. z \notin Popped
      BY <1>2, <1>6, <2>2, <2>3, <3>1
    <3> QED
      BY <1>4, <2>1, <2>2, <2>3, <3>1, <3>2
  <2>4. CASE g = p /\ lowlink'[g] = lowlink[n]
    <3>1. PICK z \in Node : onStack[z] /\ index[z] = lowlink[n] /\ Path(n, z)
      BY <1>1, <1>2, <1>3 DEF LowlinkIsReached
    <3>2. Path(g, n)
      BY <1>1, <1>2, <1>3, <2>1 DEF FramesReach
    <3>3. Path(g, z)
      BY <2>1, <3>1, <3>2, PathTrans
    <3>4. z \notin Popped
      BY <1>2, <1>6, <2>2, <2>4, <3>1
    <3> QED
      BY <1>4, <2>1, <2>2, <2>4, <3>1, <3>3, <3>4
  <2> QED
    BY <1>7, <2>3, <2>4
<1> QED
  BY <1>8, <1>9, <1>10, <1>11, <1>12, <1>13 DEF LinkInv

(* What is popped at a root is its strongly connected component.           *)
LEMMA PoppedIsComponent ==
  ASSUME Inv, LinkInv, work # << >>, lowlink[node] = index[node],
         \A a \in Popped, b \in Node : Edge(a, b) => Seen(a, b)
  PROVE  /\ node \in Popped
         /\ \A y \in Node : y \in Popped <=> Path(node, y) /\ Path(y, node)
<1>1. FramesReach /\ OthersDescend /\ ClosedAreClosed
  BY DEF LinkInv
<1>2. /\ N \in Nat /\ None = N /\ Frames \subseteq Node /\ node \in Frames
      /\ \A g \in Frames : onStack[g] /\ index[g] <= index[node]
      /\ \A y \in Node : index[y] \in 0 .. N /\ (onStack[y] => compOf[y] = None)
      /\ \A x, y \in Node : onStack[x] /\ onStack[y] /\ index[x] = index[y] => x = y
  BY FrameFacts
<1>3. PICK n \in Node : n = node
  BY <1>2
<1>4. \A x \in Node : x \in Popped <=> onStack[x] /\ index[n] <= index[x]
  BY <1>3 DEF Popped
<1>5. PICK both \in SUBSET Node : both = Closed \cup Popped
  BY DEF Closed, Popped
<1>6. IsEdgeClosed(both)
  BY <1>5, PoppedIsClosed
<1>7. n \in Popped /\ n \notin Closed
  BY <1>2, <1>3, <1>4 DEF Closed
<1> DEFINE Back == {k \in Nat : \A x \in Popped : index[x] <= k => Path(x, n)}
(* A popped node other than the root reaches an older one that is popped.   *)
<1>8. ASSUME NEW x \in Node, x \in Popped, x # n
      PROVE  \E y \in Popped : y \in Node /\ index[y] < index[x] /\ Path(x, y)
  <2>1. onStack[x] /\ index[n] <= index[x]
    BY <1>4, <1>8
  <2>2. x \notin Frames
    <3> SUFFICES ASSUME x \in Frames
                 PROVE  FALSE
      OBVIOUS
    <3>1. index[x] <= index[n]
      BY <1>2, <1>3
    <3>2. index[x] = index[n]
      BY <1>2, <2>1, <3>1
    <3> QED
      BY <1>2, <1>3, <1>8, <2>1, <3>2
  <2>3. PICK y \in Node : onStack[y] /\ index[y] < index[x] /\ Path(x, y)
    BY <1>1, <2>1, <2>2 DEF OthersDescend
  <2>4. y \in both
    BY <1>5, <1>6, <1>8, <2>3 DEF Path
  <2>5. y \notin Closed
    BY <1>2, <2>3 DEF Closed
  <2> QED
    BY <1>5, <2>3, <2>4, <2>5
<1>9. Popped \subseteq Node
  BY DEF Popped
<1>10. 0 \in Back
  <2> SUFFICES ASSUME NEW x \in Popped, index[x] <= 0
               PROVE  Path(x, n)
    OBVIOUS
  <2>1. CASE x = n
    BY <2>1, PathRefl
  <2>2. CASE x # n
    <3>1. PICK y \in Popped : y \in Node /\ index[y] < index[x] /\ Path(x, y)
      BY <1>8, <1>9, <2>2
    <3> QED
      BY <1>2, <1>9, <3>1
  <2> QED
    BY <2>1, <2>2
<1>11. \A k \in Nat : k \in Back => k + 1 \in Back
  <2> SUFFICES ASSUME NEW k \in Nat, \A y \in Popped : index[y] <= k => Path(y, n),
                      NEW x \in Popped, index[x] <= k + 1
               PROVE  Path(x, n)
    OBVIOUS
  <2>1. CASE x = n
    BY <2>1, PathRefl
  <2>2. CASE x # n
    <3>1. PICK y \in Popped : y \in Node /\ index[y] < index[x] /\ Path(x, y)
      BY <1>8, <1>9, <2>2
    <3>2. index[y] <= k
      BY <1>2, <1>9, <3>1
    <3> QED
      BY <1>9, <3>1, <3>2, PathTrans
  <2> QED
    BY <2>1, <2>2
<1>12. Nat \subseteq Back
  <2> HIDE DEF Back
  <2> QED
    BY <1>10, <1>11, SetInduction
<1>13. \A x \in Popped : Path(x, n)
  <2> SUFFICES ASSUME NEW x \in Popped
               PROVE  Path(x, n)
    OBVIOUS
  <2>1. index[x] \in Nat /\ index[x] <= index[x]
    BY <1>2, <1>9
  <2> QED
    BY <1>12, <2>1
<1>14. \A x \in Popped : Path(n, x)
  BY <1>1, <1>2, <1>3, <1>4, <1>9 DEF FramesReach
<1>15. ASSUME NEW y \in Node, Path(n, y), Path(y, n)
       PROVE  y \in Popped
  <2>1. y \in both
    BY <1>5, <1>6, <1>7, <1>15 DEF Path
  <2>2. y \notin Closed
    <3>1. Closed \in SUBSET Node /\ IsEdgeClosed(Closed)
      BY <1>1 DEF ClosedAreClosed, Closed
    <3> QED
      BY <1>7, <1>15, <3>1 DEF Path
  <2> QED
    BY <1>5, <2>1, <2>2
<1> QED
  BY <1>3, <1>7, <1>13, <1>14, <1>15

-----------------------------------------------------------------------------
LEMMA PoppedEdgesAreSeen ==
  ASSUME Inv, work # << >>, ~More, NEW a \in Popped, NEW b \in Node, Edge(a, b)
  PROVE  Seen(a, b)
<1>1. TypeOK /\ WorkInv
  BY DEF Inv
<1>2. /\ a \in Node /\ index[node] <= index[a]
      /\ N \in Nat /\ None = N
      /\ \A x \in Node : index[x] \in 0 .. N
  BY FrameFacts DEF Popped
<1>3. /\ Len(work) \in Nat /\ Len(work) \in 1 .. Len(work)
      /\ node \in Node /\ node = work[Len(work)].node
      /\ \A i \in 1 .. Len(work) : work[i].node \in Node /\ work[i].next \in Nat
  BY <1>1, WorkFacts
<1>4. succ[a] \in Seq(Node) /\ succ[node] \in Seq(Node)
  BY <1>1, <1>2, <1>3 DEF TypeOK
<1>5. PICK k \in 1 .. Len(succ[a]) : succ[a][k] = b
  BY <1>4 DEF Edge, ToSet
<1>6. ASSUME NEW i \in 1 .. Len(work), work[i].node = a
      PROVE  k < work[i].next
  <2>1. i = Len(work)
    <3> SUFFICES ASSUME i < Len(work)
                 PROVE  FALSE
      BY <1>3
    <3>1. index[a] < index[node]
      BY <1>1, <1>3, <1>6 DEF WorkInv
    <3> QED
      BY <1>2, <1>3, <3>1
  <2>2. ~(top.next <= Len(succ[node]))
    BY DEF More
  <2> QED
    BY <1>3, <1>4, <1>6, <2>1, <2>2 DEF top
<1> QED
  BY <1>5, <1>6 DEF Seen

LEMMA CloseFacts ==
  ASSUME Inv, work # << >>, lowlink[node] = index[node], CloseComponent
  PROVE  /\ ToSet(PoppedFrom(node)) = Popped
         /\ PoppedFrom(node) \in Seq(Node)
         /\ comps' = Append(comps, PoppedFrom(node))
         /\ \A x \in Node : onStack'[x] <=> onStack[x] /\ x \notin Popped
         /\ Closed' = Closed \cup Popped
<1>1. TypeOK /\ NumberInv /\ StackHoldsOpenNodes
  BY DEF Inv
<1>2. /\ stack \in Seq(Node) /\ Len(stack) \in Nat /\ DOMAIN stack = 1 .. Len(stack)
      /\ \A i \in 1 .. Len(stack) : stack[i] \in Node
      /\ \A x \in Node : onStack[x] <=> x \in ToSet(stack)
      /\ \A i, j \in 1 .. Len(stack) : i < j => index[stack[i]] < index[stack[j]]
  <2>1. /\ stack \in Seq(Node)
        /\ \A x \in Node : onStack[x] <=> x \in ToSet(stack)
        /\ \A i, j \in 1 .. Len(stack) : i < j => index[stack[i]] < index[stack[j]]
    BY <1>1 DEF TypeOK, StackHoldsOpenNodes
  <2>2. /\ Len(stack) \in Nat /\ DOMAIN stack = 1 .. Len(stack)
        /\ \A i \in 1 .. Len(stack) : stack[i] \in Node
    BY <2>1
  <2> QED
    BY <2>1, <2>2
<1>3. /\ N \in Nat /\ None = N /\ node \in Node /\ onStack[node]
      /\ \A x \in Node : index[x] \in 0 .. N
  BY FrameFacts
<1>4. PICK from \in 1 .. Len(stack) :
        /\ stack[from] = node
        /\ PoppedFrom(node) \in Seq(Node)
        /\ ToSet(PoppedFrom(node)) = {stack[j] : j \in from .. Len(stack)}
  BY <1>1, <1>3, PoppedFacts
<1>5. Popped = {x \in Node : onStack[x] /\ index[node] <= index[x]}
  BY DEF Popped
<1>6. ASSUME NEW j \in 1 .. Len(stack)
      PROVE  stack[j] \in Popped <=> j \in from .. Len(stack)
  <2>1. stack[j] \in Node /\ onStack[stack[j]]
    BY <1>2 DEF ToSet
  <2>2. CASE j < from
    BY <1>2, <1>3, <1>4, <1>5, <2>1, <2>2
  <2>3. CASE j = from
    BY <1>2, <1>3, <1>4, <1>5, <2>1, <2>3
  <2>4. CASE from < j
    BY <1>2, <1>3, <1>4, <1>5, <2>1, <2>4
  <2> QED
    BY <1>2, <2>2, <2>3, <2>4
<1>7. Popped \subseteq {stack[j] : j \in 1 .. Len(stack)}
  BY <1>2, <1>5 DEF ToSet
<1>8. ToSet(PoppedFrom(node)) = Popped
  <2>1. \A j \in from .. Len(stack) : j \in 1 .. Len(stack)
    BY <1>2
  <2> QED
    BY <1>4, <1>6, <1>7, <2>1
<1>9. PICK comp : comp = PoppedFrom(node)
  OBVIOUS
<1>10. /\ onStack' = [x \in Node |-> onStack[x] /\ x \notin ToSet(comp)]
       /\ compOf' = [x \in Node |-> IF x \in ToSet(comp) THEN Len(comps) ELSE compOf[x]]
       /\ comps' = Append(comps, comp)
  BY <1>9 DEF CloseComponent
<1>11. \A x \in Node : onStack'[x] <=> onStack[x] /\ x \notin Popped
  BY <1>8, <1>9, <1>10
<1>12. Len(comps) # None
  <2>1. node \notin Closed /\ Closed \in SUBSET Node
    BY <1>1, <1>3 DEF Closed, StackHoldsOpenNodes
  <2>2. Cardinality(Closed) < N /\ Cardinality(Closed) \in Nat
    BY <1>3, <2>1, RoomForOne
  <2>3. Len(comps) <= Cardinality(Closed) /\ Len(comps) \in Nat
    BY <1>1 DEF NumberInv, TypeOK
  <2> QED
    BY <1>3, <2>2, <2>3
<1>13. \A x \in Node : compOf'[x] # None <=> compOf[x] # None \/ x \in Popped
  BY <1>8, <1>9, <1>10, <1>12
<1>14. Closed' = Closed \cup Popped
  BY <1>5, <1>13 DEF Closed
<1> QED
  BY <1>4, <1>8, <1>9, <1>10, <1>11, <1>14

-----------------------------------------------------------------------------
LEMMA InitLinks == Init => LinkInv
<1> SUFFICES ASSUME Init
             PROVE  LinkInv
  OBVIOUS
<1>1. Closed = {} /\ Frames = {} /\ Len(comps) = 0
  BY DEF Init, Closed, Frames
<1>2. \A x \in Node : index[x] = None /\ onStack[x] = FALSE
  BY DEF Init
<1>3. SeenAreFound /\ OthersDescend
  BY <1>2 DEF SeenAreFound, OthersDescend
<1>4. ClosedAreClosed
  BY <1>1 DEF ClosedAreClosed, IsEdgeClosed
<1>5. FramesReach /\ LowlinkBounds /\ LowlinkIsReached
  BY <1>1 DEF FramesReach, LowlinkBounds, LowlinkIsReached
<1> QED
  BY <1>3, <1>4, <1>5 DEF LinkInv

LEMMA CounterHasRoom ==
  ASSUME Inv, NEW x \in Node, index[x] = None
  PROVE  counter # None
<1>1. Discovered \in SUBSET Node /\ x \notin Discovered
  BY DEF Discovered
<1>2. Cardinality(Discovered) < N /\ Cardinality(Discovered) \in Nat
  BY <1>1, RoomForOne
<1> QED
  BY <1>2, NodeFacts DEF Inv, NumberInv

LEMMA ChildEdge ==
  ASSUME TypeOK, More
  PROVE  Edge(node, child)
<1>1. top.next \in 1 .. Len(succ[node]) /\ node \in Node
  BY ChildIsNode, WorkFacts
<1>2. succ[node] \in Seq(Node)
  BY <1>1 DEF TypeOK
<1> QED
  BY <1>1, <1>2 DEF Edge, ToSet, child

LEMMA QuietLinks ==
  ASSUME Inv, LinkInv, UNCHANGED <<succ, index, lowlink, onStack, compOf, comps, work>>
  PROVE  LinkInv'
<1>1. Frames' = Frames /\ Closed' = Closed
  BY DEF Frames, Closed
<1>2. /\ \A a, b \in Node : Edge(a, b)' <=> Edge(a, b)
      /\ \A a, b \in Node : Path(a, b)' <=> Path(a, b)
  BY SameGraph
<1>3. \A a, b \in Node : Seen(a, b)' <=> Seen(a, b)
  BY DEF Seen
<1>4. \A a, g \in Node : Under(a, g)' <=> Under(a, g)
  BY <1>1 DEF Under
<1>5. Frames \subseteq Node
  BY FrameFacts
<1>6. SeenAreFound' /\ FramesReach' /\ OthersDescend' /\ ClosedAreClosed'
  <2>1. SeenAreFound'
    BY <1>3 DEF LinkInv, SeenAreFound
  <2>2. FramesReach'
    BY <1>1, <1>2, <1>5 DEF LinkInv, FramesReach
  <2>3. OthersDescend'
    BY <1>1, <1>2 DEF LinkInv, OthersDescend
  <2>4. ClosedAreClosed'
    BY <1>1, <1>2 DEF LinkInv, ClosedAreClosed, IsEdgeClosed
  <2> QED
    BY <2>1, <2>2, <2>3, <2>4
<1>7. LowlinkBounds'
  BY <1>1, <1>3, <1>4, <1>5 DEF LinkInv, LowlinkBounds
<1>8. LowlinkIsReached'
  BY <1>1, <1>2, <1>5 DEF LinkInv, LowlinkIsReached
<1> QED
  BY <1>6, <1>7, <1>8 DEF LinkInv

LEMMA BeginStartLinks == Inv /\ LinkInv /\ BeginStart => LinkInv'
<1> SUFFICES ASSUME Inv, LinkInv, BeginStart
             PROVE  LinkInv'
  OBVIOUS
<1>1. /\ work = << >> /\ start < N /\ index[start] = None
      /\ index' = [index EXCEPT ![start] = counter]
      /\ lowlink' = [lowlink EXCEPT ![start] = counter]
      /\ onStack' = [onStack EXCEPT ![start] = TRUE]
      /\ work' = Append(<< >>, Frame(start))
      /\ UNCHANGED <<succ, compOf, comps>>
  BY DEF BeginStart, Discover
<1>2. PICK x \in Node : x = start
  BY <1>1, NodeFacts DEF Inv, TypeOK, Node
<1>3. Len(work) = 0 /\ Len(work') = 1 /\ work'[1] = Frame(x)
  BY <1>1, <1>2
<1>4. Frames = {}
  BY <1>3 DEF Frames
<1>5. Frames' = Frames \cup {x} /\ \A b \in Node : ~Seen(x, b)'
  <2>1. TypeOK
    BY DEF Inv
  <2> QED
    BY <1>1, <1>3, <2>1, FramesAfterPush
<1>6. \A a, b \in Node : Seen(a, b)' => Seen(a, b) \/ b = x
  <2> SUFFICES ASSUME NEW a \in Node, NEW b \in Node, Seen(a, b)'
               PROVE  Seen(a, b)
    OBVIOUS
  <2>1. PICK k \in 1 .. Len(succ[a]) : succ[a][k] = b
    BY <1>1 DEF Seen
  <2>2. 1 .. Len(work) = {}
    BY <1>3
  <2> QED
    BY <2>1, <2>2 DEF Seen
<1>7. counter # None
  BY <1>1, <1>2, CounterHasRoom
<1> QED
  BY <1>1, <1>2, <1>4, <1>5, <1>6, <1>7, DiscoverLinks

LEMMA DescendLinks == Inv /\ LinkInv /\ Descend => LinkInv'
<1> SUFFICES ASSUME Inv, LinkInv, Descend
             PROVE  LinkInv'
  OBVIOUS
<1>0. TypeOK
  BY DEF Inv
<1>1. /\ More /\ index[child] = None
      /\ index' = [index EXCEPT ![child] = counter]
      /\ lowlink' = [lowlink EXCEPT ![child] = counter]
      /\ onStack' = [onStack EXCEPT ![child] = TRUE]
      /\ work' = Append(Advanced, Frame(child))
      /\ UNCHANGED <<succ, compOf, comps>>
  BY DEF Descend, Discover
<1>2. child \in Node /\ top.next \in 1 .. Len(succ[node]) /\ work # << >>
  BY <1>0, <1>1, ChildIsNode
<1>3. PICK x \in Node : x = child
  BY <1>2
<1>4. /\ Advanced \in Seq(FrameSet) /\ Len(Advanced) = Len(work)
      /\ \A i \in 1 .. Len(work) : Advanced[i].node = work[i].node
      /\ \A i \in 1 .. Len(work) - 1 : Advanced[i] = work[i]
      /\ Advanced[Len(work)].next = top.next + 1
  BY <1>0, <1>2, AdvancedFacts
<1>5. /\ Len(work) \in Nat /\ Len(work) \in 1 .. Len(work)
      /\ Len(work') = Len(work) + 1
      /\ work'[Len(work) + 1] = Frame(x)
      /\ \A i \in 1 .. Len(work) : work'[i] = Advanced[i]
  <2>1. Len(work) \in Nat /\ Len(work) \in 1 .. Len(work)
    BY <1>0, <1>2, WorkFacts
  <2>2. Frame(x) \in FrameSet
    BY DEF Frame, FrameSet
  <2> QED
    BY <1>1, <1>3, <1>4, <2>1, <2>2
<1>6. /\ \A i \in 1 .. Len(work) : work'[i].node = work[i].node
      /\ \A i \in 1 .. Len(work) - 1 : work'[i].next = work[i].next
      /\ work'[Len(work)].next = top.next + 1
  <2>1. \A i \in 1 .. Len(work) - 1 : i \in 1 .. Len(work)
    BY <1>5
  <2> QED
    BY <1>4, <1>5, <2>1
<1>7. Frames' = Frames \cup {x} /\ \A b \in Node : ~Seen(x, b)'
  BY <1>0, <1>1, <1>5, <1>6, FramesAfterPush
<1>8. \A a, b \in Node : Seen(a, b)' => Seen(a, b) \/ b = x
  <2>1. Len(work') \in Nat /\ Len(work) <= Len(work')
    BY <1>5
  <2> QED
    BY <1>0, <1>1, <1>2, <1>3, <1>6, <2>1, SeenAfterAdvance
<1>9. \A g \in Frames : Path(g, x)
  <2> SUFFICES ASSUME NEW g \in Frames
               PROVE  Path(g, x)
    OBVIOUS
  <2>1. PICK n \in Node : n = node
    BY <1>0, <1>2, WorkFacts
  <2>2. g \in Node /\ onStack[n] /\ index[g] <= index[n]
    BY <1>2, <2>1, FrameFacts
  <2>3. Path(g, n)
    BY <2>2 DEF LinkInv, FramesReach
  <2>4. Edge(n, x)
    BY <1>3, <2>1, ChildEdge, <1>0, <1>1
  <2> QED
    BY <2>1, <2>2, <2>3, <2>4, PathEdge
<1>10. counter # None
  BY <1>1, <1>3, CounterHasRoom
<1> QED
  BY <1>1, <1>3, <1>7, <1>8, <1>9, <1>10, DiscoverLinks

LEMMA EdgeLinks == Inv /\ LinkInv /\ (BackEdge \/ CrossEdge) => LinkInv'
<1> SUFFICES ASSUME Inv, LinkInv, BackEdge \/ CrossEdge
             PROVE  LinkInv'
  OBVIOUS
<1>0. TypeOK
  BY DEF Inv
<1>1. /\ More /\ index[child] # None /\ work' = Advanced
      /\ UNCHANGED <<succ, index, onStack, stack, compOf, comps>>
      /\ IF onStack[child]
         THEN lowlink' = [lowlink EXCEPT ![node] = AtMost(@, index[child])]
         ELSE lowlink' = lowlink
  BY DEF BackEdge, CrossEdge
<1>2. child \in Node /\ work # << >>
  BY <1>0, <1>1, ChildIsNode
<1>3. /\ Len(work') = Len(work) /\ Len(work) \in Nat
      /\ \A i \in 1 .. Len(work) : work'[i].node = work[i].node
      /\ \A i \in 1 .. Len(work) - 1 : work'[i].next = work[i].next
      /\ work'[Len(work)].next = top.next + 1
  BY <1>0, <1>1, <1>2, AdvancedFacts, WorkFacts
<1>4. Frames' = Frames
  BY <1>0, <1>3, FramesAfterAdvance
<1>5. \A a, b \in Node : Seen(a, b)' => Seen(a, b) \/ (a = node /\ b = child)
  <2>1. Len(work') \in Nat /\ Len(work) <= Len(work')
    BY <1>3
  <2> QED
    BY <1>0, <1>1, <1>2, <1>3, <2>1, SeenAfterAdvance
<1>6. node \in Frames /\ Edge(node, child)
  BY <1>0, <1>1, <1>2, FrameFacts, ChildEdge
<1> QED
  BY <1>1, <1>2, <1>4, <1>5, <1>6, AdvanceLinks

LEMMA ReturnStepLinks == Inv /\ LinkInv /\ Return => LinkInv'
<1> SUFFICES ASSUME Inv, LinkInv, Return
             PROVE  LinkInv'
  OBVIOUS
<1>1. /\ work # << >> /\ ~More
      /\ work' = SubSeq(work, 1, Len(work) - 1)
      /\ lowlink' = IF work' = << >> THEN lowlink
                    ELSE [lowlink EXCEPT ![work'[Len(work')].node] = AtMost(@, lowlink[node])]
      /\ UNCHANGED <<succ, index>>
  BY DEF Return
<1>2. ClosedAreClosed /\ TypeOK
  BY DEF LinkInv, Inv
<1>3. /\ \A x \in Node : onStack'[x] <=> onStack[x] /\ x \notin Popped
      /\ Closed' = Closed \cup Popped
      /\ \A i \in 1 .. Len(comps') : ToSet(comps'[i]) \subseteq Closed'
  <2>1. CASE lowlink[node] = index[node]
    <3>1. CloseComponent
      BY <2>1 DEF Return
    <3>2. /\ \A x \in Node : onStack'[x] <=> onStack[x] /\ x \notin Popped
          /\ Closed' = Closed \cup Popped
          /\ ToSet(PoppedFrom(node)) = Popped
          /\ PoppedFrom(node) \in Seq(Node)
          /\ comps' = Append(comps, PoppedFrom(node))
      BY <1>1, <2>1, <3>1, CloseFacts
    <3>3. comps \in Seq(Seq(Node)) /\ Len(comps) \in Nat
      BY <1>2 DEF TypeOK
    <3>4. /\ Len(comps') = Len(comps) + 1
          /\ comps'[Len(comps) + 1] = PoppedFrom(node)
          /\ \A i \in 1 .. Len(comps) : comps'[i] = comps[i]
      BY <3>2, <3>3
    <3>5. \A i \in 1 .. Len(comps') : ToSet(comps'[i]) \subseteq Closed'
      <4> SUFFICES ASSUME NEW i \in 1 .. Len(comps')
                   PROVE  ToSet(comps'[i]) \subseteq Closed'
        OBVIOUS
      <4>1. CASE i = Len(comps) + 1
        BY <3>2, <3>4, <4>1
      <4>2. CASE i # Len(comps) + 1
        <5>1. i \in 1 .. Len(comps)
          BY <3>3, <3>4, <4>2
        <5> QED
          BY <1>2, <3>2, <3>4, <5>1 DEF ClosedAreClosed
      <4> QED
        BY <4>1, <4>2
    <3> QED
      BY <3>2, <3>5
  <2>2. CASE lowlink[node] # index[node]
    <3>1. Popped = {} /\ UNCHANGED <<onStack, compOf, comps>>
      BY <2>2 DEF Return, Popped
    <3>2. Closed' = Closed
      BY <3>1 DEF Closed
    <3> QED
      BY <1>2, <3>1, <3>2 DEF ClosedAreClosed
  <2> QED
    BY <2>1, <2>2
<1>4. /\ Frames = Frames' \cup {node} /\ node \notin Frames'
      /\ \A a, b \in Node : Seen(a, b)' => Seen(a, b)
      /\ work' # << >> => \E p \in Frames' :
            /\ p = work'[Len(work')].node
            /\ \A g \in Frames' : index[g] <= index[p]
  BY <1>1, FramesAfterPop
<1>5. \A a \in Popped, b \in Node : Edge(a, b) => Seen(a, b)
  BY <1>1, PoppedEdgesAreSeen
<1>6. CASE work' = << >>
  <2>1. Len(work') = 0
    BY <1>6
  <2>2. Frames' = {}
    BY <2>1 DEF Frames
  <2> QED
    BY <1>1, <1>3, <1>4, <1>5, <2>2, ReturnLinks
<1>7. CASE work' # << >>
  <2>1. PICK p \in Frames' : /\ p = work'[Len(work')].node
                            /\ \A g \in Frames' : index[g] <= index[p]
    BY <1>4, <1>7
  <2>2. lowlink' = [lowlink EXCEPT ![p] = AtMost(@, lowlink[node])]
    BY <1>1, <1>7, <2>1
  <2> QED
    BY <1>1, <1>3, <1>4, <1>5, <2>1, <2>2, ReturnLinks
<1> QED
  BY <1>6, <1>7

LEMMA StepLinks == Inv /\ LinkInv /\ [Next]_vars => LinkInv'
<1> SUFFICES ASSUME Inv, LinkInv, [Next]_vars
             PROVE  LinkInv'
  OBVIOUS
<1>1. CASE SkipStart
  BY <1>1, QuietLinks DEF SkipStart
<1>2. CASE BeginStart
  BY <1>2, BeginStartLinks
<1>3. CASE Descend
  BY <1>3, DescendLinks
<1>4. CASE BackEdge \/ CrossEdge
  BY <1>4, EdgeLinks
<1>5. CASE Return
  BY <1>5, ReturnStepLinks
<1>6. CASE UNCHANGED vars
  BY <1>6, QuietLinks DEF vars
<1> QED
  BY <1>1, <1>2, <1>3, <1>4, <1>5, <1>6 DEF Next, Step, Terminated

LEMMA LinkInvariance == Spec => [](Inv /\ LinkInv)
<1>1. Init => Inv /\ LinkInv
  BY InitInv, InitLinks
<1>2. Inv /\ LinkInv /\ [Next]_vars => (Inv /\ LinkInv)'
  BY StepInv, StepLinks
<1> QED
  BY <1>1, <1>2, PTL DEF Spec

-----------------------------------------------------------------------------
(* The abstract specification's reachability is Path.                      *)
LEMMA ReachIsPath ==
  ASSUME NEW x \in Node
  PROVE  Abstract!Reach(x) = {y \in Node : Path(x, y)}
<1>1. IsFiniteSet(Node) /\ Edges \subseteq Node \X Node
  BY NodeFacts DEF Edges
<1>2. Abstract!Cardinality(Node) = Cardinality(Node)
  BY DEF Abstract!Cardinality, Cardinality
<1>3. Abstract!Reach(x) = ReachedIn(Node, Edges, x)
  BY <1>2 DEF Abstract!Reach, ReachedIn
<1>4. ReachedIn(Node, Edges, x)
        = {z \in Node : \A S \in SUBSET Node : x \in S /\ KeepsIn(Edges, S) => z \in S}
  BY <1>1, ReachedFacts
<1>5. \A S \in SUBSET Node : KeepsIn(Edges, S) <=> IsEdgeClosed(S)
  <2> SUFFICES ASSUME NEW S \in SUBSET Node
               PROVE  (\A e \in Edges : e[1] \in S => e[2] \in S) <=> IsEdgeClosed(S)
    BY DEF KeepsIn
  <2>1. ASSUME \A e \in Edges : e[1] \in S => e[2] \in S
        PROVE  IsEdgeClosed(S)
    <3> SUFFICES ASSUME NEW a \in Node, NEW b \in Node, a \in S, Edge(a, b)
                 PROVE  b \in S
      BY DEF IsEdgeClosed
    <3>1. <<a, b>> \in Edges
      BY DEF Edges, Edge
    <3> QED
      BY <2>1, <3>1
  <2>2. ASSUME IsEdgeClosed(S), NEW e \in Edges, e[1] \in S
        PROVE  e[2] \in S
    BY <2>2 DEF Edges, Edge, IsEdgeClosed
  <2> QED
    BY <2>1, <2>2
<1> QED
  BY <1>3, <1>4, <1>5 DEF Path

LEMMA AppendIs ==
  ASSUME NEW T, NEW s \in Seq(T), NEW e \in T, NEW l, l = Len(s)
  PROVE  Append(s, e) = [i \in 1 .. l + 1 |-> IF i = l + 1 THEN e ELSE s[i]]
<1>1. PICK n \in Nat : n = l
  OBVIOUS
<1> DEFINE r == [i \in 1 .. n + 1 |-> IF i = n + 1 THEN e ELSE s[i]]
<1>2. \A i \in 1 .. n + 1 : i # n + 1 => i \in 1 .. n
  OBVIOUS
<1>3. \A i \in 1 .. n : s[i] \in T
  BY <1>1
<1>4. r \in [1 .. n + 1 -> T] /\ n + 1 \in Nat
  BY <1>2, <1>3
<1>5. r \in Seq(T) /\ Len(r) = n + 1 /\ \A i \in 1 .. n + 1 : r[i] = IF i = n + 1 THEN e ELSE s[i]
  BY <1>4
<1> HIDE DEF r
<1>6. PICK t : t = Append(s, e)
  OBVIOUS
<1>7. t \in Seq(T) /\ Len(t) = n + 1 /\ t[n + 1] = e /\ \A i \in 1 .. n : t[i] = s[i]
  BY <1>1, <1>6
<1>8. \A i \in 1 .. Len(t) : t[i] = r[i]
  BY <1>2, <1>5, <1>7
<1>9. t = r
  BY <1>5, <1>7, <1>8, SeqEqual
<1> QED
  BY <1>1, <1>6, <1>9 DEF r

(* Closing a component emits it; every other step changes nothing that the *)
(* abstract specification sees.                                            *)
LEMMA ReturnEmits ==
  Inv /\ LinkInv /\ Return => [Abstract!Next]_<<Edges, Found>>
<1> SUFFICES ASSUME Inv, LinkInv, Return
             PROVE  [Abstract!Next]_<<Edges, Found>>
  OBVIOUS
<1>1. work # << >> /\ ~More /\ UNCHANGED succ
  BY DEF Return
<1>2. Edges' = Edges
  BY <1>1 DEF Edges
<1>3. CASE lowlink[node] # index[node]
  <2>1. UNCHANGED comps
    BY <1>3 DEF Return
  <2>2. Found' = Found
    BY <2>1 DEF Found
  <2> QED
    BY <1>2, <2>2
<1>4. CASE lowlink[node] = index[node]
  <2>1. CloseComponent
    BY <1>4 DEF Return
  <2>2. PICK n \in Node : n = node
    BY <1>1, FrameFacts
  <2>3. PICK S \in SUBSET Node : S = Popped
    BY DEF Popped
  <2>4. \A a \in Popped, b \in Node : Edge(a, b) => Seen(a, b)
    BY <1>1, PoppedEdgesAreSeen
  <2>5. n \in S /\ \A y \in Node : y \in S <=> Path(n, y) /\ Path(y, n)
    BY <1>1, <1>4, <2>2, <2>3, <2>4, PoppedIsComponent
  <2>6. Abstract!IsComponent(S)
    <3>1. \A y \in Node : Abstract!Reach(y) = {z \in Node : Path(y, z)}
      BY ReachIsPath
    <3>2. S = {y \in Abstract!Reach(n) : n \in Abstract!Reach(y)}
      BY <2>5, <3>1
    <3> QED
      BY <2>5, <3>2 DEF Abstract!IsComponent
  <2>7. /\ ToSet(PoppedFrom(node)) = S
        /\ PoppedFrom(node) \in Seq(Node)
        /\ comps' = Append(comps, PoppedFrom(node))
    BY <1>1, <1>4, <2>1, <2>3, CloseFacts
  <2>8. Found' = Append(Found, S)
    <3>1. comps \in Seq(Seq(Node)) /\ Len(comps) \in Nat
      BY DEF Inv, TypeOK
    <3>2. PICK l \in Nat : l = Len(comps)
      BY <3>1
    <3>3. PICK found : found = Found
      OBVIOUS
    <3>4. found = [i \in 1 .. l |-> ToSet(comps[i])]
      BY <3>2, <3>3 DEF Found
    <3>5. /\ Len(comps') = l + 1
          /\ comps'[l + 1] = PoppedFrom(node)
          /\ \A i \in 1 .. l : comps'[i] = comps[i]
      BY <2>7, <3>1, <3>2
    <3>6. Found' = [i \in 1 .. l + 1 |-> ToSet(comps'[i])]
      BY <3>5 DEF Found
    <3>7. \A i \in 1 .. l + 1 : ToSet(comps'[i]) = IF i = l + 1 THEN S ELSE found[i]
      <4> TAKE i \in 1 .. l + 1
      <4>1. CASE i = l + 1
        BY <2>7, <3>5, <4>1
      <4>2. CASE i # l + 1
        <5>1. i \in 1 .. l
          BY <4>2
        <5> QED
          BY <3>4, <3>5, <4>2, <5>1
      <4> QED
        BY <4>1, <4>2
    <3>8. Found' = [i \in 1 .. l + 1 |-> IF i = l + 1 THEN S ELSE found[i]]
      BY <3>6, <3>7
    <3>9. found \in Seq(SUBSET Node) /\ Len(found) = l
      <4>1. \A i \in 1 .. l : ToSet(comps[i]) \in SUBSET Node
        <5> TAKE i \in 1 .. l
        <5>1. comps[i] \in Seq(Node)
          BY <3>1, <3>2
        <5> QED
          BY <5>1 DEF ToSet
      <4> QED
        BY <3>2, <3>4, <4>1
    <3>10. Append(found, S) = [i \in 1 .. l + 1 |-> IF i = l + 1 THEN S ELSE found[i]]
      <4>1. PICK T : T = SUBSET Node
        OBVIOUS
      <4>2. found \in Seq(T) /\ S \in T /\ l = Len(found)
        BY <2>3, <3>9, <4>1
      <4> QED
        BY <4>2, AppendIs
    <3> QED
      BY <3>3, <3>8, <3>10
  <2>9. Abstract!Found = Closed
    <3>1. /\ comps \in Seq(Seq(Node)) /\ compOf \in [Node -> 0 .. N]
          /\ \A x \in Node : compOf[x] # None => compOf[x] < Len(comps)
          /\ \A x \in Node : compOf[x] # None => x \in ToSet(comps[compOf[x] + 1])
      BY DEF Inv, TypeOK, NumberInv, StackHoldsOpenNodes
    <3>2. Abstract!Found = UNION {ToSet(comps[i]) : i \in 1 .. Len(comps)}
      BY DEF Abstract!Found, Found
    <3>3. \A i \in 1 .. Len(comps) : ToSet(comps[i]) \subseteq Closed
      BY DEF LinkInv, ClosedAreClosed
    <3>4. ASSUME NEW x \in Closed
          PROVE  \E i \in 1 .. Len(comps) : x \in ToSet(comps[i])
      <4>1. x \in Node /\ compOf[x] # None
        BY DEF Closed
      <4>2. compOf[x] + 1 \in 1 .. Len(comps)
        BY <3>1, <4>1
      <4> QED
        BY <3>1, <4>1, <4>2
    <3> QED
      BY <3>2, <3>3, <3>4
  <2>10. S \cap Closed = {}
    BY <2>3, FrameFacts DEF Popped, Closed
  <2>11. Abstract!FlowsInto(S) \subseteq Closed
    <3>1. IsEdgeClosed(Closed \cup S)
      BY <1>1, <2>3, <2>4, PoppedIsClosed
    <3> SUFFICES ASSUME NEW e \in Edges, e[1] \in S, e[2] \notin S
                 PROVE  e[2] \in Closed
      BY DEF Abstract!FlowsInto
    <3> QED
      BY <3>1 DEF Edges, Edge, IsEdgeClosed
  <2>12. Abstract!Emit(S)
    BY <1>2, <2>6, <2>8, <2>9, <2>10, <2>11 DEF Abstract!Emit
  <2> QED
    BY <2>12 DEF Abstract!Next
<1> QED
  BY <1>3, <1>4

LEMMA StepEmits ==
  Inv /\ LinkInv /\ [Next]_vars => [Abstract!Next]_<<Edges, Found>>
<1> SUFFICES ASSUME Inv, LinkInv, [Next]_vars
             PROVE  [Abstract!Next]_<<Edges, Found>>
  OBVIOUS
<1>1. CASE Return
  BY <1>1, ReturnEmits
<1>2. CASE UNCHANGED <<succ, comps>>
  <2>1. Edges' = Edges /\ Found' = Found
    BY <1>2 DEF Edges, Found
  <2> QED
    BY <2>1
<1> QED
  BY <1>1, <1>2
     DEF Next, Step, Terminated, vars, SkipStart, BeginStart, Descend, Discover,
         BackEdge, CrossEdge

(* tarjan_scc implements Condensation on every graph: what it closes is a  *)
(* strongly connected component, whole, closed once, and after every       *)
(* component that it flows into.                                           *)
THEOREM EmitsTheComponents == Spec => EmitsComponents
<1>1. Init => Abstract!Init
  <2> SUFFICES ASSUME Init
               PROVE  Abstract!Init
    OBVIOUS
  <2>1. Edges \in SUBSET (Node \X Node)
    BY DEF Edges
  <2>2. Found = << >>
    BY DEF Init, Found
  <2> QED
    BY <2>1, <2>2 DEF Abstract!Init
<1>2. Inv /\ LinkInv /\ [Next]_vars => [Abstract!Next]_<<Edges, Found>>
  BY StepEmits
<1> QED
  BY <1>1, <1>2, LinkInvariance, PTL DEF Spec, EmitsComponents, Abstract!Spec, Abstract!vars
-----------------------------------------------------------------------------
(* What the caller of tarjan_scc gets: the numbers of the components.      *)

(* A start that the outer loop has passed has a number. *)
StartsAreFound == \A x \in Node : x < start => index[x] # None

(* comp_of names the one component that a node is in. *)
MembersAreNamed ==
  \A i \in 1 .. Len(comps) : \A x \in Node : x \in ToSet(comps[i]) => compOf[x] = i - 1

(* An edge leads to a component that has the same number or a smaller one. *)
SuccessorsFirst ==
  \A x, y \in Node :
    compOf[x] # None /\ Edge(x, y) => compOf[y] # None /\ compOf[y] <= compOf[x]

EmissionInv == StartsAreFound /\ MembersAreNamed /\ SuccessorsFirst

LEMMA InitEmission == Init => EmissionInv
<1> SUFFICES ASSUME Init
             PROVE  EmissionInv
  OBVIOUS
<1>1. start = 0 /\ comps = << >> /\ \A x \in Node : compOf[x] = None
  BY DEF Init
<1>2. StartsAreFound
  BY <1>1, NodeFacts DEF StartsAreFound
<1>3. MembersAreNamed /\ SuccessorsFirst
  BY <1>1 DEF MembersAreNamed, SuccessorsFirst
<1> QED
  BY <1>2, <1>3 DEF EmissionInv

(* A step that closes nothing. *)
LEMMA OpenEmission ==
  ASSUME Inv, EmissionInv, UNCHANGED <<succ, compOf, comps>>,
         \A x \in Node : index[x] # None => index'[x] # None,
         start' = start \/ (start' = start + 1 /\ start < N /\ index'[start] # None)
  PROVE  EmissionInv'
<1>1. MembersAreNamed' /\ SuccessorsFirst'
  BY DEF EmissionInv, MembersAreNamed, SuccessorsFirst, Edge
<1>2. start \in Nat
  BY NodeFacts DEF Inv, TypeOK
<1>3. StartsAreFound'
  <2> SUFFICES ASSUME NEW x \in Node, x < start'
               PROVE  index'[x] # None
    BY DEF StartsAreFound, None
  <2>1. x \in Nat
    BY NodeFacts
  <2>2. x < start \/ (x = start /\ start' = start + 1)
    BY <1>2, <2>1
  <2> QED
    BY <2>2 DEF EmissionInv, StartsAreFound
<1> QED
  BY <1>1, <1>3 DEF EmissionInv

(* The step that closes a component. *)
LEMMA CloseEmission ==
  ASSUME Inv, LinkInv, EmissionInv, Return, lowlink[node] = index[node]
  PROVE  EmissionInv'
<1>1. /\ work # << >> /\ ~More /\ UNCHANGED <<succ, index, start>> /\ CloseComponent
  BY DEF Return
<1>2. PICK S \in SUBSET Node : S = Popped
  BY DEF Popped
<1>3. \A a \in Popped, b \in Node : Edge(a, b) => Seen(a, b)
  BY <1>1, PoppedEdgesAreSeen
<1>4. /\ ToSet(PoppedFrom(node)) = S
      /\ PoppedFrom(node) \in Seq(Node)
      /\ comps' = Append(comps, PoppedFrom(node))
  BY <1>1, <1>2, CloseFacts
<1>5. PICK l \in Nat : l = Len(comps)
  BY DEF Inv, TypeOK
<1>6. /\ Len(comps') = l + 1
      /\ comps'[l + 1] = PoppedFrom(node)
      /\ \A i \in 1 .. l : comps'[i] = comps[i]
  BY <1>4, <1>5 DEF Inv, TypeOK
<1>7. \A x \in Node : compOf'[x] = IF x \in S THEN l ELSE compOf[x]
  BY <1>1, <1>4, <1>5 DEF CloseComponent
<1>8. \A x \in S : compOf[x] = None
  BY <1>2, FrameFacts DEF Popped
<1>9. l # None
  <2>1. node \in S
    BY <1>1, <1>2, <1>3, PoppedIsComponent
  <2>2. node \in Node /\ node \notin Closed /\ Closed \in SUBSET Node
    BY <1>8, <2>1 DEF Closed
  <2>3. Cardinality(Closed) < N /\ Cardinality(Closed) \in Nat
    BY <2>2, RoomForOne
  <2> QED
    BY <1>5, <2>3, NodeFacts DEF Inv, NumberInv
<1>10. StartsAreFound'
  BY <1>1 DEF EmissionInv, StartsAreFound
<1>11. MembersAreNamed'
  <2> SUFFICES ASSUME NEW i \in 1 .. Len(comps'), NEW x \in Node, x \in ToSet(comps'[i])
               PROVE  compOf'[x] = i - 1
    BY DEF MembersAreNamed
  <2>1. CASE i = l + 1
    BY <1>4, <1>6, <1>7, <2>1
  <2>2. CASE i # l + 1
    <3>1. i \in 1 .. l /\ i \in 1 .. Len(comps)
      BY <1>5, <1>6, <2>2
    <3>2. x \in ToSet(comps[i])
      BY <1>6, <3>1
    <3>3. compOf[x] = i - 1
      BY <3>1, <3>2 DEF EmissionInv, MembersAreNamed
    <3>4. ToSet(comps[i]) \subseteq Closed
      BY <3>1 DEF LinkInv, ClosedAreClosed
    <3>5. x \notin S
      BY <1>8, <3>2, <3>4 DEF Closed
    <3> QED
      BY <1>7, <3>3, <3>5
  <2> QED
    BY <2>1, <2>2
<1>12. SuccessorsFirst'
  <2> SUFFICES ASSUME NEW x \in Node, NEW y \in Node, compOf'[x] # None, Edge(x, y)
               PROVE  compOf'[y] # None /\ compOf'[y] <= compOf'[x]
    BY <1>1 DEF SuccessorsFirst, Edge, None
  <2>1. \A z \in Node : compOf[z] # None => compOf[z] \in Nat /\ compOf[z] < l
    BY <1>5, NodeFacts DEF Inv, TypeOK, NumberInv
  <2>2. CASE x \in S
    <3>1. IsEdgeClosed(Closed \cup S)
      BY <1>1, <1>2, <1>3, PoppedIsClosed
    <3>2. y \in Closed \/ y \in S
      BY <2>2, <3>1 DEF IsEdgeClosed
    <3>3. compOf'[x] = l
      BY <1>7, <2>2
    <3>4. CASE y \in S
      BY <1>5, <1>7, <1>9, <3>3, <3>4
    <3>5. CASE y \notin S
      <4>1. compOf[y] # None /\ compOf'[y] = compOf[y]
        BY <1>7, <3>2, <3>5 DEF Closed
      <4> QED
        BY <1>5, <2>1, <3>3, <4>1
    <3> QED
      BY <3>4, <3>5
  <2>3. CASE x \notin S
    <3>1. compOf[x] # None /\ compOf'[x] = compOf[x]
      BY <1>7, <2>3
    <3>2. compOf[y] # None /\ compOf[y] <= compOf[x]
      BY <3>1 DEF EmissionInv, SuccessorsFirst
    <3>3. compOf'[y] = compOf[y]
      BY <1>7, <1>8, <3>2
    <3> QED
      BY <3>1, <3>2, <3>3
  <2> QED
    BY <2>2, <2>3
<1> QED
  BY <1>10, <1>11, <1>12 DEF EmissionInv

LEMMA StepEmission == Inv /\ LinkInv /\ EmissionInv /\ [Next]_vars => EmissionInv'
<1> SUFFICES ASSUME Inv, LinkInv, EmissionInv, [Next]_vars
             PROVE  EmissionInv'
  OBVIOUS
<1>1. CASE Return
  <2>1. CASE lowlink[node] = index[node]
    BY <1>1, <2>1, CloseEmission
  <2>2. CASE lowlink[node] # index[node]
    <3>1. UNCHANGED <<succ, index, start, compOf, comps>>
      BY <1>1, <2>2 DEF Return
    <3> QED
      BY <3>1, OpenEmission
  <2> QED
    BY <2>1, <2>2
<1>2. CASE SkipStart
  <2>1. /\ UNCHANGED <<succ, index, compOf, comps>>
        /\ start' = start + 1 /\ start < N /\ index[start] # None
    BY <1>2 DEF SkipStart
  <2> QED
    BY <2>1, OpenEmission
<1>3. ASSUME NEW x \in Node, index[x] = None, index' = [index EXCEPT ![x] = counter],
             UNCHANGED <<succ, compOf, comps>>
      PROVE  index'[x] # None /\ \A y \in Node : index[y] # None => index'[y] # None
  <2>1. counter # None /\ index \in [Node -> 0 .. N]
    BY <1>3, CounterHasRoom DEF Inv, TypeOK
  <2> QED
    BY <1>3, <2>1
<1>4. CASE BeginStart
  <2>1. /\ start < N /\ index[start] = None /\ start' = start + 1
        /\ index' = [index EXCEPT ![start] = counter] /\ UNCHANGED <<succ, compOf, comps>>
    BY <1>4 DEF BeginStart, Discover
  <2>2. start \in Node
    BY <2>1, NodeFacts DEF Inv, TypeOK, Node
  <2>3. index'[start] # None /\ \A y \in Node : index[y] # None => index'[y] # None
    BY <1>3, <2>1, <2>2
  <2> QED
    BY <2>1, <2>3, OpenEmission
<1>5. CASE Descend
  <2>1. /\ More /\ index[child] = None /\ start' = start
        /\ index' = [index EXCEPT ![child] = counter] /\ UNCHANGED <<succ, compOf, comps>>
    BY <1>5 DEF Descend, Discover
  <2>2. child \in Node
    BY <2>1, ChildIsNode DEF Inv
  <2>3. \A y \in Node : index[y] # None => index'[y] # None
    BY <1>3, <2>1, <2>2
  <2> QED
    BY <2>1, <2>3, OpenEmission
<1>6. CASE BackEdge \/ CrossEdge \/ UNCHANGED vars
  <2>1. UNCHANGED <<succ, index, start, compOf, comps>>
    BY <1>6 DEF BackEdge, CrossEdge, vars
  <2> QED
    BY <2>1, OpenEmission
<1> QED
  BY <1>1, <1>2, <1>4, <1>5, <1>6 DEF Next, Step, Terminated

(* There are no more components than nodes. *)
LEMMA ComponentsFit ==
  ASSUME Inv
  PROVE  Len(comps) \in Nat /\ Len(comps) <= N
<1>1. Len(comps) \in Nat /\ Len(comps) <= Cardinality(Closed)
  BY DEF Inv, TypeOK, NumberInv
<1>2. Closed \in SUBSET Node
  BY DEF Closed
<1>3. Cardinality(Closed) <= Cardinality(Node) /\ IsFiniteSet(Closed)
  BY <1>2, NodeFacts, FS_Subset
<1>4. Cardinality(Closed) \in Nat
  BY <1>3, FS_CardinalityType
<1> QED
  BY <1>1, <1>3, <1>4, NodeFacts

(* When the function returns, every node is in the one component that      *)
(* comp_of names, and edges lead to smaller numbers.                       *)
LEMMA WhenFinished ==
  ASSUME Inv, LinkInv, EmissionInv, Finished
  PROVE  /\ \A x \in Node : compOf[x] \in 0 .. Len(comps) - 1
         /\ \A i \in 1 .. Len(comps) : \A x \in Node :
              x \in ToSet(comps[i]) <=> compOf[x] = i - 1
         /\ \A x, y \in Node : Edge(x, y) => compOf[y] <= compOf[x]
<1>1. work = << >> /\ start = N
  BY DEF Finished
<1>2. /\ N \in Nat /\ None = N
      /\ \A x \in Node : /\ x < N /\ index[x] \in 0 .. N
                         /\ onStack[x] <=> index[x] # None /\ compOf[x] = None
  BY FrameFacts, NodeFacts
<1>3. Frames = {}
  <2>1. Len(work) = 0
    BY <1>1
  <2> QED
    BY <2>1 DEF Frames
<1>4. \A x \in Node : onStack[x] => \E y \in Node : onStack[y] /\ index[y] < index[x]
  BY <1>3 DEF LinkInv, OthersDescend
<1>5. \A x \in Node : ~onStack[x]
  <2> DEFINE Free == {k \in Nat : \A x \in Node : onStack[x] => index[x] >= k}
  <2>1. 0 \in Free
    BY <1>2
  <2>2. \A k \in Nat : k \in Free => k + 1 \in Free
    <3> SUFFICES ASSUME NEW k \in Nat, \A x \in Node : onStack[x] => index[x] >= k,
                        NEW x \in Node, onStack[x]
                 PROVE  index[x] >= k + 1
      OBVIOUS
    <3>1. PICK y \in Node : onStack[y] /\ index[y] < index[x]
      BY <1>4
    <3>2. index[y] >= k /\ index[y] \in 0 .. N /\ index[x] \in 0 .. N
      BY <1>2, <3>1
    <3> QED
      BY <1>2, <3>1, <3>2
  <2>3. Nat \subseteq Free
    <3> HIDE DEF Free
    <3> QED
      BY <2>1, <2>2, SetInduction
  <2>4. N + 1 \in Free
    BY <1>2, <2>3
  <2>5. \A x \in Node : onStack[x] => index[x] >= N + 1
    BY <2>4
  <2> QED
    BY <1>2, <2>5
<1>6. \A x \in Node : compOf[x] # None
  <2>1. \A x \in Node : index[x] # None
    BY <1>1, <1>2 DEF EmissionInv, StartsAreFound
  <2> QED
    BY <1>2, <1>5, <2>1
<1>7. \A x \in Node : /\ compOf[x] \in 0 .. N /\ compOf[x] < Len(comps)
                      /\ x \in ToSet(comps[compOf[x] + 1])
  BY <1>6 DEF Inv, TypeOK, NumberInv, StackHoldsOpenNodes
<1>8. Len(comps) \in Nat
  BY DEF Inv, TypeOK
<1>9. \A x \in Node : compOf[x] \in 0 .. Len(comps) - 1
  BY <1>2, <1>7, <1>8
<1>10. ASSUME NEW i \in 1 .. Len(comps), NEW x \in Node
       PROVE  x \in ToSet(comps[i]) <=> compOf[x] = i - 1
  <2>1. x \in ToSet(comps[i]) => compOf[x] = i - 1
    BY DEF EmissionInv, MembersAreNamed
  <2>2. compOf[x] = i - 1 => compOf[x] + 1 = i
    BY <1>8
  <2> QED
    BY <1>7, <2>1, <2>2
<1>11. \A x, y \in Node : Edge(x, y) => compOf[y] <= compOf[x]
  BY <1>6 DEF EmissionInv, SuccessorsFirst
<1> QED
  BY <1>9, <1>10, <1>11
=============================================================================
