--------------------------- MODULE TopoOrderProofs ---------------------------
(***************************************************************************)
(* Theorems about topo_order, for any number of components and any list of *)
(* edges between them, cyclic ones included.                               *)
(***************************************************************************)
EXTENDS TopoOrder, Lemmas

-----------------------------------------------------------------------------
(* The inductive invariant. *)

Queued(c) == \E i \in 1 .. Len(queue) : queue[i] = c

(* The edge from c to d has been taken off the in-degree of d. *)
Relaxed(c, d) ==
  \E i \in 1 .. head :
    /\ queue[i] = c
    /\ i < head \/ pc # "relax" \/ \E k \in 1 .. di - 1 : dag[c][k] = d

(* The components from which an edge into d is still to be relaxed. *)
Pending(d) == {c \in Comp : <<c, d>> \in seen /\ ~Relaxed(c, d)}

(* seen and dag hold the scanned edges between different components, each  *)
(* once.                                                                   *)
ScanInv ==
  /\ \A e \in Comp \X Comp :
       e \in seen <=> e[1] # e[2] /\ \E k \in 1 .. scanned : flow[k] = e
  /\ \A c, d \in Comp : <<c, d>> \in seen <=> \E k \in 1 .. Len(dag[c]) : dag[c][k] = d
  /\ \A c \in Comp : \A k, l \in 1 .. Len(dag[c]) : dag[c][k] = dag[c][l] => k = l
  /\ pc # "scan" => scanned = Len(flow)

(* An in-degree counts the edges that are not yet relaxed. *)
CountInv == \A d \in Comp : indeg[d] = Cardinality(Pending(d))

(* The queue holds the components whose in-degree is 0, each once. *)
QueueInv ==
  /\ \A i, j \in 1 .. Len(queue) : queue[i] = queue[j] => i = j
  /\ pc = "scan" => queue = << >> /\ cand = 0
  /\ pc \in {"scan", "seed"} => head = 0 /\ order = << >>
  /\ pc = "seed" => \A c \in Comp : Queued(c) <=> c < cand /\ indeg[c] = 0
  /\ pc \notin {"scan", "seed"} => \A c \in Comp : Queued(c) <=> indeg[c] = 0
  /\ pc = "relax" => head > 0

(* A component is queued behind those that flow into it. *)
FlowInv ==
  \A j \in 1 .. Len(queue) : \A c \in Comp :
    <<c, queue[j]>> \in seen => \E i \in 1 .. j - 1 : queue[i] = c

(* The order is what was taken off the queue, then what never got into it. *)
OrderInv ==
  /\ head <= Len(order)
  /\ \A i \in 1 .. head : order[i] = queue[i]
  /\ pc \notin {"rest", "done"} => Len(order) = head
  /\ \A i, j \in 1 .. Len(order) : order[i] = order[j] => i = j
  /\ pc = "rest" => \A c \in Comp : c < cand => c \in Placed
  /\ pc = "done" => Comp \subseteq Placed

Inv == TypeOK /\ ScanInv /\ CountInv /\ QueueInv /\ FlowInv /\ OrderInv

-----------------------------------------------------------------------------
LEMMA PendingFinite ==
  ASSUME m \in Nat, NEW d
  PROVE  IsFiniteSet(Pending(d)) /\ Cardinality(Pending(d)) \in Nat
<1>1. IsFiniteSet(Comp)
  BY FS_Interval DEF Comp
<1>2. Pending(d) \in SUBSET Comp
  BY DEF Pending
<1> QED
  BY <1>1, <1>2, FS_Subset, FS_CardinalityType

(* An in-degree of 0: every edge into the component is relaxed. *)
LEMMA NothingPending ==
  ASSUME TypeOK, CountInv, NEW d \in Comp
  PROVE  indeg[d] = 0 <=> \A c \in Comp : <<c, d>> \in seen => Relaxed(c, d)
<1>1. IsFiniteSet(Pending(d)) /\ indeg[d] = Cardinality(Pending(d))
  BY PendingFinite DEF TypeOK, CountInv
<1>2. indeg[d] = 0 <=> Pending(d) = {}
  BY <1>1, FS_EmptySet
<1> QED
  BY <1>2 DEF Pending

LEMMA InitInv == Init => Inv
<1> SUFFICES ASSUME NEW input \in Input, Start(input)
             PROVE  Inv
  BY DEF Init
<1>1. /\ m \in Nat /\ flow \in Seq(Comp \X Comp) /\ m = input.m
  BY InputAssumption DEF Start, Comp
<1>2. TypeOK
  BY <1>1 DEF TypeOK, Start, Comp
<1>3. ScanInv
  BY <1>1 DEF ScanInv, Start, Comp
<1>4. CountInv
  <2> SUFFICES ASSUME NEW d \in Comp
               PROVE  indeg[d] = Cardinality(Pending(d))
    BY DEF CountInv
  <2>1. Pending(d) = {} /\ indeg[d] = 0
    BY <1>1 DEF Pending, Start, Comp
  <2> QED
    BY <2>1, FS_EmptySet
<1>5. QueueInv
  BY <1>1 DEF QueueInv, Start
<1>6. FlowInv
  BY DEF FlowInv, Start
<1>7. OrderInv
  BY DEF OrderInv, Start
<1> QED
  BY <1>2, <1>3, <1>4, <1>5, <1>6, <1>7 DEF Inv

-----------------------------------------------------------------------------
(* One lemma for each step. *)

LEMMA ScanEdgeStep == Inv /\ ScanEdge => Inv'
<1> SUFFICES ASSUME Inv, ScanEdge
             PROVE  Inv'
  OBVIOUS
<1> DEFINE c == flow[scanned + 1][1]
           d == flow[scanned + 1][2]
           new == c # d /\ <<c, d>> \notin seen
<1>1. /\ scanned + 1 \in 1 .. Len(flow)
      /\ c \in Comp /\ d \in Comp /\ flow[scanned + 1] = <<c, d>>
      /\ m \in Nat /\ m' = m /\ Comp' = Comp
  <2>1. /\ m \in Nat /\ m' = m /\ flow \in Seq(Comp \X Comp)
        /\ scanned \in Nat /\ scanned < Len(flow)
    BY DEF Inv, TypeOK, ScanEdge
  <2>2. scanned + 1 \in 1 .. Len(flow)
    BY <2>1
  <2>3. flow[scanned + 1] \in Comp \X Comp
    BY <2>1, <2>2
  <2> QED
    BY <2>1, <2>2, <2>3 DEF Comp
<1>2. /\ pc = "scan" /\ pc' = "scan" /\ queue = << >> /\ queue' = << >>
      /\ head = 0 /\ head' = 0 /\ order = << >> /\ order' = << >>
      /\ cand = 0 /\ cand' = 0 /\ flow' = flow /\ di' = di
      /\ scanned \in Nat /\ scanned' = scanned + 1
  BY DEF Inv, TypeOK, ScanEdge, QueueInv
<1>3. /\ seen' = IF new THEN seen \cup {<<c, d>>} ELSE seen
      /\ dag' = IF new THEN [dag EXCEPT ![c] = Append(@, d)] ELSE dag
      /\ indeg' = IF new THEN [indeg EXCEPT ![d] = @ + 1] ELSE indeg
  BY DEF ScanEdge
<1> HIDE DEF c, d
<1>4. TypeOK'
  <2>1. /\ seen \subseteq Comp \X Comp /\ dag \in [Comp -> Seq(Comp)]
        /\ indeg \in [Comp -> Nat]
    BY DEF Inv, TypeOK
  <2>2. seen' \subseteq Comp \X Comp
    BY <1>1, <1>3, <2>1
  <2>3. dag' \in [Comp -> Seq(Comp)]
    BY <1>1, <1>3, <2>1
  <2>4. indeg' \in [Comp -> Nat]
    BY <1>1, <1>3, <2>1
  <2>5. /\ m \in Nat /\ flow \in Seq(Comp \X Comp) /\ di \in Nat \ {0}
    BY DEF Inv, TypeOK
  <2> QED
    BY <1>1, <1>2, <2>2, <2>3, <2>4, <2>5 DEF TypeOK
<1>5. ScanInv'
  <2>1. \A e \in Comp \X Comp :
          e \in seen' <=> e[1] # e[2] /\ \E k \in 1 .. scanned + 1 : flow[k] = e
    <3> TAKE e \in Comp \X Comp
    <3>1. (\E k \in 1 .. scanned + 1 : flow[k] = e)
            <=> (\E k \in 1 .. scanned : flow[k] = e) \/ e = <<c, d>>
      BY <1>1, <1>2
    <3>2. e \in seen <=> e[1] # e[2] /\ \E k \in 1 .. scanned : flow[k] = e
      BY DEF Inv, ScanInv
    <3> QED
      BY <1>1, <1>3, <3>1, <3>2
  <2>2. CASE ~new
    <3>1. /\ seen' = seen /\ dag' = dag /\ pc' = "scan"
          /\ flow' = flow /\ scanned' = scanned + 1 /\ Comp' = Comp
      BY <1>1, <1>2, <1>3, <2>2
    <3>2. ScanInv
      BY DEF Inv
    <3> QED
      BY <2>1, <3>1, <3>2 DEF ScanInv
  <2>3. CASE new
    <3>1. /\ \A a, b \in Comp : <<a, b>> \in seen <=> \E k \in 1 .. Len(dag[a]) : dag[a][k] = b
          /\ \A a \in Comp : \A k, l \in 1 .. Len(dag[a]) : dag[a][k] = dag[a][l] => k = l
          /\ dag \in [Comp -> Seq(Comp)]
      BY DEF Inv, ScanInv, TypeOK
    <3>2. /\ \A a \in Comp \ {c} : dag'[a] = dag[a]
          /\ dag'[c] = Append(dag[c], d)
          /\ Len(dag'[c]) = Len(dag[c]) + 1 /\ Len(dag[c]) \in Nat
          /\ \A k \in 1 .. Len(dag[c]) : dag'[c][k] = dag[c][k]
          /\ dag'[c][Len(dag[c]) + 1] = d
      BY <1>1, <1>3, <2>3, <3>1
    <3>3. \A a, b \in Comp : <<a, b>> \in seen' <=> \E k \in 1 .. Len(dag'[a]) : dag'[a][k] = b
      <4> TAKE a, b \in Comp
      <4>1. CASE a # c
        <5>1. dag'[a] = dag[a]
          BY <3>2, <4>1
        <5>2. <<a, b>> \in seen' <=> <<a, b>> \in seen
          BY <1>3, <2>3, <4>1
        <5>3. <<a, b>> \in seen <=> \E k \in 1 .. Len(dag[a]) : dag[a][k] = b
          BY <3>1
        <5> QED
          BY ONLY <5>1, <5>2, <5>3
      <4>2. CASE a = c
        <5>1. (\E k \in 1 .. Len(dag'[c]) : dag'[c][k] = b)
                <=> (\E k \in 1 .. Len(dag[c]) : dag[c][k] = b) \/ b = d
          BY <3>2
        <5> QED
          BY <1>1, <1>3, <2>3, <3>1, <4>2, <5>1
      <4> QED
        BY <4>1, <4>2
    <3>4. \A a \in Comp : \A k, l \in 1 .. Len(dag'[a]) : dag'[a][k] = dag'[a][l] => k = l
      <4> TAKE a \in Comp
      <4>1. CASE a # c
        BY <3>1, <3>2, <4>1
      <4>2. CASE a = c
        <5>1. \A k \in 1 .. Len(dag[c]) : dag[c][k] # d
          BY <1>1, <2>3, <3>1
        <5> SUFFICES ASSUME NEW k \in 1 .. Len(dag'[c]), NEW l \in 1 .. Len(dag'[c]),
                            dag'[c][k] = dag'[c][l]
                     PROVE  k = l
          BY <4>2
        <5>2. k = Len(dag[c]) + 1 \/ k \in 1 .. Len(dag[c])
          BY <3>2
        <5>3. l = Len(dag[c]) + 1 \/ l \in 1 .. Len(dag[c])
          BY <3>2
        <5> QED
          BY <1>1, <3>1, <3>2, <5>1, <5>2, <5>3
      <4> QED
        BY <4>1, <4>2
    <3> QED
      BY <1>1, <1>2, <2>1, <3>3, <3>4 DEF ScanInv
  <2> QED
    BY <2>2, <2>3
<1>6. CountInv'
  <2> SUFFICES ASSUME NEW b \in Comp
               PROVE  indeg'[b] = Cardinality(Pending(b)')
    BY <1>1 DEF CountInv
  <2>1. indeg[b] = Cardinality(Pending(b)) /\ indeg \in [Comp -> Nat]
    BY DEF Inv, CountInv, TypeOK
  <2>2. /\ Pending(b) = {a \in Comp : <<a, b>> \in seen}
        /\ Pending(b)' = {a \in Comp : <<a, b>> \in seen'}
    BY <1>1, <1>2 DEF Pending, Relaxed
  <2>3. CASE ~new \/ b # d
    <3>1. Pending(b)' = Pending(b)
      BY <1>1, <1>3, <2>2, <2>3
    <3> QED
      BY <1>1, <1>3, <2>1, <2>3, <3>1
  <2>4. CASE new /\ b = d
    <3>1. Pending(b)' = Pending(b) \cup {c} /\ c \notin Pending(b)
      BY <1>1, <1>3, <2>2, <2>4
    <3>2. Cardinality(Pending(b)') = Cardinality(Pending(b)) + 1
      BY <1>1, <3>1, PendingFinite, FS_AddElement
    <3> QED
      BY <1>1, <1>3, <2>1, <2>4, <3>2
  <2> QED
    BY <2>3, <2>4
<1>7. QueueInv'
  BY <1>2 DEF QueueInv, Queued
<1>8. FlowInv'
  BY <1>2 DEF FlowInv
<1>9. OrderInv'
  BY <1>2 DEF OrderInv
<1> QED
  BY <1>4, <1>5, <1>6, <1>7, <1>8, <1>9 DEF Inv

(* What a step that only moves on leaves as it was. *)
LEMMA Kept ==
  ASSUME Inv, UNCHANGED <<m, flow, scanned, seen, dag>>, pc # "scan" \/ scanned = Len(flow)
  PROVE  /\ Comp' = Comp
         /\ ScanInv'
         /\ UNCHANGED queue => FlowInv'
         /\ UNCHANGED indeg
              /\ (\A c, d \in Comp : <<c, d>> \in seen => (Relaxed(c, d)' <=> Relaxed(c, d)))
            => CountInv'
<1>1. Comp' = Comp
  BY DEF Comp
<1>2. /\ ScanInv /\ CountInv /\ FlowInv
      /\ scanned = Len(flow)
  BY DEF Inv, ScanInv
<1>3. ScanInv'
  BY <1>1, <1>2 DEF ScanInv
<1>4. UNCHANGED queue => FlowInv'
  BY <1>1, <1>2 DEF FlowInv
<1>5. ASSUME UNCHANGED indeg,
             \A c, d \in Comp : <<c, d>> \in seen => (Relaxed(c, d)' <=> Relaxed(c, d))
      PROVE  CountInv'
  <2> SUFFICES ASSUME NEW d \in Comp
               PROVE  indeg'[d] = Cardinality(Pending(d)')
    BY <1>1 DEF CountInv
  <2>1. Pending(d)' = Pending(d)
    BY <1>1, <1>5 DEF Pending
  <2> QED
    BY <1>2, <1>5, <2>1 DEF CountInv
<1> QED
  BY <1>1, <1>3, <1>4, <1>5

LEMMA ScanDoneStep == Inv /\ ScanDone => Inv'
<1> SUFFICES ASSUME Inv, ScanDone
             PROVE  Inv'
  OBVIOUS
<1>1. /\ pc = "scan" /\ pc' = "seed" /\ scanned = Len(flow)
      /\ UNCHANGED <<m, flow, scanned, seen, dag, indeg, queue, head, di, order, cand>>
  BY DEF ScanDone
<1>2. TypeOK /\ QueueInv /\ OrderInv
  BY DEF Inv
<1>3. Comp' = Comp
  BY <1>1 DEF Comp
<1>4. queue = << >> /\ head = 0 /\ cand = 0 /\ order = << >>
  BY <1>1, <1>2 DEF QueueInv
<1>5. TypeOK'
  BY <1>1, <1>2, <1>3 DEF TypeOK
<1>6. QueueInv'
  BY <1>1, <1>3, <1>4 DEF QueueInv, Queued, Comp
<1>7. OrderInv'
  BY <1>1, <1>4 DEF OrderInv
<1>8. \A c, d \in Comp : Relaxed(c, d)' <=> Relaxed(c, d)
  BY <1>1, <1>4 DEF Relaxed
<1> QED
  BY <1>1, <1>5, <1>6, <1>7, <1>8, Kept DEF Inv

LEMMA SeedStep == Inv /\ Seed => Inv'
<1> SUFFICES ASSUME Inv, Seed
             PROVE  Inv'
  OBVIOUS
<1>1. /\ pc = "seed" /\ pc' = "seed" /\ cand < m /\ cand' = cand + 1
      /\ queue' = IF indeg[cand] = 0 THEN Append(queue, cand) ELSE queue
      /\ UNCHANGED <<m, flow, scanned, seen, dag, indeg, head, di, order>>
  BY DEF Seed
<1>2. TypeOK /\ QueueInv /\ OrderInv /\ FlowInv /\ CountInv
  BY DEF Inv
<1>3. /\ Comp' = Comp /\ cand \in Comp /\ cand \in Nat /\ m \in Nat
      /\ queue \in Seq(Comp) /\ Len(queue) \in Nat
      /\ \A c \in Comp : c \in Nat
  BY <1>1, <1>2 DEF Comp, TypeOK
<1>4. /\ head = 0 /\ order = << >>
      /\ \A c \in Comp : Queued(c) <=> c < cand /\ indeg[c] = 0
      /\ \A i, j \in 1 .. Len(queue) : queue[i] = queue[j] => i = j
  BY <1>1, <1>2 DEF QueueInv
<1>5. \A c, d \in Comp : ~Relaxed(c, d) /\ ~Relaxed(c, d)'
  BY <1>1, <1>4 DEF Relaxed
<1>6. TypeOK'
  <2>1. queue' \in Seq(Comp) /\ Len(queue) <= Len(queue')
    BY <1>1, <1>3
  <2>2. cand' \in 0 .. m
    BY <1>1, <1>3
  <2> QED
    BY <1>1, <1>2, <1>3, <1>4, <2>1, <2>2 DEF TypeOK
<1>7. CASE indeg[cand] # 0
  <2>1. queue' = queue
    BY <1>1, <1>7
  <2>2. \A c \in Comp : Queued(c)' <=> c < cand' /\ indeg'[c] = 0
    <3>1. \A c \in Comp : Queued(c)' <=> Queued(c)
      BY <2>1 DEF Queued
    <3> QED
      BY <1>1, <1>3, <1>4, <1>7, <3>1
  <2>3. QueueInv'
    BY <1>1, <1>3, <1>4, <2>1, <2>2 DEF QueueInv
  <2>4. OrderInv'
    BY <1>1, <1>4 DEF OrderInv
  <2> QED
    BY <1>1, <1>5, <1>6, <2>1, <2>3, <2>4, Kept DEF Inv
<1>8. CASE indeg[cand] = 0
  <2>1. /\ queue' = Append(queue, cand)
        /\ Len(queue') = Len(queue) + 1 /\ queue'[Len(queue) + 1] = cand
        /\ \A i \in 1 .. Len(queue) : queue'[i] = queue[i]
    BY <1>1, <1>3, <1>8
  <2>2. \A i \in 1 .. Len(queue) : queue[i] # cand
    BY <1>3, <1>4 DEF Queued
  <2>3. \A c \in Comp : Queued(c)' <=> Queued(c) \/ c = cand
    BY <1>3, <2>1 DEF Queued
  <2>4. \A c \in Comp : Queued(c)' <=> c < cand' /\ indeg'[c] = 0
    BY <1>1, <1>3, <1>4, <1>8, <2>3
  <2>5. \A i, j \in 1 .. Len(queue') : queue'[i] = queue'[j] => i = j
    <3> SUFFICES ASSUME NEW i \in 1 .. Len(queue'), NEW j \in 1 .. Len(queue'),
                        queue'[i] = queue'[j]
                 PROVE  i = j
      OBVIOUS
    <3>1. i \in 1 .. Len(queue) \/ i = Len(queue) + 1
      BY <1>3, <2>1
    <3>2. j \in 1 .. Len(queue) \/ j = Len(queue) + 1
      BY <1>3, <2>1
    <3> QED
      BY <1>4, <2>1, <2>2, <3>1, <3>2
  <2>6. QueueInv'
    BY <1>1, <1>3, <1>4, <2>4, <2>5 DEF QueueInv
  <2>7. OrderInv'
    BY <1>1, <1>4 DEF OrderInv
  <2>8. FlowInv'
    <3> SUFFICES ASSUME NEW j \in 1 .. Len(queue'), NEW c \in Comp, <<c, queue'[j]>> \in seen
                 PROVE  \E i \in 1 .. j - 1 : queue'[i] = c
      BY <1>1, <1>3 DEF FlowInv
    <3>1. CASE j \in 1 .. Len(queue)
      <4>1. PICK i \in 1 .. j - 1 : queue[i] = c
        BY <1>2, <2>1, <3>1 DEF FlowInv
      <4>2. i \in 1 .. Len(queue)
        BY <1>3, <3>1
      <4> QED
        BY <2>1, <4>1, <4>2
    <3>2. CASE j = Len(queue) + 1
      BY <1>2, <1>3, <1>5, <1>8, <2>1, <3>2, NothingPending
    <3> QED
      BY <1>3, <2>1, <3>1, <3>2
  <2> QED
    BY <1>1, <1>5, <1>6, <2>6, <2>7, <2>8, Kept DEF Inv
<1> QED
  BY <1>7, <1>8

LEMMA SeedDoneStep == Inv /\ SeedDone => Inv'
<1> SUFFICES ASSUME Inv, SeedDone
             PROVE  Inv'
  OBVIOUS
<1>1. /\ pc = "seed" /\ pc' = "next" /\ cand = m
      /\ UNCHANGED <<m, flow, scanned, seen, dag, indeg, queue, head, di, order, cand>>
  BY DEF SeedDone
<1>2. TypeOK /\ QueueInv /\ OrderInv
  BY DEF Inv
<1>3. Comp' = Comp /\ m \in Nat /\ \A c \in Comp : c < m
  BY <1>1, <1>2 DEF Comp, TypeOK
<1>4. /\ head = 0 /\ order = << >>
      /\ \A c \in Comp : Queued(c) <=> c < cand /\ indeg[c] = 0
  BY <1>1, <1>2 DEF QueueInv
<1>5. TypeOK'
  BY <1>1, <1>2, <1>3 DEF TypeOK
<1>6. QueueInv'
  <2>1. \A c \in Comp : Queued(c)' <=> indeg'[c] = 0
    BY <1>1, <1>3, <1>4 DEF Queued
  <2> QED
    BY <1>1, <1>2, <1>3, <2>1 DEF QueueInv
<1>7. OrderInv'
  BY <1>1, <1>4 DEF OrderInv
<1>8. \A c, d \in Comp : Relaxed(c, d)' <=> Relaxed(c, d)
  BY <1>1, <1>4 DEF Relaxed
<1> QED
  BY <1>1, <1>5, <1>6, <1>7, <1>8, Kept DEF Inv

LEMMA VisitStep == Inv /\ Visit => Inv'
<1> SUFFICES ASSUME Inv, Visit
             PROVE  Inv'
  OBVIOUS
<1>1. /\ pc = "next" /\ pc' = "relax" /\ head < Len(queue) /\ head' = head + 1
      /\ order' = Append(order, queue[head + 1]) /\ di' = 1
      /\ UNCHANGED <<m, flow, scanned, seen, dag, indeg, queue, cand>>
  BY DEF Visit
<1>2. TypeOK /\ QueueInv /\ OrderInv
  BY DEF Inv
<1>3. /\ Comp' = Comp /\ queue \in Seq(Comp) /\ order \in Seq(Comp)
      /\ head \in Nat /\ head + 1 \in 1 .. Len(queue) /\ queue[head + 1] \in Comp
  <2>1. Comp' = Comp
    BY <1>1 DEF Comp
  <2>2. queue \in Seq(Comp) /\ order \in Seq(Comp) /\ head \in Nat
    BY <1>2 DEF TypeOK
  <2>3. head + 1 \in 1 .. Len(queue)
    BY <1>1, <2>2
  <2> QED
    BY <2>1, <2>2, <2>3
<1>4. /\ Len(order) = head
      /\ \A i \in 1 .. head : order[i] = queue[i]
      /\ \A i, j \in 1 .. Len(queue) : queue[i] = queue[j] => i = j
  BY <1>1, <1>2 DEF QueueInv, OrderInv
<1>5. /\ order' \in Seq(Comp) /\ Len(order') = head + 1
      /\ order'[head + 1] = queue[head + 1]
      /\ \A i \in 1 .. head : order'[i] = queue[i]
  BY <1>1, <1>3, <1>4
<1>6. TypeOK'
  BY <1>1, <1>2, <1>3, <1>5 DEF TypeOK
<1>7. QueueInv'
  <2>1. \A c \in Comp : Queued(c)' <=> indeg'[c] = 0
    BY <1>1, <1>2 DEF QueueInv, Queued
  <2> QED
    BY <1>1, <1>3, <1>4, <2>1 DEF QueueInv
<1>8. OrderInv'
  <2>1. \A i \in 1 .. Len(order') : order'[i] = queue[i] /\ i \in 1 .. Len(queue)
    BY <1>3, <1>5
  <2>2. \A i, j \in 1 .. Len(order') : order'[i] = order'[j] => i = j
    BY <1>4, <2>1
  <2> QED
    BY <1>1, <1>5, <2>1, <2>2 DEF OrderInv
<1>9. \A c, d \in Comp : Relaxed(c, d)' <=> Relaxed(c, d)
  <2> TAKE c, d \in Comp
  <2>1. Relaxed(c, d) <=> \E i \in 1 .. head : queue[i] = c
    BY <1>1 DEF Relaxed
  <2>2. Relaxed(c, d)' <=> \E i \in 1 .. head + 1 : queue[i] = c /\ i < head + 1
    BY <1>1 DEF Relaxed
  <2> QED
    BY <1>3, <2>1, <2>2
<1> QED
  BY <1>1, <1>6, <1>7, <1>8, <1>9, Kept DEF Inv

LEMMA RelaxStep == Inv /\ Relax => Inv'
<1> SUFFICES ASSUME Inv, Relax
             PROVE  Inv'
  OBVIOUS
<1>0. PICK d : d = dag[visited][di]
  OBVIOUS
<1>1. /\ pc = "relax" /\ pc' = "relax" /\ di <= Len(dag[visited]) /\ di' = di + 1
      /\ indeg' = [indeg EXCEPT ![d] = @ - 1]
      /\ queue' = IF indeg[d] = 1 THEN Append(queue, d) ELSE queue
      /\ UNCHANGED <<m, flow, scanned, seen, dag, head, order, cand>>
  BY <1>0 DEF Relax
<1>2. TypeOK /\ ScanInv /\ CountInv /\ QueueInv /\ FlowInv /\ OrderInv
  BY DEF Inv
<1>3. /\ Comp' = Comp /\ m \in Nat /\ queue \in Seq(Comp) /\ Len(queue) \in Nat
      /\ head \in 1 .. Len(queue) /\ visited \in Comp /\ visited = queue[head]
      /\ di \in Nat \ {0} /\ indeg \in [Comp -> Nat]
  <2>1. Comp' = Comp
    BY <1>1 DEF Comp
  <2>2. /\ m \in Nat /\ queue \in Seq(Comp) /\ Len(queue) \in Nat
        /\ di \in Nat \ {0} /\ indeg \in [Comp -> Nat]
        /\ head \in 0 .. Len(queue)
    BY <1>2 DEF TypeOK
  <2>3. head \in 1 .. Len(queue)
    <3>1. head > 0
      BY <1>1, <1>2 DEF QueueInv
    <3> QED
      BY <2>2, <3>1
  <2> QED
    BY <2>1, <2>2, <2>3 DEF visited
<1>4. /\ dag[visited] \in Seq(Comp) /\ di \in 1 .. Len(dag[visited]) /\ d \in Comp
  <2>1. dag[visited] \in Seq(Comp)
    BY <1>2, <1>3 DEF TypeOK
  <2>2. di \in 1 .. Len(dag[visited])
    BY <1>1, <1>3, <2>1
  <2> QED
    BY <1>0, <2>1, <2>2
<1>5. <<visited, d>> \in seen
  BY <1>0, <1>2, <1>3, <1>4 DEF ScanInv
<1>6. \A k \in 1 .. di - 1 : dag[visited][k] # d
  <2>1. \A k, l \in 1 .. Len(dag[visited]) : dag[visited][k] = dag[visited][l] => k = l
    BY <1>2, <1>3 DEF ScanInv
  <2>2. \A k \in 1 .. di - 1 : k \in 1 .. Len(dag[visited]) /\ k # di
    BY <1>3, <1>4
  <2> QED
    BY <1>0, <1>4, <2>1, <2>2
<1>7. \A i, j \in 1 .. Len(queue) : queue[i] = queue[j] => i = j
  BY <1>2 DEF QueueInv
<1>8. \A i \in 1 .. Len(queue) : queue'[i] = queue[i]
  BY <1>1, <1>3, <1>4
<1>9. \A c, b \in Comp :
        Relaxed(c, b)' <=> Relaxed(c, b) \/ (c = visited /\ b = d)
  <2> TAKE c, b \in Comp
  <2>1. Relaxed(c, b) <=> \E i \in 1 .. head : queue[i] = c
                              /\ (i < head \/ \E k \in 1 .. di - 1 : dag[c][k] = b)
    BY <1>1 DEF Relaxed
  <2>2. Relaxed(c, b)' <=> \E i \in 1 .. head : queue[i] = c
                              /\ (i < head \/ \E k \in 1 .. di : dag[c][k] = b)
    <3>1. Relaxed(c, b)' <=> \E i \in 1 .. head : queue'[i] = c
                              /\ (i < head \/ \E k \in 1 .. (di + 1) - 1 : dag[c][k] = b)
      BY <1>1 DEF Relaxed
    <3>2. (di + 1) - 1 = di /\ \A i \in 1 .. head : queue'[i] = queue[i]
      BY <1>3, <1>8
    <3> QED
      BY <3>1, <3>2
  <2>3. \A k \in 1 .. di : k \in 1 .. di - 1 \/ k = di
    BY <1>3
  <2>4. di \in 1 .. di /\ head \in 1 .. head /\ \A k \in 1 .. di - 1 : k \in 1 .. di
    BY <1>3
  <2>5. dag[visited][di] = d
    BY <1>0
  <2>6. \A i \in 1 .. head : i < head \/ i = head
    BY <1>3
  <2> QED
    BY <1>3, <2>1, <2>2, <2>3, <2>4, <2>5, <2>6
<1>10. ~Relaxed(visited, d)
  <2> SUFFICES ASSUME NEW i \in 1 .. head, queue[i] = visited,
                      i < head \/ \E k \in 1 .. di - 1 : dag[visited][k] = d
               PROVE  FALSE
    BY <1>1 DEF Relaxed
  <2>1. i = head
    BY <1>3, <1>7
  <2> QED
    BY <1>3, <1>6, <2>1
<1>11. /\ visited \in Pending(d)
       /\ Pending(d)' = Pending(d) \ {visited}
       /\ \A b \in Comp \ {d} : Pending(b)' = Pending(b)
  BY <1>1, <1>3, <1>4, <1>5, <1>9, <1>10 DEF Pending
<1>12. indeg[d] >= 1
  <2>1. indeg[d] # 0
    BY <1>2, <1>3, <1>4, <1>5, <1>10, NothingPending
  <2> QED
    BY <1>3, <1>4, <2>1
<1>13. CountInv'
  <2>1. \A b \in Comp : indeg[b] = Cardinality(Pending(b))
    BY <1>2 DEF CountInv
  <2>2. Cardinality(Pending(d) \ {visited}) = Cardinality(Pending(d)) - 1
    BY <1>3, <1>11, PendingFinite, FS_RemoveElement
  <2>3. indeg'[d] = Cardinality(Pending(d)')
    BY <1>1, <1>3, <1>4, <1>11, <2>1, <2>2
  <2>4. \A b \in Comp \ {d} : indeg'[b] = Cardinality(Pending(b)')
    BY <1>1, <1>3, <1>4, <1>11, <2>1
  <2> QED
    BY <1>3, <2>3, <2>4 DEF CountInv
<1>14. indeg' \in [Comp -> Nat] /\ indeg'[d] = indeg[d] - 1
       /\ \A b \in Comp \ {d} : indeg'[b] = indeg[b]
  BY <1>1, <1>3, <1>4, <1>12
<1>15. \A i \in 1 .. Len(queue) : queue[i] # d
  BY <1>1, <1>2, <1>4, <1>12 DEF QueueInv, Queued
<1>16. /\ queue' \in Seq(Comp) /\ Len(queue) <= Len(queue') /\ Len(queue') \in Nat
  BY <1>1, <1>3, <1>4
<1>17. TypeOK'
  <2>1. head' \in 0 .. Len(queue') /\ di' \in Nat \ {0}
    BY <1>1, <1>3, <1>16
  <2> QED
    BY <1>1, <1>2, <1>3, <1>14, <1>16, <2>1 DEF TypeOK
<1>18. OrderInv'
  <2>1. \A i \in 1 .. head : order[i] = queue'[i]
    BY <1>2, <1>3, <1>8 DEF OrderInv
  <2> QED
    BY <1>1, <1>2, <2>1 DEF OrderInv
<1>19. QueueInv' /\ FlowInv'
  <2>1. CASE indeg[d] # 1
    <3>1. queue' = queue /\ \A c \in Comp : indeg'[c] = 0 <=> indeg[c] = 0
      BY <1>1, <1>3, <1>4, <1>12, <1>14, <2>1
    <3>2. \A c \in Comp : Queued(c)' <=> indeg'[c] = 0
      BY <1>1, <1>2, <3>1 DEF QueueInv, Queued
    <3>3. QueueInv'
      BY <1>1, <1>3, <1>7, <3>1, <3>2 DEF QueueInv
    <3> QED
      BY <1>1, <1>2, <1>3, <3>1, <3>3 DEF FlowInv
  <2>2. CASE indeg[d] = 1
    <3>1. Len(queue') = Len(queue) + 1 /\ queue'[Len(queue) + 1] = d
      BY <1>1, <1>3, <1>4, <2>2
    <3>2. \A i \in 1 .. Len(queue') : i \in 1 .. Len(queue) \/ i = Len(queue) + 1
      BY <1>3, <3>1
    <3>3. Len(queue) + 1 \in 1 .. Len(queue') /\ \A i \in 1 .. Len(queue) : i \in 1 .. Len(queue')
      BY <1>3, <3>1
    <3>4. \A c \in Comp : Queued(c)' <=> Queued(c) \/ c = d
      BY <1>8, <3>1, <3>2, <3>3 DEF Queued
    <3>5. indeg'[d] = 0
      BY <1>14, <2>2
    <3>6. \A c \in Comp : Queued(c)' <=> indeg'[c] = 0
      BY <1>1, <1>2, <1>14, <3>4, <3>5 DEF QueueInv
    <3>7. \A i, j \in 1 .. Len(queue') : queue'[i] = queue'[j] => i = j
      <4> TAKE i, j \in 1 .. Len(queue')
      <4>1. i \in 1 .. Len(queue) \/ i = Len(queue) + 1
        BY <3>2
      <4>2. j \in 1 .. Len(queue) \/ j = Len(queue) + 1
        BY <3>2
      <4> QED
        BY <1>7, <1>8, <1>15, <3>1, <4>1, <4>2
    <3>8. QueueInv'
      BY <1>1, <1>3, <3>6, <3>7 DEF QueueInv
    <3>9. FlowInv'
      <4> SUFFICES ASSUME NEW j \in 1 .. Len(queue'), NEW c \in Comp, <<c, queue'[j]>> \in seen
                   PROVE  \E i \in 1 .. j - 1 : queue'[i] = c
        <5>1. seen' = seen /\ Comp' = Comp
          BY <1>1, <1>3
        <5> QED
          BY <5>1 DEF FlowInv
      <4>1. CASE j \in 1 .. Len(queue)
        <5>1. PICK i \in 1 .. j - 1 : queue[i] = c
          BY <1>2, <1>8, <4>1 DEF FlowInv
        <5>2. i \in 1 .. Len(queue)
          BY <1>3, <4>1
        <5> QED
          BY <1>8, <5>1, <5>2
      <4>2. CASE j = Len(queue) + 1
        <5>1. Relaxed(c, d)'
          <6>1. Pending(d)' = {}
            <7>1. Cardinality(Pending(d)') = 0
              BY <1>3, <1>4, <1>13, <3>5 DEF CountInv
            <7>2. IsFiniteSet(Pending(d) \ {visited})
              BY <1>3, PendingFinite, FS_RemoveElement
            <7> QED
              BY <1>11, <7>1, <7>2, FS_EmptySet
          <6> QED
            BY <1>1, <1>3, <3>1, <4>2, <6>1 DEF Pending
        <5>2. PICK i \in 1 .. head : queue'[i] = c
          BY <1>1, <5>1 DEF Relaxed
        <5> QED
          BY <1>3, <4>2, <5>2
      <4> QED
        BY <3>2, <4>1, <4>2
    <3> QED
      BY <3>8, <3>9
  <2> QED
    BY <2>1, <2>2
<1> QED
  BY <1>1, <1>13, <1>17, <1>18, <1>19, Kept DEF Inv

LEMMA VisitDoneStep == Inv /\ VisitDone => Inv'
<1> SUFFICES ASSUME Inv, VisitDone
             PROVE  Inv'
  OBVIOUS
<1>1. /\ pc = "relax" /\ pc' = "next" /\ di > Len(dag[visited])
      /\ UNCHANGED <<m, flow, scanned, seen, dag, indeg, queue, head, di, order, cand>>
  BY DEF VisitDone
<1>2. TypeOK /\ ScanInv /\ QueueInv /\ OrderInv
  BY DEF Inv
<1>3. Comp' = Comp
  BY <1>1 DEF Comp
<1>4. TypeOK'
  BY <1>1, <1>2, <1>3 DEF TypeOK
<1>5. QueueInv'
  <2>1. \A c \in Comp : Queued(c)' <=> indeg'[c] = 0
    BY <1>1, <1>2 DEF QueueInv, Queued
  <2> QED
    BY <1>1, <1>2, <1>3, <2>1 DEF QueueInv
<1>6. OrderInv'
  BY <1>1, <1>2 DEF OrderInv
<1>7. \A c, d \in Comp : <<c, d>> \in seen => (Relaxed(c, d)' <=> Relaxed(c, d))
  <2> SUFFICES ASSUME NEW c \in Comp, NEW d \in Comp, <<c, d>> \in seen
               PROVE  Relaxed(c, d)' <=> Relaxed(c, d)
    OBVIOUS
  <2>1. PICK k \in 1 .. Len(dag[c]) : dag[c][k] = d
    BY <1>2 DEF ScanInv
  <2>2. head \in Nat /\ di \in Nat /\ dag[c] \in Seq(Comp)
    BY <1>2 DEF TypeOK
  <2>3. c = visited => k \in 1 .. di - 1
    BY <1>1, <2>1, <2>2
  <2>4. Relaxed(c, d) <=> \E i \in 1 .. head : queue[i] = c
                            /\ (i < head \/ \E l \in 1 .. di - 1 : dag[c][l] = d)
    BY <1>1 DEF Relaxed
  <2>5. Relaxed(c, d)' <=> \E i \in 1 .. head : queue[i] = c
    BY <1>1 DEF Relaxed
  <2>6. \A i \in 1 .. head : i < head \/ i = head
    BY <2>2
  <2> QED
    BY <2>1, <2>3, <2>4, <2>5, <2>6 DEF visited
<1> QED
  BY <1>1, <1>4, <1>5, <1>6, <1>7, Kept DEF Inv

(* An order without repetition that is as long as there are components has *)
(* all of them.                                                            *)
LEMMA FullOrder ==
  ASSUME m \in Nat, order \in Seq(Comp), Len(order) >= m,
         \A i, j \in 1 .. Len(order) : order[i] = order[j] => i = j
  PROVE  Comp \subseteq Placed
<1>1. /\ IsFiniteSet(Comp) /\ Cardinality(Comp) = m
      /\ IsFiniteSet(1 .. Len(order)) /\ Cardinality(1 .. Len(order)) = Len(order)
  <2>1. /\ 0 \in Int /\ m - 1 \in Int /\ 1 \in Int /\ Len(order) \in Int /\ Len(order) >= 0
    OBVIOUS
  <2>2. IsFiniteSet(Comp) /\ Cardinality(Comp) = m
    <3>1. /\ IsFiniteSet(0 .. m - 1)
          /\ Cardinality(0 .. m - 1) = IF 0 > m - 1 THEN 0 ELSE (m - 1) - 0 + 1
      BY <2>1, FS_Interval
    <3> QED
      BY <3>1 DEF Comp
  <2>3. /\ IsFiniteSet(1 .. Len(order))
        /\ Cardinality(1 .. Len(order)) = IF 1 > Len(order) THEN 0 ELSE Len(order) - 1 + 1
    BY <2>1, FS_Interval
  <2> QED
    BY <2>1, <2>2, <2>3
<1>2. order \in [1 .. Len(order) -> Comp]
  OBVIOUS
<1>3. order \in Injection(1 .. Len(order), Comp)
  BY <1>2 DEF Injection, IsInjective
<1>4. order \in Surjection(1 .. Len(order), Comp)
  BY <1>1, <1>3, FS_Injection
<1> QED
  BY <1>4 DEF Surjection, Placed

(* A component is placed once: the order is no longer than the graph.      *)
LEMMA OrderFits ==
  ASSUME Inv
  PROVE  m \in Nat /\ order \in Seq(Comp) /\ Len(order) <= m
<1>1. /\ m \in Nat /\ order \in Seq(Comp) /\ Len(order) \in Nat
      /\ \A i, j \in 1 .. Len(order) : order[i] = order[j] => i = j
  BY DEF Inv, TypeOK, OrderInv
<1>2. Len(order) <= m
  <2>1. /\ IsFiniteSet(0 .. m - 1)
        /\ Cardinality(0 .. m - 1) = IF 0 > m - 1 THEN 0 ELSE (m - 1) - 0 + 1
    <3>1. 0 \in Int /\ m - 1 \in Int
      BY <1>1
    <3> QED
      BY <3>1, FS_Interval
  <2>2. IsFiniteSet(Comp) /\ Cardinality(Comp) = m
    BY <1>1, <2>1 DEF Comp
  <2>3. /\ IsFiniteSet(1 .. Len(order))
        /\ Cardinality(1 .. Len(order)) = IF 1 > Len(order) THEN 0 ELSE Len(order) - 1 + 1
    <3>1. 1 \in Int /\ Len(order) \in Int
      BY <1>1
    <3> QED
      BY <3>1, FS_Interval
  <2>4. Cardinality(1 .. Len(order)) = Len(order)
    BY <1>1, <2>3
  <2>5. order \in [1 .. Len(order) -> Comp]
    BY <1>1
  <2>6. order \in Injection(1 .. Len(order), Comp)
    BY <1>1, <2>5 DEF Injection, IsInjective
  <2>7. Cardinality(1 .. Len(order)) <= Cardinality(Comp)
    BY <2>2, <2>6, FS_Injection
  <2> QED
    BY <1>1, <2>2, <2>4, <2>7
<1> QED
  BY <1>1, <1>2

LEMMA QueueEmptyStep == Inv /\ QueueEmpty => Inv'
<1> SUFFICES ASSUME Inv, QueueEmpty
             PROVE  Inv'
  OBVIOUS
<1>1. /\ pc = "next" /\ cand' = 0
      /\ pc' = IF Len(order) < m THEN "rest" ELSE "done"
      /\ UNCHANGED <<m, flow, scanned, seen, dag, indeg, queue, head, di, order>>
  BY DEF QueueEmpty
<1>2. TypeOK /\ QueueInv /\ OrderInv
  BY DEF Inv
<1>3. Comp' = Comp /\ m \in Nat /\ order \in Seq(Comp) /\ \A c \in Comp : ~(c < 0)
  <2>1. m \in Nat /\ order \in Seq(Comp)
    BY <1>2 DEF TypeOK
  <2> QED
    BY <1>1, <2>1 DEF Comp
<1>4. pc' \in {"rest", "done"} /\ (pc' = "done" => Len(order) >= m)
  BY <1>1, <1>3
<1>5. TypeOK'
  <2>1. cand' \in 0 .. m
    BY <1>1, <1>3
  <2> QED
    BY <1>1, <1>2, <1>3, <1>4, <2>1 DEF TypeOK
<1>6. QueueInv'
  <2>1. \A c \in Comp : Queued(c)' <=> indeg'[c] = 0
    BY <1>1, <1>2 DEF QueueInv, Queued
  <2> QED
    BY <1>1, <1>2, <1>3, <1>4, <2>1 DEF QueueInv
<1>7. OrderInv'
  <2>1. \A i, j \in 1 .. Len(order) : order[i] = order[j] => i = j
    BY <1>2 DEF OrderInv
  <2>2. pc' = "done" => Comp \subseteq Placed
    BY <1>3, <1>4, <2>1, FullOrder
  <2>3. Placed' = Placed
    BY <1>1 DEF Placed
  <2> QED
    BY <1>1, <1>2, <1>3, <1>4, <2>2, <2>3 DEF OrderInv
<1>8. \A c, d \in Comp : Relaxed(c, d)' <=> Relaxed(c, d)
  BY <1>1, <1>4 DEF Relaxed
<1> QED
  BY <1>1, <1>5, <1>6, <1>7, <1>8, Kept DEF Inv

LEMMA AppendRestStep == Inv /\ AppendRest => Inv'
<1> SUFFICES ASSUME Inv, AppendRest
             PROVE  Inv'
  OBVIOUS
<1>1. /\ pc = "rest" /\ pc' = "rest" /\ cand < m /\ cand' = cand + 1
      /\ order' = IF cand \in Placed THEN order ELSE Append(order, cand)
      /\ UNCHANGED <<m, flow, scanned, seen, dag, indeg, queue, head, di>>
  BY DEF AppendRest
<1>2. TypeOK /\ QueueInv /\ OrderInv
  BY DEF Inv
<1>3. /\ Comp' = Comp /\ m \in Nat /\ cand \in Nat /\ cand' \in 0 .. m /\ cand \in Comp
      /\ order \in Seq(Comp) /\ Len(order) \in Nat /\ head \in Nat
      /\ \A c \in Comp : c \in Nat
  <2>1. /\ m \in Nat /\ cand \in 0 .. m /\ order \in Seq(Comp) /\ head \in Nat
    BY <1>2 DEF TypeOK
  <2> QED
    BY <1>1, <2>1 DEF Comp
<1>4. /\ head <= Len(order)
      /\ \A i \in 1 .. head : order[i] = queue[i]
      /\ \A i, j \in 1 .. Len(order) : order[i] = order[j] => i = j
      /\ \A c \in Comp : c < cand => c \in Placed
  BY <1>1, <1>2 DEF OrderInv
<1>5. /\ order' \in Seq(Comp) /\ Len(order) <= Len(order')
      /\ \A i \in 1 .. Len(order) : order'[i] = order[i]
      /\ Placed' = Placed \cup {cand}
      /\ \A i, j \in 1 .. Len(order') : order'[i] = order'[j] => i = j
  <2>1. CASE cand \in Placed
    BY <1>1, <1>3, <1>4, <2>1 DEF Placed
  <2>2. CASE cand \notin Placed
    <3>1. /\ order' = Append(order, cand) /\ order' \in Seq(Comp)
          /\ Len(order') = Len(order) + 1 /\ order'[Len(order) + 1] = cand
          /\ \A i \in 1 .. Len(order) : order'[i] = order[i]
      BY <1>1, <1>3, <2>2
    <3>2. \A i \in 1 .. Len(order') : i \in 1 .. Len(order) \/ i = Len(order) + 1
      BY <1>3, <3>1
    <3>3. /\ Len(order) + 1 \in 1 .. Len(order')
          /\ \A i \in 1 .. Len(order) : i \in 1 .. Len(order')
      BY <1>3, <3>1
    <3>4. \A i \in 1 .. Len(order) : order[i] # cand
      BY <2>2 DEF Placed
    <3>5. Placed' = Placed \cup {cand}
      BY <3>1, <3>2, <3>3 DEF Placed
    <3>6. \A i, j \in 1 .. Len(order') : order'[i] = order'[j] => i = j
      <4> TAKE i, j \in 1 .. Len(order')
      <4>1. i \in 1 .. Len(order) \/ i = Len(order) + 1
        BY <3>2
      <4>2. j \in 1 .. Len(order) \/ j = Len(order) + 1
        BY <3>2
      <4> QED
        BY <1>4, <3>1, <3>4, <4>1, <4>2
    <3> QED
      BY <1>3, <3>1, <3>5, <3>6
  <2> QED
    BY <2>1, <2>2
<1>6. TypeOK'
  BY <1>1, <1>2, <1>3, <1>5 DEF TypeOK
<1>7. QueueInv'
  <2>1. \A c \in Comp : Queued(c)' <=> indeg'[c] = 0
    BY <1>1, <1>2 DEF QueueInv, Queued
  <2> QED
    BY <1>1, <1>2, <1>3, <2>1 DEF QueueInv
<1>8. OrderInv'
  <2>1. /\ head <= Len(order') /\ \A i \in 1 .. head : order'[i] = queue[i]
    BY <1>3, <1>4, <1>5
  <2>2. \A c \in Comp : c < cand' => c \in Placed'
    BY <1>1, <1>3, <1>4, <1>5
  <2> QED
    BY <1>1, <1>3, <1>5, <2>1, <2>2 DEF OrderInv
<1>9. \A c, d \in Comp : Relaxed(c, d)' <=> Relaxed(c, d)
  BY <1>1 DEF Relaxed
<1> QED
  BY <1>1, <1>6, <1>7, <1>8, <1>9, Kept DEF Inv

LEMMA RestDoneStep == Inv /\ RestDone => Inv'
<1> SUFFICES ASSUME Inv, RestDone
             PROVE  Inv'
  OBVIOUS
<1>1. /\ pc = "rest" /\ pc' = "done" /\ cand = m
      /\ UNCHANGED <<m, flow, scanned, seen, dag, indeg, queue, head, di, order, cand>>
  BY DEF RestDone
<1>2. TypeOK /\ QueueInv /\ OrderInv
  BY DEF Inv
<1>3. Comp' = Comp /\ \A c \in Comp : c < m
  <2>1. m \in Nat
    BY <1>2 DEF TypeOK
  <2> QED
    BY <1>1, <2>1 DEF Comp
<1>4. TypeOK'
  BY <1>1, <1>2, <1>3 DEF TypeOK
<1>5. QueueInv'
  <2>1. \A c \in Comp : Queued(c)' <=> indeg'[c] = 0
    BY <1>1, <1>2 DEF QueueInv, Queued
  <2> QED
    BY <1>1, <1>2, <1>3, <2>1 DEF QueueInv
<1>6. OrderInv'
  <2>1. Comp \subseteq Placed /\ Placed' = Placed
    BY <1>1, <1>2, <1>3 DEF OrderInv, Placed
  <2> QED
    BY <1>1, <1>2, <1>3, <2>1 DEF OrderInv
<1>7. \A c, d \in Comp : Relaxed(c, d)' <=> Relaxed(c, d)
  BY <1>1 DEF Relaxed
<1> QED
  BY <1>1, <1>4, <1>5, <1>6, <1>7, Kept DEF Inv

-----------------------------------------------------------------------------
LEMMA StutterStep == Inv /\ UNCHANGED vars => Inv'
<1> SUFFICES ASSUME Inv, UNCHANGED vars
             PROVE  Inv'
  OBVIOUS
<1>1. UNCHANGED <<m, flow, scanned, seen, dag, indeg, queue, head, di, order, cand, pc>>
  BY DEF vars
<1>2. TypeOK' /\ ScanInv' /\ FlowInv'
  <2>1. Comp' = Comp
    BY <1>1 DEF Comp
  <2>2. TypeOK /\ ScanInv /\ FlowInv
    BY DEF Inv
  <2>3. TypeOK'
    BY <1>1, <2>1, <2>2 DEF TypeOK
  <2>4. ScanInv'
    BY <1>1, <2>1, <2>2 DEF ScanInv
  <2>5. FlowInv'
    BY <1>1, <2>1, <2>2 DEF FlowInv
  <2> QED
    BY <2>3, <2>4, <2>5
<1>3. QueueInv' /\ OrderInv'
  BY <1>1 DEF Inv, QueueInv, OrderInv, Queued, Placed, Comp
<1>4. CountInv'
  <2>1. Comp' = Comp /\ \A c, d : Relaxed(c, d)' <=> Relaxed(c, d)
    BY <1>1 DEF Comp, Relaxed
  <2>2. \A d : Pending(d)' = Pending(d)
    BY <1>1, <2>1 DEF Pending
  <2> QED
    BY <1>1, <2>1, <2>2 DEF Inv, CountInv
<1> QED
  BY <1>2, <1>3, <1>4 DEF Inv

LEMMA StepInv == Inv /\ [Next]_vars => Inv'
BY ScanEdgeStep, ScanDoneStep, SeedStep, SeedDoneStep, VisitStep, RelaxStep,
   VisitDoneStep, QueueEmptyStep, AppendRestStep, RestDoneStep, StutterStep
   DEF Next, Step, Terminated

LEMMA Invariance == Spec => []Inv
BY InitInv, StepInv, PTL DEF Spec

(* No in-degree is decremented below 0, which would panic or wrap in the   *)
(* code (indeg is usize), and every index stays in range (topo_order).     *)
THEOREM TypeCorrect == Spec => []TypeOK
<1>1. Inv => TypeOK
  BY DEF Inv
<1> QED
  BY <1>1, Invariance, PTL

(* topo_order yields every component exactly once, edges with repetitions  *)
(* and graphs with cycles included.                                        *)
THEOREM PermutationCorrect == Spec => []OrderIsPermutation
<1>1. Inv => OrderIsPermutation
  <2> SUFFICES ASSUME Inv
               PROVE  OrderIsPermutation
    OBVIOUS
  <2>1. TypeOK /\ OrderInv
    BY DEF Inv
  <2>2. Placed \subseteq Comp
    BY <2>1 DEF TypeOK, Placed
  <2> QED
    BY <2>1, <2>2 DEF OrderInv, OrderIsPermutation
<1> QED
  BY <1>1, Invariance, PTL

-----------------------------------------------------------------------------
(* When no cycle keeps a component from the queue.                         *)

(* What follows the queue begins when the queue is used up. *)
Drained == pc \in {"rest", "done"} => head = Len(queue)

LEMMA InitDrained == Init => Drained
BY DEF Init, Start, Drained

LEMMA StepDrained == Inv /\ Drained /\ [Next]_vars => Drained'
<1> SUFFICES ASSUME Inv, Drained, [Next]_vars
             PROVE  Drained'
  OBVIOUS
<1>1. CASE QueueEmpty
  BY <1>1 DEF QueueEmpty, Drained
<1>2. CASE AppendRest \/ RestDone \/ Terminated \/ UNCHANGED vars
  BY <1>2 DEF AppendRest, RestDone, Terminated, vars, Drained
<1>3. CASE ScanEdge \/ ScanDone \/ Seed \/ SeedDone \/ Visit \/ Relax \/ VisitDone
  BY <1>3 DEF ScanEdge, ScanDone, Seed, SeedDone, Visit, Relax, VisitDone, Drained
<1> QED
  BY <1>1, <1>2, <1>3 DEF Next, Step

(* Edges that only lead to smaller numbers, as those of the condensation   *)
(* do, leave nothing out of the queue: the whole order respects them.      *)
LEMMA WhenDescending ==
  ASSUME Inv, Drained, pc = "done", \A e \in Flows : e[2] <= e[1]
  PROVE  /\ \A c \in Comp : \E j \in 1 .. Len(order) : order[j] = c
         /\ \A i, j \in 1 .. Len(order) : order[i] = order[j] => i = j
         /\ \A j \in 1 .. Len(order) : \A e \in Flows :
              e[2] = order[j] /\ e[1] # e[2] => \E i \in 1 .. j - 1 : order[i] = e[1]
<1>1. TypeOK /\ ScanInv /\ CountInv /\ QueueInv /\ FlowInv /\ OrderInv
  BY DEF Inv
<1>2. /\ m \in Nat /\ flow \in Seq(Comp \X Comp) /\ queue \in Seq(Comp)
      /\ order \in Seq(Comp) /\ head = Len(queue) /\ Len(queue) \in Nat
      /\ Len(order) \in Nat /\ scanned = Len(flow)
  BY <1>1 DEF TypeOK, Drained, ScanInv
<1>3. \A c, d \in Comp : <<c, d>> \in seen <=> c # d /\ <<c, d>> \in Flows
  <2> TAKE c, d \in Comp
  <2>1. \A e \in Comp \X Comp :
          e \in seen <=> e[1] # e[2] /\ \E k \in 1 .. Len(flow) : flow[k] = e
    BY <1>1, <1>2 DEF ScanInv
  <2>2. <<c, d>> \in Comp \X Comp /\ <<c, d>>[1] = c /\ <<c, d>>[2] = d
    OBVIOUS
  <2>3. <<c, d>> \in Flows <=> \E k \in 1 .. Len(flow) : flow[k] = <<c, d>>
    BY DEF Flows
  <2> DEFINE e == <<c, d>>
  <2>4. e \in Comp \X Comp /\ e[1] = c /\ e[2] = d
    BY <2>2
  <2>5. e \in Flows <=> \E k \in 1 .. Len(flow) : flow[k] = e
    BY <2>3
  <2> HIDE DEF e
  <2>6. e \in seen <=> c # d /\ e \in Flows
    BY <2>1, <2>4, <2>5
  <2> QED
    BY <2>6 DEF e
<1>4. \A c \in Comp : Queued(c) <=> indeg[c] = 0
  BY <1>1 DEF QueueInv
<1>5. \A c, d \in Comp : Queued(c) => Relaxed(c, d)
  BY <1>2 DEF Queued, Relaxed
<1>6. ASSUME NEW c \in Comp, \A b \in Comp : b > c => Queued(b)
      PROVE  Queued(c)
  <2>1. \A b \in Comp : <<b, c>> \in seen => b # c /\ c <= b
    BY <1>3
  <2>2. \A b \in Comp : <<b, c>> \in seen => b > c
    BY <2>1, <1>2 DEF Comp
  <2>3. \A b \in Comp : <<b, c>> \in seen => Relaxed(b, c)
    BY <1>5, <1>6, <2>2
  <2> QED
    BY <1>1, <1>4, <2>3, NothingPending
<1>7. \A c \in Comp : Queued(c)
  <2> DEFINE S == {k \in Nat : \A c \in Comp : c + k >= m => Queued(c)}
  <2>1. 0 \in S
    BY <1>2 DEF Comp
  <2>2. \A k \in Nat : k \in S => k + 1 \in S
    <3> SUFFICES ASSUME NEW k \in Nat, \A c \in Comp : c + k >= m => Queued(c),
                        NEW c \in Comp, c + (k + 1) >= m
                 PROVE  Queued(c)
      OBVIOUS
    <3>1. \A b \in Comp : b > c => b + k >= m
      BY <1>2 DEF Comp
    <3> QED
      BY <1>6, <3>1
  <2>3. Nat \subseteq S
    <3> HIDE DEF S
    <3> QED
      BY <2>1, <2>2, SetInduction
  <2>4. m \in S
    BY <1>2, <2>3
  <2> QED
    BY <1>2, <2>4 DEF Comp
<1>8. /\ head <= Len(order)
      /\ \A i \in 1 .. head : order[i] = queue[i]
      /\ \A i, j \in 1 .. Len(order) : order[i] = order[j] => i = j
  BY <1>1 DEF OrderInv
<1>9. \A j \in 1 .. Len(order) : j \in 1 .. head
  <2> TAKE j \in 1 .. Len(order)
  <2>1. order[j] \in Comp
    BY <1>2
  <2>2. PICK i \in 1 .. Len(queue) : queue[i] = order[j]
    BY <1>7, <2>1 DEF Queued
  <2>3. i \in 1 .. Len(order) /\ order[i] = order[j]
    BY <1>2, <1>8, <2>2
  <2> QED
    BY <1>2, <1>8, <2>3
<1>10. \A c \in Comp : \E j \in 1 .. Len(order) : order[j] = c
  <2> TAKE c \in Comp
  <2>1. PICK i \in 1 .. Len(queue) : queue[i] = c
    BY <1>7 DEF Queued
  <2>2. i \in 1 .. Len(order) /\ order[i] = c
    BY <1>2, <1>8, <2>1
  <2> QED
    BY <2>2
<1>11. ASSUME NEW j \in 1 .. Len(order), NEW e \in Flows, e[2] = order[j], e[1] # e[2]
       PROVE  \E i \in 1 .. j - 1 : order[i] = e[1]
  <2>1. e \in Comp \X Comp
    BY <1>2 DEF Flows
  <2>2. e = <<e[1], e[2]>> /\ e[1] \in Comp /\ e[2] \in Comp
    BY <2>1
  <2>3. j \in 1 .. Len(queue) /\ queue[j] = e[2]
    BY <1>2, <1>8, <1>9, <1>11
  <2>4. <<e[1], queue[j]>> \in seen
    BY <1>3, <1>11, <2>2, <2>3
  <2>5. PICK i \in 1 .. j - 1 : queue[i] = e[1]
    BY <1>1, <2>2, <2>3, <2>4 DEF FlowInv
  <2>6. i \in 1 .. head
    BY <1>2, <2>3
  <2> QED
    BY <1>8, <2>5, <2>6
<1> QED
  BY <1>8, <1>10, <1>11

(* A component the queue placed comes after every component that flows     *)
(* into it (the comment on topo_order), and where edges lead to smaller    *)
(* numbers every component does.                                           *)
THEOREM FlowRespected == Spec => []OrderRespectsFlow
<1>1. ASSUME Inv, NEW j \in 1 .. head
      PROVE  FollowsInputs(j)
  <2> SUFFICES ASSUME NEW e \in Flows, e[2] = order[j], e[1] # e[2]
               PROVE  \E i \in 1 .. j - 1 : order[i] = e[1]
    BY DEF FollowsInputs
  <2>1. TypeOK /\ ScanInv /\ QueueInv /\ FlowInv /\ OrderInv
    BY <1>1 DEF Inv
  <2>2. /\ head \in 0 .. Len(queue) /\ flow \in Seq(Comp \X Comp)
        /\ queue \in Seq(Comp)
    BY <2>1 DEF TypeOK
  <2>3. /\ j \in 1 .. Len(queue) /\ j \in Nat /\ head # 0
        /\ \A i \in 1 .. j - 1 : i \in 1 .. head
    BY <2>2
  <2>4. scanned = Len(flow)
    BY <2>1, <2>3 DEF ScanInv, QueueInv
  <2>5. e \in Comp \X Comp /\ \E k \in 1 .. scanned : flow[k] = e
    BY <2>2, <2>4 DEF Flows
  <2>6. <<e[1], queue[j]>> \in seen /\ e[1] \in Comp
    <3>1. e \in seen
      BY <2>1, <2>5 DEF ScanInv
    <3>2. queue[j] = e[2]
      BY <2>1 DEF OrderInv
    <3> QED
      BY <2>5, <3>1, <3>2
  <2>7. PICK i \in 1 .. j - 1 : queue[i] = e[1]
    BY <2>1, <2>3, <2>6 DEF FlowInv
  <2> QED
    BY <2>1, <2>3, <2>7 DEF OrderInv
<1>2. ASSUME Inv, Drained, pc = "done", Descending, NEW j \in 1 .. Len(order)
      PROVE  FollowsInputs(j)
  BY <1>2, WhenDescending DEF FollowsInputs, Descending
<1>3. Inv /\ Drained => OrderRespectsFlow
  BY <1>1, <1>2 DEF OrderRespectsFlow
<1>4. Spec => []Drained
  BY Invariance, InitDrained, StepDrained, PTL DEF Spec
<1> QED
  BY <1>3, <1>4, Invariance, PTL
=============================================================================
