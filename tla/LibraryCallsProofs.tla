------------------------- MODULE LibraryCallsProofs -------------------------
(***************************************************************************)
(* The models of the library calls, for any pool of calls, any buffers and *)
(* any sentinel: what a program can do to its strings and numbers lies in  *)
(* the ranges that the walker's constraints are solved to, and a string    *)
(* written past the end of a buffer is reported.                           *)
(***************************************************************************)
EXTENDS LibraryCalls, Lemmas

-----------------------------------------------------------------------------
(* The numbers in a range.                                                 *)

LEMMA InFull ==
  ASSUME NEW r \in Interval, NEW n \in Int, In(n, r)
  PROVE  ~IsEmpty(r)
BY IntervalFacts, EndpointFacts DEF In, IsEmpty

(* A range has no gaps. *)
LEMMA InBetween ==
  ASSUME NEW r \in Interval, NEW a \in Int, NEW b \in Int, In(a, r), In(b, r),
         NEW n \in Int, a <= n, n <= b
  PROVE  In(n, r)
BY IntervalFacts, EndpointFacts DEF In

LEMMA InWider ==
  ASSUME NEW x \in Interval, NEW y \in Interval, Leq(x, y), NEW n \in Int, In(n, x)
  PROVE  In(n, y)
<1>1. ~IsEmpty(x)
  BY InFull
<1> QED
  BY <1>1, IntervalFacts, EndpointFacts DEF In, Leq

LEMMA LowWider ==
  ASSUME NEW x \in Interval, NEW y \in Interval, Leq(x, y), NEW n \in Int, In(n, x)
  PROVE  y.lo <= x.lo
BY InFull DEF Leq

(* A number that is not negative is added to a range: from below, the      *)
(* range it comes from must not have run off to the sentinel.              *)
LEMMA AddHolds ==
  ASSUME NEW x \in Interval, NEW y \in Interval, NEW a \in Int, NEW b \in Nat,
         In(a, x), In(b, y), a > NEGINF, a >= 0 \/ y.lo < INF
  PROVE  In(a + b, Add(x, y))
<1> DEFINE lo == AddEp(x.lo, y.lo, NEGINF)
           hi == AddEp(x.hi, y.hi, INF)
<1>0. ~IsEmpty(x) /\ ~IsEmpty(y)
  BY InFull
<1>1. lo = NEGINF \/ lo <= a + b
  <2>1. CASE Finite(x.lo) /\ Finite(y.lo)
    BY <2>1, IntervalFacts, EndpointFacts, ClampFacts DEF In, AddEp, Finite
  <2>2. CASE ~(Finite(x.lo) /\ Finite(y.lo))
    BY <2>2, IntervalFacts, EndpointFacts DEF In, AddEp, Finite, InfSign
  <2> QED
    BY <2>1, <2>2
<1>2. hi = INF \/ a + b <= hi
  <2>1. CASE Finite(x.hi) /\ Finite(y.hi)
    BY <2>1, IntervalFacts, EndpointFacts, ClampFacts DEF In, AddEp, Finite
  <2>2. CASE ~(Finite(x.hi) /\ Finite(y.hi))
    BY <2>2, IntervalFacts, EndpointFacts DEF In, AddEp, Finite, InfSign
  <2> QED
    BY <2>1, <2>2
<1>3. Add(x, y) = [lo |-> lo, hi |-> hi] /\ lo \in Int /\ hi \in Int
  BY <1>0, IntervalFacts, EndpointFacts, AddEpType DEF Add
<1> QED
  BY <1>1, <1>2, <1>3 DEF In

LEMMA MulHolds ==
  ASSUME NEW c \in Nat, NEW y \in Interval, NEW n \in Nat, In(n, y)
  PROVE  In(c * n, Mul(c, y))
<1>0. ~IsEmpty(y) /\ y.hi > NEGINF
  BY InFull, IntervalFacts, EndpointFacts DEF In
<1>1. CASE c = 0
  <2>1. c * n = 0 /\ Mul(c, y) = Singleton(0)
    BY <1>0, <1>1 DEF Mul
  <2> QED
    BY <2>1, SingletonContains
<1>2. CASE c # 0 /\ y.lo < INF
  BY <1>0, <1>2, MulContains DEF Proper
<1>3. CASE c # 0 /\ y.lo >= INF
  <2>1. y.lo = INF /\ y.hi = INF /\ n >= INF
    BY <1>0, <1>3, IntervalFacts, EndpointFacts DEF In, IsEmpty
  <2>2. MulEp(c, y.lo) = INF /\ MulEp(c, y.hi) = INF
    BY <1>3, <2>1, EndpointFacts DEF MulEp, Finite, InfSign
  <2>3. Mul(c, y) = [lo |-> INF, hi |-> INF]
    BY <1>0, <1>3, <2>2 DEF Mul
  <2>4. c * n >= n
    <3>1. c >= 1 /\ c \in Int /\ n \in Int
      BY <1>3
    <3>2. (c - 1) \in Nat /\ (c - 1) * n >= 0
      BY <3>1
    <3>3. (c - 1) * n = c * n - n
      BY <3>1
    <3> QED
      BY <3>2, <3>3
  <2> QED
    BY <2>1, <2>3, <2>4, EndpointFacts DEF In
<1> QED
  BY <1>1, <1>2, <1>3, IntervalFacts, EndpointFacts

(* What a coefficient makes of a low endpoint. *)
LEMMA MulLow ==
  ASSUME NEW c \in Nat, NEW y \in Interval, ~IsEmpty(y), c * y.lo < INF
  PROVE  Mul(c, y).lo < INF
<1>1. CASE c = 0
  BY <1>1, EndpointFacts DEF Mul, Singleton, Clamp, Lesser, Greater
<1>2. CASE c # 0
  <2>1. c > 0 /\ Mul(c, y).lo = MulEp(c, y.lo) /\ y.lo \in Int
    BY <1>2, IntervalFacts DEF Mul
  <2>2. CASE Finite(c) /\ Finite(y.lo)
    <3>1. PICK p \in Int : p = c * y.lo
      BY <2>1
    <3>2. Clamp(p) < INF
      BY <3>1, EndpointFacts DEF Clamp, Lesser, Greater
    <3> QED
      BY <2>1, <2>2, <3>1, <3>2 DEF MulEp
  <2>3. CASE ~(Finite(c) /\ Finite(y.lo))
    <3>1. y.lo < INF
      <4> SUFFICES ASSUME y.lo >= INF
                   PROVE  FALSE
        BY <2>1, EndpointFacts
      <4>1. (c - 1) \in Nat /\ y.lo \in Nat
        BY <2>1, EndpointFacts
      <4>2. (c - 1) * y.lo >= 0 /\ (c - 1) * y.lo = c * y.lo - y.lo
        BY <2>1, <4>1
      <4> QED
        BY <2>1, <4>1, <4>2, EndpointFacts
    <3>2. CASE y.lo > 0
      <4>1. c >= INF
        BY <2>1, <2>3, <3>1, <3>2, EndpointFacts DEF Finite
      <4>2. (y.lo - 1) \in Nat /\ (y.lo - 1) * c >= 0 /\ (y.lo - 1) * c = c * y.lo - c
        BY <2>1, <3>2
      <4> QED
        BY <2>1, <4>1, <4>2, EndpointFacts
    <3>3. CASE y.lo <= 0
      BY <2>1, <2>3, <3>1, <3>3, EndpointFacts DEF MulEp, Finite, InfSign
    <3> QED
      BY <2>1, <3>2, <3>3
  <2> QED
    BY <2>2, <2>3
<1> QED
  BY <1>1, <1>2

(* 0 + 1 * y is y. *)
LEMMA MulOne ==
  ASSUME NEW y \in Interval, ~IsEmpty(y)
  PROVE  Mul(1, y) = y
<1>1. MulEp(1, y.lo) = y.lo /\ MulEp(1, y.hi) = y.hi
  BY IntervalFacts, EndpointFacts DEF MulEp, Finite, InfSign, Clamp, Lesser, Greater
<1> QED
  BY <1>1 DEF Mul, Interval

LEMMA AddZero ==
  ASSUME NEW y \in Interval, ~IsEmpty(y)
  PROVE  Add(Singleton(0), y) = y
<1>1. Singleton(0) = [lo |-> 0, hi |-> 0]
  BY EndpointFacts DEF Singleton, Clamp, Lesser, Greater
<1>2. AddEp(0, y.lo, NEGINF) = y.lo /\ AddEp(0, y.hi, INF) = y.hi
  BY IntervalFacts, EndpointFacts DEF AddEp, Finite, InfSign, Clamp, Lesser, Greater
<1>3. ~IsEmpty(Singleton(0))
  BY SingletonFull
<1> QED
  BY <1>1, <1>2, <1>3 DEF Add, Interval

-----------------------------------------------------------------------------
(* The terms that the walker makes: constants, a variable and a constant,  *)
(* and their sums.                                                         *)

Plain(v, k) == [terms |-> <<<<1, v>>>>, konst |-> k]

LEMMA PlainTypes ==
  ASSUME NEW V
  PROVE  /\ \A k \in Int : ConstTerm(k) \in TermOver(V)
         /\ \A v \in V, k \in Int : Plain(v, k) \in TermOver(V)
         /\ \A v : VarTerm(v) = Plain(v, 0)
<1>1. \A v \in V : <<<<1, v>>>> \in Seq(EntryOver(V))
  BY DEF EntryOver
<1> QED
  BY <1>1, SimpleTerms DEF Plain, VarTerm, TermOver

LEMMA EntriesFew ==
  ASSUME NEW V, NEW es \in Seq(EntryOver(V)), NEW e \in EntryOver(V)
  PROVE  Entries(es, << >>) = es /\ Entries(es, <<e>>) = AddEntry(es, e)
<1>1. Entries(es, << >>) = es
  <2>0. << >> \in Seq(EntryOver(V)) /\ Len(<< >>) = 0
    OBVIOUS
  <2>1. PICK t \in Seq(EntryOver(V)) : t = << >> /\ Len(t) = 0
    BY <2>0
  <2>2. PICK f : f[0] = es /\ Entries(es, t) = f[Len(t)]
    BY AddEntriesSteps
  <2> QED
    BY <2>1, <2>2
<1>2. Entries(es, <<e>>) = AddEntry(es, e)
  <2>0. <<e>> \in Seq(EntryOver(V)) /\ Len(<<e>>) = 1 /\ <<e>>[1] = e
    OBVIOUS
  <2>1. PICK t \in Seq(EntryOver(V)) : t = <<e>> /\ Len(t) = 1 /\ t[1] = e
    BY <2>0
  <2>2. PICK f : /\ f[0] = es /\ \A k \in 0 .. Len(t) - 1 : f[k + 1] = AddEntry(f[k], t[k + 1])
                 /\ Entries(es, t) = f[Len(t)]
    BY AddEntriesSteps
  <2>3. f[0 + 1] = AddEntry(f[0], t[0 + 1])
    BY <2>1, <2>2
  <2> QED
    BY <2>1, <2>2, <2>3
<1> QED
  BY <1>1, <1>2

LEMMA Shifted ==
  ASSUME NEW V, NEW t \in TermOver(V), NEW k \in Int
  PROVE  /\ AddTerms(t, ConstTerm(k)) = [terms |-> t.terms, konst |-> t.konst + k]
         /\ SubTerms(t, ConstTerm(k)) = [terms |-> t.terms, konst |-> t.konst - k]
<1>1. \A j \in Int : AddTerms(t, ConstTerm(j)) = [terms |-> t.terms, konst |-> t.konst + j]
  <2> TAKE j \in Int
  <2>1. t.terms \in Seq(EntryOver(V)) /\ t.konst \in Int
    BY TermParts
  <2>2. Entries(t.terms, << >>) = t.terms
    <3>1. CASE t.terms = << >>
      <4>1. << >> \in Seq(EntryOver(Int)) /\ <<1, 1>> \in EntryOver(Int)
        BY DEF EntryOver
      <4>2. PICK es \in Seq(EntryOver(Int)), e \in EntryOver(Int) : es = << >>
        BY <4>1
      <4> QED
        BY <3>1, <4>2, EntriesFew
    <3>2. CASE t.terms # << >>
      <4>1. t.terms[1] \in EntryOver(V)
        BY <2>1, <3>2
      <4> QED
        BY <2>1, <4>1, EntriesFew
    <3> QED
      BY <3>1, <3>2
  <2> QED
    BY <2>2 DEF AddTerms, ConstTerm, Entries
<1>2. Negate(ConstTerm(k)) = ConstTerm(-k)
  <2>1. Negate(ConstTerm(k)) \in TermOver({})
    BY SimpleTerms, ScaleType DEF Negate
  <2>2. Negate(ConstTerm(k)).terms \in Seq(EntryOver({}))
    BY <2>1, TermParts
  <2>3. EntryOver({}) = {}
    BY DEF EntryOver
  <2>4. Negate(ConstTerm(k)).terms = << >>
    <3>1. \A s \in Seq({}) : s = << >>
      <4> SUFFICES ASSUME NEW s \in Seq({}), s # << >>
                   PROVE  FALSE
        OBVIOUS
      <4>1. s[1] \in {}
        OBVIOUS
      <4> QED
        BY <4>1
    <3> QED
      BY <2>2, <2>3, <3>1
  <2>5. Negate(ConstTerm(k)).konst = -k
    BY DEF Negate, Scale, ConstTerm
  <2> QED
    BY <2>1, <2>4, <2>5, TermParts DEF ConstTerm
<1>3. t.konst \in Int
  BY TermParts
<1>4. SubTerms(t, ConstTerm(k)) = [terms |-> t.terms, konst |-> t.konst + (-k)]
  BY <1>1, <1>2 DEF SubTerms
<1> QED
  BY <1>1, <1>3, <1>4

LEMMA PlainShifted ==
  ASSUME NEW v, NEW k \in Int, NEW j \in Int
  PROVE  /\ AddTerms(Plain(v, k), ConstTerm(j)) = Plain(v, k + j)
         /\ SubTerms(Plain(v, k), ConstTerm(j)) = Plain(v, k - j)
         /\ AddTerms(ConstTerm(k), ConstTerm(j)) = ConstTerm(k + j)
         /\ SubTerms(ConstTerm(k), ConstTerm(j)) = ConstTerm(k - j)
<1>1. Plain(v, k) \in TermOver({v}) /\ ConstTerm(k) \in TermOver({v})
  BY PlainTypes
<1>2. /\ Plain(v, k).terms = <<<<1, v>>>> /\ Plain(v, k).konst = k
      /\ ConstTerm(k).terms = << >> /\ ConstTerm(k).konst = k
  BY DEF Plain, ConstTerm
<1>3. \A i \in Int : /\ Plain(v, i) = [terms |-> <<<<1, v>>>>, konst |-> i]
                    /\ ConstTerm(i) = [terms |-> << >>, konst |-> i]
  BY DEF Plain, ConstTerm
<1>4. k + j \in Int /\ k - j \in Int
  OBVIOUS
<1>5. /\ AddTerms(Plain(v, k), ConstTerm(j)) = [terms |-> <<<<1, v>>>>, konst |-> k + j]
      /\ SubTerms(Plain(v, k), ConstTerm(j)) = [terms |-> <<<<1, v>>>>, konst |-> k - j]
  <2>1. PICK t \in TermOver({v}) : t = Plain(v, k) /\ t.terms = <<<<1, v>>>> /\ t.konst = k
    BY <1>1, <1>2
  <2> QED
    BY <2>1, Shifted
<1>6. /\ AddTerms(ConstTerm(k), ConstTerm(j)) = [terms |-> << >>, konst |-> k + j]
      /\ SubTerms(ConstTerm(k), ConstTerm(j)) = [terms |-> << >>, konst |-> k - j]
  <2>1. PICK t \in TermOver({v}) : t = ConstTerm(k) /\ t.terms = << >> /\ t.konst = k
    BY <1>1, <1>2
  <2> QED
    BY <2>1, Shifted
<1> QED
  BY <1>3, <1>4, <1>5, <1>6

(* The sum with a variable. *)
LEMMA PlusPlain ==
  ASSUME NEW V, NEW s \in TermOver(V), NEW v \in V, NEW k \in Int
  PROVE  AddTerms(s, Plain(v, k)) = [terms |-> AddEntry(s.terms, <<1, v>>), konst |-> s.konst + k]
<1>1. s.terms \in Seq(EntryOver(V)) /\ <<1, v>> \in EntryOver(V)
  BY TermParts DEF EntryOver
<1>2. Entries(s.terms, <<<<1, v>>>>) = AddEntry(s.terms, <<1, v>>)
  BY <1>1, EntriesFew
<1> QED
  BY <1>2 DEF AddTerms, Plain, Entries

Counting(es) == \A i \in DOMAIN es : es[i][1] \in Nat

MoreBy(fs, es, v) ==
  \A j \in DOMAIN fs :
    \/ \E i \in DOMAIN es : fs[j][1] = es[i][1] /\ fs[j][2] = es[i][2]
    \/ \E i \in DOMAIN es : fs[j][1] = es[i][1] + 1 /\ fs[j][2] = v /\ es[i][2] = v
    \/ fs[j][1] = 1 /\ fs[j][2] = v /\ \A i \in DOMAIN es : es[i][2] # v

(* The entries of the sum are those of the term, the one of the variable   *)
(* grown by one if there is one, a new one if there is none.               *)
LEMMA OneMore ==
  ASSUME NEW V, NEW es \in Seq(EntryOver(V)), NEW v \in V, Counting(es)
  PROVE  MoreBy(AddEntry(es, <<1, v>>), es, v)
<1> SUFFICES ASSUME NEW fs, fs = AddEntry(es, <<1, v>>), NEW j \in DOMAIN fs, NEW e, e = fs[j]
             PROVE  \/ \E i \in DOMAIN es : e[1] = es[i][1] /\ e[2] = es[i][2]
                    \/ \E i \in DOMAIN es : e[1] = es[i][1] + 1 /\ e[2] = v /\ es[i][2] = v
                    \/ e[1] = 1 /\ e[2] = v /\ \A i \in DOMAIN es : es[i][2] # v
  BY DEF MoreBy
<1> USE DEF Counting
<1> DEFINE slots == {i \in DOMAIN es : es[i][2] = v /\ SameSign(es[i][1], 1)}
<1>0. PICK n \in Nat : Len(es) = n /\ DOMAIN es = 1 .. n /\ \A i \in 1 .. n : es[i] \in Int \X V
  BY DEF EntryOver
<1>1. <<1, v>>[1] = 1 /\ <<1, v>>[2] = v
  OBVIOUS
<1>2. CASE slots = {}
  <2>1. \A i \in DOMAIN es : es[i][2] # v
    <3>1. \A i \in DOMAIN es : SameSign(es[i][1], 1)
      BY DEF SameSign
    <3> QED
      BY <1>2, <3>1
  <2>2. AddEntry(es, <<1, v>>) = Append(es, <<1, v>>)
    BY <1>1, <1>2 DEF AddEntry
  <2>3. <<1, v>> \in EntryOver(V)
    BY DEF EntryOver
  <2>4. PICK gs \in Seq(EntryOver(V)) : gs = Append(es, <<1, v>>) /\ Len(gs) = n + 1
    <3>1. Append(es, <<1, v>>) \in Seq(EntryOver(V)) /\ Len(Append(es, <<1, v>>)) = n + 1
      BY <1>0, <2>3
    <3> QED
      BY <3>1
  <2>5. /\ \A i \in 1 .. n : gs[i] = es[i]
        /\ gs[n + 1] = <<1, v>> /\ DOMAIN gs = 1 .. n + 1
    BY <1>0, <2>3, <2>4
  <2>6. j \in 1 .. n \/ j = n + 1
    BY <2>2, <2>4, <2>5
  <2> QED
    BY <1>0, <1>1, <2>1, <2>2, <2>4, <2>5, <2>6
<1>3. CASE slots # {}
  <2> DEFINE m == CHOOSE x \in slots : \A k \in slots : x <= k
  <2>1. m \in slots
    <3>1. slots \in SUBSET (1 .. n)
      BY <1>0
    <3> HIDE DEF slots
    <3>2. \E x \in slots : \A k \in slots : x <= k
      BY <1>3, <3>1, LeastExists
    <3> QED
      BY <3>2
  <2>2. AddEntry(es, <<1, v>>) = [es EXCEPT ![m][1] = @ + 1]
    BY <1>1, <1>3 DEF AddEntry
  <2>3. m \in DOMAIN es /\ es[m][2] = v
    BY <2>1
  <2> HIDE DEF m
  <2>4. PICK a \in Int, b \in V : es[m] = <<a, b>>
    BY <1>0, <2>3
  <2>5. [es[m] EXCEPT ![1] = @ + 1] = <<a + 1, b>>
    BY <2>4
  <2>6. AddEntry(es, <<1, v>>) = [es EXCEPT ![m] = <<a + 1, b>>]
    BY <2>2, <2>5
  <2>7. j \in DOMAIN es /\ e = IF j = m THEN <<a + 1, b>> ELSE es[j]
    BY <2>3, <2>6
  <2>8. a = es[m][1] /\ b = v
    BY <2>3, <2>4
  <2>9. CASE j = m
    <3>1. e[1] = a + 1 /\ e[2] = b
      BY <2>7, <2>9
    <3> QED
      BY <2>3, <2>8, <3>1
  <2>10. CASE j # m
    <3>1. e = es[j]
      BY <2>7, <2>10
    <3> QED
      BY <2>7, <3>1
  <2> QED
    BY <2>9, <2>10
<1> QED
  BY <1>2, <1>3


-----------------------------------------------------------------------------
(* What terms evaluate to.                                                 *)

(* A term with the values val of its variables, in the ranges r of them:   *)
(* coefficients are counts, and sums do not run off from below.            *)
Within(t, val, r) == \A i \in DOMAIN t.terms : In(val[t.terms[i][2]], r[t.terms[i][2]])

Fit(t, r) ==
  /\ \A i \in DOMAIN t.terms : t.terms[i][1] \in Nat
  /\ t.konst > NEGINF
  /\ t.konst >= 0 \/ \A i \in DOMAIN t.terms : t.terms[i][1] * r[t.terms[i][2]].lo < INF

LEMMA EntryHolds ==
  ASSUME NEW c \in Nat, NEW y \in Interval, NEW x \in Nat, In(x, y),
         NEW s \in Interval, NEW a \in Int, In(a, s), a > NEGINF, a >= 0 \/ c * y.lo < INF
  PROVE  /\ In(a + c * x, Add(s, Mul(c, y))) /\ a + c * x \in Int
         /\ a + c * x > NEGINF /\ (a >= 0 => a + c * x >= 0)
<1>1. \A p, q \in Nat : p * q \in Nat
  OBVIOUS
<1>2. PICK p \in Nat : p = c * x
  BY <1>1
<1>3. In(p, Mul(c, y)) /\ Mul(c, y) \in Interval
  BY <1>2, MulHolds, MulType
<1>4. a >= 0 \/ Mul(c, y).lo < INF
  BY InFull, MulLow
<1>5. In(a + p, Add(s, Mul(c, y)))
  BY <1>3, <1>4, AddHolds
<1> QED
  BY <1>2, <1>5, EndpointFacts

(* The value of a term lies in its range.                                  *)
LEMMA EvalHolds ==
  ASSUME NEW V, NEW t \in TermOver(V), NEW r \in [V -> Interval], NEW val \in [V -> Nat],
         Fit(t, r), Within(t, val, r)
  PROVE  In(ValueOf(t, val), EvalTerm(t, r)) /\ ValueOf(t, val) \in Int
<1>0. PICK es \in Seq(EntryOver(V)), k \in Int :
        es = t.terms /\ k = t.konst /\ t = [terms |-> es, konst |-> k]
  BY TermParts
<1>1. Valued(V, val)
  BY DEF Valued
<1>2. PICK n \in Nat : n = Len(es) /\ DOMAIN es = 1 .. n
  OBVIOUS
<1>3. PICK w : w = Weights(es, val)
  OBVIOUS
<1>4. PICK g : Adds(g, n, w, k) /\ ValueOf(t, val) = g[n]
  <2>1. PICK h : Adds(h, Len(es), Weights(es, val), k) /\ Total(k, es, val) = h[Len(es)]
    BY <1>1, TotalAdds
  <2>2. ValueOf(t, val) = Total(k, es, val)
    BY <1>0, ValueIs
  <2> QED
    BY <1>2, <1>3, <2>1, <2>2
<1>5. PICK f : Runs(f, n, Singleton(k), TermRun(es, r)) /\ EvalTerm(t, r) = f[n]
  <2>1. PICK h : /\ Runs(h, Len(es), Singleton(k), TermRun(es, r))
                 /\ EvalTerm([terms |-> es, konst |-> k], r) = h[Len(es)]
    BY TermFold
  <2> QED
    BY <1>0, <1>2, <2>1
<1> DEFINE Good == {i \in Nat : i <= n => In(g[i], f[i]) /\ g[i] > NEGINF /\ (k >= 0 => g[i] >= 0)}
<1>6. 0 \in Good
  <2>1. g[0] = k /\ k > NEGINF /\ f[0] = Singleton(k)
    BY <1>0, <1>4, <1>5 DEF Adds, Fit, Runs
  <2> QED
    BY <2>1, SingletonContains
<1>7. \A i \in Nat : i \in Good => i + 1 \in Good
  <2> SUFFICES ASSUME NEW i \in Nat, i + 1 <= n, In(g[i], f[i]), g[i] > NEGINF, k >= 0 => g[i] >= 0
               PROVE  In(g[i + 1], f[i + 1]) /\ g[i + 1] > NEGINF /\ (k >= 0 => g[i + 1] >= 0)
    OBVIOUS
  <2>1. /\ g[i + 1] = g[i] + w[i + 1] /\ g[i] \in Int
        /\ i + 1 \in 1 .. n /\ i \in 0 .. n - 1
    BY <1>4, AddsStep
  <2>2. /\ w[i + 1] = es[i + 1][1] * val[es[i + 1][2]] /\ es[i + 1][2] \in V
    BY <1>1, <1>2, <1>3, <2>1, WeightAt
  <2>3. es[i + 1][1] \in Nat
    BY <1>0, <1>2, <2>1 DEF Fit
  <2>4. f[i + 1] = TermRun(es, r)[i + 1][f[i]] /\ f[i] \in Interval
    <3>1. i \in 0 .. n
      BY <2>1
    <3> QED
      BY <1>5, <2>1, <3>1 DEF Runs
  <2>5. f[i + 1] = Add(f[i], Mul(es[i + 1][1], r[es[i + 1][2]]))
    BY <1>2, <2>1, <2>4, TermRunType
  <2>6. In(val[es[i + 1][2]], r[es[i + 1][2]])
    BY <1>0, <1>2, <2>1 DEF Within
  <2>7. k >= 0 \/ es[i + 1][1] * r[es[i + 1][2]].lo < INF
    BY <1>0, <1>2, <2>1 DEF Fit
  <2>8. PICK c \in Nat, y \in Interval, x \in Nat :
          c = es[i + 1][1] /\ y = r[es[i + 1][2]] /\ x = val[es[i + 1][2]]
    BY <2>2, <2>3
  <2>9. /\ In(g[i] + c * x, Add(f[i], Mul(c, y)))
        /\ g[i] + c * x > NEGINF /\ (g[i] >= 0 => g[i] + c * x >= 0)
    <3>1. In(x, y) /\ (g[i] >= 0 \/ c * y.lo < INF)
      BY <2>6, <2>7, <2>8
    <3> QED
      BY <2>1, <2>4, <3>1, EntryHolds
  <2> QED
    <3>1. g[i + 1] = g[i] + c * x
      BY <2>1, <2>2, <2>8
    <3> QED
      BY <2>5, <2>8, <2>9, <3>1
<1>8. Nat \subseteq Good
  <2> HIDE DEF Good
  <2> QED
    BY <1>6, <1>7, SetInduction
<1>9. In(g[n], f[n]) /\ g[n] \in Int
  <2>1. g[n] \in Int
    BY <1>4 DEF Adds
  <2> QED
    BY <1>8, <2>1
<1> QED
  BY <1>4, <1>5, <1>9

(* The value of a term does not depend on the variables it lacks.          *)
LEMMA TotalAgrees ==
  ASSUME NEW V, NEW es \in Seq(EntryOver(V)), NEW val, Valued(V, val), NEW alt, Valued(V, alt),
         \A v \in V : alt[v] = val[v], NEW k \in Int
  PROVE  Total(k, es, alt) = Total(k, es, val)
<1>1. \A i \in 1 .. Len(es) : es[i][1] = 1 * es[i][1] /\ es[i][2] = es[i][2]
  BY WeightsFacts
<1>2. Total(k, es, alt) - k = 1 * (Total(k, es, val) - k)
  BY <1>1, TotalScaled
<1>3. Total(k, es, alt) \in Int /\ Total(k, es, val) \in Int
  BY TotalType
<1> QED
  BY <1>2, <1>3

LEMMA ValueAgrees ==
  ASSUME NEW V, NEW t \in TermOver(V), NEW val, Valued(V, val), NEW alt, Valued(V, alt),
         \A v \in V : alt[v] = val[v]
  PROVE  ValueOf(t, alt) = ValueOf(t, val)
<1>1. PICK es \in Seq(EntryOver(V)), k \in Int : es = t.terms /\ k = t.konst
  BY TermParts
<1>2. Total(k, es, alt) = Total(k, es, val)
  BY TotalAgrees
<1>3. ValueOf(t, alt) = Total(k, es, alt) /\ ValueOf(t, val) = Total(k, es, val)
  BY <1>1, ValueIs
<1> QED
  BY <1>2, <1>3

(* The same for a variable and a constant, and for a constant.             *)
LEMMA PlainHolds ==
  ASSUME NEW v \in Nat, NEW k \in Int, NEW r \in [Nat -> Interval], NEW n \in Nat,
         In(n, r[v]), k > NEGINF, k >= 0 \/ r[v].lo < INF
  PROVE  In(n + k, EvalTerm(Plain(v, k), r))
<1>1. Plain(v, k) \in TermOver(Nat)
  BY PlainTypes
<1>2. PICK t \in TermOver(Nat) : t = Plain(v, k)
  BY <1>1
<1>3. Len(t.terms) = 1 /\ DOMAIN t.terms = {1} /\ t.terms[1][1] = 1 /\ t.terms[1][2] = v /\ t.konst = k
  BY <1>2 DEF Plain
<1>4. r[v] \in Interval /\ r[v].lo \in Int
  BY IntervalFacts
<1>5. Fit(t, r)
  BY <1>3, <1>4 DEF Fit
<1>6. PICK val \in [Nat -> Nat] : val[v] = n
  <2>1. [u \in Nat |-> n] \in [Nat -> Nat] /\ [u \in Nat |-> n][v] = n
    OBVIOUS
  <2> QED
    BY <2>1
<1>7. Within(t, val, r)
  BY <1>3, <1>6 DEF Within
<1>8. ValueOf(t, val) = n + k
  <2>1. IsSingleVarAny(t) /\ TheVar(t) = v
    BY <1>3 DEF IsSingleVarAny, TheVar
  <2>2. Valued(Nat, val)
    BY DEF Valued
  <2> QED
    BY <1>3, <1>6, <2>1, <2>2, SingleValue
<1> QED
  BY <1>2, <1>5, <1>7, <1>8, EvalHolds

LEMMA EvalFew ==
  ASSUME NEW r \in [Nat -> Interval], NEW k \in Int
  PROVE  /\ EvalTerm(ConstTerm(k), r) = Singleton(k)
         /\ \A v \in Nat : EvalTerm(Plain(v, k), r) = Add(Singleton(k), Mul(1, r[v]))
<1>1. EvalTerm(ConstTerm(k), r) = Singleton(k)
  <2>1. << >> \in Seq(EntryOver(Nat)) /\ Len(<< >>) = 0
    OBVIOUS
  <2>2. PICK es \in Seq(EntryOver(Nat)) : es = << >> /\ Len(es) = 0
    BY <2>1
  <2>3. PICK h : /\ Runs(h, Len(es), Singleton(k), TermRun(es, r))
                 /\ EvalTerm([terms |-> es, konst |-> k], r) = h[Len(es)]
    BY TermFold
  <2> QED
    BY <2>2, <2>3 DEF Runs, ConstTerm
<1>2. ASSUME NEW v \in Nat
      PROVE  EvalTerm(Plain(v, k), r) = Add(Singleton(k), Mul(1, r[v]))
  <2>1. <<<<1, v>>>> \in Seq(EntryOver(Nat)) /\ Len(<<<<1, v>>>>) = 1
    BY DEF EntryOver
  <2>2. PICK es \in Seq(EntryOver(Nat)) : es = <<<<1, v>>>> /\ Len(es) = 1 /\ es[1] = <<1, v>>
    BY <2>1
  <2>3. PICK h : /\ Runs(h, Len(es), Singleton(k), TermRun(es, r))
                 /\ EvalTerm([terms |-> es, konst |-> k], r) = h[Len(es)]
    BY TermFold
  <2>4. h[0] = Singleton(k) /\ h[0 + 1] = TermRun(es, r)[0 + 1][h[0]] /\ h[0] \in Interval
    BY <2>2, <2>3 DEF Runs
  <2>5. TermRun(es, r)[1][h[0]] = Add(h[0], Mul(es[1][1], r[es[1][2]]))
    <3>1. 1 \in 1 .. Len(es)
      BY <2>2
    <3>2. \A i \in 1 .. Len(es) : \A x \in Interval :
            TermRun(es, r)[i][x] = Add(x, Mul(es[i][1], r[es[i][2]]))
      BY TermRunType
    <3> QED
      BY <2>4, <3>1, <3>2
  <2> QED
    BY <2>2, <2>3, <2>4, <2>5 DEF Plain
<1> QED
  BY <1>1, <1>2

LEMMA ConstHolds ==
  ASSUME NEW k \in Int, NEW r \in [Nat -> Interval]
  PROVE  In(k, EvalTerm(ConstTerm(k), r))
BY EvalFew, SingletonContains

(* A variable evaluates to its range, when that is a range. *)
LEMMA VarEvaluates ==
  ASSUME NEW v \in Nat, NEW r \in [Nat -> Interval]
  PROVE  /\ ~IsEmpty(r[v]) => EvalTerm(VarTerm(v), r) = r[v]
         /\ IsEmpty(r[v]) => EvalTerm(VarTerm(v), r) = Empty
<1>1. VarTerm(v) = Plain(v, 0)
  BY PlainTypes
<1>2. EvalTerm(Plain(v, 0), r) = Add(Singleton(0), Mul(1, r[v])) /\ r[v] \in Interval
  BY EvalFew
<1>3. CASE ~IsEmpty(r[v])
  BY <1>1, <1>2, <1>3, MulOne, AddZero
<1>4. CASE IsEmpty(r[v])
  <2>1. Mul(1, r[v]) = Empty /\ IsEmpty(Empty)
    BY <1>2, <1>4, ConstantTypes DEF Mul
  <2> QED
    BY <1>1, <1>2, <1>4, <2>1 DEF Add
<1> QED
  BY <1>3, <1>4

(* What is small from below stays so.                                      *)
LEMMA EvalLow ==
  ASSUME NEW v \in Nat, NEW k \in Int, NEW r \in [Nat -> Interval], ~IsEmpty(r[v]), r[v].lo < INF,
         k <= 0, INF > 1
  PROVE  EvalTerm(Plain(v, k), r).lo < INF
<1>1. EvalTerm(Plain(v, k), r) = Add(Singleton(k), r[v]) /\ r[v] \in Interval
  BY EvalFew, MulOne
<1>2. Singleton(k).lo <= 0 /\ Singleton(k) \in Interval /\ ~IsEmpty(Singleton(k))
  <2>1. Singleton(k) \in Interval /\ ~IsEmpty(Singleton(k))
    BY ConstantTypes, SingletonFull
  <2>2. Clamp(k) <= 0
    BY EndpointFacts DEF Clamp, Lesser, Greater
  <2> QED
    BY <2>1, <2>2 DEF Singleton
<1>3. Add(Singleton(k), r[v]).lo = AddEp(Singleton(k).lo, r[v].lo, NEGINF)
  BY <1>1, <1>2 DEF Add
<1>4. Singleton(k).lo \in Endpoint /\ r[v].lo \in Endpoint
  BY <1>1, <1>2, IntervalFacts
<1>5. AddEp(Singleton(k).lo, r[v].lo, NEGINF) < INF
  BY <1>2, <1>4, EndpointFacts DEF AddEp, Finite, InfSign, Clamp, Lesser, Greater
<1> QED
  BY <1>1, <1>3, <1>5

-----------------------------------------------------------------------------
(* The stores that the walker builds.                                      *)

Vars(s) == 0 .. s.vars - 1

Shape(s) == s = [vars |-> s.vars, cons |-> s.cons, queries |-> s.queries, pins |-> << >>]

Store(s) ==
  /\ Shape(s)
  /\ s.vars \in Nat
  /\ s.cons \in Seq(ConstraintOver(Vars(s)))
  /\ IsList(s.queries)

(* t is s with more in it. *)
Extends(t, s) ==
  /\ s.vars <= t.vars
  /\ ToSet(s.cons) \subseteq ToSet(t.cons)
  /\ ToSet(s.queries) \subseteq ToSet(t.queries)

Grew(t, s) == Store(t) /\ Extends(t, s)

Sat(r, s) == Solves(r, ToSet(s.cons))

LEMMA StoreVars ==
  ASSUME NEW s, Store(s)
  PROVE  s.vars \in Nat /\ Vars(s) \subseteq Nat /\ Vars(s) \in SUBSET Int
BY DEF Store, Vars

LEMMA GrewTrans ==
  ASSUME NEW s, NEW t, NEW u, Store(s), Grew(t, s), Grew(u, t)
  PROVE  Grew(u, s)
BY DEF Grew, Extends, Store

LEMMA GrewSelf ==
  ASSUME NEW s, Store(s)
  PROVE  Grew(s, s)
BY DEF Grew, Extends, Store

LEMMA GrewSat ==
  ASSUME NEW s, NEW t, Grew(t, s), NEW r, Sat(r, t)
  PROVE  Sat(r, s)
BY DEF Grew, Extends, Sat, Solves

(* The terms over a store are terms over what it grows to. *)
LEMMA GrewTerms ==
  ASSUME NEW s, NEW t, Store(s), Grew(t, s)
  PROVE  Vars(s) \subseteq Vars(t) /\ TermOver(Vars(s)) \subseteq TermOver(Vars(t))
<1>1. Vars(s) \subseteq Vars(t)
  BY DEF Vars, Grew, Extends, Store
<1> QED
  BY <1>1, TermWider

LEMMA NatTerms ==
  ASSUME NEW s, Store(s)
  PROVE  TermOver(Vars(s)) \subseteq TermOver(Nat) /\ ConstraintOver(Vars(s)) \subseteq ConstraintOver(Nat)
BY StoreVars, TermWider

(* A store with these fields. *)
LEMMA StoreMade ==
  ASSUME NEW s, Store(s), NEW t, Shape(t), t.vars \in Nat, s.vars <= t.vars, t.queries = s.queries,
         NEW q \in Seq(ConstraintOver(Vars(t))), t.cons = s.cons \o q
  PROVE  Grew(t, s) /\ ToSet(t.cons) = ToSet(s.cons) \cup ToSet(q)
<1>2. Vars(s) \subseteq Vars(t)
  BY DEF Vars, Store
<1>3. PICK W, c : W = ConstraintOver(Vars(t)) /\ c = s.cons /\ c \in Seq(W)
  BY <1>2, TermWider DEF Store
<1>4. c \o q \in Seq(W) /\ ToSet(c \o q) = ToSet(c) \cup ToSet(q)
  <2>1. q \in Seq(W)
    BY <1>3
  <2> QED
    BY <1>3, <2>1, ToSetConcat
<1>5. Store(t)
  BY <1>2, <1>3, <1>4 DEF Store
<1>6. Extends(t, s)
  BY <1>3, <1>4 DEF Extends
<1> QED
  BY <1>3, <1>4, <1>5, <1>6 DEF Grew

LEMMA StoreGrown ==
  ASSUME NEW s, Store(s), NEW t, t = Grown(s)
  PROVE  /\ Grew(t, s) /\ t.vars = s.vars + 1 /\ s.vars \in Vars(t) /\ ToSet(t.cons) = ToSet(s.cons)
         /\ NewTerm(s) = Plain(s.vars, 0) /\ NewTerm(s) \in TermOver(Vars(t))
<1>1. t = [vars |-> s.vars + 1, cons |-> s.cons, queries |-> s.queries, pins |-> << >>]
  <2>0. PICK n, c, a, p : /\ n = s.vars /\ c = s.cons /\ a = s.queries /\ p = << >>
                          /\ s = [vars |-> n, cons |-> c, queries |-> a, pins |-> p]
    BY DEF Store, Shape
  <2>1. PICK m : m = s.vars + 1
    OBVIOUS
  <2>2. t = [s EXCEPT !.vars = m]
    BY <2>1 DEF Grown
  <2>3. [s EXCEPT !.vars = m] = [vars |-> m, cons |-> c, queries |-> a, pins |-> p]
    BY <2>0
  <2> QED
    BY <2>0, <2>1, <2>2, <2>3
<1>2. t.vars = s.vars + 1 /\ t.cons = s.cons /\ t.queries = s.queries /\ Shape(t)
  BY <1>1 DEF Shape
<1>3. Vars(s) \subseteq Vars(t) /\ s.vars \in Vars(t)
  BY <1>2 DEF Vars, Store
<1>4. s.cons \in Seq(ConstraintOver(Vars(t)))
  BY <1>3, TermWider DEF Store
<1>5. Store(t) /\ Extends(t, s)
  BY <1>2, <1>4 DEF Extends, Store
<1>6. NewTerm(s) = Plain(s.vars, 0) /\ Plain(s.vars, 0) \in TermOver(Vars(t))
  BY <1>3, PlainTypes DEF NewTerm
<1> QED
  BY <1>2, <1>3, <1>5, <1>6 DEF Grew

LEMMA StoreQueried ==
  ASSUME NEW s, Store(s), NEW name, NEW siz, NEW len, NEW t, t = Queried(s, name, siz, len)
  PROVE  Grew(t, s) /\ t.vars = s.vars /\ ToSet(t.cons) = ToSet(s.cons)
         /\ [name |-> name, siz |-> siz, len |-> len] \in ToSet(t.queries)
<1>1. PICK q, new, e : q = s.queries /\ e = [name |-> name, siz |-> siz, len |-> len] /\ new = Append(q, e)
  OBVIOUS
<1>2. t = [vars |-> s.vars, cons |-> s.cons, queries |-> Append(s.queries, e), pins |-> << >>]
  <2>0. PICK n, c, a, p : /\ n = s.vars /\ c = s.cons /\ a = s.queries /\ p = << >>
                          /\ s = [vars |-> n, cons |-> c, queries |-> a, pins |-> p]
    BY DEF Store, Shape
  <2>1. t = [s EXCEPT !.queries = new]
    BY <1>1 DEF Queried
  <2>3. [s EXCEPT !.queries = new] = [vars |-> n, cons |-> c, queries |-> new, pins |-> p]
    BY <2>0
  <2> QED
    BY <1>1, <2>0, <2>1, <2>3
<1>3. t.vars = s.vars /\ t.cons = s.cons /\ t.queries = new /\ Shape(t)
  BY <1>1, <1>2 DEF Shape
<1>4. IsList(q) /\ new = Append(q, e)
  BY <1>1 DEF Store
<1>5. IsList(new) /\ DOMAIN new = DOMAIN q \cup {Len(q) + 1} /\ \A i \in DOMAIN q : new[i] = q[i]
  BY <1>4, AppendFacts
<1>6. new[Len(q) + 1] = e
  BY <1>4, AppendLast
<1>7. ToSet(q) \subseteq ToSet(new) /\ e \in ToSet(new)
  BY <1>5, <1>6 DEF ToSet
<1>8. Vars(t) = Vars(s)
  BY <1>3 DEF Vars
<1>9. Store(t)
  BY <1>3, <1>5, <1>8 DEF Store
<1>10. Extends(t, s)
  BY <1>1, <1>3, <1>7 DEF Extends, Store
<1> QED
  BY <1>1, <1>3, <1>7, <1>9, <1>10 DEF Grew

-----------------------------------------------------------------------------
(* What a constraint says of the ranges that satisfy it.                   *)

(* t - k *)
Less(t, k) == [terms |-> t.terms, konst |-> t.konst - k]

LEMMA LessTerm ==
  ASSUME NEW V, NEW t \in TermOver(V), NEW k \in Int
  PROVE  Less(t, k) \in TermOver(V) /\ Less(t, k).terms = t.terms /\ Less(t, k).konst = t.konst - k
BY TermParts DEF Less, TermOver

LEMMA SubsetIs ==
  ASSUME NEW V, NEW lhs \in TermOver(V), NEW v \in V, NEW k \in Int
  PROVE  /\ SubsetOf(lhs, Plain(v, k)) = <<Subset(Less(lhs, k), v)>>
         /\ Subset(Less(lhs, k), v) \in ConstraintOver(V)
<1>1. Plain(v, k).terms = <<<<1, v>>>> /\ Plain(v, k).konst = k
  BY DEF Plain
<1>2. ~IsConstant(Plain(v, k))
  BY <1>1 DEF IsConstant
<1>3. Tail(Plain(v, k).terms) = << >> /\ Plain(v, k).terms[1][1] = 1 /\ Plain(v, k).terms[1][2] = v
  BY <1>1
<1>4. [terms |-> Tail(Plain(v, k).terms), konst |-> Plain(v, k).konst] = ConstTerm(k)
  BY <1>1, <1>3 DEF ConstTerm
<1>5. Moved(lhs, Plain(v, k)) = Subset(SubTerms(lhs, ConstTerm(k)), v)
  BY <1>3, <1>4 DEF Moved
<1>6. SubTerms(lhs, ConstTerm(k)) = Less(lhs, k)
  BY Shifted DEF Less
<1>7. Plain(v, k) \in TermOver(V)
  BY PlainTypes
<1>8. Moved(lhs, Plain(v, k)) \in ConstraintOver(V)
  BY <1>2, <1>7, MovedType
<1> QED
  BY <1>2, <1>5, <1>6, <1>8 DEF SubsetOf

LEMMA SubsetAdded ==
  ASSUME NEW s, Store(s), NEW lhs \in TermOver(Vars(s)), NEW v \in Vars(s), NEW k \in Int,
         NEW t, t = AddSubset(s, lhs, Plain(v, k))
  PROVE  /\ Grew(t, s) /\ t.vars = s.vars
         /\ \A r : Sat(r, t) => Leq(EvalTerm(Less(lhs, k), r), r[v])
<1>1. PICK m \in ConstraintOver(Vars(s)) :
        m = Subset(Less(lhs, k), v) /\ SubsetOf(lhs, Plain(v, k)) = <<m>>
  BY SubsetIs
<1>2. PICK q \in Seq(ConstraintOver(Vars(s))) : q = <<m>>
  <2>1. <<m>> \in Seq(ConstraintOver(Vars(s)))
    OBVIOUS
  <2> QED
    BY <2>1
<1>3. t = [vars |-> s.vars, cons |-> s.cons \o q, queries |-> s.queries, pins |-> << >>]
  <2>1. t = [s EXCEPT !.cons = @ \o q]
    BY <1>1, <1>2 DEF AddSubset
  <2>2. PICK n, c, a, p : /\ n = s.vars /\ c = s.cons /\ a = s.queries /\ p = << >>
                          /\ s = [vars |-> n, cons |-> c, queries |-> a, pins |-> p]
    BY DEF Store, Shape
  <2>3. PICK d : d = s.cons \o q
    OBVIOUS
  <2>4. d = c \o q /\ t = [s EXCEPT !.cons = d]
    BY <2>1, <2>2, <2>3
  <2>5. [s EXCEPT !.cons = d] = [vars |-> n, cons |-> d, queries |-> a, pins |-> p]
    BY <2>2
  <2> QED
    BY <2>2, <2>4, <2>5
<1>4. Grew(t, s) /\ t.vars = s.vars /\ ToSet(t.cons) = ToSet(s.cons) \cup ToSet(q)
  <2>1. t.vars = s.vars /\ t.cons = s.cons \o q /\ t.queries = s.queries /\ Shape(t)
    BY <1>3 DEF Shape
  <2>2. t.vars \in Nat /\ s.vars <= t.vars
    BY <2>1 DEF Store
  <2>3. q \in Seq(ConstraintOver(Vars(t)))
    BY <2>1 DEF Vars
  <2> QED
    BY <2>1, <2>2, <2>3, StoreMade
<1>5. m \in ToSet(t.cons)
  <2>1. q[1] = m /\ 1 \in DOMAIN q
    BY <1>2
  <2> QED
    BY <1>4, <2>1 DEF ToSet
<1>6. ASSUME NEW r, Sat(r, t)
      PROVE  Leq(EvalTerm(Less(lhs, k), r), r[v])
  <2>1. Leq(EvalConstraint(m, r), r[Rhs(m)])
    BY <1>5, <1>6 DEF Sat, Solves
  <2>2. EvalConstraint(m, r) = EvalTerm(Less(lhs, k), r) /\ Rhs(m) = v
    BY <1>1 DEF Subset, EvalConstraint, Rhs
  <2> QED
    BY <2>1, <2>2
<1> QED
  BY <1>4, <1>6

-----------------------------------------------------------------------------
(* Minima.                                                                 *)

LEMMA MinOfTwo ==
  ASSUME NEW x \in Interval, NEW y \in Interval, NEW a \in Int, NEW b \in Int, In(a, x), In(b, y),
         NEW z, z = RMin(RMin(Singleton(INF), x), y)
  PROVE  z \in Interval /\ In(Lesser(a, b), z) /\ z.lo = Lesser(x.lo, y.lo)
<1>1. ~IsEmpty(x) /\ ~IsEmpty(y)
  BY InFull
<1>2. Singleton(INF) = [lo |-> INF, hi |-> INF] /\ ~IsEmpty(Singleton(INF))
  BY EndpointFacts DEF Singleton, Clamp, Lesser, Greater, IsEmpty
<1>3. RMin(Singleton(INF), x) = x
  BY <1>1, <1>2, IntervalFacts, EndpointFacts DEF RMin, Lesser, Interval
<1>4. z = RMin(x, y)
  BY <1>3
<1> QED
  BY <1>1, <1>4, RMinContains, RMinType DEF RMin

(* The operand of a minimum: what is in the term is in the item's range.   *)
Routed(t, w) == IF NeedsVar(t) THEN SubsetOf(t, VarTerm(w)) ELSE << >>
Item(t, w)   == IF IsConstant(t) THEN MinConst(t.konst)
                ELSE MinTerm(1, IF NeedsVar(t) THEN w ELSE TheVar(t))

LEMMA ConstantTerm ==
  ASSUME NEW V, NEW t \in TermOver(V), IsConstant(t)
  PROVE  t = ConstTerm(t.konst) /\ t.konst \in Int
BY TermParts DEF IsConstant, ConstTerm

LEMMA SingleTerm ==
  ASSUME NEW V, NEW t \in TermOver(V), IsSingleVar(t)
  PROVE  t = VarTerm(TheVar(t)) /\ TheVar(t) \in V /\ ~IsConstant(t)
<1>1. PICK es \in Seq(EntryOver(V)), k \in Int : es = t.terms /\ k = t.konst /\ t = [terms |-> es, konst |-> k]
  BY TermParts
<1>2. Len(es) = 1 /\ es[1][1] = 1 /\ k = 0 /\ TheVar(t) = es[1][2]
  BY <1>1 DEF IsSingleVar, IsSingleVarAny, TheVar
<1>3. es[1] \in Int \X V
  <2>1. 1 \in 1 .. Len(es)
    BY <1>2
  <2>2. es[1] \in EntryOver(V)
    BY <2>1
  <2> QED
    BY <2>2 DEF EntryOver
<1>4. es[1] = <<1, TheVar(t)>> /\ TheVar(t) \in V
  BY <1>2, <1>3
<1>5. es = <<<<1, TheVar(t)>>>>
  <2>1. PICK e : e = es[1]
    OBVIOUS
  <2>2. es = <<e>>
    BY <1>2, <2>1
  <2> QED
    BY <1>4, <2>1, <2>2
<1> QED
  BY <1>1, <1>2, <1>4, <1>5 DEF VarTerm, IsConstant

LEMMA ItemHolds ==
  ASSUME NEW t \in TermOver(Nat), NEW w \in Nat, NEW r \in [Nat -> Interval],
         Solves(r, ToSet(Routed(t, w))), NEW n \in Int, In(n, EvalTerm(t, r)),
         NEW it, it = Item(t, w)
  PROVE  /\ it \in ItemOver(Nat) /\ EvalItem(it, r) \in Interval /\ In(n, EvalItem(it, r))
         /\ EvalItem(it, r).lo <= EvalTerm(t, r).lo
<1>0. EvalTerm(t, r) \in Interval /\ ~IsEmpty(EvalTerm(t, r)) /\ EvalTerm(t, r).lo \in Int
  BY EvalTermType, InFull, IntervalFacts
<1>1. CASE IsConstant(t)
  <2>1. it = MinConst(t.konst) /\ t.konst \in Int /\ EvalTerm(t, r) = Singleton(t.konst)
    BY <1>1, ConstantTerm, EvalFew DEF Item
  <2>2. EvalItem(it, r) = Singleton(t.konst) /\ it \in ItemOver(Nat)
    BY <2>1 DEF EvalItem, MinConst, ItemOver
  <2> QED
    BY <1>0, <2>1, <2>2
<1>2. CASE ~IsConstant(t) /\ ~NeedsVar(t)
  <2>1. IsSingleVar(t)
    BY <1>2 DEF NeedsVar
  <2>2. PICK v \in Nat : v = TheVar(t) /\ t = VarTerm(v)
    BY <2>1, SingleTerm
  <2>3. it = MinTerm(1, v)
    BY <1>2, <2>2 DEF Item
  <2>4. EvalItem(it, r) = Mul(1, r[v]) /\ it \in ItemOver(Nat)
    BY <2>3 DEF EvalItem, MinTerm, ItemOver
  <2>5. ~IsEmpty(r[v]) /\ EvalTerm(t, r) = r[v]
    <3>1. IsEmpty(Empty)
      BY ConstantTypes
    <3> QED
      BY <1>0, <2>2, <3>1, VarEvaluates
  <2> QED
    BY <1>0, <2>4, <2>5, MulOne
<1>3. CASE ~IsConstant(t) /\ NeedsVar(t)
  <2>1. it = MinTerm(1, w)
    BY <1>3 DEF Item
  <2>2. EvalItem(it, r) = Mul(1, r[w]) /\ it \in ItemOver(Nat)
    BY <2>1 DEF EvalItem, MinTerm, ItemOver
  <2>3. Leq(EvalTerm(t, r), r[w])
    <3>1. VarTerm(w) = Plain(w, 0)
      BY PlainTypes
    <3>2. SubsetOf(t, Plain(w, 0)) = <<Subset(Less(t, 0), w)>>
      <4>1. t \in TermOver(Nat) /\ w \in Nat /\ 0 \in Int
        OBVIOUS
      <4> QED
        BY ONLY <4>1, SubsetIs
    <3>3. Less(t, 0) = t
      BY TermParts DEF Less
    <3>4. PICK m : m = Subset(t, w) /\ Routed(t, w) = <<m>>
      BY <1>3, <3>1, <3>2, <3>3 DEF Routed
    <3>5. m \in ToSet(Routed(t, w))
      <4>1. <<m>>[1] = m /\ 1 \in DOMAIN <<m>>
        OBVIOUS
      <4> QED
        BY <3>4, <4>1 DEF ToSet
    <3>6. Leq(EvalConstraint(m, r), r[Rhs(m)])
      BY <3>5 DEF Solves
    <3> QED
      BY <3>4, <3>6 DEF Subset, EvalConstraint, Rhs
  <2>4. In(n, r[w]) /\ r[w].lo <= EvalTerm(t, r).lo /\ r[w] \in Interval
    BY <1>0, <2>3, InWider, LowWider
  <2>5. Mul(1, r[w]) = r[w]
    BY <2>4, InFull, MulOne
  <2> QED
    BY <2>2, <2>4, <2>5
<1> QED
  BY <1>1, <1>2, <1>3

(* min(x, y): the variable z of the minimum has the lesser of what its     *)
(* operands have, and is no higher from below than they are.               *)
LEMMA MinHolds ==
  ASSUME NEW x \in TermOver(Nat), NEW y \in TermOver(Nat), NEW z \in Nat, NEW r \in [Nat -> Interval],
         Solves(r, ToSet(MinOf(x, y, z))),
         NEW a \in Int, NEW b \in Int, In(a, EvalTerm(x, r)), In(b, EvalTerm(y, r))
  PROVE  /\ In(Lesser(a, b), r[z])
         /\ r[z].lo <= EvalTerm(x, r).lo /\ r[z].lo <= EvalTerm(y, r).lo
<1> DEFINE wx == z + 1
           wy == IF NeedsVar(x) THEN z + 2 ELSE z + 1
<1>1. PICK ix, iy, m : /\ ix = Item(x, wx) /\ iy = Item(y, wy)
                       /\ m = MinSubset(<<ix, iy>>, z)
  OBVIOUS
<1>2. MinOf(x, y, z) = Routed(x, wx) \o Routed(y, wy) \o <<m>>
  BY <1>1 DEF MinOf, Routed, Item
<1>3. wx \in Nat /\ wy \in Nat
  OBVIOUS
<1> HIDE DEF wx, wy
<1>4. ASSUME NEW t \in TermOver(Nat), NEW w \in Nat
      PROVE  Routed(t, w) \in Seq(ConstraintOver(Nat))
  <2>1. VarTerm(w) \in TermOver(Nat)
    BY SimpleTerms
  <2>2. SubsetOf(t, VarTerm(w)) \in Seq(ConstraintOver(Nat))
    BY <2>1, SubsetOfType
  <2> QED
    BY <2>2 DEF Routed
<1>5. PICK p \in Seq(ConstraintOver(Nat)), q \in Seq(ConstraintOver(Nat)) :
        p = Routed(x, wx) /\ q = Routed(y, wy)
  BY <1>3, <1>4
<1>6. /\ ToSet(p) \subseteq ToSet(MinOf(x, y, z)) /\ ToSet(q) \subseteq ToSet(MinOf(x, y, z))
      /\ m \in ToSet(MinOf(x, y, z))
  BY <1>2, <1>5, Parts
<1>7. Solves(r, ToSet(Routed(x, wx))) /\ Solves(r, ToSet(Routed(y, wy)))
  BY <1>5, <1>6 DEF Solves
<1>8. /\ ix \in ItemOver(Nat) /\ EvalItem(ix, r) \in Interval /\ In(a, EvalItem(ix, r))
      /\ EvalItem(ix, r).lo <= EvalTerm(x, r).lo
  BY <1>1, <1>3, <1>7, ItemHolds
<1>9. /\ iy \in ItemOver(Nat) /\ EvalItem(iy, r) \in Interval /\ In(b, EvalItem(iy, r))
      /\ EvalItem(iy, r).lo <= EvalTerm(y, r).lo
  BY <1>1, <1>3, <1>7, ItemHolds
<1>10. EvalConstraint(m, r) = RMin(RMin(Singleton(INF), EvalItem(ix, r)), EvalItem(iy, r))
  <2>1. <<ix, iy>> \in Seq(ItemOver(Nat)) /\ Len(<<ix, iy>>) = 2 /\ <<ix, iy>>[1] = ix /\ <<ix, iy>>[2] = iy
    BY <1>8, <1>9
  <2>2. PICK items \in Seq(ItemOver(Nat)) :
          items = <<ix, iy>> /\ Len(items) = 2 /\ items[1] = ix /\ items[2] = iy
    BY <2>1
  <2>3. PICK f : /\ Runs(f, Len(items), Singleton(INF), MinRun(items, r))
                 /\ EvalConstraint(MinSubset(items, z), r) = f[Len(items)]
    BY MinFold
  <2>4. \A i \in 1 .. Len(items) : \A u \in Interval : MinRun(items, r)[i][u] = RMin(u, EvalItem(items[i], r))
    BY DEF MinRun
  <2>5. /\ f[0] = Singleton(INF) /\ f[0 + 1] = MinRun(items, r)[0 + 1][f[0]]
        /\ f[1 + 1] = MinRun(items, r)[1 + 1][f[1]] /\ f[0] \in Interval /\ f[1] \in Interval
    <3>1. 0 \in 0 .. Len(items) - 1 /\ 1 \in 0 .. Len(items) - 1 /\ 0 \in 0 .. Len(items) /\ 1 \in 0 .. Len(items)
      BY <2>2
    <3> QED
      BY <2>3, <3>1 DEF Runs
  <2>6. f[1] = RMin(f[0], EvalItem(ix, r)) /\ f[2] = RMin(f[1], EvalItem(iy, r))
    <3>1. 1 \in 1 .. Len(items) /\ 2 \in 1 .. Len(items)
      BY <2>2
    <3>2. MinRun(items, r)[1][f[0]] = RMin(f[0], EvalItem(items[1], r))
      BY <2>4, <2>5, <3>1
    <3>3. MinRun(items, r)[2][f[1]] = RMin(f[1], EvalItem(items[2], r))
      BY <2>4, <2>5, <3>1
    <3> QED
      BY <2>2, <2>5, <3>2, <3>3
  <2> QED
    BY <1>1, <2>2, <2>3, <2>5, <2>6
<1>11. PICK u, v, e : u = EvalItem(ix, r) /\ v = EvalItem(iy, r) /\ e = EvalConstraint(m, r)
  OBVIOUS
<1>12. e \in Interval /\ In(Lesser(a, b), e) /\ e.lo = Lesser(u.lo, v.lo)
  BY <1>8, <1>9, <1>10, <1>11, MinOfTwo
<1>13. Leq(e, r[z])
  BY <1>1, <1>6, <1>11 DEF Solves, MinSubset, Rhs
<1>14. In(Lesser(a, b), r[z]) /\ r[z].lo <= e.lo
  <2>1. Lesser(a, b) \in Int /\ r[z] \in Interval
    BY DEF Lesser
  <2> QED
    BY <1>12, <1>13, <2>1, InWider, LowWider
<1> QED
  <2>1. u.lo \in Int /\ v.lo \in Int /\ r[z].lo \in Int /\ EvalTerm(x, r).lo \in Int /\ EvalTerm(y, r).lo \in Int
    BY <1>8, <1>9, <1>11, EvalTermType, IntervalFacts
  <2>2. r[z].lo <= u.lo /\ r[z].lo <= v.lo
    BY <1>12, <1>14, <2>1 DEF Lesser
  <2>3. u.lo <= EvalTerm(x, r).lo /\ v.lo <= EvalTerm(y, r).lo
    BY <1>8, <1>9, <1>11
  <2>4. r[z].lo <= EvalTerm(x, r).lo /\ r[z].lo <= EvalTerm(y, r).lo
    <3>1. \A i, j, k \in Int : i <= j /\ j <= k => i <= k
      OBVIOUS
    <3> QED
      BY ONLY <2>1, <2>2, <2>3, <3>1, Zenon
  <2> QED
    BY <1>14, <2>4

LEMMA MinAdded ==
  ASSUME NEW s, Store(s), NEW x \in TermOver(Vars(s)), NEW y \in TermOver(Vars(s)),
         NEW t, t = AddMin(s, x, y)
  PROVE  /\ Grew(t, s) /\ s.vars \in Vars(t)
         /\ NewTerm(s) = Plain(s.vars, 0) /\ NewTerm(s) \in TermOver(Vars(t))
         /\ \A r \in [Nat -> Interval] : \A a, b \in Int :
              Sat(r, t) /\ In(a, EvalTerm(x, r)) /\ In(b, EvalTerm(y, r)) =>
                /\ In(Lesser(a, b), r[s.vars])
                /\ r[s.vars].lo <= EvalTerm(x, r).lo /\ r[s.vars].lo <= EvalTerm(y, r).lo
<1>1. PICK z \in Nat : z = s.vars /\ Vars(s) = 0 .. z - 1
  BY DEF Store, Vars
<1>2a. PICK k \in Nat : \E q :
      k = MinVars(x, y) /\ k >= 1 /\ q = MinOf(x, y, z) /\ q \in Seq(ConstraintOver(0 .. z + k - 1))
  BY <1>1, MinOfType
<1>2. PICK q :
      k = MinVars(x, y) /\ k >= 1 /\ q = MinOf(x, y, z) /\ q \in Seq(ConstraintOver(0 .. z + k - 1))
  BY <1>2a
<1>3. t = [s EXCEPT !.cons = @ \o q, !.vars = @ + k]
  BY <1>1, <1>2 DEF AddMin
<1>4. Grew(t, s) /\ t.vars = s.vars + k /\ ToSet(t.cons) = ToSet(s.cons) \cup ToSet(q)
  <2>1. t = [vars |-> s.vars + k, cons |-> s.cons \o q, queries |-> s.queries, pins |-> << >>]
    <3>0. PICK n, c, a, p : /\ n = s.vars /\ c = s.cons /\ a = s.queries /\ p = << >>
                            /\ s = [vars |-> n, cons |-> c, queries |-> a, pins |-> p]
      BY DEF Store, Shape
    <3>1. PICK d, m : d = s.cons \o q /\ m = s.vars + k
      OBVIOUS
    <3>2. d = c \o q /\ m = n + k
      BY <3>0, <3>1
    <3>3. t = [[s EXCEPT !.cons = d] EXCEPT !.vars = m]
      BY <1>3, <3>1
    <3>4. PICK u : u = [s EXCEPT !.cons = d]
      OBVIOUS
    <3>5. u = [vars |-> n, cons |-> d, queries |-> a, pins |-> p]
      BY <3>0, <3>4
    <3>6. [u EXCEPT !.vars = m] = [vars |-> m, cons |-> d, queries |-> a, pins |-> p]
      BY <3>5
    <3> QED
      BY <3>0, <3>2, <3>3, <3>4, <3>6
  <2>2. t.vars = s.vars + k /\ t.cons = s.cons \o q /\ t.queries = s.queries /\ Shape(t)
    BY <2>1 DEF Shape
  <2>3. t.vars = z + k /\ t.vars \in Nat /\ s.vars <= t.vars
    BY <1>1, <2>2
  <2>4. q \in Seq(ConstraintOver(Vars(t)))
    <3>1. Vars(t) = 0 .. z + k - 1
      BY <2>3 DEF Vars
    <3> QED
      BY <1>2, <3>1
  <2> QED
    BY <2>2, <2>3, <2>4, StoreMade
<1>5. s.vars \in Vars(t)
  BY <1>1, <1>2, <1>4 DEF Vars
<1>6. NewTerm(s) = Plain(s.vars, 0) /\ NewTerm(s) \in TermOver(Vars(t))
  BY <1>5, PlainTypes DEF NewTerm
<1>7. x \in TermOver(Nat) /\ y \in TermOver(Nat)
  BY NatTerms
<1>8. ASSUME NEW r \in [Nat -> Interval], NEW a \in Int, NEW b \in Int,
             Sat(r, t), In(a, EvalTerm(x, r)), In(b, EvalTerm(y, r))
      PROVE  /\ In(Lesser(a, b), r[z])
             /\ r[z].lo <= EvalTerm(x, r).lo /\ r[z].lo <= EvalTerm(y, r).lo
  <2>1. Solves(r, ToSet(MinOf(x, y, z)))
    BY <1>2, <1>4, <1>8 DEF Sat, Solves
  <2> QED
    BY <1>7, <1>8, <2>1, MinHolds
<1> QED
  BY <1>1, <1>4, <1>5, <1>6, <1>8

-----------------------------------------------------------------------------
(* What else the walker does to a store.                                   *)

LEMMA TwoAdded ==
  ASSUME NEW s, NEW a, NEW b, NEW rhs
  PROVE  AddSubsets(s, <<a, b>>, rhs) = AddSubset(AddSubset(s, a, rhs), b, rhs)
<1>0. DOMAIN <<a, b>> = 1 .. 2 /\ Len(<<a, b>>) = 2 /\ <<a, b>>[1] = a /\ <<a, b>>[2] = b
  OBVIOUS
<1>1. PICK t : t = <<a, b>> /\ DOMAIN t = 1 .. 2 /\ Len(t) = 2 /\ t[1] = a /\ t[2] = b
  BY <1>0
<1> DEFINE rec(r) == [S \in SUBSET (1 .. 2) |->
                        IF S = {} THEN s ELSE AddSubset(r[S \ {Max(S)}], t[Max(S)], rhs)]
           R0 == CHOOSE r : r = rec(r)
<1>2. AddSubsets(s, t, rhs) = R0[1 .. 2]
  BY <1>1 DEF AddSubsets, FoldLeft, MapThenFoldSet
<1>3. \A S \in SUBSET (1 .. 2) : S = {} \/ S = {1} \/ S = {2} \/ S = 1 .. 2
  <2> SUFFICES ASSUME NEW S \in SUBSET (1 .. 2)
               PROVE  S = {} \/ S = {1} \/ S = {2} \/ S = 1 .. 2
    OBVIOUS
  <2>1. 1 .. 2 = {1, 2}
    OBVIOUS
  <2> QED
    BY <2>1
<1>4. Max({1}) = 1 /\ Max({2}) = 2 /\ Max(1 .. 2) = 2
  <2>1. {1} \in SUBSET Int /\ {2} \in SUBSET Int /\ 1 .. 2 \in SUBSET Int /\ 2 \in 1 .. 2
    OBVIOUS
  <2>2. \A y \in 1 .. 2 : 2 >= y
    OBVIOUS
  <2> QED
    BY <2>1, <2>2, MaxOf
<1>5. (1 .. 2) \ {2} = {1} /\ {1} \ {1} = {} /\ {2} \ {2} = {} /\ {1} # {} /\ {2} # {} /\ 1 .. 2 # {}
      /\ {1} # 1 .. 2 /\ {2} # 1 .. 2 /\ {1} # {2}
      /\ {} \in SUBSET (1 .. 2) /\ {1} \in SUBSET (1 .. 2) /\ {2} \in SUBSET (1 .. 2) /\ 1 .. 2 \in SUBSET (1 .. 2)
  OBVIOUS
<1> DEFINE s1 == AddSubset(s, t[1], rhs)
           s2 == AddSubset(s, t[2], rhs)
           s3 == AddSubset(s1, t[2], rhs)
           it == [S \in SUBSET (1 .. 2) |->
                    IF S = {} THEN s ELSE IF S = {1} THEN s1 ELSE IF S = {2} THEN s2 ELSE s3]
<1>6. it = rec(it)
  <2>1. it[{}] = s /\ it[{1}] = s1 /\ it[{2}] = s2 /\ it[1 .. 2] = s3
    BY <1>5
  <2>2. ASSUME NEW S \in SUBSET (1 .. 2)
        PROVE  it[S] = IF S = {} THEN s ELSE AddSubset(it[S \ {Max(S)}], t[Max(S)], rhs)
    <3>1. CASE S = {}
      BY <2>1, <3>1
    <3>2. CASE S = {1}
      <4>1. S # {} /\ Max(S) = 1 /\ S \ {1} = {}
        BY <1>4, <1>5, <3>2
      <4> HIDE DEF it
      <4> QED
        BY <2>1, <3>2, <4>1
    <3>3. CASE S = {2}
      <4>1. S # {} /\ Max(S) = 2 /\ S \ {2} = {}
        BY <1>4, <1>5, <3>3
      <4> HIDE DEF it
      <4> QED
        BY <2>1, <3>3, <4>1
    <3>4. CASE S = 1 .. 2
      <4>1. S # {} /\ Max(S) = 2 /\ S \ {2} = {1}
        BY <1>4, <1>5, <3>4
      <4> HIDE DEF it
      <4> QED
        BY <2>1, <3>4, <4>1
    <3> QED
      BY <1>3, <3>1, <3>2, <3>3, <3>4
  <2> QED
    BY <2>2
<1> HIDE DEF it
<1>7. R0 = rec(R0)
  BY <1>6
<1> HIDE DEF R0
<1>8. R0[{}] = s
  BY <1>5, <1>7
<1>9. R0[{1}] = s1
  <2>1. R0[{1}] = AddSubset(R0[{1} \ {Max({1})}], t[Max({1})], rhs)
    BY <1>5, <1>7
  <2> QED
    BY <1>4, <1>5, <1>8, <2>1
<1>10. R0[1 .. 2] = s3
  <2>1. R0[1 .. 2] = AddSubset(R0[(1 .. 2) \ {Max(1 .. 2)}], t[Max(1 .. 2)], rhs)
    BY <1>5, <1>7
  <2> QED
    BY <1>4, <1>5, <1>9, <2>1
<1> QED
  BY <1>1, <1>2, <1>10

(* Everything between two values that are sent to a variable.               *)
LEMMA SubsetsAdded ==
  ASSUME NEW s, Store(s), NEW a \in TermOver(Vars(s)), NEW b \in TermOver(Vars(s)),
         NEW v \in Vars(s), NEW k \in Int,
         NEW t, t = AddSubsets(s, <<a, b>>, Plain(v, k))
  PROVE  /\ Grew(t, s) /\ t.vars = s.vars
         /\ \A r : Sat(r, t) => Leq(EvalTerm(Less(a, k), r), r[v]) /\ Leq(EvalTerm(Less(b, k), r), r[v])
<1>1. PICK u : u = AddSubset(s, a, Plain(v, k))
  OBVIOUS
<1>2. t = AddSubset(u, b, Plain(v, k))
  BY <1>1, TwoAdded
<1>3. /\ Grew(u, s) /\ u.vars = s.vars
      /\ \A r : Sat(r, u) => Leq(EvalTerm(Less(a, k), r), r[v])
  BY <1>1, SubsetAdded
<1>4. Store(u) /\ Vars(u) = Vars(s)
  BY <1>3 DEF Grew, Vars
<1>5. /\ Grew(t, u) /\ t.vars = u.vars
      /\ \A r : Sat(r, t) => Leq(EvalTerm(Less(b, k), r), r[v])
  BY <1>2, <1>4, SubsetAdded
<1>6. Grew(t, s)
  BY <1>3, <1>5, GrewTrans
<1>7. \A r : Sat(r, t) => Sat(r, u)
  BY <1>5, GrewSat
<1> QED
  BY <1>3, <1>5, <1>6, <1>7

(* A new string, and its query. *)
LEMMA StringAdded ==
  ASSUME NEW s, Store(s), NEW name, NEW t, t = fresh_str(s, name)
  PROVE  /\ Grew(t, s) /\ t.vars = s.vars + 2 /\ ToSet(t.cons) = ToSet(s.cons)
         /\ s.vars \in Vars(t) /\ s.vars + 1 \in Vars(t)
         /\ NewTerm(s) = Plain(s.vars, 0) /\ NewTerm(Grown(s)) = Plain(s.vars + 1, 0)
         /\ [name |-> name, siz |-> Plain(s.vars, 0), len |-> Plain(s.vars + 1, 0)] \in ToSet(t.queries)
<1>1. PICK u, w : u = Grown(s) /\ w = Grown(u)
  OBVIOUS
<1>2. /\ Grew(u, s) /\ u.vars = s.vars + 1 /\ s.vars \in Vars(u) /\ ToSet(u.cons) = ToSet(s.cons)
      /\ NewTerm(s) = Plain(s.vars, 0)
  BY <1>1, StoreGrown
<1>3. Store(u)
  BY <1>2 DEF Grew
<1>4. /\ Grew(w, u) /\ w.vars = u.vars + 1 /\ u.vars \in Vars(w) /\ ToSet(w.cons) = ToSet(u.cons)
      /\ NewTerm(u) = Plain(u.vars, 0)
  BY <1>1, <1>3, StoreGrown
<1>5. Store(w)
  BY <1>4 DEF Grew
<1>6. t = Queried(w, name, NewTerm(s), NewTerm(u))
  BY <1>1 DEF fresh_str
<1>7. /\ Grew(t, w) /\ t.vars = w.vars /\ ToSet(t.cons) = ToSet(w.cons)
      /\ [name |-> name, siz |-> NewTerm(s), len |-> NewTerm(u)] \in ToSet(t.queries)
  BY <1>5, <1>6, StoreQueried
<1>8. Grew(t, s)
  <2>1. Grew(w, s)
    BY <1>2, <1>4, GrewTrans
  <2> QED
    BY <1>7, <2>1, GrewTrans
<1>9. t.vars = s.vars + 2 /\ s.vars \in Vars(t) /\ s.vars + 1 \in Vars(t)
  <2>1. s.vars \in Nat
    BY DEF Store
  <2> QED
    BY <1>2, <1>4, <1>7, <2>1 DEF Vars
<1> QED
  BY <1>1, <1>2, <1>4, <1>7, <1>8, <1>9

(* x may be the value of a term; and of what remains of the term when k    *)
(* bytes of the target it is sent to were skipped.                         *)
Holds(t, r, x) == \A k \in Nat : In(x + k, EvalTerm(Less(t, -k), r))

LEMMA HoldsIn ==
  ASSUME NEW t \in TermOver(Nat), NEW r \in [Nat -> Interval], NEW x \in Int, Holds(t, r, x)
  PROVE  In(x, EvalTerm(t, r))
<1>1. Less(t, -0) = t
  BY TermParts DEF Less
<1>2. In(x + 0, EvalTerm(Less(t, -0), r)) /\ x + 0 = x
  BY DEF Holds
<1> QED
  BY <1>1, <1>2

LEMMA ConstMay ==
  ASSUME NEW n \in Int, NEW r \in [Nat -> Interval]
  PROVE  Holds(ConstTerm(n), r, n)
<1> SUFFICES ASSUME NEW k \in Nat
             PROVE  In(n + k, EvalTerm(Less(ConstTerm(n), -k), r))
  BY DEF Holds
<1>1. Less(ConstTerm(n), -k) = ConstTerm(n + k)
  BY DEF Less, ConstTerm
<1> QED
  BY <1>1, ConstHolds

LEMMA PlainMay ==
  ASSUME NEW v \in Nat, NEW k \in Int, NEW r \in [Nat -> Interval], NEW n \in Nat,
         In(n, r[v]), k > NEGINF, k >= 0 \/ r[v].lo < INF
  PROVE  Holds(Plain(v, k), r, n + k)
<1> SUFFICES ASSUME NEW j \in Nat
             PROVE  In(n + k + j, EvalTerm(Less(Plain(v, k), -j), r))
  BY DEF Holds
<1>1. Less(Plain(v, k), -j) = Plain(v, k + j)
  BY DEF Less, Plain
<1>2. PICK i \in Int : i = k + j /\ i > NEGINF /\ (i >= 0 \/ r[v].lo < INF)
  BY EndpointFacts
<1>3. In(n + i, EvalTerm(Plain(v, i), r))
  BY <1>2, PlainHolds
<1>4. n + i = n + k + j
  BY <1>2
<1> QED
  BY <1>1, <1>2, <1>3, <1>4

LEMMA VarMay ==
  ASSUME NEW v \in Nat, NEW r \in [Nat -> Interval], NEW n \in Nat, In(n, r[v])
  PROVE  Holds(Plain(v, 0), r, n)
<1>1. Holds(Plain(v, 0), r, n + 0)
  BY PlainMay, EndpointFacts
<1> QED
  BY <1>1

(* What is sent to a variable is in its range. *)
LEMMA Sent ==
  ASSUME NEW lhs \in TermOver(Nat), NEW v \in Nat, NEW k \in Nat, NEW r \in [Nat -> Interval],
         Leq(EvalTerm(Less(lhs, -k), r), r[v]), NEW x \in Int, Holds(lhs, r, x)
  PROVE  In(x + k, r[v])
<1>1. Less(lhs, -k) \in TermOver(Nat)
  BY LessTerm
<1>2. EvalTerm(Less(lhs, -k), r) \in Interval /\ r[v] \in Interval
  BY <1>1, EvalTermType
<1>3. In(x + k, EvalTerm(Less(lhs, -k), r)) /\ x + k \in Int
  BY DEF Holds
<1> QED
  BY <1>2, <1>3, InWider

(* lhs \subseteq v - k: the values of lhs are sent to v. *)
LEMMA SubsetSends ==
  ASSUME NEW s, Store(s), NEW lhs \in TermOver(Vars(s)), NEW v \in Vars(s), NEW k \in Nat,
         NEW t, t = AddSubset(s, lhs, Plain(v, -k))
  PROVE  /\ Grew(t, s) /\ t.vars = s.vars
         /\ \A r \in [Nat -> Interval], x \in Int : Sat(r, t) /\ Holds(lhs, r, x) => In(x + k, r[v])
<1>1. /\ Grew(t, s) /\ t.vars = s.vars
      /\ \A r : Sat(r, t) => Leq(EvalTerm(Less(lhs, -k), r), r[v])
  BY SubsetAdded
<1>2. lhs \in TermOver(Nat) /\ v \in Nat
  BY NatTerms, StoreVars
<1>3. ASSUME NEW r \in [Nat -> Interval], NEW x \in Int, Sat(r, t), Holds(lhs, r, x)
      PROVE  In(x + k, r[v])
  BY <1>1, <1>2, <1>3, Sent
<1> QED
  BY <1>1, <1>3

(* a, b \subseteq v - k: so is everything between their values. *)
LEMMA SubsetsSend ==
  ASSUME NEW s, Store(s), NEW a \in TermOver(Vars(s)), NEW b \in TermOver(Vars(s)), NEW v \in Vars(s),
         NEW k \in Nat, NEW t, t = AddSubsets(s, <<a, b>>, Plain(v, -k))
  PROVE  /\ Grew(t, s) /\ t.vars = s.vars
         /\ \A r \in [Nat -> Interval], x, y, w \in Int :
              Sat(r, t) /\ Holds(a, r, x) /\ Holds(b, r, y) /\ x <= w /\ w <= y => In(w + k, r[v])
<1>1. /\ Grew(t, s) /\ t.vars = s.vars
      /\ \A r : Sat(r, t) => Leq(EvalTerm(Less(a, -k), r), r[v]) /\ Leq(EvalTerm(Less(b, -k), r), r[v])
  BY SubsetsAdded
<1>2. a \in TermOver(Nat) /\ b \in TermOver(Nat) /\ v \in Nat
  BY NatTerms, StoreVars
<1>3. ASSUME NEW r \in [Nat -> Interval], NEW x \in Int, NEW y \in Int, NEW w \in Int, Sat(r, t),
             Holds(a, r, x), Holds(b, r, y), x <= w, w <= y
      PROVE  In(w + k, r[v])
  <2>1. In(x + k, r[v]) /\ In(y + k, r[v])
    BY <1>1, <1>2, <1>3, Sent
  <2>2. x + k \in Int /\ y + k \in Int /\ w + k \in Int /\ x + k <= w + k /\ w + k <= y + k /\ r[v] \in Interval
    BY <1>2, <1>3
  <2> QED
    BY <2>1, <2>2, InBetween
<1> QED
  BY <1>1, <1>3

(* 1 and t + 1 are in t = v - k: every length is. *)
LEMMA AllSent ==
  ASSUME NEW s, Store(s), NEW v \in Vars(s), NEW k \in Nat,
         NEW t, t = force_len_top(s, Plain(v, -k))
  PROVE  /\ Grew(t, s) /\ t.vars = s.vars
         /\ \A r \in [Nat -> Interval], w \in Nat \ {0} : Sat(r, t) => In(w + k, r[v])
<1>1. PICK u : u = AddSubset(s, One, Plain(v, -k))
  OBVIOUS
<1>2. v \in Nat /\ One = ConstTerm(1) /\ One \in TermOver(Vars(s))
  BY StoreVars, PlainTypes DEF One
<1>3. /\ Grew(u, s) /\ u.vars = s.vars
      /\ \A r \in [Nat -> Interval], x \in Int : Sat(r, u) /\ Holds(One, r, x) => In(x + k, r[v])
  BY <1>1, <1>2, SubsetSends
<1>4. Store(u) /\ Vars(u) = Vars(s)
  BY <1>3 DEF Grew, Vars
<1>5. AddTerms(Plain(v, -k), One) = Plain(v, 1 - k) /\ Plain(v, 1 - k) \in TermOver(Vars(s))
  <2>1. AddTerms(Plain(v, -k), ConstTerm(1)) = Plain(v, -k + 1) /\ -k + 1 = 1 - k /\ 1 - k \in Int
    BY PlainShifted
  <2> QED
    BY <1>2, <2>1, PlainTypes
<1>6. t = AddSubset(u, Plain(v, 1 - k), Plain(v, -k))
  BY <1>1, <1>5 DEF force_len_top
<1>7. /\ Grew(t, u) /\ t.vars = u.vars
      /\ \A r : Sat(r, t) => Leq(EvalTerm(Less(Plain(v, 1 - k), -k), r), r[v])
  BY <1>4, <1>5, <1>6, SubsetAdded
<1>8. Less(Plain(v, 1 - k), -k) = Plain(v, 1)
  BY DEF Less, Plain
<1>9. ASSUME NEW r \in [Nat -> Interval], NEW w \in Nat \ {0}, Sat(r, t)
      PROVE  In(w + k, r[v])
  <2>1. Sat(r, u)
    BY <1>7, <1>9, GrewSat
  <2>2. In(1 + k, r[v])
    BY <1>2, <1>3, <2>1, ConstMay
  <2>3. \A n \in Nat : In(n, r[v]) => In(n + 1, r[v])
    <3> SUFFICES ASSUME NEW n \in Nat, In(n, r[v])
                 PROVE  In(n + 1, r[v])
      OBVIOUS
    <3>1. In(n + 1, EvalTerm(Plain(v, 1), r))
      BY <1>2, PlainHolds, EndpointFacts
    <3>2. Plain(v, 1) \in TermOver(Nat)
      <4>1. 1 \in Int /\ v \in Nat
        BY <1>2
      <4> QED
        BY <4>1, PlainTypes, Zenon
    <3>3. EvalTerm(Plain(v, 1), r) \in Interval /\ r[v] \in Interval
      BY <1>2, <3>2, EvalTermType
    <3> QED
      BY <1>7, <1>8, <1>9, <3>1, <3>3, InWider
  <2>4. PICK y \in Interval : y = r[v]
    BY <1>2
  <2>5. y.hi \in Int /\ y.lo \in Int /\ y.hi <= INF /\ y.lo <= INF /\ NEGINF <= y.lo /\ NEGINF < 0
    BY IntervalFacts, EndpointFacts
  <2>6. y.hi = INF
    <3> SUFFICES ASSUME y.hi # INF
                 PROVE  FALSE
      OBVIOUS
    <3>1. In(1 + k, y) /\ 1 + k \in Nat
      BY <2>2, <2>4
    <3>2. y.hi >= 1 + k
      BY <3>1 DEF In
    <3>3. y.hi \in Nat /\ In(y.hi, y)
      BY <2>5, <3>1, <3>2 DEF In
    <3>4. In(y.hi + 1, y)
      BY <2>3, <2>4, <3>3
    <3> QED
      BY <2>5, <3>4 DEF In
  <2> QED
    BY <2>2, <2>4, <2>5, <2>6 DEF In
<1>10. Grew(t, s)
  BY <1>3, <1>7, GrewTrans
<1> QED
  BY <1>3, <1>7, <1>9, <1>10

-----------------------------------------------------------------------------
(* Assignments. *)

LEMMA IntSet ==
  ASSUME NEW s, Store(s), NEW v \in Vars(s), NEW val \in TermOver(Vars(s)),
         NEW t, t = assign(s, IntCtx(Plain(v, 0)), IntCtx(val))
  PROVE  /\ Grew(t, s)
         /\ \A r \in [Nat -> Interval], x \in Int : Sat(r, t) /\ Holds(val, r, x) => In(x, r[v])
<1>0. \A x : IsInt(IntCtx(x)) /\ IntCtx(x).val = x
  BY DEF IsInt, IntCtx
<1>1. t = AddSubset(s, val, Plain(v, 0))
  <2>1. PICK d, e : d = IntCtx(Plain(v, 0)) /\ e = IntCtx(val)
    OBVIOUS
  <2>2. t = AddSubset(s, e.val, d.val)
    <3>1. IsInt(d) /\ IsInt(e) /\ ~IsStr(d)
      BY <2>1 DEF IsInt, IsStr, IntCtx
    <3> QED
      BY <2>1, <3>1 DEF assign
  <2> QED
    BY <1>0, <2>1, <2>2
<1>1a. Plain(v, 0) = Plain(v, -0) /\ 0 \in Nat
  OBVIOUS
<1>2. /\ Grew(t, s)
      /\ \A r \in [Nat -> Interval], x \in Int : Sat(r, t) /\ Holds(val, r, x) => In(x + 0, r[v])
  BY <1>1, <1>1a, SubsetSends
<1>3. \A x \in Int : x + 0 = x
  OBVIOUS
<1> QED
  BY <1>2, <1>3

LEMMA StrSet ==
  ASSUME NEW s, Store(s), NEW v \in Vars(s), NEW w \in Vars(s),
         NEW siz \in TermOver(Vars(s)), NEW len \in TermOver(Vars(s)),
         NEW t, t = assign(s, StrCtx(Plain(v, 0), Plain(w, 0)), StrCtx(siz, len))
  PROVE  /\ Grew(t, s)
         /\ \A r \in [Nat -> Interval], x \in Int :
              /\ Sat(r, t) /\ Holds(siz, r, x) => In(x, r[v])
              /\ Sat(r, t) /\ Holds(len, r, x) => In(x, r[w])
<1>0. Plain(v, 0) = Plain(v, -0) /\ Plain(w, 0) = Plain(w, -0) /\ 0 \in Nat
  OBVIOUS
<1>1. PICK u : u = AddSubset(s, len, Plain(w, 0))
  OBVIOUS
<1>2. t = AddSubset(u, siz, Plain(v, 0))
  BY <1>1 DEF assign, IsInt, IsStr, StrCtx
<1>3. /\ Grew(u, s) /\ u.vars = s.vars
      /\ \A r \in [Nat -> Interval], x \in Int : Sat(r, u) /\ Holds(len, r, x) => In(x + 0, r[w])
  BY <1>0, <1>1, SubsetSends
<1>4. Store(u) /\ Vars(u) = Vars(s)
  BY <1>3 DEF Grew, Vars
<1>5. siz \in TermOver(Vars(u)) /\ v \in Vars(u)
  BY <1>4
<1>6. /\ Grew(t, u)
      /\ \A r \in [Nat -> Interval], x \in Int : Sat(r, t) /\ Holds(siz, r, x) => In(x + 0, r[v])
  BY <1>0, <1>2, <1>4, <1>5, SubsetSends
<1>7. \A r : Sat(r, t) => Sat(r, u)
  BY <1>6, GrewSat
<1>8. Grew(t, s)
  BY <1>3, <1>6, GrewTrans
<1>9. \A x \in Int : x + 0 = x
  OBVIOUS
<1> QED
  BY <1>3, <1>6, <1>7, <1>8, <1>9

(* A value of another kind is ignored. *)
LEMMA NothingSet ==
  ASSUME NEW s, NEW siz, NEW len, NEW ctx, ctx.kind # "str"
  PROVE  assign(s, StrCtx(siz, len), ctx) = s
BY DEF assign, IsInt, IsStr, StrCtx

-----------------------------------------------------------------------------
(* The solution that Solve takes: the ranges that no visit of the          *)
(* constraints changes.                                                    *)

LEMMA TidyFacts ==
  /\ Empty \in Tidy
  /\ \A x \in Tidy : x \in Interval
  /\ \A x, y \in Tidy : Hull(x, y) \in Tidy /\ Leq(x, Hull(x, y)) /\ Leq(y, Hull(x, y))
<1>1. Empty \in Tidy /\ \A x \in Tidy : x \in Interval
  BY ConstantTypes DEF Tidy
<1>2. ASSUME NEW x \in Tidy, NEW y \in Tidy
      PROVE  Hull(x, y) \in Tidy /\ Leq(x, Hull(x, y)) /\ Leq(y, Hull(x, y))
  <2>1. x.lo \in Int /\ x.hi \in Int /\ y.lo \in Int /\ y.hi \in Int /\ x \in Interval /\ y \in Interval
    BY <1>1, IntervalFacts
  <2>2. CASE IsEmpty(x)
    BY <2>1, <2>2 DEF Hull, Leq
  <2>3. CASE ~IsEmpty(x) /\ IsEmpty(y)
    BY <2>1, <2>3 DEF Hull, Leq
  <2>4. CASE ~IsEmpty(x) /\ ~IsEmpty(y)
    <3>1. Hull(x, y) = [lo |-> Lesser(x.lo, y.lo), hi |-> Greater(x.hi, y.hi)]
      BY <2>4 DEF Hull
    <3>2. Hull(x, y) \in Interval /\ ~IsEmpty(Hull(x, y))
      BY <2>1, <2>4, <3>1, IntervalFacts DEF Lesser, Greater, Interval, IsEmpty
    <3> QED
      BY <2>1, <3>1, <3>2 DEF Tidy, Leq, Lesser, Greater
  <2> QED
    BY <2>2, <2>3, <2>4
<1> QED
  BY <1>1, <1>2

LEMMA LeqOrder ==
  /\ \A x \in Tidy : Leq(x, x)
  /\ \A x, y, z \in Tidy : Leq(x, y) /\ Leq(y, z) => Leq(x, z)
  /\ \A x, y \in Tidy : Leq(x, y) /\ Leq(y, x) => x = y
<1>1. \A x \in Tidy : x.lo \in Int /\ x.hi \in Int /\ x = [lo |-> x.lo, hi |-> x.hi] /\ (IsEmpty(x) => x = Empty)
  BY IntervalFacts DEF Tidy, Interval
<1>2. IsEmpty(Empty)
  BY ConstantTypes
<1>3. ASSUME NEW x \in Tidy
      PROVE  Leq(x, x)
  BY <1>1 DEF Leq
<1>4. ASSUME NEW x \in Tidy, NEW y \in Tidy, NEW z \in Tidy, Leq(x, y), Leq(y, z)
      PROVE  Leq(x, z)
  BY <1>1, <1>4 DEF Leq, IsEmpty
<1>5. ASSUME NEW x \in Tidy, NEW y \in Tidy, Leq(x, y), Leq(y, x)
      PROVE  x = y
  <2>1. CASE IsEmpty(x) \/ IsEmpty(y)
    BY <1>1, <1>2, <1>5, <2>1 DEF Leq, IsEmpty
  <2>2. CASE ~IsEmpty(x) /\ ~IsEmpty(y)
    <3>1. x.lo = y.lo /\ x.hi = y.hi
      BY <1>1, <1>5, <2>2 DEF Leq
    <3> QED
      BY <1>1, <3>1
  <2> QED
    BY <2>1, <2>2
<1> QED
  BY <1>3, <1>4, <1>5

(* A fold R0 whose every step is one of G; and what it is on the prefixes  *)
(* of 1 .. n.                                                              *)
FoldedBy(R0, n, T, base, G) ==
  /\ R0[{}] = base
  /\ \A S \in SUBSET (1 .. n) : S # {} /\ R0[S \ {Max(S)}] \in T => R0[S] = G[Max(S)][R0[S \ {Max(S)}]]

Traces(f, n, T, base, G) ==
  /\ f \in [0 .. n -> T] /\ f[0] = base
  /\ \A k \in 0 .. n - 1 : f[k + 1] = G[k + 1][f[k]]

LEMMA FoldTrace ==
  ASSUME NEW n \in Nat, NEW T, NEW base \in T, NEW G \in [1 .. n -> [T -> T]],
         NEW R0, FoldedBy(R0, n, T, base, G)
  PROVE  \E f : Traces(f, n, T, base, G) /\ f[n] = R0[1 .. n]
<1>0. /\ R0[{}] = base
      /\ \A S \in SUBSET (1 .. n) : S # {} /\ R0[S \ {Max(S)}] \in T => R0[S] = G[Max(S)][R0[S \ {Max(S)}]]
  BY DEF FoldedBy
<1>1. \A k \in 0 .. n - 1 : R0[1 .. k] \in T => R0[1 .. k + 1] = G[k + 1][R0[1 .. k]]
  <2> SUFFICES ASSUME NEW k \in 0 .. n - 1, R0[1 .. k] \in T
               PROVE  R0[1 .. k + 1] = G[k + 1][R0[1 .. k]]
    OBVIOUS
  <2>1. PICK S \in SUBSET (1 .. n) : S = 1 .. k + 1 /\ S # {} /\ Max(S) = k + 1 /\ S \ {k + 1} = 1 .. k
    BY LastPosition
  <2> QED
    BY <1>0, <2>1
<1> DEFINE Good == {k \in Nat : k <= n => R0[1 .. k] \in T}
<1>2. 0 \in Good
  <2>1. 1 .. 0 = {}
    OBVIOUS
  <2> QED
    BY <1>0, <2>1
<1>3. \A k \in Nat : k \in Good => k + 1 \in Good
  <2> SUFFICES ASSUME NEW k \in Nat, k \in Good, k + 1 <= n
               PROVE  R0[1 .. k + 1] \in T
    OBVIOUS
  <2>1. k \in 0 .. n - 1 /\ k + 1 \in 1 .. n /\ R0[1 .. k] \in T
    OBVIOUS
  <2>2. R0[1 .. k + 1] = G[k + 1][R0[1 .. k]] /\ G[k + 1] \in [T -> T]
    BY <1>1, <2>1
  <2> QED
    BY <2>1, <2>2
<1>4. \A k \in 0 .. n : R0[1 .. k] \in T
  <2>1. Nat \subseteq Good
    <3> HIDE DEF Good
    <3> QED
      BY <1>2, <1>3, SetInduction
  <2> QED
    BY <2>1
<1>5. PICK f : f = [k \in 0 .. n |-> R0[1 .. k]]
  OBVIOUS
<1>6. f \in [0 .. n -> T] /\ \A k \in 0 .. n : f[k] = R0[1 .. k]
  BY <1>4, <1>5
<1>7. \A k \in 0 .. n - 1 : f[k + 1] = G[k + 1][f[k]]
  <2> SUFFICES ASSUME NEW k \in 0 .. n - 1
               PROVE  f[k + 1] = G[k + 1][f[k]]
    OBVIOUS
  <2>1. k \in 0 .. n /\ k + 1 \in 0 .. n
    OBVIOUS
  <2> QED
    BY <1>1, <1>4, <1>6, <2>1
<1>8. f[0] = base /\ f[n] = R0[1 .. n]
  <2>1. 1 .. 0 = {} /\ 0 \in 0 .. n /\ n \in 0 .. n
    OBVIOUS
  <2> QED
    BY <1>0, <1>6, <2>1
<1> QED
  BY <1>6, <1>7, <1>8 DEF Traces

Visit(c, f) == [f EXCEPT ![Rhs(c)] = Hull(@, EvalConstraint(c, f))]

LEMMA VisitGrows ==
  ASSUME NEW V, NEW c \in ConstraintOver(V), NEW f \in [V -> Tidy]
  PROVE  /\ Visit(c, f) \in [V -> Tidy]
         /\ \A v \in V : Leq(f[v], Visit(c, f)[v])
         /\ Leq(EvalConstraint(c, f), Visit(c, f)[Rhs(c)])
<1>1. Rhs(c) \in V
  BY DEF ConstraintOver, Rhs
<1>2. f \in [V -> Interval]
  BY TidyFacts
<1>3. PICK e \in Tidy : e = EvalConstraint(c, f)
  BY <1>2, EvalTidy
<1>4. Visit(c, f) = [f EXCEPT ![Rhs(c)] = Hull(f[Rhs(c)], e)]
  BY <1>3 DEF Visit
<1>5. /\ Hull(f[Rhs(c)], e) \in Tidy /\ Leq(f[Rhs(c)], Hull(f[Rhs(c)], e)) /\ Leq(e, Hull(f[Rhs(c)], e))
  BY <1>1, TidyFacts
<1> QED
  BY <1>1, <1>3, <1>4, <1>5, LeqOrder

LEMMA VisitType ==
  ASSUME NEW V, NEW c \in ConstraintOver(V), NEW W \in {Interval, Tidy}, NEW f \in [V -> W]
  PROVE  Visit(c, f) \in [V -> W]
<1>1. CASE W = Tidy
  BY <1>1, VisitGrows
<1>2. CASE W = Interval
  <2>1. PICK e \in Interval : e = EvalConstraint(c, f)
    BY <1>2, EvalType
  <2>2. PICK v \in V : v = Rhs(c)
    BY DEF ConstraintOver, Rhs
  <2>3. Hull(f[v], e) \in Interval
    BY <1>2, EndpointFacts DEF Hull, Interval, Lesser, Greater, IsEmpty
  <2>4. Visit(c, f) = [f EXCEPT ![v] = Hull(f[v], e)]
    BY <2>1, <2>2 DEF Visit
  <2> QED
    BY <1>2, <2>3, <2>4
<1> QED
  BY <1>1, <1>2

LEMMA RoundSteps ==
  ASSUME NEW V, NEW cs \in Seq(ConstraintOver(V)), NEW W \in {Interval, Tidy}, NEW r \in [V -> W]
  PROVE  \E f \in [0 .. Len(cs) -> [V -> W]] :
            /\ f[0] = r /\ f[Len(cs)] = Round(cs, {}, r)
            /\ \A k \in 0 .. Len(cs) - 1 : f[k + 1] = Visit(cs[k + 1], f[k])
<1>1. PICK n \in Nat : n = Len(cs) /\ DOMAIN cs = 1 .. n /\ \A i \in 1 .. n : cs[i] \in ConstraintOver(V)
  OBVIOUS
<1> DEFINE T == [V -> W]
           G == [i \in 1 .. n |-> [f \in T |-> Visit(cs[i], f)]]
<1>2. G \in [1 .. n -> [T -> T]] /\ \A i \in 1 .. n : \A f \in T : G[i][f] = Visit(cs[i], f)
  BY <1>1, VisitType
<1> HIDE DEF G, T
<1>3. r \in T
  BY DEF T
<1>4. PICK it : Folds(it, n, r, G) /\ it \in [SUBSET (1 .. n) -> T]
  BY <1>2, <1>3, FoldExists
<1> DEFINE op(f, c) == IF Rhs(c) \in {} THEN f ELSE [f EXCEPT ![Rhs(c)] = Hull(@, EvalConstraint(c, f))]
           rec(R) == [S \in SUBSET (1 .. n) |-> IF S = {} THEN r ELSE op(R[S \ {Max(S)}], cs[Max(S)])]
           R0 == CHOOSE R : R = rec(R)
<1>5. \A f, c : op(f, c) = Visit(c, f)
  BY DEF Visit
<1>6. Round(cs, {}, r) = R0[1 .. n]
  BY <1>1 DEF Round, FoldLeft, MapThenFoldSet
<1> HIDE DEF op
<1>7. \A S \in SUBSET (1 .. n) : S # {} => Max(S) \in 1 .. n /\ S \ {Max(S)} \in SUBSET (1 .. n)
  BY MaxExists
<1>8. it = rec(it)
  <2>1. \A S \in SUBSET (1 .. n) : S # {} => G[Max(S)][it[S \ {Max(S)}]] = op(it[S \ {Max(S)}], cs[Max(S)])
    BY <1>2, <1>4, <1>5, <1>7
  <2> QED
    BY <1>4, <2>1 DEF Folds
<1>9. R0 = rec(R0)
  BY <1>8
<1> HIDE DEF R0
<1>10. R0[{}] = r
  BY <1>9
<1>11. \A S \in SUBSET (1 .. n) : S # {} /\ R0[S \ {Max(S)}] \in T => R0[S] = G[Max(S)][R0[S \ {Max(S)}]]
  BY <1>2, <1>5, <1>7, <1>9
<1>12. FoldedBy(R0, n, T, r, G)
  BY <1>10, <1>11 DEF FoldedBy
<1>13. PICK f : Traces(f, n, T, r, G) /\ f[n] = R0[1 .. n]
  <2>1. n \in Nat /\ r \in T /\ G \in [1 .. n -> [T -> T]]
    BY <1>2, <1>3
  <2> QED
    BY ONLY <1>12, <2>1, FoldTrace
<1>14. f \in [0 .. n -> T] /\ f[0] = r /\ \A k \in 0 .. n - 1 : f[k + 1] = G[k + 1][f[k]]
  BY <1>13 DEF Traces
<1>15. \A k \in 0 .. n - 1 : f[k + 1] = Visit(cs[k + 1], f[k])
  <2> SUFFICES ASSUME NEW k \in 0 .. n - 1
               PROVE  f[k + 1] = Visit(cs[k + 1], f[k])
    OBVIOUS
  <2>1. k + 1 \in 1 .. n /\ k \in 0 .. n
    OBVIOUS
  <2> QED
    BY <1>2, <1>14, <2>1
<1> QED
  BY <1>1, <1>6, <1>13, <1>14, <1>15 DEF T

(* Ranges grow from every state of the fold to every later one. *)
LEMMA RoundTrace ==
  ASSUME NEW V, NEW cs \in Seq(ConstraintOver(V)), NEW n, n = Len(cs),
         NEW f \in [0 .. n -> [V -> Tidy]], \A k \in 0 .. n - 1 : f[k + 1] = Visit(cs[k + 1], f[k]),
         NEW i \in 0 .. n
  PROVE  \A v \in V : Leq(f[0][v], f[i][v]) /\ Leq(f[i][v], f[n][v])
<1>0. n \in Nat /\ \A k \in 1 .. n : cs[k] \in ConstraintOver(V)
  OBVIOUS
<1>1. \A k \in 0 .. n - 1 : \A v \in V : Leq(f[k][v], f[k + 1][v])
  <2> SUFFICES ASSUME NEW k \in 0 .. n - 1
               PROVE  \A v \in V : Leq(f[k][v], f[k + 1][v])
    OBVIOUS
  <2>1. cs[k + 1] \in ConstraintOver(V) /\ f[k] \in [V -> Tidy] /\ f[k + 1] = Visit(cs[k + 1], f[k])
    BY <1>0
  <2> QED
    BY <2>1, VisitGrows
<1>2. \A j \in 0 .. n : \A v \in V : f[j][v] \in Tidy
  OBVIOUS
<1> DEFINE Good(j) == {k \in Nat : j + k <= n => \A v \in V : Leq(f[j][v], f[j + k][v])}
<1>3. ASSUME NEW j \in 0 .. n
      PROVE  Nat \subseteq Good(j)
  <2>1. 0 \in Good(j)
    BY <1>2, LeqOrder
  <2>2. \A k \in Nat : k \in Good(j) => k + 1 \in Good(j)
    <3> SUFFICES ASSUME NEW k \in Nat, k \in Good(j), j + (k + 1) <= n, NEW v \in V
                 PROVE  Leq(f[j][v], f[j + (k + 1)][v])
      OBVIOUS
    <3>1. PICK m \in 0 .. n - 1 : m = j + k /\ m + 1 = j + (k + 1) /\ m + 1 \in 0 .. n /\ m \in 0 .. n
      BY <1>0
    <3>2. Leq(f[j][v], f[m][v]) /\ Leq(f[m][v], f[m + 1][v])
      BY <1>1, <3>1
    <3> QED
      BY <1>2, <3>1, <3>2, LeqOrder
  <2> HIDE DEF Good
  <2> QED
    BY <2>1, <2>2, SetInduction
<1>4. \A v \in V : Leq(f[0][v], f[i][v])
  <2>1. 0 \in 0 .. n /\ i \in Nat /\ 0 + i = i /\ i <= n
    BY <1>0
  <2>2. i \in Good(0)
    <3> HIDE DEF Good
    <3> QED
      BY <1>3, <2>1
  <2> QED
    BY <2>1, <2>2
<1>5. \A v \in V : Leq(f[i][v], f[n][v])
  <2>1. n - i \in Nat /\ i + (n - i) = n
    BY <1>0
  <2>2. n - i \in Good(i)
    <3> HIDE DEF Good
    <3> QED
      BY <1>3, <2>1
  <2> QED
    BY <2>1, <2>2
<1> QED
  BY <1>4, <1>5

LEMMA RoundGrows ==
  ASSUME NEW V, NEW cs \in Seq(ConstraintOver(V)), NEW r \in [V -> Tidy]
  PROVE  /\ Round(cs, {}, r) \in [V -> Tidy]
         /\ \A v \in V : Leq(r[v], Round(cs, {}, r)[v])
         /\ Round(cs, {}, r) = r => Solves(r, ToSet(cs))
<1>1. PICK n \in Nat : n = Len(cs) /\ DOMAIN cs = 1 .. n
  OBVIOUS
<1>2. PICK f \in [0 .. n -> [V -> Tidy]] :
        /\ f[0] = r /\ f[n] = Round(cs, {}, r)
        /\ \A k \in 0 .. n - 1 : f[k + 1] = Visit(cs[k + 1], f[k])
  BY <1>1, RoundSteps
<1>3. f[n] \in [V -> Tidy]
  OBVIOUS
<1>4. \A i \in 0 .. n : \A v \in V : Leq(f[0][v], f[i][v]) /\ Leq(f[i][v], f[n][v])
  BY <1>1, <1>2, RoundTrace
<1>5. ASSUME Round(cs, {}, r) = r, NEW c \in ToSet(cs)
      PROVE  Leq(EvalConstraint(c, r), r[Rhs(c)])
  <2>1. PICK k \in 0 .. n - 1 : c = cs[k + 1] /\ k \in 0 .. n /\ k + 1 \in 0 .. n /\ c \in ConstraintOver(V)
    <3>1. PICK j \in 1 .. n : c = cs[j] /\ cs[j] \in ConstraintOver(V)
      BY <1>1 DEF ToSet
    <3>2. j - 1 \in 0 .. n - 1 /\ (j - 1) + 1 = j /\ j - 1 \in 0 .. n /\ j \in 0 .. n
      OBVIOUS
    <3> QED
      BY <3>1, <3>2
  <2>2. \A i \in 0 .. n : f[i] = r
    <3> SUFFICES ASSUME NEW i \in 0 .. n
                 PROVE  f[i] = r
      OBVIOUS
    <3>1. f[i] \in [V -> Tidy]
      BY <1>2
    <3>2. \A v \in V : Leq(r[v], f[i][v]) /\ Leq(f[i][v], r[v])
      BY <1>2, <1>4, <1>5
    <3>3. \A v \in V : f[i][v] = r[v]
      BY <3>1, <3>2, LeqOrder
    <3> QED
      BY <3>1, <3>3
  <2>3. Visit(c, r) = r
    BY <1>2, <2>1, <2>2
  <2> QED
    BY <2>1, <2>3, VisitGrows
<1> QED
  BY <1>1, <1>2, <1>3, <1>4, <1>5 DEF Solves

-----------------------------------------------------------------------------
(* Ranges over finitely many variables do not grow for ever: as sets of    *)
(* points they stay in a finite set.                                       *)

Points(V, r) == {p \in V \X Endpoint : r[p[1]].lo <= p[2] /\ p[2] <= r[p[1]].hi}

LEMMA PointsGrow ==
  ASSUME NEW V, NEW r \in [V -> Tidy], NEW s \in [V -> Tidy]
  PROVE  Points(V, r) \subseteq Points(V, s) <=> \A v \in V : Leq(r[v], s[v])
<1>0. \A v \in V : /\ r[v].lo \in Endpoint /\ r[v].hi \in Endpoint /\ r[v].lo \in Int /\ r[v].hi \in Int
                   /\ s[v].lo \in Int /\ s[v].hi \in Int
  BY TidyFacts, IntervalFacts
<1>1. ASSUME Points(V, r) \subseteq Points(V, s), NEW v \in V, ~IsEmpty(r[v])
      PROVE  s[v].lo <= r[v].lo /\ r[v].hi <= s[v].hi
  <2>1. <<v, r[v].lo>> \in Points(V, r) /\ <<v, r[v].hi>> \in Points(V, r)
    BY <1>0, <1>1 DEF Points, IsEmpty
  <2>2. <<v, r[v].lo>> \in Points(V, s) /\ <<v, r[v].hi>> \in Points(V, s)
    BY <1>1, <2>1
  <2> QED
    BY <2>2 DEF Points
<1>2. ASSUME \A v \in V : Leq(r[v], s[v]), NEW p \in Points(V, r)
      PROVE  p \in Points(V, s)
  <2>1. PICK v \in V, n \in Endpoint : p = <<v, n>> /\ r[v].lo <= n /\ n <= r[v].hi
    BY DEF Points
  <2>2. n \in Int
    BY <2>1, EndpointFacts
  <2>3. s[v].lo <= n /\ n <= s[v].hi
    BY <1>0, <1>2, <2>1, <2>2 DEF Leq, IsEmpty
  <2> QED
    BY <2>1, <2>3 DEF Points
<1> QED
  BY <1>1, <1>2 DEF Leq

LEMMA PointsTell ==
  ASSUME NEW V, NEW r \in [V -> Tidy], NEW s \in [V -> Tidy], Points(V, r) = Points(V, s)
  PROVE  r = s
<1>1. \A v \in V : Leq(r[v], s[v]) /\ Leq(s[v], r[v])
  BY PointsGrow
<1>2. \A v \in V : r[v] = s[v]
  BY <1>1, LeqOrder
<1> QED
  BY <1>2

Inflates(V, F) == \A r \in [V -> Tidy] : \A v \in V : Leq(r[v], F[r][v])

LEMMA GrowthEnds ==
  ASSUME NEW V, IsFiniteSet(V), NEW D, D = [V -> Tidy], NEW F \in [D -> D], Inflates(V, F),
         NEW base, NEW f, Iterates(f, D, base, F)
  PROVE  \E n \in Nat : F[f[n]] = f[n]
<1> DEFINE U == V \X Endpoint
           Original(S) == CHOOSE r \in D : Points(V, r) = S
           H == [S \in SUBSET U |-> IF \E r \in D : Points(V, r) = S THEN Points(V, F[Original(S)]) ELSE S]
           g == [n \in Nat |-> Points(V, f[n])]
<1>1. IsFiniteSet(U)
  <2>1. NEGINF \in Int /\ INF \in Int /\ IsFiniteSet(Endpoint)
    BY EndpointFacts, FS_Interval DEF Endpoint
  <2> QED
    BY <2>1, FS_Product
<1>2. \A r : Points(V, r) \in SUBSET U
  BY DEF Points
<1>3. \A r \in D : H[Points(V, r)] = Points(V, F[r])
  <2> SUFFICES ASSUME NEW r \in D
               PROVE  H[Points(V, r)] = Points(V, F[r])
    OBVIOUS
  <2>1. Original(Points(V, r)) \in D /\ Points(V, Original(Points(V, r))) = Points(V, r)
    OBVIOUS
  <2>2. Original(Points(V, r)) = r
    <3> HIDE DEF Original
    <3> QED
      BY <2>1, PointsTell
  <2> HIDE DEF Original
  <2> QED
    BY <1>2, <2>2
<1>4. \A S \in SUBSET U : S \subseteq H[S]
  <2> SUFFICES ASSUME NEW S \in SUBSET U
               PROVE  S \subseteq H[S]
    OBVIOUS
  <2>1. CASE \E r \in D : Points(V, r) = S
    <3>1. PICK r \in D : Points(V, r) = S
      BY <2>1
    <3>2. F[r] \in D
      OBVIOUS
    <3>3. Points(V, r) \subseteq Points(V, F[r])
      BY <3>2, PointsGrow DEF Inflates
    <3> HIDE DEF H
    <3> QED
      BY <1>3, <3>1, <3>3
  <2>2. CASE ~\E r \in D : Points(V, r) = S
    BY <2>2
  <2> QED
    BY <2>1, <2>2
<1>5. f \in [Nat -> D] /\ \A n \in Nat : f[n + 1] = F[f[n]]
  BY DEF Iterates
<1> HIDE DEF H
<1>6. g \in [Nat -> SUBSET U] /\ g[0] = Points(V, f[0]) /\ \A n \in Nat : g[n + 1] = H[g[n]]
  <2>1. \A n \in Nat : g[n] = Points(V, f[n])
    OBVIOUS
  <2>2. g \in [Nat -> SUBSET U]
    BY <1>2
  <2> HIDE DEF g, U
  <2>3. ASSUME NEW n \in Nat
        PROVE  g[n + 1] = H[g[n]]
    <3>1. f[n] \in D /\ n + 1 \in Nat
      BY <1>5
    <3> QED
      BY <1>3, <1>5, <2>1, <3>1
  <2> QED
    BY <2>1, <2>2, <2>3
<1>7. g = [n \in Nat |-> IF n = 0 THEN Points(V, f[0]) ELSE H[g[n - 1]]]
  <2>1. ASSUME NEW n \in Nat
        PROVE  g[n] = IF n = 0 THEN Points(V, f[0]) ELSE H[g[n - 1]]
    <3>1. CASE n = 0
      BY <1>6, <3>1
    <3>2. CASE n # 0
      <4>1. n - 1 \in Nat /\ (n - 1) + 1 = n
        BY <3>2
      <4> HIDE DEF g
      <4> QED
        BY <1>6, <3>2, <4>1
    <3> QED
      BY <3>1, <3>2
  <2> QED
    BY <2>1
<1>8. \A n \in Nat : g[n] = Points(V, f[n])
  OBVIOUS
<1> HIDE DEF g, U
<1>9. Iterates(g, SUBSET U, Points(V, f[0]), H)
  BY <1>6, <1>7 DEF Iterates
<1>10. H[g[Cardinality(U)]] = g[Cardinality(U)]
  BY <1>1, <1>4, <1>9, Saturation
<1>11. PICK n \in Nat : n = Cardinality(U)
  BY <1>1, FS_CardinalityType
<1>12. Points(V, F[f[n]]) = Points(V, f[n]) /\ f[n] \in D /\ F[f[n]] \in D
  BY <1>3, <1>5, <1>8, <1>10, <1>11
<1>13. F[f[n]] = f[n]
  BY <1>12, PointsTell
<1> QED
  BY <1>11, <1>13

LEMMA RoundType ==
  ASSUME NEW V, NEW cs \in Seq(ConstraintOver(V)), NEW r \in [V -> Interval]
  PROVE  Round(cs, {}, r) \in [V -> Interval]
<1>1. PICK W : W = Interval
  OBVIOUS
<1>2. PICK n \in Nat : n = Len(cs)
  OBVIOUS
<1>3. PICK f \in [0 .. n -> [V -> W]] : f[n] = Round(cs, {}, r)
  BY <1>1, <1>2, RoundSteps
<1> QED
  BY <1>1, <1>3

(* The fixpoint that an orbit ends in, as a function of where it starts.   *)
LEMMA FixExists ==
  ASSUME NEW D, NEW F \in [D -> D]
  PROVE  \E g : g = [r \in D |-> IF F[r] = r THEN r ELSE g[F[r]]]
<1> DEFINE Ends(r, x) == \E f : Iterates(f, D, r, F) /\ \E n \in Nat : f[n] = x /\ F[x] = x
           End(r) == IF \E x \in D : Ends(r, x) THEN CHOOSE x \in D : Ends(r, x) ELSE {}
           g == [r \in D |-> End(r)]
<1>1. \A r \in D, x \in D : Ends(F[r], x) => Ends(r, x)
  <2> SUFFICES ASSUME NEW r \in D, NEW x \in D, NEW f, Iterates(f, D, F[r], F),
                      NEW n \in Nat, f[n] = x, F[x] = x
               PROVE  Ends(r, x)
    OBVIOUS
  <2>1. PICK h : Iterates(h, D, r, F)
    BY Iteration
  <2>2. /\ \A k \in Nat : f[k + 1] = F[f[k]] /\ h[k + 1] = F[h[k]]
        /\ f[0] = F[r] /\ h[0] = r
    BY <2>1 DEF Iterates
  <2> DEFINE Same == {k \in Nat : h[k + 1] = f[k]}
  <2>3. 0 \in Same
    BY <2>2
  <2>4. \A k \in Nat : k \in Same => k + 1 \in Same
    BY <2>2
  <2>5. Nat \subseteq Same
    <3> HIDE DEF Same
    <3> QED
      BY <2>3, <2>4, SetInduction
  <2>6. n + 1 \in Nat /\ h[n + 1] = x
    BY <2>5
  <2> QED
    BY <2>1, <2>6
<1>2. \A r \in D, x \in D : Ends(r, x) /\ F[r] # r => Ends(F[r], x)
  <2> SUFFICES ASSUME NEW r \in D, NEW x \in D, NEW f, Iterates(f, D, r, F),
                      NEW n \in Nat, f[n] = x, F[x] = x
               PROVE  Ends(F[r], x)
    OBVIOUS
  <2>1. PICK h : Iterates(h, D, F[r], F)
    BY Iteration
  <2>2. /\ \A k \in Nat : f[k + 1] = F[f[k]] /\ h[k + 1] = F[h[k]]
        /\ f[0] = r /\ h[0] = F[r]
    BY <2>1 DEF Iterates
  <2> DEFINE Same == {k \in Nat : h[k] = f[k + 1]}
  <2>3. 0 \in Same
    BY <2>2
  <2>4. \A k \in Nat : k \in Same => k + 1 \in Same
    BY <2>2
  <2>5. Nat \subseteq Same
    <3> HIDE DEF Same
    <3> QED
      BY <2>3, <2>4, SetInduction
  <2>6. h[n] = x
    BY <2>2, <2>5
  <2> QED
    BY <2>1, <2>6
<1>3. \A r \in D : F[r] = r => Ends(r, r) /\ \A x \in D : Ends(r, x) => x = r
  <2> SUFFICES ASSUME NEW r \in D, F[r] = r
               PROVE  Ends(r, r) /\ \A x \in D : Ends(r, x) => x = r
    OBVIOUS
  <2>1. \A f : Iterates(f, D, r, F) => \A n \in Nat : f[n] = r
    <3> SUFFICES ASSUME NEW f, Iterates(f, D, r, F)
                 PROVE  \A n \in Nat : f[n] = r
      OBVIOUS
    <3>1. f[0] = r /\ \A k \in Nat : f[k + 1] = F[f[k]]
      BY DEF Iterates
    <3> DEFINE Same == {k \in Nat : f[k] = r}
    <3>2. 0 \in Same /\ \A k \in Nat : k \in Same => k + 1 \in Same
      BY <3>1
    <3>3. Nat \subseteq Same
      <4> HIDE DEF Same
      <4> QED
        BY <3>2, SetInduction
    <3> QED
      BY <3>3
  <2>2. PICK f : Iterates(f, D, r, F)
    BY Iteration
  <2>3. 0 \in Nat /\ f[0] = r
    BY <2>1, <2>2
  <2> QED
    BY <2>1, <2>2, <2>3
<1> HIDE DEF Ends
<1>4. ASSUME NEW r \in D
      PROVE  End(r) = IF F[r] = r THEN r ELSE End(F[r])
  <2>1. CASE F[r] = r
    BY <1>3, <2>1
  <2>2. CASE F[r] # r
    <3>1. F[r] \in D /\ \A x \in D : Ends(r, x) <=> Ends(F[r], x)
      BY <1>1, <1>2, <2>2
    <3> QED
      BY <2>2, <3>1
  <2> QED
    BY <2>1, <2>2
<1>5. \A r \in D : g[r] = IF F[r] = r THEN r ELSE g[F[r]]
  <2> HIDE DEF End
  <2> QED
    BY <1>4
<1>6. g = [r \in D |-> IF F[r] = r THEN r ELSE g[F[r]]]
  <2>1. g = [r \in D |-> g[r]]
    OBVIOUS
  <2> HIDE DEF g
  <2> QED
    BY <1>5, <2>1
<1> HIDE DEF g
<1> QED
  BY <1>6

LEMMA FixIs ==
  ASSUME NEW D, NEW F \in [D -> D], NEW g, g = [r \in D |-> IF F[r] = r THEN r ELSE g[F[r]]],
         NEW base, NEW f, Iterates(f, D, base, F), NEW n \in Nat, F[f[n]] = f[n]
  PROVE  g[base] = f[n]
<1>1. f \in [Nat -> D] /\ f[0] = base /\ \A k \in Nat : f[k + 1] = F[f[k]]
  BY DEF Iterates
<1>2. \A k \in Nat : g[f[k]] = g[f[k + 1]]
  BY <1>1
<1> DEFINE Same == {k \in Nat : g[f[k]] = g[base]}
<1>3. 0 \in Same /\ \A k \in Nat : k \in Same => k + 1 \in Same
  BY <1>1, <1>2
<1>4. Nat \subseteq Same
  <2> HIDE DEF Same
  <2> QED
    BY <1>3, SetInduction
<1>5. g[f[n]] = f[n]
  BY <1>1
<1> QED
  BY <1>4, <1>5

LEMMA StartIs ==
  ASSUME NEW s, s.pins = << >>
  PROVE  Start(s) = [v \in Vars(s) |-> Empty]
<1> DEFINE base == [v \in 0 .. s.vars - 1 |-> Empty]
           op(f, p) == [f EXCEPT ![p.var] = p.range]
           rec(R) == [S \in SUBSET {} |-> IF S = {} THEN base ELSE op(R[S \ {Max(S)}], << >>[Max(S)])]
           R0 == CHOOSE R : R = rec(R)
<1>1. DOMAIN << >> = {}
  OBVIOUS
<1>2. Start(s) = R0[{}]
  BY <1>1 DEF Start, FoldLeft, MapThenFoldSet
<1> HIDE DEF op, base
<1>3. PICK it : it = [S \in SUBSET {} |-> base]
  OBVIOUS
<1>4. it = rec(it)
  BY <1>3
<1>5. R0 = rec(R0)
  BY <1>4
<1> HIDE DEF R0
<1>6. R0[{}] = base
  BY <1>5
<1> QED
  BY <1>2, <1>6 DEF base, Vars

(* The ranges that Solve takes are those of the variables, and satisfy the *)
(* constraints.                                                            *)
LEMMA LeastSolves ==
  ASSUME NEW s, Store(s)
  PROVE  Least(s) \in [Vars(s) -> Interval] /\ Solves(Least(s), ToSet(s.cons))
<1>1a. PICK n \in Nat : \E cs :
      n = s.vars /\ cs = s.cons /\ s.pins = << >> /\ Vars(s) = 0 .. n - 1
  BY DEF Store, Shape, Vars
<1>1. PICK cs :
      n = s.vars /\ cs = s.cons /\ s.pins = << >> /\ Vars(s) = 0 .. n - 1
  BY <1>1a
<1>2. PICK V : V = 0 .. n - 1 /\ cs \in Seq(ConstraintOver(V))
  BY <1>1 DEF Store
<1>3. IsFiniteSet(V)
  BY <1>2, FS_Interval
<1> DEFINE D == [V -> Interval]
           F == [r \in D |-> Round(cs, {}, r)]
           E == [V -> Tidy]
<1>4. F \in [D -> D] /\ \A r \in D : F[r] = Round(cs, {}, r)
  BY <1>2, RoundType
<1>5. PICK H \in [E -> E] : \A r \in E : H[r] = Round(cs, {}, r)
  <2>1. [r \in E |-> Round(cs, {}, r)] \in [E -> E]
    BY <1>2, RoundGrows
  <2> QED
    BY <2>1
<1>6. E \subseteq D
  BY TidyFacts
<1>7. \A r \in E : \A v \in V : Leq(r[v], H[r][v])
  BY <1>2, <1>5, RoundGrows
<1>8. PICK base \in E : base = [v \in V |-> Empty]
  BY TidyFacts
<1> HIDE DEF F
<1>9. PICK f : Iterates(f, E, base, H)
  BY <1>5, Iteration
<1>10. PICK k \in Nat : H[f[k]] = f[k]
  <2>1. Inflates(V, H)
    BY <1>7 DEF Inflates
  <2>2. PICK D0 : D0 = E
    OBVIOUS
  <2>3. H \in [D0 -> D0] /\ Iterates(f, D0, base, H) /\ D0 = [V -> Tidy]
    BY <1>9, <2>2
  <2> QED
    BY <1>3, <2>1, <2>3, GrowthEnds
<1>11. f \in [Nat -> E] /\ f[0] = base /\ \A i \in Nat : f[i + 1] = H[f[i]]
  BY <1>9 DEF Iterates
<1>12. Iterates(f, D, base, F)
  <2>1. f \in [Nat -> D]
    BY <1>6, <1>11
  <2>2. \A i \in Nat : F[f[i]] = H[f[i]]
    BY <1>4, <1>5, <1>6, <1>11
  <2>3. f = [i \in Nat |-> IF i = 0 THEN base ELSE H[f[i - 1]]]
    BY <1>9 DEF Iterates
  <2>4. \A i \in Nat : f[i] = IF i = 0 THEN base ELSE F[f[i - 1]]
    <3> SUFFICES ASSUME NEW i \in Nat
                 PROVE  f[i] = IF i = 0 THEN base ELSE F[f[i - 1]]
      OBVIOUS
    <3>1. CASE i = 0
      BY <1>11, <3>1
    <3>2. CASE i # 0
      <4>1. i - 1 \in Nat /\ (i - 1) + 1 = i
        BY <3>2
      <4> QED
        BY <1>11, <2>2, <3>2, <4>1
    <3> QED
      BY <3>1, <3>2
  <2>5. f = [i \in Nat |-> IF i = 0 THEN base ELSE F[f[i - 1]]]
    BY <2>1, <2>4
  <2> QED
    BY <1>11, <2>1, <2>2, <2>5 DEF Iterates
<1>13. F[f[k]] = f[k] /\ f[k] \in E /\ base \in D
  BY <1>4, <1>5, <1>6, <1>10, <1>11
<1> DEFINE LeastOf(m, c, p, b) ==
             LET Fix[r \in [0 .. m - 1 -> Interval]] ==
                   LET next == Round(c, p, r) IN IF next = r THEN r ELSE Fix[next]
             IN  Fix[b]
           rec(g) == [r \in D |-> IF F[r] = r THEN r ELSE g[F[r]]]
           full(g) == [r \in D |-> IF Round(cs, {}, r) = r THEN r ELSE g[Round(cs, {}, r)]]
           fix == CHOOSE g : g = full(g)
<1>14. \A g : rec(g) = full(g)
  BY <1>4
<1>15. \E g : g = rec(g)
  <2> HIDE DEF D
  <2> QED
    BY <1>4, FixExists
<1>16. fix = rec(fix)
  <2> HIDE DEF rec, full
  <2>1. \E g : g = full(g)
    BY <1>14, <1>15
  <2> QED
    BY <1>14, <2>1
<1>17. Least(s) = fix[base]
  <2>1. {s.pins[i].var : i \in DOMAIN s.pins} = {}
    BY <1>1
  <2>2. Start(s) = base
    BY <1>1, <1>2, <1>8, StartIs
  <2>3. Least(s) = LeastOf(s.vars, s.cons, {s.pins[i].var : i \in DOMAIN s.pins}, Start(s))
    BY DEF Least
  <2>4. LeastOf(n, cs, {}, base) = fix[base]
    BY <1>2
  <2> HIDE DEF LeastOf, fix
  <2> QED
    BY <1>1, <2>1, <2>2, <2>3, <2>4
<1> HIDE DEF fix
<1>18. fix[base] = f[k]
  <2> HIDE DEF D
  <2> QED
    BY <1>4, <1>12, <1>13, <1>16, FixIs
<1>19. Solves(f[k], ToSet(cs))
  BY <1>2, <1>5, <1>10, <1>13, RoundGrows
<1> QED
  BY <1>1, <1>2, <1>6, <1>13, <1>17, <1>18, <1>19

-----------------------------------------------------------------------------
(* The variables of the declared objects. *)

SizVar(o) == 2 * PlaceOf(o) - 2
LenVar(o) == 2 * PlaceOf(o) - 1

LEMMA Numbering ==
  /\ Declared \in Nat /\ Declared = 2 * Len(NameOrder) /\ DOMAIN NameOrder = 1 .. Len(NameOrder)
  /\ Len(NameOrder) \in Nat /\ \A i \in DOMAIN NameOrder : NameOrder[i] \in Strings
  /\ \A o \in Strings : /\ PlaceOf(o) \in DOMAIN NameOrder /\ NameOrder[PlaceOf(o)] = o
                        /\ SizVar(o) \in 0 .. Declared - 1 /\ LenVar(o) \in 0 .. Declared - 1
  /\ \A o, p \in Strings : LenVar(o) = LenVar(p) => o = p
<1>1. IsFiniteSet(Strings)
  <2>1. IsFiniteSet({Heap, Window})
    <3>1. IsFiniteSet({Heap}) /\ {Heap, Window} = {Heap} \cup {Window}
      BY FS_Singleton
    <3> QED
      BY <3>1, FS_AddElement
  <2> QED
    BY <2>1, FS_Union, ObjectAssumption DEF Strings
<1>2. PICK n \in Nat : n = Cardinality(Strings)
  BY <1>1, FS_CardinalityType
<1>3. PICK b : b \in Bijection(1 .. n, Strings)
  BY <1>1, <1>2, FS_CardinalityType DEF ExistsBijection
<1>4. b \in [1 .. n -> Strings] /\ IsInjective(b)
  BY <1>3 DEF Bijection, Injection
<1>5. PICK q : q = NameOrder /\ q \in [1 .. n -> Strings] /\ IsInjective(q)
  BY <1>2, <1>4 DEF NameOrder, SetToSeq
<1>6. q \in Surjection(1 .. n, Strings)
  <2>1. q \in Injection(1 .. n, Strings)
    BY <1>5 DEF Injection
  <2>2. IsFiniteSet(1 .. n) /\ Cardinality(1 .. n) = n
    BY FS_Interval
  <2> QED
    BY <1>1, <1>2, <2>1, <2>2, FS_Injection
<1>7. q \in Seq(Strings) /\ Len(q) = n /\ DOMAIN q = 1 .. n
  BY <1>5
<1>8. ASSUME NEW o \in Strings
      PROVE  PlaceOf(o) \in 1 .. n /\ q[PlaceOf(o)] = o
  <2>1. \E i \in 1 .. n : q[i] = o
    BY <1>6 DEF Surjection
  <2> QED
    BY <1>5, <1>7, <2>1 DEF PlaceOf
<1>9. Declared \in Nat /\ Declared = 2 * n
  BY <1>5, <1>7 DEF Declared
<1>10. ASSUME NEW o \in Strings
       PROVE  SizVar(o) \in 0 .. Declared - 1 /\ LenVar(o) \in 0 .. Declared - 1
  <2>1. PICK i \in 1 .. n : i = PlaceOf(o)
    BY <1>8
  <2> QED
    BY <1>9, <2>1 DEF SizVar, LenVar
<1>11. ASSUME NEW o \in Strings, NEW p \in Strings, LenVar(o) = LenVar(p)
       PROVE  o = p
  <2>1. PICK i \in 1 .. n, j \in 1 .. n : i = PlaceOf(o) /\ j = PlaceOf(p)
    BY <1>8
  <2>2. i = j
    BY <1>11, <2>1 DEF LenVar
  <2> QED
    BY <1>8, <2>1, <2>2
<1> QED
  BY <1>5, <1>7, <1>8, <1>9, <1>10, <1>11

LEMMA ObjectTerms ==
  /\ \A o \in Strings : SizOf(o) = Plain(SizVar(o), 0) /\ LenOf(o) = Plain(LenVar(o), 0)
  /\ NumVar = Plain(Declared, 0)
  /\ \A o \in Strings : SizVar(o) \in Nat /\ LenVar(o) \in Nat /\ SizVar(o) < Declared /\ LenVar(o) < Declared
BY Numbering, PlainTypes DEF SizOf, LenOf, NumVar, SizVar, LenVar

(* The ranges that Solve keeps are those of the variables. *)
LEMMA RangeOfVar ==
  ASSUME NEW v \in Nat, NEW r \in [Nat -> Interval], NEW e, e = EvalTerm(Plain(v, 0), r)
  PROVE  /\ e \in Interval
         /\ \A x \in Int : In(x, e) <=> In(x, r[v])
         /\ \A x \in Int : In(x, e) => e = r[v]
<1>1. r[v] \in Interval /\ VarTerm(v) = Plain(v, 0)
  BY PlainTypes
<1>2. CASE ~IsEmpty(r[v])
  BY <1>1, <1>2, VarEvaluates
<1>3. CASE IsEmpty(r[v])
  <2>1. e = Empty /\ Empty \in Interval /\ IsEmpty(Empty)
    BY <1>1, <1>3, VarEvaluates, ConstantTypes
  <2>2. \A x \in Int : ~In(x, e) /\ ~In(x, r[v])
    BY <1>1, <1>3, <2>1, InFull
  <2> QED
    BY <2>1, <2>2
<1> QED
  BY <1>2, <1>3

LEMMA RangesFacts ==
  ASSUME NEW r \in [Nat -> Interval], NEW R, R = RangesOf(r)
  PROVE  /\ \A o \in Strings : /\ R[o].siz \in Interval /\ R[o].len \in Interval
                               /\ R[o].siz = EvalTerm(Plain(SizVar(o), 0), r)
                               /\ R[o].len = EvalTerm(Plain(LenVar(o), 0), r)
         /\ R[Num].val = EvalTerm(Plain(Declared, 0), r)
         /\ \A o \in Strings, x \in Int : /\ In(x, R[o].len) <=> In(x, r[LenVar(o)])
                                          /\ In(x, R[o].len) => R[o].len = r[LenVar(o)]
                                          /\ In(x, R[o].siz) <=> In(x, r[SizVar(o)])
         /\ \A x \in Int : In(x, R[Num].val) <=> In(x, r[Declared])
<1>1. Num \notin Strings
  BY ObjectAssumption DEF Strings, Num, Heap, Window
<1>2. /\ \A o \in Strings : R[o] = [siz |-> EvalTerm(Plain(SizVar(o), 0), r), len |-> EvalTerm(Plain(LenVar(o), 0), r)]
      /\ R[Num] = [val |-> EvalTerm(Plain(Declared, 0), r)]
  BY <1>1, ObjectTerms DEF RangesOf
<1>3. Declared \in Nat /\ \A o \in Strings : SizVar(o) \in Nat /\ LenVar(o) \in Nat
  BY Numbering, ObjectTerms
<1>4. ASSUME NEW o \in Strings, NEW x \in Int
      PROVE  /\ R[o].siz \in Interval /\ R[o].len \in Interval
             /\ R[o].siz = EvalTerm(Plain(SizVar(o), 0), r)
             /\ R[o].len = EvalTerm(Plain(LenVar(o), 0), r)
             /\ In(x, R[o].len) <=> In(x, r[LenVar(o)])
             /\ In(x, R[o].len) => R[o].len = r[LenVar(o)]
             /\ In(x, R[o].siz) <=> In(x, r[SizVar(o)])
  <2>1. PICK v \in Nat, w \in Nat : v = SizVar(o) /\ w = LenVar(o)
    BY <1>3
  <2>2. R[o].siz = EvalTerm(Plain(v, 0), r) /\ R[o].len = EvalTerm(Plain(w, 0), r)
    <3>1. R[o] = [siz |-> EvalTerm(Plain(SizVar(o), 0), r), len |-> EvalTerm(Plain(LenVar(o), 0), r)]
      BY <1>2
    <3>2. R[o].siz = EvalTerm(Plain(SizVar(o), 0), r) /\ R[o].len = EvalTerm(Plain(LenVar(o), 0), r)
      BY ONLY <3>1
    <3> QED
      BY <2>1, <3>2
  <2> QED
    BY <2>1, <2>2, RangeOfVar
<1>5. \A x \in Int : In(x, R[Num].val) <=> In(x, r[Declared])
  BY <1>2, <1>3, RangeOfVar
<1>6. 0 \in Int
  OBVIOUS
<1> QED
  BY <1>2, <1>4, <1>5, <1>6

LEMMA RangesIn ==
  ASSUME NEW r \in [Nat -> Interval]
  PROVE  /\ \A o \in Strings, x \in Int : /\ In(x, RangesOf(r)[o].len) <=> In(x, r[LenVar(o)])
                                          /\ In(x, RangesOf(r)[o].len) => RangesOf(r)[o].len = r[LenVar(o)]
                                          /\ In(x, RangesOf(r)[o].siz) <=> In(x, r[SizVar(o)])
         /\ \A x \in Int : In(x, RangesOf(r)[Num].val) <=> In(x, r[Declared])
<1>1. PICK R : R = RangesOf(r)
  OBVIOUS
<1> QED
  BY <1>1, RangesFacts

(* What an expression may be, when strings and numbers may be anything in  *)
(* their ranges R.                                                         *)
MayText(e, R, x) ==
  /\ x \in Nat \ {0}
  /\ IF e.expr = "lit" THEN x = e.n + 1 ELSE In(x + e.n, R[e.of].len)

MayInt(e, R, x) ==
  /\ x \in Nat
  /\ e.expr = "int" => x = e.n
  /\ e.expr = "ref" => In(x, R[Num].val)
  /\ e.expr = "sizeof" => x = ArraySize[e.of]
  /\ e.expr = "strlen" => \E u \in Nat \ {0} : x = u - 1 + e.n /\ In(u, R[e.of].len)

(* The sizes of the arrays are in their ranges.  Lengths do not begin at   *)
(* the sentinel, nor would they if a format of that many items added them  *)
(* up.                                                                     *)
Sized(R) == \A o \in Arrays : In(ArraySize[o], R[o].siz)

LowFor(items, R) == \A o \in Strings : ~IsEmpty(R[o].len) => (1 + items) * R[o].len.lo < INF

Tame(R) == \A o \in Strings : ~IsEmpty(R[o].len) => R[o].len.lo < INF

Skips(e) == e.expr = "ref" => e.n < INF - 1

LEMMA LowLengths ==
  ASSUME NEW items \in Nat, NEW R, LowFor(items, R), NEW o \in Strings, R[o].len \in Interval,
         ~IsEmpty(R[o].len)
  PROVE  R[o].len.lo < INF
<1>1. PICK lo \in Int : lo = R[o].len.lo
  BY IntervalFacts
<1>2. (1 + items) * lo < INF
  BY <1>1 DEF LowFor
<1>3. CASE lo <= 0
  BY <1>1, <1>3, EndpointFacts
<1>4. CASE lo > 0
  <2>1. \A a, b \in Nat : a * b \in Nat
    OBVIOUS
  <2>2. (1 + items) * lo = lo + items * lo /\ items * lo \in Nat
    BY <1>4, <2>1
  <2> QED
    BY <1>1, <1>2, <2>2, EndpointFacts
<1> QED
  BY <1>1, <1>3, <1>4

(* What the walker makes of an expression has what the expression may be. *)
Walked(s) == Store(s) /\ Declared < s.vars

LEMMA WalkedVars ==
  ASSUME NEW s, Walked(s)
  PROVE  /\ Declared \in Vars(s)
         /\ \A o \in Strings : SizVar(o) \in Vars(s) /\ LenVar(o) \in Vars(s)
         /\ \A o \in Strings : SizOf(o) \in TermOver(Vars(s)) /\ LenOf(o) \in TermOver(Vars(s))
<1>1. s.vars \in Nat /\ Declared \in Nat
  BY Numbering DEF Walked, Store
<1>2. Declared \in Vars(s) /\ \A o \in Strings : SizVar(o) \in Vars(s) /\ LenVar(o) \in Vars(s)
  BY <1>1, ObjectTerms DEF Walked, Vars
<1> QED
  BY <1>2, ObjectTerms, PlainTypes

LEMMA WalkedGrows ==
  ASSUME NEW s, NEW t, Walked(s), Grew(t, s)
  PROVE  Walked(t)
<1>1. s.vars \in Nat /\ t.vars \in Nat /\ s.vars <= t.vars /\ Declared \in Nat /\ Declared < s.vars
  BY Numbering DEF Walked, Grew, Extends, Store
<1> QED
  BY <1>1 DEF Walked, Grew

LEMMA TextForms ==
  ASSUME NEW e \in Texts
  PROVE  /\ e.n \in Number /\ e.n \in Nat /\ e.n < INF
         /\ \/ e.expr = "lit" /\ expr(e) = StrCtx(ConstTerm(e.n + 1), ConstTerm(e.n + 1))
            \/ e.expr = "ref" /\ e.of \in Strings
               /\ expr(e) = StrCtx(Plain(SizVar(e.of), -e.n), Plain(LenVar(e.of), -e.n))
<1>1. e.n \in Number /\ e.n \in Nat /\ e.n < INF
  BY EndpointFacts DEF Texts, Number
<1>2. CASE e.expr = "lit"
  BY <1>1, <1>2 DEF expr
<1>3. CASE e.expr # "lit"
  <2>1. e.expr = "ref" /\ e.of \in Strings
    BY <1>3 DEF Texts
  <2>2. e.of # Num
    BY <2>1, ObjectAssumption DEF Strings, Num, Heap, Window
  <2>3. PICK v \in Nat, w \in Nat : /\ v = SizVar(e.of) /\ w = LenVar(e.of)
                                     /\ SizOf(e.of) = Plain(v, 0) /\ LenOf(e.of) = Plain(w, 0)
    BY <2>1, ObjectTerms
  <2>4. PICK n \in Nat : n = e.n
    BY <1>1
  <2>5. CASE n = 0
    <3>1. expr(e) = StrCtx(SizOf(e.of), LenOf(e.of))
      BY <2>1, <2>2, <2>4, <2>5 DEF expr
    <3>2. -e.n = 0
      <4>1. 0 - n = -n
        OBVIOUS
      <4>2. 0 - n = 0
        BY <2>5
      <4>3. -n = 0
        BY ONLY <4>1, <4>2
      <4> QED
        BY <2>4, <4>3
    <3> QED
      BY <1>1, <2>1, <2>3, <3>1, <3>2
  <2>6. CASE n # 0
    <3>1. expr(e) = advance(StrCtx(SizOf(e.of), LenOf(e.of)), ConstTerm(n))
      BY <2>1, <2>2, <2>4, <2>6 DEF expr
    <3>2. expr(e) = StrCtx(SubTerms(Plain(v, 0), ConstTerm(n)), SubTerms(Plain(w, 0), ConstTerm(n)))
      BY <2>3, <3>1 DEF advance, StrCtx
    <3>3. \A u : SubTerms(Plain(u, 0), ConstTerm(n)) = Plain(u, -n)
      <4>1. 0 - n = -n /\ n \in Int
        OBVIOUS
      <4> QED
        BY <4>1, PlainShifted
    <3> QED
      BY <1>1, <2>1, <2>3, <2>4, <3>2, <3>3
  <2> QED
    BY <2>5, <2>6
<1> QED
  BY <1>1, <1>2, <1>3

LEMMA TextHolds ==
  ASSUME NEW e \in Texts, NEW s, Walked(s), NEW c, c = expr(e)
  PROVE  /\ c.kind = "str" /\ c = StrCtx(c.siz, c.len)
         /\ c.siz \in TermOver(Vars(s)) /\ c.len \in TermOver(Vars(s)) /\ Minus1(c.len) \in TermOver(Vars(s))
         /\ \A r \in [Nat -> Interval] : \A x \in Nat \ {0} :
              Tame(RangesOf(r)) /\ Skips(e) /\ MayText(e, RangesOf(r), x) =>
                Holds(c.len, r, x) /\ Holds(Minus1(c.len), r, x - 1)
<1>1. e.n \in Nat /\ e.n < INF
  BY TextForms
<1>2. \A k, j \in Int : /\ StrCtx(ConstTerm(k), ConstTerm(j)).kind = "str"
                        /\ StrCtx(ConstTerm(k), ConstTerm(j)).siz = ConstTerm(k)
                        /\ StrCtx(ConstTerm(k), ConstTerm(j)).len = ConstTerm(j)
                        /\ \A v, w : /\ StrCtx(Plain(v, k), Plain(w, j)).kind = "str"
                                     /\ StrCtx(Plain(v, k), Plain(w, j)).siz = Plain(v, k)
                                     /\ StrCtx(Plain(v, k), Plain(w, j)).len = Plain(w, j)
  BY DEF StrCtx
<1>3. CASE e.expr = "lit"
  <2>1. PICK n \in Nat : n = e.n /\ n + 1 - 1 = n
    BY <1>1
  <2>2. c = StrCtx(ConstTerm(n + 1), ConstTerm(n + 1))
    BY <1>3, <2>1, TextForms
  <2>3. c.kind = "str" /\ c.siz = ConstTerm(n + 1) /\ c.len = ConstTerm(n + 1)
    BY <1>2, <2>2
  <2>4. Minus1(c.len) = ConstTerm(n)
    <3>1. \A k \in Int : SubTerms(ConstTerm(k), ConstTerm(1)) = ConstTerm(k - 1)
      BY PlainShifted
    <3>2. SubTerms(ConstTerm(n + 1), ConstTerm(1)) = ConstTerm(n + 1 - 1)
      BY <3>1
    <3> QED
      BY <2>1, <2>3, <3>2 DEF Minus1, One
  <2>5. ConstTerm(n) \in TermOver(Vars(s)) /\ ConstTerm(n + 1) \in TermOver(Vars(s))
    BY PlainTypes
  <2>6. ASSUME NEW r \in [Nat -> Interval], NEW x \in Nat \ {0}, MayText(e, RangesOf(r), x)
        PROVE  Holds(c.len, r, x) /\ Holds(Minus1(c.len), r, x - 1)
    <3>1. x = n + 1 /\ x - 1 = n
      BY <1>3, <2>1, <2>6 DEF MayText
    <3>2. Holds(ConstTerm(n + 1), r, n + 1) /\ Holds(ConstTerm(n), r, n)
      BY ConstMay
    <3> QED
      BY <2>3, <2>4, <3>1, <3>2
  <2> QED
    BY <2>2, <2>3, <2>4, <2>5, <2>6
<1>4. CASE e.expr # "lit"
  <2>1. PICK n \in Nat : n = e.n
    BY <1>1
  <2>2. e.expr = "ref" /\ e.of \in Strings /\ c = StrCtx(Plain(SizVar(e.of), -n), Plain(LenVar(e.of), -n))
    BY <1>4, <2>1, TextForms
  <2>3. PICK v \in Vars(s), w \in Vars(s) : v = SizVar(e.of) /\ w = LenVar(e.of)
    BY <2>2, WalkedVars
  <2>4. -n \in Int /\ -n - 1 \in Int
    OBVIOUS
  <2>5. c = StrCtx(Plain(v, -n), Plain(w, -n)) /\ c.kind = "str" /\ c.siz = Plain(v, -n) /\ c.len = Plain(w, -n)
    BY <1>2, <2>2, <2>3, <2>4
  <2>6. Minus1(c.len) = Plain(w, -n - 1)
    BY <2>4, <2>5, PlainShifted DEF Minus1, One
  <2>7. Plain(v, -n) \in TermOver(Vars(s)) /\ Plain(w, -n) \in TermOver(Vars(s))
        /\ Plain(w, -n - 1) \in TermOver(Vars(s))
    BY <2>3, <2>4, PlainTypes
  <2>8. ASSUME NEW r \in [Nat -> Interval], NEW x \in Nat \ {0},
               Tame(RangesOf(r)), Skips(e), MayText(e, RangesOf(r), x)
        PROVE  Holds(c.len, r, x) /\ Holds(Minus1(c.len), r, x - 1)
    <3>1. In(x + n, RangesOf(r)[e.of].len)
      BY <1>4, <2>1, <2>8 DEF MayText
    <3>2. w \in Nat /\ x + n \in Nat /\ r[w] \in Interval
      BY <2>3, StoreVars DEF Walked
    <3>3. In(x + n, r[w]) /\ RangesOf(r)[e.of].len = r[w]
      <4>1. \A y \in Int : In(y, RangesOf(r)[e.of].len) => In(y, r[LenVar(e.of)]) /\ RangesOf(r)[e.of].len = r[LenVar(e.of)]
        BY <2>2, RangesIn
      <4> QED
        BY <2>2, <2>3, <3>1, <3>2, <4>1
    <3>4. r[w].lo < INF
      <4>1. ~IsEmpty(r[w])
        BY <3>2, <3>3, InFull
      <4> QED
        BY <2>2, <2>8, <3>3, <4>1 DEF Tame
    <3>5. -n - 1 > NEGINF /\ -n > NEGINF
      BY <2>1, <2>2, <2>8, EndpointFacts DEF Skips
    <3>6. Holds(Plain(w, -n), r, (x + n) + -n) /\ Holds(Plain(w, -n - 1), r, (x + n) + (-n - 1))
      BY <2>4, <3>2, <3>3, <3>4, <3>5, PlainMay
    <3>7. (x + n) + -n = x /\ (x + n) + (-n - 1) = x - 1
      OBVIOUS
    <3> QED
      BY <2>5, <2>6, <3>6, <3>7
  <2> QED
    BY <2>5, <2>6, <2>7, <2>8
<1> QED
  BY <1>3, <1>4

LEMMA IntForms ==
  ASSUME NEW e \in Ints
  PROVE  \/ e.expr = "int" /\ e.n \in Nat /\ e.n < INF /\ expr(e) = IntCtx(ConstTerm(e.n))
         \/ e.expr = "ref" /\ expr(e) = IntCtx(Plain(Declared, 0))
         \/ e.expr = "sizeof" /\ e.of \in Arrays /\ expr(e) = IntCtx(Plain(SizVar(e.of), 0))
         \/ e.expr = "strlen" /\ e.of \in Strings /\ e.n \in Nat
            /\ expr(e) = IntCtx(Plain(LenVar(e.of), e.n - 1))
<1>1. \A n \in Number : n \in Nat /\ n < INF
  BY EndpointFacts DEF Number
<1>2. CASE e \in [expr : {"int"}, of : {Nobody}, n : Number]
  BY <1>1, <1>2 DEF expr
<1>3. CASE e \in [expr : {"ref"}, of : {Num}, n : {0}]
  BY <1>3, ObjectTerms DEF expr
<1>4. CASE e \in [expr : {"sizeof"}, of : Arrays, n : {0}]
  BY <1>4, ObjectTerms DEF expr, Strings
<1>5. CASE e \in [expr : {"strlen"}, of : Strings, n : Number]
  <2>1. e.expr = "strlen" /\ e.of \in Strings /\ e.n \in Nat
    BY <1>1, <1>5
  <2>2. PICK n \in Nat, v \in Nat : n = e.n /\ v = LenVar(e.of) /\ LenOf(e.of) = Plain(v, 0)
    BY <2>1, ObjectTerms
  <2>3. expr(e) = IntCtx(AddTerms(Minus1(Plain(v, 0)), ConstTerm(n)))
    BY <2>1, <2>2 DEF expr
  <2>4. 0 - 1 \in Int /\ (0 - 1) + n = n - 1
    OBVIOUS
  <2>5. Minus1(Plain(v, 0)) = Plain(v, 0 - 1) /\ AddTerms(Plain(v, 0 - 1), ConstTerm(n)) = Plain(v, (0 - 1) + n)
    BY <2>4, PlainShifted DEF Minus1, One
  <2>6. expr(e) = IntCtx(Plain(v, n - 1))
    BY <2>3, <2>4, <2>5
  <2> QED
    BY <2>1, <2>2, <2>6
<1> QED
  BY <1>2, <1>3, <1>4, <1>5 DEF Ints

LEMMA IntHolds ==
  ASSUME NEW e \in Ints, NEW s, Walked(s), NEW c, c = expr(e)
  PROVE  /\ c.kind = "int" /\ c = IntCtx(c.val) /\ c.val \in TermOver(Vars(s))
         /\ \A r \in [Nat -> Interval] : \A x \in Nat :
              Tame(RangesOf(r)) /\ Sized(RangesOf(r)) /\ INF > 1 /\ MayInt(e, RangesOf(r), x) => Holds(c.val, r, x)
<1>1. \A t : IntCtx(t).kind = "int" /\ IntCtx(t).val = t
  BY DEF IntCtx
<1>2. \A v \in Vars(s) : v \in Nat
  BY StoreVars DEF Walked
<1>3. CASE e.expr = "int"
  <2>1. PICK n \in Nat : n = e.n /\ c = IntCtx(ConstTerm(n))
    BY <1>3, IntForms
  <2>2. ConstTerm(n) \in TermOver(Vars(s)) /\ \A r \in [Nat -> Interval] : Holds(ConstTerm(n), r, n)
    BY PlainTypes, ConstMay
  <2>3. ASSUME NEW r \in [Nat -> Interval], NEW x \in Nat, MayInt(e, RangesOf(r), x)
        PROVE  x = n
    BY <1>3, <2>1, <2>3 DEF MayInt
  <2> QED
    BY <1>1, <2>1, <2>2, <2>3
<1>4. CASE e.expr = "ref"
  <2>1. PICK v \in Vars(s) : v = Declared /\ c = IntCtx(Plain(v, 0))
    BY <1>4, IntForms, WalkedVars
  <2>2. Plain(v, 0) \in TermOver(Vars(s))
    BY PlainTypes
  <2>3. ASSUME NEW r \in [Nat -> Interval], NEW x \in Nat, MayInt(e, RangesOf(r), x)
        PROVE  Holds(Plain(v, 0), r, x)
    <3>1. In(x, RangesOf(r)[Num].val)
      BY <1>4, <2>3 DEF MayInt
    <3>2. In(x, r[v])
      BY <2>1, <3>1, RangesIn
    <3> QED
      BY <1>2, <3>2, VarMay
  <2> QED
    BY <1>1, <2>1, <2>2, <2>3
<1>5. CASE e.expr = "sizeof"
  <2>1. e.of \in Arrays /\ e.of \in Strings /\ c = IntCtx(Plain(SizVar(e.of), 0))
    BY <1>5, IntForms DEF Strings
  <2>2. PICK v \in Vars(s) : v = SizVar(e.of)
    BY <2>1, WalkedVars
  <2>3. Plain(v, 0) \in TermOver(Vars(s))
    BY PlainTypes
  <2>4. ASSUME NEW r \in [Nat -> Interval], NEW x \in Nat, Sized(RangesOf(r)), MayInt(e, RangesOf(r), x)
        PROVE  Holds(Plain(v, 0), r, x)
    <3>1. In(x, RangesOf(r)[e.of].siz)
      BY <1>5, <2>1, <2>4 DEF MayInt, Sized
    <3>2. In(x, r[v])
      <4>1. \A y \in Int : In(y, RangesOf(r)[e.of].siz) => In(y, r[SizVar(e.of)])
        BY <2>1, RangesIn
      <4> QED
        BY <2>2, <3>1, <4>1
    <3> QED
      BY <1>2, <3>2, VarMay
  <2> QED
    BY <1>1, <2>1, <2>2, <2>3, <2>4
<1>6. CASE e.expr = "strlen"
  <2>1. e.of \in Strings /\ e.n \in Nat /\ c = IntCtx(Plain(LenVar(e.of), e.n - 1))
    BY <1>6, IntForms
  <2>2. PICK v \in Vars(s), n \in Nat : v = LenVar(e.of) /\ n = e.n
    BY <2>1, WalkedVars
  <2>3. c = IntCtx(Plain(v, n - 1)) /\ n - 1 \in Int /\ Plain(v, n - 1) \in TermOver(Vars(s))
    BY <2>1, <2>2, PlainTypes
  <2>4. ASSUME NEW r \in [Nat -> Interval], NEW x \in Nat, Tame(RangesOf(r)), INF > 1, MayInt(e, RangesOf(r), x)
        PROVE  Holds(Plain(v, n - 1), r, x)
    <3>1. PICK u \in Nat \ {0} : x = u - 1 + n /\ In(u, RangesOf(r)[e.of].len)
      BY <1>6, <2>2, <2>4 DEF MayInt
    <3>2. v \in Nat /\ r[v] \in Interval
      BY <1>2
    <3>3. In(u, r[v]) /\ RangesOf(r)[e.of].len = r[v]
      <4>1. \A y \in Int : In(y, RangesOf(r)[e.of].len) => In(y, r[LenVar(e.of)]) /\ RangesOf(r)[e.of].len = r[LenVar(e.of)]
        BY <2>1, RangesIn
      <4> QED
        BY <2>2, <3>1, <3>2, <4>1
    <3>4. r[v].lo < INF
      <4>1. ~IsEmpty(r[v])
        BY <3>1, <3>2, <3>3, InFull
      <4> QED
        BY <2>1, <2>4, <3>3, <4>1 DEF Tame
    <3>5. n - 1 > NEGINF
      BY <2>4, EndpointFacts
    <3>6. Holds(Plain(v, n - 1), r, u + (n - 1))
      BY <2>3, <3>2, <3>3, <3>4, <3>5, PlainMay
    <3>7. u + (n - 1) = x
      BY <3>1
    <3> QED
      BY <3>6, <3>7
  <2> QED
    BY <1>1, <2>3, <2>4
<1> QED
  BY <1>3, <1>4, <1>5, <1>6, IntForms

(* A target is its own variables, less the bytes it is written from.       *)
LEMMA TargetForm ==
  ASSUME NEW e \in Targets, NEW s, Walked(s), NEW c, c = expr(e)
  PROVE  /\ e.of \in Strings /\ e.n \in Nat /\ e \in Texts
         /\ LenVar(e.of) \in Vars(s) /\ c.kind = "str" /\ c.len = Plain(LenVar(e.of), -e.n)
<1>1. e.of \in Strings /\ e \in Texts /\ e.expr = "ref"
  BY DEF Targets, Texts, Strings
<1>2. e.n \in Nat /\ c = StrCtx(Plain(SizVar(e.of), -e.n), Plain(LenVar(e.of), -e.n))
  BY <1>1, TextForms
<1>3. c.kind = "str" /\ c.len = Plain(LenVar(e.of), -e.n)
  BY <1>2 DEF StrCtx
<1> QED
  BY <1>1, <1>2, <1>3, WalkedVars


-----------------------------------------------------------------------------
(* The calls.                                                              *)

Pos == Nat \ {0}

(* The length of the buffer includes the bytes up to the w-th that is      *)
(* written.                                                                *)
Reaches(c, R, w) == In(At(c) + w, R[Dst(c)].len)

(* What the formats of the printf family print, w bytes with the NUL, when *)
(* the strings have the lengths u and an argument the amount amounts[i].   *)
MayAmount(e, R, u, x) ==
  IF IsText(e)
  THEN /\ x \in Pos
       /\ IF e.expr = "lit" THEN x = e.n + 1 ELSE u[e.of] = x + e.n /\ In(x + e.n, R[e.of].len)
  ELSE MayInt(e, R, x)

MayPrint(fmt, args, R, w) ==
  \E u \in [Strings -> Nat], amounts \in [1 .. Len(args) -> Nat], long \in BOOLEAN :
    /\ w = Output(fmt, amounts, long)
    /\ \A i \in 1 .. Len(args) : MayAmount(args[i], R, u, amounts[i])

(* What a call may do lies in the ranges R. *)
Sends(c, R) ==
  /\ c.call = "strcpy" => \A x \in Pos : MayText(c.args[2], R, x) => Reaches(c, R, x)
  /\ c.call = "strncpy" =>
       \A x \in Pos, n \in Nat : MayText(c.args[2], R, x) /\ MayInt(c.args[3], R, n) => Reaches(c, R, Lesser(x, n))
  /\ c.call = "strncat" =>
       \A x, u \in Pos, n \in Nat :
         MayText(c.args[2], R, x) /\ MayInt(c.args[3], R, n) /\ In(u, R[Dst(c)].len) =>
           In(u + Lesser(x - 1, n), R[Dst(c)].len)
  /\ c.call = "fgets" => \A n \in Nat : MayInt(c.args[2], R, n) => \A w \in 1 .. n : Reaches(c, R, w)
  /\ c.call = "gets" \/ (c.call = "sprintf" /\ c.fmt = Unparsed) => \A w \in Pos : Reaches(c, R, w)
  /\ c.call = "sprintf" /\ c.fmt # Unparsed =>
       \A w \in Pos : MayPrint(c.fmt, Tail(c.args), R, w) => Reaches(c, R, w)
  /\ c.call = "snprintf" =>
       \A w \in Pos, n \in Nat :
         MayPrint(c.fmt, Tail(Tail(c.args)), R, w) /\ MayInt(c.args[2], R, n) => Reaches(c, R, Lesser(w, n))
  /\ c.call = "malloc" => \A n \in Nat : MayInt(c.args[1], R, n) => In(n, R[Heap].siz)
  /\ c.call = "strdup" => \A x \in Pos : MayText(c.args[1], R, x) => In(x, R[Heap].siz) /\ In(x, R[Heap].len)
  /\ c.to = Window /\ c.call = "=" => \A x \in Pos : MayText(c.args[1], R, x) => In(x, R[Window].len)
  /\ c.call = "strchr" => \A x \in Pos : MayText(c.args[1], R, x) => \A y \in 1 .. x : In(y, R[Window].len)
  /\ c.call = "getenv" => \A w \in Pos : In(w, R[Window].len)
  /\ c.to = Num /\ c.call = "=" => \A n \in Nat : MayInt(c.args[1], R, n) => In(n, R[Num].val)
  /\ c.call = "strspn" => \A x \in Pos : MayText(c.args[1], R, x) => \A k \in 0 .. x - 1 : In(k, R[Num].val)

Calm(R, items) == Tame(R) /\ Sized(R) /\ LowFor(items, R)

(* The walker has taken account of a call. *)
Taken(c) ==
  /\ Grew(sys', sys)
  /\ \A r \in [Nat -> Interval] :
       Sat(r, sys') /\ Modelled(c) /\ Calm(RangesOf(r), Len(c.fmt)) => Sends(c, RangesOf(r))

LEMMA InLen ==
  ASSUME NEW r \in [Nat -> Interval], NEW o \in Strings, NEW x \in Int
  PROVE  /\ In(x, r[LenVar(o)]) <=> In(x, RangesOf(r)[o].len)
         /\ In(x, r[SizVar(o)]) <=> In(x, RangesOf(r)[o].siz)
BY RangesIn

LEMMA ResultIs ==
  ASSUME NEW c, NEW s, NEW ctx, Result(c, s, ctx)
  PROVE  /\ c.to = Nobody => sys' = s
         /\ c.to \in {Heap, Window} =>
              sys' = assign(s, StrCtx(Plain(SizVar(c.to), 0), Plain(LenVar(c.to), 0)), ctx)
         /\ c.to = Num => sys' = assign(s, IntCtx(Plain(Declared, 0)), ctx)
<1>1. Nobody # Heap /\ Nobody # Window /\ Nobody # Num /\ Heap # Num /\ Window # Num
  BY DEF Nobody, Heap, Window, Num
<1>2. c.to = Nobody => sys' = s
  BY DEF Result
<1>3. c.to # Nobody => sys' = assign(s, expr(Ref(c.to)), ctx)
  BY DEF Result
<1>4. \A o : Ref(o).expr = "ref" /\ Ref(o).of = o /\ Ref(o).n = 0
  BY DEF Ref
<1>5. expr(Ref(Num)) = IntCtx(Plain(Declared, 0))
  BY <1>4, ObjectTerms DEF expr
<1>6. \A o \in {Heap, Window} : expr(Ref(o)) = StrCtx(Plain(SizVar(o), 0), Plain(LenVar(o), 0))
  BY <1>1, <1>4, ObjectTerms DEF expr, Strings
<1> QED
  BY <1>1, <1>2, <1>3, <1>5, <1>6

LEMMA ArgsSkip ==
  ASSUME NEW c \in Calls, FewSkipped(c)
  PROVE  INF > 1 /\ \A k \in DOMAIN c.args : Skips(c.args[k])
<1>1. PICK most \in 1 .. INF - 1 : \A k \in DOMAIN c.args : c.args[k].expr = "ref" => c.args[k].n < most
  BY DEF FewSkipped
<1>2. INF > 1 /\ most <= INF - 1 /\ most \in Int
  BY EndpointFacts
<1>3. ASSUME NEW k \in DOMAIN c.args, c.args[k].expr = "ref"
      PROVE  c.args[k].n < INF - 1
  <2>1. c.args[k] \in Texts \cup Ints
    BY DEF Calls
  <2>2. c.args[k].n \in Int
    BY <2>1 DEF Texts, Ints, Number
  <2> QED
    BY <1>1, <1>2, <1>3, <2>2, EndpointFacts
<1> QED
  BY <1>2, <1>3 DEF Skips

LEMMA MinusZero ==
  ASSUME NEW n \in Int, n = 0
  PROVE  -n = 0
<1>1. \A k \in Int : 0 - k = -k
  OBVIOUS
<1>2. 0 - n = 0
  OBVIOUS
<1>3. 0 - n = -n
  BY ONLY <1>1, n \in Int
<1> QED
  BY ONLY <1>2, <1>3

(* A term has the value that it takes on values in the ranges.             *)
LEMMA FitHolds ==
  ASSUME NEW t \in TermOver(Nat), NEW r \in [Nat -> Interval], NEW val \in [Nat -> Nat],
         Fit(t, r), Within(t, val, r)
  PROVE  Holds(t, r, ValueOf(t, val))
<1>1. PICK es \in Seq(EntryOver(Nat)), base \in Int : es = t.terms /\ base = t.konst
  BY TermParts
<1>2. Valued(Nat, val)
  BY DEF Valued
<1>3. ASSUME NEW k \in Nat
      PROVE  In(ValueOf(t, val) + k, EvalTerm(Less(t, -k), r))
  <2>1a. PICK m \in Int : \E u :
        m = -k /\ base - m = base + k /\ u = Less(t, m)
    OBVIOUS
  <2>1. PICK u :
        m = -k /\ base - m = base + k /\ u = Less(t, m)
    BY <2>1a
  <2>2. u \in TermOver(Nat) /\ u.terms = es /\ u.konst = base + k
    BY <1>1, <2>1, LessTerm
  <2>3. Fit(u, r) /\ Within(u, val, r)
    <3>1. base + k >= base /\ base + k \in Int
      OBVIOUS
    <3>2. (base >= 0 \/ \A i \in DOMAIN es : es[i][1] * r[es[i][2]].lo < INF)
          /\ \A i \in DOMAIN es : es[i][1] \in Nat
      BY <1>1 DEF Fit
    <3>3. base > NEGINF
      BY <1>1 DEF Fit
    <3>4. base + k > NEGINF /\ (base >= 0 => base + k >= 0)
      <4>1. PICK m0 \in Int : m0 = NEGINF
        BY EndpointFacts
      <4> QED
        BY <3>3, <4>1
    <3> QED
      BY <1>1, <2>2, <3>2, <3>4 DEF Fit, Within
  <2>4. In(ValueOf(u, val), EvalTerm(u, r))
    BY <2>2, <2>3, EvalHolds
  <2>5. ValueOf(u, val) = Total(base + k, es, val) /\ ValueOf(t, val) = Total(base, es, val)
    BY <1>1, <2>2, ValueIs
  <2>6. base + k \in Int
    OBVIOUS
  <2>7. Total(base + k, es, val) - (base + k) = Total(base, es, val) - base
    BY <1>2, <2>6, TotalShifted
  <2>8. PICK x \in Int, y \in Int : x = Total(base + k, es, val) /\ y = Total(base, es, val)
    BY <1>2, <2>6, TotalType
  <2>9. x = y + k
    <3>1. x - (base + k) = y - base
      BY ONLY <2>7, <2>8
    <3> QED
      BY <3>1
  <2> QED
    BY <2>1, <2>4, <2>5, <2>8, <2>9
<1> QED
  BY <1>3 DEF Holds

(* The sum of two variables. *)
LEMMA TwoHold ==
  ASSUME NEW z \in Nat, NEW v \in Nat, z # v, NEW t, t = AddTerms(Plain(z, 0), Plain(v, 0)),
         NEW r \in [Nat -> Interval], NEW a \in Nat, NEW b \in Nat, In(a, r[z]), In(b, r[v])
  PROVE  t \in TermOver(Nat) /\ Holds(t, r, a + b)
<1>1. /\ Plain(z, 0) \in TermOver(Nat) /\ Plain(z, 0).terms = <<<<1, z>>>> /\ Plain(z, 0).konst = 0
      /\ Plain(v, 0) \in TermOver(Nat) /\ Plain(z, 0) = VarTerm(z) /\ Plain(v, 0) = VarTerm(v)
  BY PlainTypes DEF Plain
<1>2. t = [terms |-> AddEntry(<<<<1, z>>>>, <<1, v>>), konst |-> 0]
  <2>1. AddTerms(Plain(z, 0), Plain(v, 0)) = [terms |-> AddEntry(Plain(z, 0).terms, <<1, v>>), konst |-> Plain(z, 0).konst + 0]
    BY <1>1, PlusPlain
  <2> QED
    BY <1>1, <2>1
<1>3. t \in TermOver(Nat)
  BY <1>1, AddTermsType
<1>4. PICK val \in [Nat -> Nat] : val[z] = a /\ val[v] = b
  <2> DEFINE f == [j \in Nat |-> IF j = z THEN a ELSE b]
  <2>1. f \in [Nat -> Nat] /\ f[z] = a /\ f[v] = b
    OBVIOUS
  <2> QED
    BY <2>1
<1>5. PICK es : es = t.terms /\ es = AddEntry(<<<<1, z>>>>, <<1, v>>)
  BY <1>2
<1>6. ASSUME NEW i \in DOMAIN es
      PROVE  es[i][1] \in Nat /\ es[i][2] \in {z, v}
  <2>1a. PICK fs \in Seq(EntryOver(Nat)) : \E e :
        fs = <<<<1, z>>>> /\ e = AddEntry(fs, <<1, v>>)[i]
    <3>1. <<<<1, z>>>> \in Seq(EntryOver(Nat))
      BY DEF EntryOver
    <3> QED
      BY <3>1
  <2>1. PICK e :
        fs = <<<<1, z>>>> /\ e = AddEntry(fs, <<1, v>>)[i]
    BY <2>1a
  <2>2. \A j \in DOMAIN fs : fs[j][1] = 1 /\ fs[j][2] = z
    BY <2>1
  <2>3. Counting(fs) /\ es = AddEntry(fs, <<1, v>>) /\ e = es[i]
    BY <1>5, <2>1, <2>2 DEF Counting
  <2>4. \/ \E j \in DOMAIN fs : e[1] = fs[j][1] /\ e[2] = fs[j][2]
        \/ \E j \in DOMAIN fs : e[1] = fs[j][1] + 1 /\ e[2] = v /\ fs[j][2] = v
        \/ e[1] = 1 /\ e[2] = v /\ \A j \in DOMAIN fs : fs[j][2] # v
    <3>1. MoreBy(AddEntry(fs, <<1, v>>), fs, v)
      BY <2>3, OneMore
    <3>2. MoreBy(es, fs, v)
      BY <2>3, <3>1
    <3> QED
      BY <2>3, <3>2 DEF MoreBy
  <2>5. e[1] \in {1, 2} /\ e[2] \in {z, v}
    BY <2>2, <2>4
  <2> QED
    BY <1>5, <2>1, <2>5
<1>7. Fit(t, r) /\ Within(t, val, r)
  <2>1. t.konst = 0 /\ 0 > NEGINF
    BY <1>2, EndpointFacts
  <2> QED
    BY <1>4, <1>5, <1>6, <2>1 DEF Fit, Within
<1>8. ValueOf(t, val) = a + b
  <2>1. Valued(Nat, val)
    BY DEF Valued
  <2>2. ValueOf(VarTerm(z), val) = a /\ ValueOf(VarTerm(v), val) = b
    BY <1>4, <2>1, VarValue
  <2> QED
    BY <1>1, <2>1, <2>2, SumValue
<1> QED
  BY <1>3, <1>7, <1>8, FitHolds

LEMMA StrcpyTaken ==
  ASSUME NEW c \in Calls, WellTyped(c), FewSkipped(c), Walked(sys), Strcpy(c)
  PROVE  Taken(c)
<1>1. c.call = "strcpy" /\ c.to = Nobody /\ c.args \in Targets \X Texts
  BY DEF WellTyped, Strcpy
<1>2. c.args[1] \in Targets /\ c.args[2] \in Texts /\ 2 \in DOMAIN c.args
  BY <1>1
<1>3. sys' = AddSubset(sys, Arg(c, 2).len, Arg(c, 1).len)
  BY <1>1, ResultIs DEF Strcpy
<1>4. PICK src : src = Arg(c, 2)
  OBVIOUS
<1>5. PICK v \in Vars(sys), k \in Nat : v = LenVar(Dst(c)) /\ k = At(c) /\ Dst(c) \in Strings /\ Arg(c, 1).len = Plain(v, -k)
  BY <1>2, TargetForm DEF Arg, Dst, At
<1>6. src.len \in TermOver(Vars(sys)) /\ Store(sys)
  BY <1>2, <1>4, TextHolds DEF Arg, Walked
<1>7. /\ Grew(sys', sys)
      /\ \A r \in [Nat -> Interval], x \in Int : Sat(r, sys') /\ Holds(src.len, r, x) => In(x + k, r[v])
  BY <1>3, <1>4, <1>5, <1>6, SubsetSends
<1>8. ASSUME NEW r \in [Nat -> Interval], Sat(r, sys'), Calm(RangesOf(r), Len(c.fmt)),
             NEW x \in Pos, MayText(c.args[2], RangesOf(r), x)
      PROVE  Reaches(c, RangesOf(r), x)
  <2>1. Skips(c.args[2]) /\ Tame(RangesOf(r)) /\ x \in Nat \ {0} /\ x \in Int
    BY <1>2, <1>8, ArgsSkip DEF Calm, Pos
  <2>2. Holds(src.len, r, x)
    BY <1>2, <1>4, <1>8, <2>1, TextHolds DEF Arg
  <2>3. In(x + k, r[v]) /\ x + k = k + x /\ k + x \in Int
    BY <1>7, <1>8, <2>1, <2>2
  <2> QED
    BY <1>5, <2>3, InLen DEF Reaches
<1> QED
  BY <1>1, <1>7, <1>8 DEF Taken, Sends

LEMMA StrncpyTaken ==
  ASSUME NEW c \in Calls, WellTyped(c), FewSkipped(c), Walked(sys), Strncpy(c)
  PROVE  Taken(c)
<1>1. c.call = "strncpy" /\ c.to = Nobody /\ c.args \in Targets \X Texts \X Ints
  BY DEF WellTyped, Strncpy
<1>2. c.args[1] \in Targets /\ c.args[2] \in Texts /\ c.args[3] \in Ints /\ 2 \in DOMAIN c.args
  BY <1>1
<1>3. PICK src, bound, t : src = Arg(c, 2) /\ bound = Arg(c, 3) /\ t = AddMin(sys, src.len, bound.val)
  OBVIOUS
<1>4. sys' = AddSubset(t, NewTerm(sys), Arg(c, 1).len)
  BY <1>1, <1>3, ResultIs DEF Strncpy
<1>5. /\ src.len \in TermOver(Vars(sys)) /\ bound.val \in TermOver(Vars(sys)) /\ Store(sys)
  BY <1>2, <1>3, TextHolds, IntHolds DEF Arg, Walked
<1>6. /\ Grew(t, sys) /\ sys.vars \in Vars(t)
      /\ NewTerm(sys) = Plain(sys.vars, 0) /\ NewTerm(sys) \in TermOver(Vars(t))
      /\ \A r \in [Nat -> Interval] : \A a, b \in Int :
           Sat(r, t) /\ In(a, EvalTerm(src.len, r)) /\ In(b, EvalTerm(bound.val, r)) => In(Lesser(a, b), r[sys.vars])
  BY <1>3, <1>5, MinAdded
<1>7. Walked(t) /\ Store(t)
  BY <1>6, WalkedGrows DEF Walked
<1>8. PICK v \in Vars(t), k \in Nat : v = LenVar(Dst(c)) /\ k = At(c) /\ Dst(c) \in Strings /\ Arg(c, 1).len = Plain(v, -k)
  BY <1>2, <1>7, TargetForm DEF Arg, Dst, At
<1>9. /\ Grew(sys', t)
      /\ \A r \in [Nat -> Interval], x \in Int : Sat(r, sys') /\ Holds(NewTerm(sys), r, x) => In(x + k, r[v])
  BY <1>4, <1>6, <1>7, <1>8, SubsetSends
<1>10. Grew(sys', sys)
  BY <1>5, <1>6, <1>9, GrewTrans
<1>11. ASSUME NEW r \in [Nat -> Interval], Sat(r, sys'), Calm(RangesOf(r), Len(c.fmt)),
              NEW x \in Pos, NEW n \in Nat, MayText(c.args[2], RangesOf(r), x), MayInt(c.args[3], RangesOf(r), n)
       PROVE  Reaches(c, RangesOf(r), Lesser(x, n))
  <2>1. Skips(c.args[2]) /\ INF > 1 /\ Tame(RangesOf(r)) /\ Sized(RangesOf(r)) /\ x \in Nat \ {0} /\ x \in Int
    BY <1>2, <1>11, ArgsSkip DEF Calm, Pos
  <2>2. Holds(src.len, r, x) /\ Holds(bound.val, r, n)
    BY <1>2, <1>3, <1>11, <2>1, TextHolds, IntHolds DEF Arg
  <2>3. src.len \in TermOver(Nat) /\ bound.val \in TermOver(Nat)
    BY <1>5, NatTerms
  <2>4. In(x, EvalTerm(src.len, r)) /\ In(n, EvalTerm(bound.val, r))
    BY <2>1, <2>2, <2>3, HoldsIn
  <2>5. Sat(r, t)
    BY <1>9, <1>11, GrewSat
  <2>6. PICK w \in Nat : w = Lesser(x, n)
    BY <2>1 DEF Lesser
  <2>7. In(w, r[sys.vars]) /\ sys.vars \in Nat
    BY <1>5, <1>6, <2>1, <2>4, <2>5, <2>6, StoreVars
  <2>8. Holds(NewTerm(sys), r, w)
    BY <1>6, <2>7, VarMay
  <2>9. In(w + k, r[v]) /\ w + k = k + w /\ k + w \in Int
    <3>1. w \in Int /\ w + k = k + w /\ k + w \in Int
      OBVIOUS
    <3>2. Sat(r, sys') /\ r \in [Nat -> Interval]
      BY <1>11
    <3>3. In(w + k, r[v])
      BY ONLY <1>9, <2>8, <3>1, <3>2
    <3> QED
      BY <3>1, <3>3
  <2> QED
    BY <1>8, <2>6, <2>9, InLen DEF Reaches
<1> QED
  BY <1>1, <1>10, <1>11 DEF Taken, Sends

LEMMA StrncatTaken ==
  ASSUME NEW c \in Calls, WellTyped(c), FewSkipped(c), Walked(sys), Strncat(c)
  PROVE  Taken(c)
<1>1. c.call = "strncat" /\ c.to = Nobody /\ c.args \in Whole \X Texts \X Ints
  BY DEF WellTyped, Strncat
<1>2. c.args[1] \in Whole /\ c.args[2] \in Texts /\ c.args[3] \in Ints /\ 2 \in DOMAIN c.args
  BY <1>1
<1>3. PICK src, bound, t : src = Arg(c, 2) /\ bound = Arg(c, 3) /\ t = AddMin(sys, Minus1(src.len), bound.val)
  OBVIOUS
<1>4. sys' = AddSubset(t, AddTerms(NewTerm(sys), Arg(c, 1).len), Arg(c, 1).len)
  BY <1>1, <1>3, ResultIs DEF Strncat
<1>5. /\ Minus1(src.len) \in TermOver(Vars(sys)) /\ bound.val \in TermOver(Vars(sys)) /\ Store(sys)
  BY <1>2, <1>3, TextHolds, IntHolds DEF Arg, Walked
<1>6. /\ Grew(t, sys) /\ sys.vars \in Vars(t)
      /\ NewTerm(sys) = Plain(sys.vars, 0)
      /\ \A r \in [Nat -> Interval] : \A a, b \in Int :
           Sat(r, t) /\ In(a, EvalTerm(Minus1(src.len), r)) /\ In(b, EvalTerm(bound.val, r)) =>
             In(Lesser(a, b), r[sys.vars])
  BY <1>3, <1>5, MinAdded
<1>7. Walked(t) /\ Store(t)
  BY <1>6, WalkedGrows DEF Walked
<1>8. PICK v \in Vars(t) : v = LenVar(Dst(c)) /\ Dst(c) \in Strings /\ Arg(c, 1).len = Plain(v, 0)
  <2>1. c.args[1] \in Targets /\ c.args[1].n = 0 /\ 0 \in Number
    BY <1>2, EndpointFacts DEF Whole, Targets, Number
  <2>2. PICK v \in Vars(t) : v = LenVar(Dst(c)) /\ Dst(c) \in Strings /\ Arg(c, 1).len = Plain(v, -c.args[1].n)
    BY <1>7, <2>1, TargetForm DEF Arg, Dst, At
  <2>3. -c.args[1].n = 0
    <3>1. PICK n \in Int : n = c.args[1].n /\ n = 0
      BY <2>1
    <3>2. -n = 0
      BY <3>1, MinusZero
    <3> QED
      BY <3>1, <3>2
  <2> QED
    BY <2>2, <2>3
<1>9a. PICK z \in Vars(t) : \E both :
      z = sys.vars /\ both = AddTerms(Plain(z, 0), Plain(v, 0))
  BY <1>6
<1>9. PICK both :
      z = sys.vars /\ both = AddTerms(Plain(z, 0), Plain(v, 0))
  BY <1>9a
<1>10. Plain(z, 0) \in TermOver(Vars(t)) /\ Plain(v, 0) \in TermOver(Vars(t)) /\ both \in TermOver(Vars(t))
  BY <1>9, PlainTypes, AddTermsType
<1>11. sys' = AddSubset(t, both, Plain(v, 0))
  BY <1>4, <1>6, <1>8, <1>9
<1>12. /\ Grew(sys', t)
       /\ \A r \in [Nat -> Interval], x \in Int : Sat(r, sys') /\ Holds(both, r, x) => In(x, r[v])
  <2>1. PICK k \in Nat : k = 0 /\ -k = 0
    BY MinusZero
  <2>2. sys' = AddSubset(t, both, Plain(v, -k))
    BY <1>11, <2>1
  <2>3. /\ Grew(sys', t)
        /\ \A r \in [Nat -> Interval], x \in Int : Sat(r, sys') /\ Holds(both, r, x) => In(x + k, r[v])
    BY <1>7, <1>10, <2>1, <2>2, SubsetSends
  <2>4. \A x \in Int : x + k = x
    BY <2>1
  <2> QED
    BY <2>3, <2>4
<1>13. Grew(sys', sys)
  BY <1>5, <1>6, <1>12, GrewTrans
<1>14. z \in Nat /\ v \in Nat /\ z # v
  <2>1. v \in Vars(sys)
    BY <1>8, WalkedVars
  <2> QED
    BY <1>5, <1>7, <1>9, <2>1, StoreVars DEF Vars
<1>15. ASSUME NEW r \in [Nat -> Interval], Sat(r, sys'), Calm(RangesOf(r), Len(c.fmt)),
              NEW x \in Pos, NEW u \in Pos, NEW n \in Nat, MayText(c.args[2], RangesOf(r), x),
              MayInt(c.args[3], RangesOf(r), n), In(u, RangesOf(r)[Dst(c)].len)
       PROVE  In(u + Lesser(x - 1, n), RangesOf(r)[Dst(c)].len)
  <2>1. Skips(c.args[2]) /\ INF > 1 /\ Tame(RangesOf(r)) /\ Sized(RangesOf(r)) /\ x \in Nat \ {0} /\ u \in Nat
        /\ x - 1 \in Nat /\ x - 1 \in Int
    BY <1>2, <1>15, ArgsSkip DEF Calm, Pos
  <2>2. Holds(Minus1(src.len), r, x - 1) /\ Holds(bound.val, r, n)
    BY <1>2, <1>3, <1>15, <2>1, TextHolds, IntHolds DEF Arg
  <2>3. Minus1(src.len) \in TermOver(Nat) /\ bound.val \in TermOver(Nat)
    BY <1>5, NatTerms
  <2>4. In(x - 1, EvalTerm(Minus1(src.len), r)) /\ In(n, EvalTerm(bound.val, r))
    BY <2>1, <2>2, <2>3, HoldsIn
  <2>5. Sat(r, t)
    BY <1>12, <1>15, GrewSat
  <2>6. PICK w \in Nat : w = Lesser(x - 1, n)
    BY <2>1 DEF Lesser
  <2>7. In(w, r[z])
    BY <1>6, <1>9, <2>1, <2>4, <2>5, <2>6
  <2>8. In(u, r[v])
    BY <1>8, <1>15, <2>1, InLen
  <2>9. PICK y \in Nat : y = u /\ In(y, r[v])
    BY <2>1, <2>8
  <2>10. Holds(both, r, w + y)
    BY <1>9, <1>14, <2>7, <2>9, TwoHold
  <2>11. w + y \in Int /\ w + y = u + w
    BY <2>9
  <2>12. In(w + y, r[v])
    BY <1>12, <1>15, <2>10, <2>11
  <2> QED
    BY <1>8, <2>6, <2>11, <2>12, InLen
<1> QED
  BY <1>1, <1>13, <1>15 DEF Taken, Sends

LEMMA StrcatTaken ==
  ASSUME NEW c \in Calls, WellTyped(c), FewSkipped(c), Walked(sys), Strcat(c)
  PROVE  Taken(c)
<1>1. c.call = "strcat" /\ c.to = Nobody /\ c.args \in Whole \X Texts
  BY DEF WellTyped, Strcat
<1>2. c.args[1] \in Whole /\ c.args[2] \in Texts
  BY <1>1
<1>3. c.args[1] \in Targets
  BY <1>2, EndpointFacts DEF Whole, Targets, Number
<1>4. PICK src : src = Arg(c, 2) /\ sys' = AddSubset(sys, src.len, Arg(c, 1).len)
  BY <1>1, ResultIs DEF Strcat
<1>5. PICK v \in Vars(sys), k \in Nat : Arg(c, 1).len = Plain(v, -k)
  BY <1>3, TargetForm DEF Arg
<1>6. src.len \in TermOver(Vars(sys)) /\ Store(sys)
  BY <1>2, <1>4, TextHolds DEF Arg, Walked
<1>7. Grew(sys', sys)
  BY <1>4, <1>5, <1>6, SubsetSends
<1>8. ~Modelled(c)
  BY <1>1 DEF Modelled
<1> QED
  BY <1>7, <1>8 DEF Taken

LEMMA FgetsTaken ==
  ASSUME NEW c \in Calls, WellTyped(c), FewSkipped(c), Walked(sys), Fgets(c)
  PROVE  Taken(c)
<1>1. c.call = "fgets" /\ c.to = Nobody /\ c.args \in Targets \X Ints
  BY DEF WellTyped, Fgets
<1>2. c.args[1] \in Targets /\ c.args[2] \in Ints
  BY <1>1
<1>3. PICK bound : bound = Arg(c, 2) /\ sys' = AddSubsets(sys, <<One, bound.val>>, Arg(c, 1).len)
  BY <1>1, ResultIs DEF Fgets
<1>4. PICK v \in Vars(sys), k \in Nat : v = LenVar(Dst(c)) /\ k = At(c) /\ Dst(c) \in Strings /\ Arg(c, 1).len = Plain(v, -k)
  BY <1>2, TargetForm DEF Arg, Dst, At
<1>5. PICK lo \in TermOver(Vars(sys)), hi \in TermOver(Vars(sys)) : lo = One /\ hi = bound.val
  BY <1>2, <1>3, IntHolds, PlainTypes DEF Arg, One
<1>6. Store(sys) /\ sys' = AddSubsets(sys, <<lo, hi>>, Plain(v, -k))
  BY <1>3, <1>4, <1>5 DEF Walked
<1>7. /\ Grew(sys', sys)
      /\ \A r \in [Nat -> Interval], x, y, w \in Int :
           Sat(r, sys') /\ Holds(lo, r, x) /\ Holds(hi, r, y) /\ x <= w /\ w <= y => In(w + k, r[v])
  BY <1>6, SubsetsSend
<1>8. ASSUME NEW r \in [Nat -> Interval], Sat(r, sys'), Calm(RangesOf(r), Len(c.fmt)),
             NEW n \in Nat, MayInt(c.args[2], RangesOf(r), n), NEW w \in 1 .. n
      PROVE  Reaches(c, RangesOf(r), w)
  <2>1. INF > 1 /\ Tame(RangesOf(r)) /\ Sized(RangesOf(r))
    BY <1>8, ArgsSkip DEF Calm
  <2>2. Holds(hi, r, n) /\ Holds(lo, r, 1)
    BY <1>2, <1>3, <1>5, <1>8, <2>1, IntHolds, ConstMay DEF Arg, One
  <2>3. w \in Int /\ n \in Int /\ 1 \in Int /\ 1 <= w /\ w <= n /\ w + k = k + w /\ k + w \in Int
    OBVIOUS
  <2>4. In(w + k, r[v])
    BY <1>7, <1>8, <2>2, <2>3
  <2> QED
    BY <1>4, <2>3, <2>4, InLen DEF Reaches
<1> QED
  BY <1>1, <1>7, <1>8 DEF Taken, Sends

(* A call after which the string may have any length. *)
LEMMA AnyLength ==
  ASSUME NEW c, c.args[1] \in Targets, Walked(sys), sys' = force_len_top(sys, Arg(c, 1).len)
  PROVE  /\ Grew(sys', sys)
         /\ \A r \in [Nat -> Interval], w \in Pos : Sat(r, sys') => Reaches(c, RangesOf(r), w)
<1>1. PICK v \in Vars(sys), k \in Nat : v = LenVar(Dst(c)) /\ k = At(c) /\ Dst(c) \in Strings /\ Arg(c, 1).len = Plain(v, -k)
  BY TargetForm DEF Arg, Dst, At
<1>2. Store(sys)
  BY DEF Walked
<1>3. /\ Grew(sys', sys)
      /\ \A r \in [Nat -> Interval], w \in Nat \ {0} : Sat(r, sys') => In(w + k, r[v])
  BY <1>1, <1>2, AllSent
<1>4. ASSUME NEW r \in [Nat -> Interval], NEW w \in Pos, Sat(r, sys')
      PROVE  Reaches(c, RangesOf(r), w)
  <2>1. w \in Nat \ {0} /\ w + k = k + w /\ k + w \in Int
    BY DEF Pos
  <2>2. In(k + w, r[v])
    BY <1>3, <1>4, <2>1
  <2> QED
    BY <1>1, <2>1, <2>2, InLen DEF Reaches
<1> QED
  BY <1>3, <1>4

LEMMA GetsTaken ==
  ASSUME NEW c \in Calls, WellTyped(c), FewSkipped(c), Walked(sys), Gets(c)
  PROVE  Taken(c)
<1>1. c.call = "gets" /\ c.to = Nobody /\ c.args[1] \in Targets
  BY DEF WellTyped, Gets
<1>2. sys' = force_len_top(sys, Arg(c, 1).len)
  BY <1>1, ResultIs DEF Gets
<1>3. /\ Grew(sys', sys)
      /\ \A r \in [Nat -> Interval], w \in Pos : Sat(r, sys') => Reaches(c, RangesOf(r), w)
  BY <1>1, <1>2, AnyLength
<1> QED
  BY <1>1, <1>3 DEF Taken, Sends

(* The same for a variable on its own.                                     *)
LEMMA SubsetFills ==
  ASSUME NEW s, Store(s), NEW lhs \in TermOver(Vars(s)), NEW v \in Vars(s),
         NEW t, t = AddSubset(s, lhs, Plain(v, 0))
  PROVE  /\ Grew(t, s) /\ t.vars = s.vars
         /\ \A r \in [Nat -> Interval], x \in Int : Sat(r, t) /\ Holds(lhs, r, x) => In(x, r[v])
<1>1. PICK k \in Nat : k = 0 /\ -k = 0
  BY MinusZero
<1>2. t = AddSubset(s, lhs, Plain(v, -k))
  BY <1>1
<1>3. /\ Grew(t, s) /\ t.vars = s.vars
      /\ \A r \in [Nat -> Interval], x \in Int : Sat(r, t) /\ Holds(lhs, r, x) => In(x + k, r[v])
  BY <1>2, SubsetSends
<1>4. \A x \in Int : x + k = x
  BY <1>1
<1> QED
  BY <1>3, <1>4

LEMMA SubsetsFill ==
  ASSUME NEW s, Store(s), NEW a \in TermOver(Vars(s)), NEW b \in TermOver(Vars(s)), NEW v \in Vars(s),
         NEW t, t = AddSubsets(s, <<a, b>>, Plain(v, 0))
  PROVE  /\ Grew(t, s) /\ t.vars = s.vars
         /\ \A r \in [Nat -> Interval], x, y, w \in Int :
              Sat(r, t) /\ Holds(a, r, x) /\ Holds(b, r, y) /\ x <= w /\ w <= y => In(w, r[v])
<1>1. PICK k \in Nat : k = 0 /\ -k = 0
  BY MinusZero
<1>2. t = AddSubsets(s, <<a, b>>, Plain(v, -k))
  BY <1>1
<1>3. /\ Grew(t, s) /\ t.vars = s.vars
      /\ \A r \in [Nat -> Interval], x, y, w \in Int :
           Sat(r, t) /\ Holds(a, r, x) /\ Holds(b, r, y) /\ x <= w /\ w <= y => In(w + k, r[v])
  BY <1>2, SubsetsSend
<1>4. \A x \in Int : x + k = x
  BY <1>1
<1> QED
  BY <1>3, <1>4

(* A string assigned to a pointer, a number to the integer.                *)
LEMMA PointerSet ==
  ASSUME NEW t, Walked(t), NEW c, c.to \in {Heap, Window}, NEW ctx, Result(c, t, ctx),
         NEW siz \in TermOver(Vars(t)), NEW len \in TermOver(Vars(t)), ctx = StrCtx(siz, len)
  PROVE  /\ Grew(sys', t)
         /\ \A r \in [Nat -> Interval], x \in Int :
              /\ Sat(r, sys') /\ Holds(siz, r, x) => In(x, RangesOf(r)[c.to].siz)
              /\ Sat(r, sys') /\ Holds(len, r, x) => In(x, RangesOf(r)[c.to].len)
<1>1. c.to \in Strings /\ Store(t)
  BY DEF Strings, Walked
<1>2. PICK v \in Vars(t), w \in Vars(t) : v = SizVar(c.to) /\ w = LenVar(c.to)
  BY <1>1, WalkedVars
<1>3. sys' = assign(t, StrCtx(Plain(v, 0), Plain(w, 0)), StrCtx(siz, len))
  BY <1>2, ResultIs
<1>4. /\ Grew(sys', t)
      /\ \A r \in [Nat -> Interval], x \in Int :
           /\ Sat(r, sys') /\ Holds(siz, r, x) => In(x, r[v])
           /\ Sat(r, sys') /\ Holds(len, r, x) => In(x, r[w])
  BY <1>1, <1>3, StrSet
<1>5. \A r \in [Nat -> Interval], x \in Int :
        /\ In(x, r[v]) => In(x, RangesOf(r)[c.to].siz)
        /\ In(x, r[w]) => In(x, RangesOf(r)[c.to].len)
  BY <1>1, <1>2, InLen
<1> QED
  BY <1>4, <1>5

LEMMA NumberSet ==
  ASSUME NEW t, Walked(t), NEW c, c.to = Num, NEW ctx, Result(c, t, ctx),
         NEW val \in TermOver(Vars(t)), ctx = IntCtx(val)
  PROVE  /\ Grew(sys', t)
         /\ \A r \in [Nat -> Interval], x \in Int : Sat(r, sys') /\ Holds(val, r, x) => In(x, RangesOf(r)[Num].val)
<1>1. Store(t)
  BY DEF Walked
<1>2. PICK v \in Vars(t) : v = Declared
  BY WalkedVars
<1>3. sys' = assign(t, IntCtx(Plain(v, 0)), IntCtx(val))
  BY <1>2, ResultIs
<1>4. /\ Grew(sys', t)
      /\ \A r \in [Nat -> Interval], x \in Int : Sat(r, sys') /\ Holds(val, r, x) => In(x, r[v])
  BY <1>1, <1>3, IntSet
<1> QED
  BY <1>2, <1>4, RangesIn

LEMMA MallocTaken ==
  ASSUME NEW c \in Calls, WellTyped(c), FewSkipped(c), Walked(sys), Malloc(c)
  PROVE  Taken(c)
<1>1. c.call = "malloc" /\ c.to = Heap /\ c.args[1] \in Ints
  BY DEF WellTyped, Malloc
<1>2. PICK n, t, u : n = Arg(c, 1).val /\ t = fresh_str(sys, "alloc") /\ u = AddSubset(t, n, NewTerm(sys))
                     /\ Result(c, u, StrCtx(NewTerm(sys), NewTerm(Grown(sys))))
  BY <1>1 DEF Malloc, NewStr, StrCtx
<1>3. n \in TermOver(Vars(sys)) /\ Store(sys)
  BY <1>1, <1>2, IntHolds DEF Arg, Walked
<1>4. PICK z \in Vars(t), y \in Vars(t) : /\ NewTerm(sys) = Plain(z, 0) /\ NewTerm(Grown(sys)) = Plain(y, 0)
                                           /\ Grew(t, sys)
  BY <1>2, <1>3, StringAdded
<1>5. Store(t) /\ n \in TermOver(Vars(t)) /\ u = AddSubset(t, n, Plain(z, 0))
  BY <1>2, <1>3, <1>4, GrewTerms DEF Grew
<1>6. /\ Grew(u, t) /\ u.vars = t.vars
      /\ \A r \in [Nat -> Interval], x \in Int : Sat(r, u) /\ Holds(n, r, x) => In(x, r[z])
  BY <1>5, SubsetFills
<1>7. Walked(u) /\ Vars(u) = Vars(t) /\ Grew(u, sys)
  BY <1>3, <1>4, <1>5, <1>6, GrewTrans, WalkedGrows DEF Vars
<1>8. Plain(z, 0) \in TermOver(Vars(u)) /\ Plain(y, 0) \in TermOver(Vars(u)) /\ z \in Nat
  BY <1>5, <1>7, PlainTypes, StoreVars
<1>9. Result(c, u, StrCtx(Plain(z, 0), Plain(y, 0))) /\ c.to \in {Heap, Window}
  BY <1>1, <1>2, <1>4
<1>10. /\ Grew(sys', u)
       /\ \A r \in [Nat -> Interval], x \in Int :
            Sat(r, sys') /\ Holds(Plain(z, 0), r, x) => In(x, RangesOf(r)[c.to].siz)
  BY <1>7, <1>8, <1>9, PointerSet
<1>11. Grew(sys', sys)
  BY <1>3, <1>7, <1>10, GrewTrans
<1>12. ASSUME NEW r \in [Nat -> Interval], Sat(r, sys'), Calm(RangesOf(r), Len(c.fmt)),
              NEW x \in Nat, MayInt(c.args[1], RangesOf(r), x)
       PROVE  In(x, RangesOf(r)[Heap].siz)
  <2>1. INF > 1 /\ Tame(RangesOf(r)) /\ Sized(RangesOf(r)) /\ x \in Int
    BY <1>12, ArgsSkip DEF Calm
  <2>2. Holds(n, r, x)
    BY <1>1, <1>2, <1>12, <2>1, IntHolds DEF Arg
  <2>3. Sat(r, u)
    BY <1>10, <1>12, GrewSat
  <2>4. In(x, r[z])
    BY <1>6, <2>1, <2>2, <2>3
  <2>5. Holds(Plain(z, 0), r, x)
    BY <1>8, <2>4, VarMay
  <2> QED
    BY <1>1, <1>10, <1>12, <2>1, <2>5
<1> QED
  BY <1>1, <1>11, <1>12 DEF Taken, Sends

LEMMA StrdupTaken ==
  ASSUME NEW c \in Calls, WellTyped(c), FewSkipped(c), Walked(sys), Strdup(c)
  PROVE  Taken(c)
<1>1. c.call = "strdup" /\ c.to = Heap /\ c.args[1] \in Texts /\ 1 \in DOMAIN c.args
  BY DEF WellTyped, Strdup
<1>2. PICK n, t, u, w : n = Arg(c, 1).len /\ t = fresh_str(sys, "alloc") /\ u = AddSubset(t, n, NewTerm(sys))
                        /\ w = AddSubset(u, n, NewTerm(Grown(sys)))
                        /\ Result(c, w, StrCtx(NewTerm(sys), NewTerm(Grown(sys))))
  BY <1>1 DEF Strdup, NewStr, StrCtx
<1>3. n \in TermOver(Vars(sys)) /\ Store(sys)
  BY <1>1, <1>2, TextHolds DEF Arg, Walked
<1>4. PICK z \in Vars(t), y \in Vars(t) : /\ NewTerm(sys) = Plain(z, 0) /\ NewTerm(Grown(sys)) = Plain(y, 0)
                                           /\ Grew(t, sys)
  BY <1>2, <1>3, StringAdded
<1>5. Store(t) /\ n \in TermOver(Vars(t)) /\ u = AddSubset(t, n, Plain(z, 0))
  BY <1>2, <1>3, <1>4, GrewTerms DEF Grew
<1>6. /\ Grew(u, t) /\ u.vars = t.vars
      /\ \A r \in [Nat -> Interval], x \in Int : Sat(r, u) /\ Holds(n, r, x) => In(x, r[z])
  BY <1>5, SubsetFills
<1>7. Store(u) /\ Vars(u) = Vars(t) /\ Grew(u, sys) /\ w = AddSubset(u, n, Plain(y, 0))
  BY <1>2, <1>3, <1>4, <1>5, <1>6, GrewTrans DEF Vars, Grew
<1>8. /\ Grew(w, u) /\ w.vars = u.vars
      /\ \A r \in [Nat -> Interval], x \in Int : Sat(r, w) /\ Holds(n, r, x) => In(x, r[y])
  BY <1>5, <1>7, SubsetFills
<1>9. Walked(w) /\ Vars(w) = Vars(t) /\ Grew(w, sys)
  BY <1>3, <1>7, <1>8, GrewTrans, WalkedGrows DEF Vars
<1>10. Plain(z, 0) \in TermOver(Vars(w)) /\ Plain(y, 0) \in TermOver(Vars(w)) /\ z \in Nat /\ y \in Nat
  BY <1>5, <1>9, PlainTypes, StoreVars
<1>11. Result(c, w, StrCtx(Plain(z, 0), Plain(y, 0))) /\ c.to \in {Heap, Window}
  BY <1>1, <1>2, <1>4
<1>12. /\ Grew(sys', w)
       /\ \A r \in [Nat -> Interval], x \in Int :
            /\ Sat(r, sys') /\ Holds(Plain(z, 0), r, x) => In(x, RangesOf(r)[c.to].siz)
            /\ Sat(r, sys') /\ Holds(Plain(y, 0), r, x) => In(x, RangesOf(r)[c.to].len)
  BY <1>9, <1>10, <1>11, PointerSet
<1>13. Grew(sys', sys)
  BY <1>3, <1>9, <1>12, GrewTrans
<1>14. ASSUME NEW r \in [Nat -> Interval], Sat(r, sys'), Calm(RangesOf(r), Len(c.fmt)),
              NEW x \in Pos, MayText(c.args[1], RangesOf(r), x)
       PROVE  In(x, RangesOf(r)[Heap].siz) /\ In(x, RangesOf(r)[Heap].len)
  <2>1. Skips(c.args[1]) /\ Tame(RangesOf(r)) /\ x \in Nat \ {0} /\ x \in Int /\ x \in Nat
    BY <1>1, <1>14, ArgsSkip DEF Calm, Pos
  <2>2. Holds(n, r, x)
    BY <1>1, <1>2, <1>14, <2>1, TextHolds DEF Arg
  <2>3. Sat(r, w)
    BY <1>12, <1>14, GrewSat
  <2>4. Sat(r, u)
    BY <1>8, <2>3, GrewSat
  <2>5. In(x, r[z]) /\ In(x, r[y])
    BY <1>6, <1>8, <2>1, <2>2, <2>3, <2>4
  <2>6. Holds(Plain(z, 0), r, x) /\ Holds(Plain(y, 0), r, x)
    BY <1>10, <2>1, <2>5, VarMay
  <2> QED
    BY <1>1, <1>12, <1>14, <2>1, <2>6
<1> QED
  BY <1>1, <1>13, <1>14 DEF Taken, Sends

LEMMA AssignmentTaken ==
  ASSUME NEW c \in Calls, WellTyped(c), FewSkipped(c), Walked(sys), Assignment(c)
  PROVE  Taken(c)
<1>1. /\ c.call = "=" /\ 1 \in DOMAIN c.args
      /\ \/ c.to = Window /\ c.args[1] \in Texts
         \/ c.to = Num /\ c.args[1] \in Ints
  BY DEF WellTyped, Assignment, Others
<1>2. Window # Num
  BY DEF Window, Num
<1>3. PICK ctx : ctx = expr(c.args[1]) /\ Result(c, sys, ctx)
  BY DEF Assignment, Arg
<1>4. CASE c.to = Window
  <2>1. c.args[1] \in Texts
    BY <1>1, <1>2, <1>4
  <2>2. PICK siz \in TermOver(Vars(sys)), len \in TermOver(Vars(sys)) : ctx = StrCtx(siz, len) /\ len = ctx.len
    BY <1>3, <2>1, TextHolds
  <2>3. c.to \in {Heap, Window}
    BY <1>4
  <2>4. /\ Grew(sys', sys)
        /\ \A r \in [Nat -> Interval], x \in Int :
             Sat(r, sys') /\ Holds(len, r, x) => In(x, RangesOf(r)[c.to].len)
    BY <1>3, <2>2, <2>3, PointerSet
  <2>5. ASSUME NEW r \in [Nat -> Interval], Sat(r, sys'), Calm(RangesOf(r), Len(c.fmt)),
               NEW x \in Pos, MayText(c.args[1], RangesOf(r), x)
        PROVE  In(x, RangesOf(r)[Window].len)
    <3>1. Skips(c.args[1]) /\ Tame(RangesOf(r)) /\ x \in Nat \ {0} /\ x \in Int
      BY <1>1, <2>5, ArgsSkip DEF Calm, Pos
    <3>2. Holds(len, r, x)
      BY <1>3, <2>1, <2>2, <2>5, <3>1, TextHolds
    <3> QED
      BY <1>4, <2>4, <2>5, <3>1, <3>2
  <2> QED
    BY <1>1, <1>2, <1>4, <2>4, <2>5 DEF Taken, Sends
<1>5. CASE c.to = Num
  <2>1. c.args[1] \in Ints
    BY <1>1, <1>2, <1>5
  <2>2. PICK val \in TermOver(Vars(sys)) : ctx = IntCtx(val) /\ val = ctx.val
    BY <1>3, <2>1, IntHolds
  <2>3. /\ Grew(sys', sys)
        /\ \A r \in [Nat -> Interval], x \in Int : Sat(r, sys') /\ Holds(val, r, x) => In(x, RangesOf(r)[Num].val)
    BY <1>3, <1>5, <2>2, NumberSet
  <2>4. ASSUME NEW r \in [Nat -> Interval], Sat(r, sys'), Calm(RangesOf(r), Len(c.fmt)),
               NEW x \in Nat, MayInt(c.args[1], RangesOf(r), x)
        PROVE  In(x, RangesOf(r)[Num].val)
    <3>1. INF > 1 /\ Tame(RangesOf(r)) /\ Sized(RangesOf(r)) /\ x \in Int
      BY <2>4, ArgsSkip DEF Calm
    <3>2. Holds(val, r, x)
      BY <1>3, <2>1, <2>2, <2>4, <3>1, IntHolds
    <3> QED
      BY <2>3, <2>4, <3>1, <3>2
  <2> QED
    BY <1>1, <1>2, <1>5, <2>3, <2>4 DEF Taken, Sends
<1> QED
  BY <1>1, <1>4, <1>5

LEMMA StrspnTaken ==
  ASSUME NEW c \in Calls, WellTyped(c), FewSkipped(c), Walked(sys), Strspn(c)
  PROVE  Taken(c)
<1>1. c.call = "strspn" /\ c.to = Num /\ c.args[1] \in Texts /\ 1 \in DOMAIN c.args
  BY DEF WellTyped, Strspn
<1>2. PICK src, t, u :
        /\ src = Arg(c, 1) /\ t = Grown(sys)
        /\ u = AddSubsets(t, <<ConstTerm(0), Minus1(src.len)>>, NewTerm(sys)) /\ Result(c, u, IntCtx(NewTerm(sys)))
  BY DEF Strspn
<1>3. Minus1(src.len) \in TermOver(Vars(sys)) /\ Store(sys)
  BY <1>1, <1>2, TextHolds DEF Arg, Walked
<1>4. PICK z \in Vars(t) : NewTerm(sys) = Plain(z, 0) /\ Grew(t, sys)
  BY <1>2, <1>3, StoreGrown
<1>5. PICK zero \in TermOver(Vars(t)), hi \in TermOver(Vars(t)) :
        zero = ConstTerm(0) /\ hi = Minus1(src.len) /\ Store(t) /\ u = AddSubsets(t, <<zero, hi>>, Plain(z, 0))
  <2>1. ConstTerm(0) \in TermOver(Vars(t)) /\ Minus1(src.len) \in TermOver(Vars(t)) /\ Store(t)
    BY <1>3, <1>4, GrewTerms, PlainTypes DEF Grew
  <2> QED
    BY <1>2, <1>4, <2>1
<1>6. /\ Grew(u, t) /\ u.vars = t.vars
      /\ \A r \in [Nat -> Interval], x, y, w \in Int :
           Sat(r, u) /\ Holds(zero, r, x) /\ Holds(hi, r, y) /\ x <= w /\ w <= y => In(w, r[z])
  BY <1>5, SubsetsFill
<1>7. Walked(u) /\ Vars(u) = Vars(t) /\ Grew(u, sys)
  BY <1>3, <1>4, <1>5, <1>6, GrewTrans, WalkedGrows DEF Vars
<1>8. Plain(z, 0) \in TermOver(Vars(u)) /\ z \in Nat
  BY <1>5, <1>7, PlainTypes, StoreVars
<1>9. Result(c, u, IntCtx(Plain(z, 0)))
  BY <1>2, <1>4
<1>10. /\ Grew(sys', u)
       /\ \A r \in [Nat -> Interval], x \in Int :
            Sat(r, sys') /\ Holds(Plain(z, 0), r, x) => In(x, RangesOf(r)[Num].val)
  BY <1>1, <1>7, <1>8, <1>9, NumberSet
<1>11. Grew(sys', sys)
  BY <1>3, <1>7, <1>10, GrewTrans
<1>12. ASSUME NEW r \in [Nat -> Interval], Sat(r, sys'), Calm(RangesOf(r), Len(c.fmt)),
              NEW x \in Pos, MayText(c.args[1], RangesOf(r), x), NEW k \in 0 .. x - 1
       PROVE  In(k, RangesOf(r)[Num].val)
  <2>1. Skips(c.args[1]) /\ Tame(RangesOf(r)) /\ x \in Nat \ {0} /\ x - 1 \in Int /\ 0 \in Int
        /\ k \in Nat /\ k \in Int /\ 0 <= k /\ k <= x - 1
    BY <1>1, <1>12, ArgsSkip DEF Calm, Pos
  <2>2. Holds(hi, r, x - 1) /\ Holds(zero, r, 0)
    BY <1>1, <1>2, <1>5, <1>12, <2>1, TextHolds, ConstMay DEF Arg
  <2>3. Sat(r, u)
    BY <1>10, <1>12, GrewSat
  <2>4. In(k, r[z])
    BY <1>6, <2>1, <2>2, <2>3
  <2>5. Holds(Plain(z, 0), r, k)
    BY <1>8, <2>1, <2>4, VarMay
  <2> QED
    BY <1>10, <1>12, <2>1, <2>5
<1> QED
  BY <1>1, <1>11, <1>12 DEF Taken, Sends

LEMMA StrchrTaken ==
  ASSUME NEW c \in Calls, WellTyped(c), FewSkipped(c), Walked(sys), Strchr(c)
  PROVE  Taken(c)
<1>1. c.call = "strchr" /\ c.to = Window /\ c.args[1] \in Texts /\ 1 \in DOMAIN c.args
  BY DEF WellTyped, Strchr, Others
<1>2. PICK src, t, u, w : src = Arg(c, 1) /\ t = fresh_str(sys, "(unnamed)")
                        /\ u = AddSubsets(t, <<One, src.siz>>, NewTerm(sys))
                        /\ w = AddSubsets(u, <<One, src.len>>, NewTerm(Grown(sys)))
                        /\ Result(c, w, StrCtx(NewTerm(sys), NewTerm(Grown(sys))))
  BY <1>1 DEF Strchr, NewStr, StrCtx
<1>3. src.siz \in TermOver(Vars(sys)) /\ src.len \in TermOver(Vars(sys)) /\ Store(sys)
  BY <1>1, <1>2, TextHolds DEF Arg, Walked
<1>4. PICK z \in Vars(t), y \in Vars(t) : /\ NewTerm(sys) = Plain(z, 0) /\ NewTerm(Grown(sys)) = Plain(y, 0)
                                           /\ Grew(t, sys)
  BY <1>2, <1>3, StringAdded
<1>5. PICK lo \in TermOver(Vars(t)), siz \in TermOver(Vars(t)), len \in TermOver(Vars(t)) :
        lo = One /\ siz = src.siz /\ len = src.len /\ Store(t)
  <2>1. One \in TermOver(Vars(t))
    BY PlainTypes DEF One
  <2>2. src.siz \in TermOver(Vars(t)) /\ src.len \in TermOver(Vars(t)) /\ Store(t)
    BY <1>3, <1>4, GrewTerms DEF Grew
  <2> QED
    BY <2>1, <2>2
<1>6. u = AddSubsets(t, <<lo, siz>>, Plain(z, 0)) /\ w = AddSubsets(u, <<lo, len>>, Plain(y, 0))
  BY <1>2, <1>4, <1>5
<1>7. Grew(u, t) /\ u.vars = t.vars
  BY <1>5, <1>6, SubsetsFill
<1>8. Store(u) /\ Vars(u) = Vars(t) /\ Grew(u, sys)
  BY <1>3, <1>4, <1>5, <1>7, GrewTrans DEF Vars, Grew
<1>9. lo \in TermOver(Vars(u)) /\ len \in TermOver(Vars(u)) /\ y \in Vars(u)
  BY <1>8
<1>10. /\ Grew(w, u) /\ w.vars = u.vars
       /\ \A r \in [Nat -> Interval], a, b, k \in Int :
            Sat(r, w) /\ Holds(lo, r, a) /\ Holds(len, r, b) /\ a <= k /\ k <= b => In(k, r[y])
  BY <1>6, <1>8, <1>9, SubsetsFill
<1>11. Walked(w) /\ Vars(w) = Vars(t) /\ Grew(w, sys)
  BY <1>3, <1>8, <1>10, GrewTrans, WalkedGrows DEF Vars
<1>12. Plain(z, 0) \in TermOver(Vars(w)) /\ Plain(y, 0) \in TermOver(Vars(w)) /\ y \in Nat
  BY <1>5, <1>11, PlainTypes, StoreVars
<1>13. Result(c, w, StrCtx(Plain(z, 0), Plain(y, 0))) /\ c.to \in {Heap, Window}
  BY <1>1, <1>2, <1>4
<1>14. /\ Grew(sys', w)
       /\ \A r \in [Nat -> Interval], x \in Int :
            Sat(r, sys') /\ Holds(Plain(y, 0), r, x) => In(x, RangesOf(r)[c.to].len)
  BY <1>11, <1>12, <1>13, PointerSet
<1>15. Grew(sys', sys)
  BY <1>3, <1>11, <1>14, GrewTrans
<1>16. ASSUME NEW r \in [Nat -> Interval], Sat(r, sys'), Calm(RangesOf(r), Len(c.fmt)),
              NEW x \in Pos, MayText(c.args[1], RangesOf(r), x), NEW k \in 1 .. x
       PROVE  In(k, RangesOf(r)[Window].len)
  <2>1. Skips(c.args[1]) /\ Tame(RangesOf(r)) /\ x \in Nat \ {0} /\ x \in Int /\ 1 \in Int
        /\ k \in Nat /\ k \in Int /\ 1 <= k /\ k <= x
    BY <1>1, <1>16, ArgsSkip DEF Calm, Pos
  <2>2. Holds(len, r, x) /\ Holds(lo, r, 1)
    BY <1>1, <1>2, <1>5, <1>16, <2>1, TextHolds, ConstMay DEF Arg, One
  <2>3. Sat(r, w)
    BY <1>14, <1>16, GrewSat
  <2>4. In(k, r[y])
    BY <1>10, <2>1, <2>2, <2>3
  <2>5. Holds(Plain(y, 0), r, k)
    BY <1>12, <2>1, <2>4, VarMay
  <2> QED
    BY <1>1, <1>14, <1>16, <2>1, <2>5
<1> QED
  BY <1>1, <1>15, <1>16 DEF Taken, Sends

LEMMA GetenvTaken ==
  ASSUME NEW c \in Calls, WellTyped(c), FewSkipped(c), Walked(sys), Getenv(c)
  PROVE  Taken(c)
<1>1. c.call = "getenv" /\ c.to = Window
  BY DEF WellTyped, Getenv
<1>2. PICK t, u : t = Grown(sys) /\ u = force_len_top(t, NewTerm(sys))
                  /\ Result(c, u, StrCtx(NewTerm(sys), NewTerm(sys)))
  BY DEF Getenv
<1>3. Store(sys)
  BY DEF Walked
<1>4. PICK z \in Vars(t), k \in Nat : NewTerm(sys) = Plain(z, 0) /\ Grew(t, sys) /\ k = 0 /\ -k = 0
  BY <1>2, <1>3, StoreGrown, MinusZero
<1>5. Store(t) /\ u = force_len_top(t, Plain(z, -k))
  BY <1>2, <1>4 DEF Grew
<1>6. /\ Grew(u, t) /\ u.vars = t.vars
      /\ \A r \in [Nat -> Interval], w \in Nat \ {0} : Sat(r, u) => In(w + k, r[z])
  BY <1>5, AllSent
<1>7. Walked(u) /\ Vars(u) = Vars(t) /\ Grew(u, sys)
  BY <1>3, <1>4, <1>5, <1>6, GrewTrans, WalkedGrows DEF Vars
<1>8. Plain(z, 0) \in TermOver(Vars(u)) /\ z \in Nat
  BY <1>5, <1>7, PlainTypes, StoreVars
<1>9. Result(c, u, StrCtx(Plain(z, 0), Plain(z, 0))) /\ c.to \in {Heap, Window}
  BY <1>1, <1>2, <1>4
<1>10. /\ Grew(sys', u)
       /\ \A r \in [Nat -> Interval], x \in Int :
            Sat(r, sys') /\ Holds(Plain(z, 0), r, x) => In(x, RangesOf(r)[c.to].len)
  BY <1>7, <1>8, <1>9, PointerSet
<1>11. Grew(sys', sys)
  BY <1>3, <1>7, <1>10, GrewTrans
<1>12. ASSUME NEW r \in [Nat -> Interval], Sat(r, sys'), NEW w \in Pos
       PROVE  In(w, RangesOf(r)[Window].len)
  <2>1. w \in Nat \ {0} /\ w \in Nat /\ w + k = w /\ w \in Int
    BY <1>4 DEF Pos
  <2>2. Sat(r, u)
    BY <1>10, <1>12, GrewSat
  <2>3. In(w, r[z])
    BY <1>6, <2>1, <2>2
  <2>4. Holds(Plain(z, 0), r, w)
    BY <1>8, <2>1, <2>3, VarMay
  <2> QED
    BY <1>1, <1>10, <1>12, <2>1, <2>4
<1> QED
  BY <1>1, <1>11, <1>12 DEF Taken, Sends


-----------------------------------------------------------------------------
(* Formats: what one conversion adds to the length.                        *)

(* Arguments whose terms are over a store.                                 *)
ArgsOver(args, s) ==
  \A i \in DOMAIN args : /\ args[i].kind = "str" => Minus1(args[i].len) \in TermOver(Vars(s))
                         /\ args[i].kind = "int" => args[i].val \in TermOver(Vars(s))

KnownOver(q, s) == q.known \in BOOLEAN /\ (q.known => q.term \in TermOver(Vars(s)))

LEMMA ArgsGrow ==
  ASSUME NEW s, NEW t, Store(s), Grew(t, s), NEW args, ArgsOver(args, s)
  PROVE  ArgsOver(args, t)
BY GrewTerms DEF ArgsOver

LEMMA KnownGrow ==
  ASSUME NEW s, NEW t, Store(s), Grew(t, s), NEW q, KnownOver(q, s)
  PROVE  KnownOver(q, t)
BY GrewTerms DEF KnownOver

LEMMA ReadNum ==
  ASSUME NEW s, NEW args, ArgsOver(args, s), NEW i, NEW spec \in Int, NEW q, q = read_num(args, i, spec)
  PROVE  /\ KnownOver(q, s)
         /\ spec = Star /\ IsKind(args, i, "int") => q.known /\ q.term = args[i].val
         /\ spec >= 0 => q.known /\ q.term = ConstTerm(spec)
         /\ spec = Absent => ~q.known
<1>1. \A t : Known(t).known = TRUE /\ Known(t).term = t
  BY DEF Known
<1>2. Unknown.known = FALSE
  BY DEF Unknown
<1>3. Star = -2 /\ Absent = -1 /\ ~(-2 >= 0) /\ ~(-1 >= 0) /\ -1 # -2
  BY DEF Star, Absent
<1>4. CASE spec = Star /\ IsKind(args, i, "int")
  <2>1. q = Known(args[i].val)
    BY <1>3, <1>4 DEF read_num
  <2>2. args[i].val \in TermOver(Vars(s))
    BY <1>4 DEF IsKind, ArgsOver
  <2> QED
    BY <1>1, <1>3, <1>4, <2>1, <2>2 DEF KnownOver
<1>5. CASE spec # Star /\ spec >= 0
  <2>1. q = Known(ConstTerm(spec))
    BY <1>5 DEF read_num
  <2>2. ConstTerm(spec) \in TermOver(Vars(s))
    BY PlainTypes
  <2> QED
    BY <1>1, <1>3, <1>5, <2>1, <2>2 DEF KnownOver
<1>6. CASE ~(spec = Star /\ IsKind(args, i, "int")) /\ ~(spec # Star /\ spec >= 0)
  <2>1. q = Unknown
    BY <1>3, <1>6 DEF read_num
  <2> QED
    BY <1>2, <1>3, <1>6, <2>1 DEF KnownOver
<1> QED
  BY <1>4, <1>5, <1>6

(* A precision: the lesser of two terms.                                   *)
LEMMA CutIs ==
  ASSUME NEW n, Store(n.sys), n.term \in TermOver(Vars(n.sys)), NEW prec, KnownOver(prec, n.sys),
         NEW cut, cut = CutTo(prec, n)
  PROVE  /\ Grew(cut.sys, n.sys) /\ cut.term \in TermOver(Vars(cut.sys))
         /\ ~prec.known => cut = n
         /\ prec.known =>
              /\ cut.term = Plain(n.sys.vars, 0)
              /\ \A r \in [Nat -> Interval], a, b \in Int :
                   Sat(r, cut.sys) /\ Holds(prec.term, r, a) /\ Holds(n.term, r, b) =>
                     /\ In(Lesser(a, b), r[n.sys.vars])
                     /\ r[n.sys.vars].lo <= EvalTerm(n.term, r).lo
<1>1. CASE ~prec.known
  BY <1>1, GrewSelf DEF CutTo
<1>2. CASE prec.known
  <2>0. PICK s : s = n.sys
    OBVIOUS
  <2>1. PICK x \in TermOver(Vars(s)), y \in TermOver(Vars(s)) : s = n.sys /\ x = prec.term /\ y = n.term
    BY <1>2, <2>0 DEF KnownOver
  <2>2. PICK t : t = AddMin(s, x, y) /\ cut = [sys |-> t, term |-> NewTerm(s)]
    BY <1>2, <2>1 DEF CutTo
  <2>3. cut.sys = t /\ cut.term = NewTerm(s) /\ Store(s)
    BY <2>1, <2>2
  <2>4. /\ Grew(t, s) /\ NewTerm(s) = Plain(s.vars, 0) /\ NewTerm(s) \in TermOver(Vars(t))
        /\ \A r \in [Nat -> Interval] : \A a, b \in Int :
             Sat(r, t) /\ In(a, EvalTerm(x, r)) /\ In(b, EvalTerm(y, r)) =>
               /\ In(Lesser(a, b), r[s.vars])
               /\ r[s.vars].lo <= EvalTerm(x, r).lo /\ r[s.vars].lo <= EvalTerm(y, r).lo
    BY <2>2, <2>3, MinAdded
  <2>5. x \in TermOver(Nat) /\ y \in TermOver(Nat)
    BY <2>3, NatTerms
  <2>6. ASSUME NEW r \in [Nat -> Interval], NEW a \in Int, NEW b \in Int,
               Sat(r, t), Holds(x, r, a), Holds(y, r, b)
        PROVE  In(Lesser(a, b), r[s.vars]) /\ r[s.vars].lo <= EvalTerm(y, r).lo
    <3>1. In(a, EvalTerm(x, r)) /\ In(b, EvalTerm(y, r))
      BY <2>5, <2>6, HoldsIn
    <3> QED
      BY <2>4, <2>6, <3>1
  <2> QED
    BY <1>2, <2>1, <2>3, <2>4, <2>6
<1> QED
  BY <1>1, <1>2 DEF KnownOver

(* A width: both the width and the length without a precision.             *)
LEMMA PadIs ==
  ASSUME NEW n, NEW cut, Store(n.sys), Grew(cut.sys, n.sys), cut.term \in TermOver(Vars(cut.sys)),
         n.term \in TermOver(Vars(n.sys)), NEW width, KnownOver(width, n.sys),
         NEW pad, pad = PaddedTo(width, n, cut)
  PROVE  /\ Grew(pad.sys, cut.sys) /\ pad.term \in TermOver(Vars(pad.sys))
         /\ ~width.known => pad = cut
         /\ width.known =>
              /\ pad.term = Plain(cut.sys.vars, 0)
              /\ \A r \in [Nat -> Interval], a, b \in Int :
                   Sat(r, pad.sys) /\ Holds(width.term, r, a) /\ Holds(n.term, r, b) =>
                     /\ In(a, r[cut.sys.vars]) /\ In(b, r[cut.sys.vars])
                     /\ r[cut.sys.vars].lo <= EvalTerm(n.term, r).lo
<1>0. Store(cut.sys)
  BY DEF Grew
<1>1. CASE ~width.known
  BY <1>0, <1>1, GrewSelf DEF PaddedTo
<1>2. CASE width.known
  <2>0. PICK s : s = cut.sys
    OBVIOUS
  <2>1. PICK x \in TermOver(Vars(s)), y \in TermOver(Vars(s)) : s = cut.sys /\ x = width.term /\ y = n.term
    <3>1. width.term \in TermOver(Vars(n.sys)) /\ TermOver(Vars(n.sys)) \subseteq TermOver(Vars(cut.sys))
      BY <1>2, GrewTerms DEF KnownOver
    <3> QED
      BY <2>0, <3>1
  <2>2. PICK t, u : t = Grown(s) /\ u = AddSubsets(t, <<x, y>>, NewTerm(s)) /\ pad = [sys |-> u, term |-> NewTerm(s)]
    BY <1>2, <2>1 DEF PaddedTo
  <2>3. pad.sys = u /\ pad.term = NewTerm(s) /\ Store(s)
    BY <1>0, <2>1, <2>2
  <2>4. Grew(t, s) /\ s.vars \in Vars(t) /\ NewTerm(s) = Plain(s.vars, 0)
    BY <2>2, <2>3, StoreGrown
  <2>5. PICK a0 \in TermOver(Vars(t)), b0 \in TermOver(Vars(t)), v \in Vars(t), k \in Int :
          a0 = x /\ b0 = y /\ v = s.vars /\ Store(t) /\ k = 0
    BY <2>3, <2>4, GrewTerms DEF Grew
  <2>6. u = AddSubsets(t, <<a0, b0>>, Plain(v, k))
    BY <2>2, <2>4, <2>5
  <2>7. /\ Grew(u, t) /\ u.vars = t.vars
        /\ \A r : Sat(r, u) => Leq(EvalTerm(Less(a0, k), r), r[v]) /\ Leq(EvalTerm(Less(b0, k), r), r[v])
    BY <2>5, <2>6, SubsetsAdded
  <2>8. Less(a0, k) = a0 /\ Less(b0, k) = b0
    <3>1. \A t0 \in TermOver(Vars(t)) : Less(t0, 0) = t0
      <4> SUFFICES ASSUME NEW t0 \in TermOver(Vars(t))
                   PROVE  Less(t0, 0) = t0
        OBVIOUS
      <4>1a. PICK j \in Int : \E es :
            j = t0.konst /\ es = t0.terms /\ t0 = [terms |-> es, konst |-> j]
        BY TermParts
      <4>1. PICK es :
            j = t0.konst /\ es = t0.terms /\ t0 = [terms |-> es, konst |-> j]
        BY <4>1a
      <4>2. j - 0 = j
        OBVIOUS
      <4> QED
        BY <4>1, <4>2 DEF Less
    <3> QED
      BY <2>5, <3>1
  <2>9. a0 \in TermOver(Nat) /\ b0 \in TermOver(Nat) /\ v \in Nat
    BY <2>5, NatTerms, StoreVars
  <2>10. ASSUME NEW r \in [Nat -> Interval], NEW a \in Int, NEW b \in Int,
                Sat(r, u), Holds(a0, r, a), Holds(b0, r, b)
         PROVE  In(a, r[v]) /\ In(b, r[v]) /\ r[v].lo <= EvalTerm(b0, r).lo
    <3>1. In(a, EvalTerm(a0, r)) /\ In(b, EvalTerm(b0, r))
      BY <2>9, <2>10, HoldsIn
    <3>2. EvalTerm(a0, r) \in Interval /\ EvalTerm(b0, r) \in Interval /\ r[v] \in Interval
      BY <2>9, EvalTermType
    <3>3. Leq(EvalTerm(a0, r), r[v]) /\ Leq(EvalTerm(b0, r), r[v])
      BY <2>7, <2>8, <2>10
    <3> QED
      BY <3>1, <3>2, <3>3, InWider, LowWider
  <2>11. Grew(u, s) /\ NewTerm(s) \in TermOver(Vars(u))
    <3>1. Grew(u, s)
      BY <2>3, <2>4, <2>7, GrewTrans
    <3>2. v \in Vars(u)
      BY <2>7 DEF Vars
    <3> QED
      BY <2>4, <2>5, <3>1, <3>2, PlainTypes
  <2> QED
    BY <1>2, <2>1, <2>3, <2>4, <2>5, <2>10, <2>11
<1> QED
  BY <1>1, <1>2 DEF KnownOver

LEMMA UpToIs ==
  ASSUME NEW s, Store(s), NEW n \in Nat \ {0}, NEW t, t = UpTo(s, n)
  PROVE  /\ Grew(t, s) /\ NewTerm(s) = Plain(s.vars, 0) /\ NewTerm(s) \in TermOver(Vars(t))
         /\ \A r \in [Nat -> Interval], w \in 1 .. n : Sat(r, t) => In(w, r[s.vars])
<1>1. PICK g : g = Grown(s)
  OBVIOUS
<1>2. PICK v \in Vars(g) : v = s.vars /\ NewTerm(s) = Plain(v, 0) /\ Grew(g, s)
  BY <1>1, StoreGrown
<1>3. PICK a \in TermOver(Vars(g)), b \in TermOver(Vars(g)) : a = ConstTerm(1) /\ b = ConstTerm(n) /\ Store(g)
  <2>1. n \in Int /\ 1 \in Int
    OBVIOUS
  <2>2. ConstTerm(1) \in TermOver(Vars(g)) /\ ConstTerm(n) \in TermOver(Vars(g)) /\ Store(g)
    BY <1>2, <2>1, PlainTypes DEF Grew
  <2> QED
    BY <2>2
<1>4. t = AddSubsets(g, <<a, b>>, Plain(v, 0))
  BY <1>1, <1>2, <1>3 DEF UpTo, One
<1>5. /\ Grew(t, g) /\ t.vars = g.vars
      /\ \A r \in [Nat -> Interval], x, y, w \in Int :
           Sat(r, t) /\ Holds(a, r, x) /\ Holds(b, r, y) /\ x <= w /\ w <= y => In(w, r[v])
  BY <1>3, <1>4, SubsetsFill
<1>6. ASSUME NEW r \in [Nat -> Interval], NEW w \in 1 .. n, Sat(r, t)
      PROVE  In(w, r[v])
  <2>1. n \in Int /\ w \in Int /\ 1 \in Int /\ 1 <= w /\ w <= n
    OBVIOUS
  <2>2. Holds(a, r, 1) /\ Holds(b, r, n)
    BY <1>3, <2>1, ConstMay
  <2> QED
    BY <1>5, <1>6, <2>1, <2>2
<1>7. Grew(t, s)
  BY <1>2, <1>5, GrewTrans
<1>8. v \in Vars(t) /\ Vars(t) = Vars(g)
  BY <1>5 DEF Vars
<1> QED
  BY <1>2, <1>6, <1>7, <1>8, PlainTypes

LEMMA CharactersAre ==
  ASSUME NEW s, Store(s), NEW args, ArgsOver(args, s), NEW i, NEW n, n = Characters(s, args, i)
  PROVE  /\ Grew(n.sys, s) /\ n.term \in TermOver(Vars(n.sys))
         /\ IsKind(args, i, "str") => n.sys = s /\ n.term = Minus1(args[i].len)
<1>1. CASE IsKind(args, i, "str")
  <2>1. n.sys = s /\ n.term = Minus1(args[i].len)
    BY <1>1 DEF Characters
  <2>2. Minus1(args[i].len) \in TermOver(Vars(s))
    BY <1>1 DEF IsKind, ArgsOver
  <2> QED
    BY <2>1, <2>2, GrewSelf
<1>2. CASE ~IsKind(args, i, "str")
  <2>1. PICK g, t : g = Grown(s) /\ t = force_len_top(g, NewTerm(s)) /\ n.sys = t /\ n.term = NewTerm(s)
    BY <1>2 DEF Characters
  <2>2. PICK v \in Vars(g), k \in Nat : v = s.vars /\ NewTerm(s) = Plain(v, 0) /\ Grew(g, s) /\ k = 0 /\ -k = 0
    BY <2>1, StoreGrown, MinusZero
  <2>3. Store(g) /\ t = force_len_top(g, Plain(v, -k))
    BY <2>1, <2>2 DEF Grew
  <2>4. Grew(t, g) /\ t.vars = g.vars
    BY <2>3, AllSent
  <2>5. Grew(t, s) /\ v \in Vars(t)
    BY <2>2, <2>4, GrewTrans DEF Vars
  <2> QED
    BY <1>2, <2>1, <2>2, <2>5, PlainTypes
<1> QED
  BY <1>1, <1>2

BodyOver(body, s) == Grew(body.sys, s) /\ body.term \in TermOver(Vars(body.sys))

LEMMA StringTyped ==
  ASSUME NEW s, Store(s), NEW n, BodyOver(n, s), NEW width, KnownOver(width, s), NEW prec, KnownOver(prec, s),
         NEW body, body = ConvString(n, width, prec)
  PROVE  BodyOver(body, s)
<1>1. Grew(n.sys, s) /\ n.term \in TermOver(Vars(n.sys)) /\ Store(n.sys)
  BY DEF BodyOver, Grew
<1>2. KnownOver(width, n.sys) /\ KnownOver(prec, n.sys)
  BY <1>1, KnownGrow
<1>3. PICK cut : cut = CutTo(prec, n)
  OBVIOUS
<1>4. Grew(cut.sys, n.sys) /\ cut.term \in TermOver(Vars(cut.sys))
  BY <1>1, <1>2, <1>3, CutIs
<1>5. body = PaddedTo(width, n, cut)
  BY <1>3 DEF ConvString
<1>6. Grew(body.sys, cut.sys) /\ body.term \in TermOver(Vars(body.sys))
  BY <1>1, <1>2, <1>4, <1>5, PadIs
<1>7. Grew(body.sys, n.sys)
  BY <1>1, <1>4, <1>6, GrewTrans
<1>8. Grew(body.sys, s)
  BY <1>1, <1>7, GrewTrans
<1> QED
  BY <1>6, <1>8 DEF BodyOver

LEMMA BodyTyped ==
  ASSUME NEW s, Store(s), NEW args, ArgsOver(args, s), NEW item, NEW i,
         NEW width, KnownOver(width, s), NEW prec, KnownOver(prec, s),
         NEW body, body = expand_conv(s, item, args, i, width, prec)
  PROVE  BodyOver(body, s)
<1>1. CASE item.conv = "s"
  <2>1. PICK n : n = Characters(s, args, i)
    OBVIOUS
  <2>2. BodyOver(n, s)
    BY <2>1, CharactersAre DEF BodyOver
  <2>3. body = ConvString(n, width, prec)
    BY <1>1, <2>1, ObjectAssumption DEF expand_conv
  <2> QED
    BY <2>2, <2>3, StringTyped
<1>2. CASE item.conv # "s" /\ item.conv \in DOMAIN ConvMax
  <2>1a. PICK n \in Nat \ {0} : \E t :
        n = ConvMax[item.conv] /\ t = UpTo(s, n)
    BY <1>2, ObjectAssumption
  <2>1. PICK t :
        n = ConvMax[item.conv] /\ t = UpTo(s, n)
    BY <2>1a
  <2>2. body.sys = t /\ body.term = NewTerm(s)
    BY <1>2, <2>1 DEF expand_conv
  <2>3. Grew(t, s) /\ NewTerm(s) \in TermOver(Vars(t))
    BY <2>1, UpToIs
  <2> QED
    BY <2>2, <2>3 DEF BodyOver
<1>3. CASE item.conv # "s" /\ item.conv \notin DOMAIN ConvMax
  <2>1. body.sys = s /\ body.term = One
    BY <1>3 DEF expand_conv
  <2>2. One \in TermOver(Vars(s))
    BY PlainTypes DEF One
  <2> QED
    BY <2>1, <2>2, GrewSelf DEF BodyOver
<1> QED
  BY <1>1, <1>2, <1>3

(* Arguments of a format and what they amount to.                          *)
Contexts(es) == [i \in 1 .. Len(es) |-> expr(es[i])]

Ready(es, r, u, amounts, most) ==
  /\ es \in Seq(Texts \cup Ints) /\ u \in [Strings -> Nat] /\ amounts \in [1 .. Len(es) -> Nat]
  /\ Tame(RangesOf(r)) /\ Sized(RangesOf(r)) /\ INF > 1
  /\ \A i \in 1 .. Len(es) : /\ es[i].expr = "ref" => es[i].n < most
                             /\ Skips(es[i]) /\ MayAmount(es[i], RangesOf(r), u, amounts[i])

LEMMA ContextsOver ==
  ASSUME NEW es \in Seq(Texts \cup Ints), NEW s, Walked(s)
  PROVE  ArgsOver(Contexts(es), s)
<1>1. DOMAIN Contexts(es) = 1 .. Len(es) /\ \A i \in 1 .. Len(es) : Contexts(es)[i] = expr(es[i])
  BY DEF Contexts
<1>2. ASSUME NEW i \in 1 .. Len(es), NEW c, c = Contexts(es)[i]
      PROVE  /\ c.kind = "str" => Minus1(c.len) \in TermOver(Vars(s))
             /\ c.kind = "int" => c.val \in TermOver(Vars(s))
  <2>1. c = expr(es[i]) /\ es[i] \in Texts \cup Ints
    BY <1>1, <1>2
  <2>2. CASE es[i] \in Texts
    <3>1. c.kind = "str" /\ Minus1(c.len) \in TermOver(Vars(s))
      BY <2>1, <2>2, TextHolds
    <3> QED
      BY <3>1
  <2>3. CASE es[i] \in Ints
    <3>1. c.kind = "int" /\ c.val \in TermOver(Vars(s))
      BY <2>1, <2>3, IntHolds
    <3> QED
      BY <3>1
  <2> QED
    BY <2>1, <2>2, <2>3
<1> QED
  BY <1>1, <1>2 DEF ArgsOver

LEMMA AmountKinds ==
  /\ \A e \in Texts : IsText(e)
  /\ \A e \in Ints : ~IsText(e)
<1>1. Num \notin Strings
  BY ObjectAssumption DEF Strings, Heap, Window, Num
<1> QED
  BY <1>1 DEF Texts, Ints, IsText

(* The characters of an argument that is a string.                         *)
Printable(t, r, u, k, most) ==
  \/ \E n \in Nat : t = ConstTerm(n) /\ k = n
  \/ \E o \in Strings, n \in Nat : /\ n < most /\ t = Plain(LenVar(o), -n - 1)
                                   /\ k = u[o] - n - 1 /\ In(u[o], r[LenVar(o)])

LEMMA TextAmount ==
  ASSUME NEW es, NEW r \in [Nat -> Interval], NEW u, NEW amounts, NEW most, Ready(es, r, u, amounts, most),
         NEW i \in 1 .. Len(es), es[i] \in Texts, NEW s, Walked(s), NEW t, t = Minus1(expr(es[i]).len)
  PROVE  /\ amounts[i] \in Nat \ {0}
         /\ Holds(t, r, amounts[i] - 1) /\ EvalTerm(t, r).lo < INF
         /\ Printable(t, r, u, amounts[i] - 1, most)
<1>1. PICK e \in Texts, x \in Nat : e = es[i] /\ x = amounts[i]
  BY DEF Ready
<1>2. /\ Tame(RangesOf(r)) /\ INF > 1 /\ Skips(e) /\ MayAmount(e, RangesOf(r), u, x) /\ u \in [Strings -> Nat]
      /\ e.expr = "ref" => e.n < most
  BY <1>1 DEF Ready
<1>3. /\ x \in Nat \ {0} /\ x \in Int
      /\ IF e.expr = "lit" THEN x = e.n + 1 ELSE u[e.of] = x + e.n /\ In(x + e.n, RangesOf(r)[e.of].len)
  BY <1>2, AmountKinds DEF MayAmount, Pos
<1>4. MayText(e, RangesOf(r), x)
  BY <1>3 DEF MayText
<1>5. Holds(t, r, x - 1)
  BY <1>1, <1>2, <1>3, <1>4, TextHolds
<1>6. CASE e.expr = "lit"
  <2>1. PICK n \in Nat : n = e.n /\ n < INF /\ expr(e) = StrCtx(ConstTerm(n + 1), ConstTerm(n + 1))
    BY <1>6, TextForms
  <2>2. n + 1 \in Int /\ n \in Int /\ 1 \in Int /\ (n + 1) - 1 = n
    OBVIOUS
  <2>3. t = SubTerms(ConstTerm(n + 1), ConstTerm(1))
    BY <1>1, <2>1 DEF Minus1, One, StrCtx
  <2>4. t = ConstTerm(n)
    <3>1. SubTerms(ConstTerm(n + 1), ConstTerm(1)) = ConstTerm((n + 1) - 1)
      BY <2>2, PlainShifted
    <3> QED
      BY <2>2, <2>3, <3>1
  <2>5. EvalTerm(t, r) = Singleton(n)
    BY <2>2, <2>4, EvalFew
  <2>6. Singleton(n).lo < INF
    BY <2>1, <2>2, EndpointFacts DEF Singleton, Clamp, Lesser, Greater
  <2>7. x - 1 = n
    BY <1>3, <1>6, <2>1
  <2> QED
    BY <1>1, <1>3, <1>5, <2>4, <2>5, <2>6, <2>7 DEF Printable
<1>7. CASE e.expr # "lit"
  <2>1. PICK o \in Strings, n \in Nat :
          /\ o = e.of /\ n = e.n /\ n < INF /\ e.expr = "ref"
          /\ expr(e) = StrCtx(Plain(SizVar(o), -n), Plain(LenVar(o), -n))
    BY <1>7, TextForms
  <2>2. PICK k \in Nat : k = u[o] /\ k = x + n /\ In(k, RangesOf(r)[o].len)
    BY <1>2, <1>3, <1>7, <2>1
  <2>3. -n \in Int /\ -n - 1 \in Int /\ 1 \in Int /\ -n - 1 <= 0 /\ k \in Int /\ x - 1 = k - n - 1
    BY <1>3, <2>2
  <2>4. t = SubTerms(Plain(LenVar(o), -n), ConstTerm(1))
    BY <1>1, <2>1 DEF Minus1, One, StrCtx
  <2>5. t = Plain(LenVar(o), -n - 1)
    BY <2>3, <2>4, PlainShifted
  <2>6. In(k, r[LenVar(o)]) /\ RangesOf(r)[o].len = r[LenVar(o)] /\ LenVar(o) \in Nat
    BY <2>2, <2>3, RangesIn, ObjectTerms
  <2>8. r[LenVar(o)] \in Interval
    BY <2>6
  <2>9. ~IsEmpty(r[LenVar(o)])
    BY <2>3, <2>6, <2>8, InFull
  <2>7. r[LenVar(o)].lo < INF
    BY <1>2, <2>6, <2>9 DEF Tame
  <2>10. EvalTerm(t, r).lo < INF
    <3>1. PICK v \in Nat, j \in Int : v = LenVar(o) /\ j = -n - 1 /\ j <= 0
      BY <2>3, <2>6
    <3> QED
      BY <1>2, <2>5, <2>7, <2>9, <3>1, EvalLow
  <2>11. Printable(t, r, u, x - 1, most)
    BY <1>2, <2>1, <2>2, <2>3, <2>5, <2>6 DEF Printable
  <2> QED
    BY <1>1, <1>3, <1>5, <2>10, <2>11
<1> QED
  BY <1>6, <1>7

(* A width or a precision.                                                 *)
Measures(q, r, a) == IF q.known THEN a \in Nat /\ Holds(q.term, r, a) ELSE a = Unset

LEMMA NumAmount ==
  ASSUME NEW es, NEW r \in [Nat -> Interval], NEW u, NEW amounts, NEW most, Ready(es, r, u, amounts, most),
         NEW s, Walked(s), NEW i, NEW spec \in Width, spec = Star => i \in DOMAIN es /\ es[i] \in Ints,
         NEW q, q = read_num(Contexts(es), i, spec)
  PROVE  KnownOver(q, s) /\ Measures(q, r, NumberOf(amounts, i, spec))
<1>1. es \in Seq(Texts \cup Ints) /\ amounts \in [1 .. Len(es) -> Nat] /\ DOMAIN es = 1 .. Len(es)
  BY DEF Ready
<1>2. ArgsOver(Contexts(es), s)
  BY <1>1, ContextsOver
<1>3. spec \in Int /\ (spec = Star \/ spec = Absent \/ spec >= 0) /\ Star = -2 /\ Absent = -1 /\ Unset = -1
  BY EndpointFacts DEF Width, Number, Star, Absent, Unset
<1>4. /\ KnownOver(q, s)
      /\ spec = Star /\ IsKind(Contexts(es), i, "int") => q.known /\ q.term = Contexts(es)[i].val
      /\ spec >= 0 => q.known /\ q.term = ConstTerm(spec)
      /\ spec = Absent => ~q.known
  BY <1>2, <1>3, ReadNum
<1>5. CASE spec = Star
  <2>1. i \in 1 .. Len(es) /\ es[i] \in Ints
    BY <1>1, <1>5
  <2>2. PICK e \in Ints, x \in Nat : e = es[i] /\ x = amounts[i]
    BY <1>1, <2>1
  <2>3. MayInt(e, RangesOf(r), x) /\ Tame(RangesOf(r)) /\ Sized(RangesOf(r)) /\ INF > 1
    BY <2>1, <2>2, AmountKinds DEF Ready, MayAmount
  <2>4. PICK c : c = expr(e)
    OBVIOUS
  <2>5. c.kind = "int" /\ Holds(c.val, r, x)
    BY <2>2, <2>3, <2>4, IntHolds
  <2>6. IsKind(Contexts(es), i, "int") /\ Contexts(es)[i] = c
    BY <2>1, <2>2, <2>4, <2>5 DEF IsKind, Contexts
  <2>7. NumberOf(amounts, i, spec) = x
    BY <1>1, <1>5, <2>1, <2>2 DEF NumberOf, AmountAt
  <2> QED
    BY <1>4, <1>5, <2>5, <2>6, <2>7 DEF Measures
<1>6. CASE spec = Absent
  BY <1>3, <1>4, <1>6 DEF NumberOf, Measures
<1>7. CASE spec >= 0
  <2>1. NumberOf(amounts, i, spec) = spec /\ spec \in Nat
    BY <1>3, <1>7 DEF NumberOf
  <2>2. Holds(ConstTerm(spec), r, spec)
    BY <1>3, ConstMay
  <2> QED
    BY <1>4, <1>7, <2>1, <2>2 DEF Measures
<1> QED
  BY <1>3, <1>5, <1>6, <1>7

(* What an item adds to the length: characters of an argument, or a new    *)
(* variable that includes what is printed.                                 *)
Piece(t, s, r, u, b, most) ==
  \/ Printable(t, r, u, b, most)
  \/ \E v \in Nat : v >= s.vars /\ t = Plain(v, 0) /\ b \in Nat /\ In(b, r[v]) /\ r[v].lo < INF

LEMMA StringPiece ==
  ASSUME NEW s, Store(s), NEW n, Grew(n.sys, s), n.term \in TermOver(Vars(n.sys)),
         NEW width, KnownOver(width, s), NEW prec, KnownOver(prec, s),
         NEW body, body = ConvString(n, width, prec),
         NEW r \in [Nat -> Interval], Sat(r, body.sys),
         NEW w \in Int, Measures(width, r, w), NEW p \in Int, Measures(prec, r, p),
         NEW k \in Nat, Holds(n.term, r, k), EvalTerm(n.term, r).lo < INF,
         NEW u, NEW most, Printable(n.term, r, u, k, most),
         NEW b, b = Greater(w, IF p = Unset THEN k ELSE Lesser(p, k))
  PROVE  Piece(body.term, s, r, u, b, most)
<1>1. Store(n.sys) /\ KnownOver(width, n.sys) /\ KnownOver(prec, n.sys) /\ s.vars <= n.sys.vars
  BY KnownGrow DEF Grew, Extends
<1>2. PICK cut : cut = CutTo(prec, n)
  OBVIOUS
<1>3. /\ Grew(cut.sys, n.sys) /\ cut.term \in TermOver(Vars(cut.sys))
      /\ ~prec.known => cut = n
      /\ prec.known =>
           /\ cut.term = Plain(n.sys.vars, 0)
           /\ \A q \in [Nat -> Interval], x, y \in Int :
                Sat(q, cut.sys) /\ Holds(prec.term, q, x) /\ Holds(n.term, q, y) =>
                  /\ In(Lesser(x, y), q[n.sys.vars])
                  /\ q[n.sys.vars].lo <= EvalTerm(n.term, q).lo
  BY <1>1, <1>2, CutIs
<1>4. body = PaddedTo(width, n, cut)
  BY <1>2 DEF ConvString
<1>5. /\ Grew(body.sys, cut.sys)
      /\ ~width.known => body = cut
      /\ width.known =>
           /\ body.term = Plain(cut.sys.vars, 0)
           /\ \A q \in [Nat -> Interval], x, y \in Int :
                Sat(q, body.sys) /\ Holds(width.term, q, x) /\ Holds(n.term, q, y) =>
                  /\ In(x, q[cut.sys.vars]) /\ In(y, q[cut.sys.vars])
                  /\ q[cut.sys.vars].lo <= EvalTerm(n.term, q).lo
  BY <1>1, <1>3, <1>4, PadIs
<1>6. n.sys.vars \in Nat /\ cut.sys.vars \in Nat /\ s.vars \in Nat /\ n.sys.vars <= cut.sys.vars
      /\ cut.sys.vars >= s.vars /\ n.sys.vars >= s.vars
  BY <1>1, <1>3 DEF Grew, Store, Extends
<1>7. Sat(r, cut.sys)
  BY <1>5, GrewSat
<1>8. PICK m : m = IF p = Unset THEN k ELSE Lesser(p, k)
  OBVIOUS
<1>9. /\ prec.known => p \in Nat /\ Holds(prec.term, r, p) /\ p # Unset
      /\ ~prec.known => p = Unset
      /\ width.known => w \in Nat /\ Holds(width.term, r, w)
      /\ ~width.known => w = Unset
      /\ Unset = -1
  BY DEF Measures, Unset
<1>10. m \in Nat /\ m <= k /\ b = Greater(w, m) /\ m \in Int /\ k \in Int
  BY <1>8, <1>9 DEF Lesser
<1>11. n.term \in TermOver(Nat) /\ EvalTerm(n.term, r) \in Interval
  BY <1>1, NatTerms, EvalTermType
<1>12. CASE ~width.known
  <2>1. b = m /\ body = cut
    BY <1>5, <1>9, <1>10, <1>12 DEF Greater
  <2>2. CASE ~prec.known
    <3>1. b = k /\ body.term = n.term
      BY <1>3, <1>8, <1>9, <2>1, <2>2
    <3> QED
      BY <3>1 DEF Piece
  <2>3. CASE prec.known
    <3>1. PICK v \in Nat : v = n.sys.vars
      BY <1>6
    <3>2. In(Lesser(p, k), r[v]) /\ r[v].lo <= EvalTerm(n.term, r).lo
      BY <1>3, <1>7, <1>9, <1>10, <2>3, <3>1
    <3>3. b = Lesser(p, k)
      BY <1>8, <1>9, <2>1, <2>3
    <3>4. r[v].lo < INF
      BY <1>11, <3>2, EndpointFacts, IntervalFacts
    <3>5. body.term = Plain(v, 0) /\ b \in Nat
      BY <1>3, <1>10, <2>1, <2>3, <3>1
    <3> QED
      BY <1>6, <3>1, <3>2, <3>3, <3>4, <3>5 DEF Piece
  <2> QED
    BY <2>2, <2>3
<1>13. CASE width.known
  <2>1. PICK v \in Nat : v = cut.sys.vars
    BY <1>6
  <2>2. In(w, r[v]) /\ In(k, r[v]) /\ r[v].lo <= EvalTerm(n.term, r).lo /\ body.term = Plain(v, 0)
    BY <1>5, <1>9, <1>10, <1>13, <2>1
  <2>3. r[v].lo < INF
    BY <1>11, <2>2, EndpointFacts, IntervalFacts
  <2>4. b \in Nat /\ (b = w \/ (w <= b /\ b <= k))
    BY <1>9, <1>10, <1>13 DEF Greater
  <2>5. In(b, r[v])
    BY <1>10, <2>2, <2>4, InBetween
  <2> QED
    BY <1>6, <2>1, <2>2, <2>3, <2>4, <2>5 DEF Piece
<1> QED
  BY <1>12, <1>13 DEF KnownOver

(* The places of the arguments of an item: width, precision, value.        *)
WidthOf(es, item, i) == read_num(Contexts(es), i, item.width)
PrecOf(es, item, i)  == read_num(Contexts(es), After(i, item.width), item.prec)
Place(item, i)       == After(After(i, item.width), item.prec)
Body(s, es, item, i) ==
  expand_conv(s, item, Contexts(es), Place(item, i), WidthOf(es, item, i), PrecOf(es, item, i))

ItemReads(item, es, i) ==
  /\ item \in Items /\ item.conv # "?" /\ ItemFits(item, es, i)
  /\ item.conv # "s" => item.width = Absent

LEMMA NumberPiece ==
  ASSUME NEW s, Store(s), NEW n \in Nat \ {0}, NEW t, t = UpTo(s, n),
         NEW r \in [Nat -> Interval], Sat(r, t), INF > 1, NEW b \in 1 .. n, NEW u, NEW most
  PROVE  Piece(NewTerm(s), s, r, u, b, most)
<1>1. NewTerm(s) = Plain(s.vars, 0) /\ \A w \in 1 .. n : In(w, r[s.vars])
  BY UpToIs
<1>2. s.vars \in Nat
  BY DEF Store
<1>3. 1 \in 1 .. n /\ b \in Nat
  OBVIOUS
<1>4. In(1, r[s.vars]) /\ In(b, r[s.vars]) /\ r[s.vars] \in Interval
  BY <1>1, <1>2, <1>3
<1>5. r[s.vars].lo < INF
  <2>1. PICK x \in Interval : x = r[s.vars] /\ In(1, x)
    BY <1>4
  <2>2. x.lo \in Int /\ INF \in Int
    BY IntervalFacts, EndpointFacts
  <2>3. x.lo <= 1
    BY <2>1, <2>2, EndpointFacts DEF In
  <2> QED
    BY <2>1, <2>2, <2>3
<1> QED
  BY <1>1, <1>2, <1>3, <1>4, <1>5 DEF Piece

LEMMA ItemPiece ==
  ASSUME NEW es, NEW r \in [Nat -> Interval], NEW u, NEW amounts, NEW most, Ready(es, r, u, amounts, most),
         NEW s, Walked(s), NEW item, NEW i, ItemReads(item, es, i), NEW long \in BOOLEAN,
         NEW body, body = Body(s, es, item, i), Sat(r, body.sys),
         NEW b, b = Padded(amounts, item, i, long)
  PROVE  Piece(body.term, s, r, u, b, most)
<1>0. /\ item \in Items /\ item.conv # "?" /\ ItemFits(item, es, i) /\ (item.conv # "s" => item.width = Absent)
      /\ item.width \in Width /\ item.prec \in Width
      /\ item.conv \in {"char", "s", "c"} \cup DOMAIN ConvMax /\ es \in Seq(Texts \cup Ints) /\ Store(s)
      /\ amounts \in [1 .. Len(es) -> Nat] /\ DOMAIN es = 1 .. Len(es) /\ INF > 1
  BY DEF ItemReads, Items, Ready, Walked
<1>1. PICK j, p : j = After(i, item.width) /\ p = Place(item, i) /\ p = After(j, item.prec)
  BY DEF Place
<1>2. PICK width, prec : width = WidthOf(es, item, i) /\ prec = PrecOf(es, item, i)
  OBVIOUS
<1>3. width = read_num(Contexts(es), i, item.width) /\ prec = read_num(Contexts(es), j, item.prec)
  BY <1>1, <1>2 DEF WidthOf, PrecOf
<1>4. /\ item.width = Star => i \in DOMAIN es /\ es[i] \in Ints
      /\ item.prec = Star => j \in DOMAIN es /\ es[j] \in Ints
      /\ TakesArg(item.conv) => p \in DOMAIN es /\ es[p] \in (IF item.conv = "s" THEN Texts ELSE Ints)
      /\ item.conv # "s" => item.prec = Absent
  BY <1>0, <1>1 DEF ItemFits
<1>5. PICK w, q : w = NumberOf(amounts, i, item.width) /\ q = NumberOf(amounts, j, item.prec)
  OBVIOUS
<1>6. KnownOver(width, s) /\ Measures(width, r, w)
  BY <1>0, <1>3, <1>4, <1>5, NumAmount
<1>7. KnownOver(prec, s) /\ Measures(prec, r, q)
  BY <1>0, <1>3, <1>4, <1>5, NumAmount
<1>8. w \in Int /\ q \in Int
  BY <1>6, <1>7 DEF Measures, Unset
<1>9. b = Greater(w, Printed(amounts, item, p, q, long))
  BY <1>1, <1>5 DEF Padded
<1>10. body = expand_conv(s, item, Contexts(es), p, width, prec)
  BY <1>1, <1>2 DEF Body
<1>11. CASE item.conv = "s"
  <2>1. p \in 1 .. Len(es) /\ es[p] \in Texts
    BY <1>0, <1>4, <1>11 DEF TakesArg
  <2>2. PICK n : n = Characters(s, Contexts(es), p)
    OBVIOUS
  <2>3. IsKind(Contexts(es), p, "str") /\ Contexts(es)[p] = expr(es[p])
    <3>1a. PICK e \in Texts : \E c :
          e = es[p] /\ c = expr(e)
      BY <2>1
    <3>1. PICK c :
          e = es[p] /\ c = expr(e)
      BY <3>1a
    <3>2. c.kind = "str"
      BY <3>1, TextHolds
    <3>3. p \in DOMAIN Contexts(es) /\ Contexts(es)[p] = c
      BY <2>1, <3>1 DEF Contexts
    <3> QED
      BY <3>1, <3>2, <3>3 DEF IsKind
  <2>4. ArgsOver(Contexts(es), s)
    BY <1>0, ContextsOver
  <2>5. Grew(n.sys, s) /\ n.term \in TermOver(Vars(n.sys)) /\ n.term = Minus1(expr(es[p]).len)
    BY <1>0, <2>2, <2>3, <2>4, CharactersAre
  <2>6. PICK t : t = n.term /\ t = Minus1(expr(es[p]).len)
    BY <2>5
  <2>7. /\ amounts[p] \in Nat \ {0} /\ Holds(t, r, amounts[p] - 1) /\ EvalTerm(t, r).lo < INF
        /\ Printable(t, r, u, amounts[p] - 1, most)
    BY <2>1, <2>6, TextAmount
  <2>8. PICK k \in Nat : k = amounts[p] - 1
    BY <2>7
  <2>9. body = ConvString(n, width, prec)
    BY <1>10, <1>11, <2>2, ObjectAssumption DEF expand_conv
  <2>10. b = Greater(w, IF q = Unset THEN k ELSE Lesser(q, k))
    <3>1. AmountAt(amounts, p) = amounts[p]
      BY <1>0, <2>1 DEF AmountAt
    <3>2. Printed(amounts, item, p, q, long) = IF q = Unset THEN k ELSE Lesser(q, k)
      BY <1>11, <2>8, <3>1, ObjectAssumption DEF Printed
    <3> QED
      BY <1>9, <3>2
  <2>11. Holds(n.term, r, k) /\ EvalTerm(n.term, r).lo < INF /\ Printable(n.term, r, u, k, most)
    BY <2>6, <2>7, <2>8
  <2> QED
    BY <1>0, <1>6, <1>7, <1>8, <2>5, <2>9, <2>10, <2>11, StringPiece
<1>12. CASE item.conv # "s"
  <2>1. item.width = Absent /\ item.prec = Absent
    BY <1>0, <1>4, <1>12
  <2>2. w = -1
    BY <1>5, <2>1 DEF NumberOf, Absent, Star
  <2>3. CASE item.conv \in DOMAIN ConvMax
    <3>1a. PICK n \in Nat \ {0} : \E t :
          n = ConvMax[item.conv] /\ t = UpTo(s, n)
      BY <2>3, ObjectAssumption
    <3>1. PICK t :
          n = ConvMax[item.conv] /\ t = UpTo(s, n)
      BY <3>1a
    <3>2. body.sys = t /\ body.term = NewTerm(s)
      BY <1>10, <1>12, <2>3, <3>1 DEF expand_conv
    <3>3. Printed(amounts, item, p, q, long) = IF long THEN n ELSE 1
      BY <1>12, <2>3, <3>1 DEF Printed
    <3>4. b \in 1 .. n
      BY <1>9, <2>2, <3>3 DEF Greater
    <3> QED
      BY <1>0, <3>1, <3>2, <3>4, NumberPiece
  <2>4. CASE item.conv \notin DOMAIN ConvMax
    <3>1. body.term = ConstTerm(1)
      BY <1>10, <1>12, <2>4 DEF expand_conv, One
    <3>2. Printed(amounts, item, p, q, long) = 1
      BY <1>12, <2>4 DEF Printed
    <3>3. b = 1
      BY <1>9, <2>2, <3>2 DEF Greater
    <3> QED
      BY <3>1, <3>3 DEF Piece, Printable
  <2> QED
    BY <2>3, <2>4
<1> QED
  BY <1>11, <1>12

(* The length of the output as it is added up: its term has the value      *)
(* bytes when variables have values in their ranges, those of the strings  *)
(* as given; the entries of strings are few and the others are new.        *)
Few(e, r, j) ==
  /\ e[1] \in Nat
  /\ \/ e[1] <= j /\ \E o \in Strings : e[2] = LenVar(o)
     \/ e[1] = 1 /\ e[2] > Declared /\ r[e[2]].lo < INF

Valuing(val, t, r, u, bytes) ==
  /\ \A o \in Strings : val[LenVar(o)] = u[o]
  /\ ValueOf(t, val) = bytes
  /\ Within(t, val, r)

AllFew(es, r, j) == \A i \in DOMAIN es : Few(es[i], r, j)

Adding(t, r, u, j, most, bytes) ==
  /\ \E val \in [Nat -> Nat] : Valuing(val, t, r, u, bytes)
  /\ t.konst >= 1 - j * most
  /\ AllFew(t.terms, r, j)

LEMMA PlainJoins ==
  ASSUME NEW V \in SUBSET Nat, NEW t \in TermOver(V), NEW v \in V, NEW k \in Int, NEW new, new = AddTerms(t, Plain(v, k)),
         NEW r \in [Nat -> Interval], NEW val \in [Nat -> Nat],
         Counting(t.terms), Within(t, val, r), In(val[v], r[v])
  PROVE  /\ new.konst = t.konst + k /\ ValueOf(new, val) = ValueOf(t, val) + (val[v] + k)
         /\ Within(new, val, r) /\ MoreBy(new.terms, t.terms, v)
<1>1. PICK es \in Seq(EntryOver(V)), base \in Int : es = t.terms /\ base = t.konst
  BY TermParts
<1>2. PICK fs : fs = AddEntry(es, <<1, v>>)
  OBVIOUS
<1>3. new = [terms |-> fs, konst |-> base + k]
  <2>1. AddTerms(t, Plain(v, k)) = [terms |-> AddEntry(t.terms, <<1, v>>), konst |-> t.konst + k]
    BY PlusPlain
  <2> QED
    BY <1>1, <1>2, <2>1
<1>4. MoreBy(fs, es, v)
  <2>1. MoreBy(AddEntry(es, <<1, v>>), es, v)
    BY <1>1, OneMore
  <2> QED
    BY <1>2, <2>1
<1>5. Valued(V, val)
  BY DEF Valued
<1>6. PICK p \in TermOver(V) : p = Plain(v, k) /\ p.konst = k /\ p.terms = <<<<1, v>>>>
  <2>1. Plain(v, k) \in TermOver(V) /\ Plain(v, k).konst = k /\ Plain(v, k).terms = <<<<1, v>>>>
    BY PlainTypes DEF Plain
  <2> QED
    BY <2>1
<1>7. ValueOf(p, val) = val[v] + k
  <2>1. IsSingleVarAny(p) /\ TheVar(p) = v
    BY <1>6 DEF IsSingleVarAny, TheVar
  <2> QED
    BY <1>5, <1>6, <2>1, SingleValue
<1>8. ValueOf(new, val) = ValueOf(t, val) + ValueOf(p, val)
  <2>1. ValueOf(AddTerms(t, p), val) = ValueOf(t, val) + ValueOf(p, val)
    BY <1>5, SumValue
  <2> QED
    BY <1>6, <2>1
<1>9. ASSUME NEW i \in DOMAIN fs
      PROVE  In(val[fs[i][2]], r[fs[i][2]])
  <2>1. PICK e : e = fs[i] /\ ((\E a \in DOMAIN es : e[2] = es[a][2]) \/ e[2] = v)
    BY <1>4, <1>9 DEF MoreBy
  <2>2. \A a \in DOMAIN es : In(val[es[a][2]], r[es[a][2]])
    BY <1>1 DEF Within
  <2> QED
    BY <2>1, <2>2
<1> QED
  BY <1>1, <1>3, <1>4, <1>7, <1>8, <1>9 DEF Within

SameEntries(new, t, n, val) ==
  new.konst = t.konst + n /\ new.terms = t.terms /\ ValueOf(new, val) = ValueOf(t, val) + n

LEMMA ConstJoins ==
  ASSUME NEW V \in SUBSET Nat, NEW t \in TermOver(V), NEW n \in Int, NEW new, new = AddTerms(t, ConstTerm(n)),
         NEW val \in [Nat -> Nat]
  PROVE  SameEntries(new, t, n, val)
<1>1. new = [terms |-> t.terms, konst |-> t.konst + n]
  BY Shifted
<1>2. PICK p \in TermOver(V) : p = ConstTerm(n)
  BY PlainTypes
<1>3. Valued(V, val)
  BY DEF Valued
<1>4. ValueOf(p, val) = n
  <2>1. IsConstant(p) /\ p.konst = n
    BY <1>2 DEF ConstTerm, IsConstant
  <2> QED
    BY <1>2, <2>1, ConstValue
<1>5. ValueOf(AddTerms(t, p), val) = ValueOf(t, val) + ValueOf(p, val)
  BY <1>3, SumValue
<1>6. ValueOf(new, val) = ValueOf(t, val) + n
  BY ONLY <1>2, <1>4, <1>5, new = AddTerms(t, ConstTerm(n))
<1>7. new.konst = t.konst + n /\ new.terms = t.terms
  BY ONLY <1>1
<1> QED
  BY <1>6, <1>7 DEF SameEntries

(* The entries after one more of a variable.                               *)
LEMMA FewMore ==
  ASSUME NEW es, NEW fs, NEW v \in Nat, MoreBy(fs, es, v), NEW r, NEW j \in Nat, AllFew(es, r, j),
         \/ \E o \in Strings : v = LenVar(o)
         \/ v > Declared /\ r[v].lo < INF /\ \A i \in DOMAIN es : es[i][2] # v
  PROVE  AllFew(fs, r, j + 1)
<1> SUFFICES ASSUME NEW i \in DOMAIN fs
             PROVE  Few(fs[i], r, j + 1)
  BY DEF AllFew
<1>1. PICK c, w : c = fs[i][1] /\ w = fs[i][2]
  OBVIOUS
<1>2. Declared \in Nat /\ \A o \in Strings : LenVar(o) \in Nat /\ LenVar(o) < Declared
  BY Numbering, ObjectTerms
<1>3. \A a \in DOMAIN es : Few(es[a], r, j)
  BY DEF AllFew
<1>4. CASE \E a \in DOMAIN es : c = es[a][1] /\ w = es[a][2]
  BY <1>1, <1>3, <1>4 DEF Few
<1>5. CASE \E a \in DOMAIN es : c = es[a][1] + 1 /\ w = v /\ es[a][2] = v
  <2>1. PICK a \in DOMAIN es : c = es[a][1] + 1 /\ w = v /\ es[a][2] = v
    BY <1>5
  <2>2. PICK o \in Strings : v = LenVar(o)
    BY <2>1
  <2>3. es[a][1] \in Nat /\ es[a][1] <= j
    BY <1>2, <1>3, <2>1, <2>2 DEF Few
  <2> QED
    BY <1>1, <2>1, <2>2, <2>3 DEF Few
<1>6. CASE c = 1 /\ w = v
  BY <1>1, <1>6 DEF Few
<1> QED
  BY <1>1, <1>4, <1>5, <1>6 DEF MoreBy

LEMMA FewNext ==
  ASSUME NEW es, NEW r, NEW j \in Nat, AllFew(es, r, j)
  PROVE  AllFew(es, r, j + 1)
<1>1. ASSUME NEW e, Few(e, r, j)
      PROVE  Few(e, r, j + 1)
  <2>1a. PICK c \in Nat : \E w :
        c = e[1] /\ w = e[2]
    BY <1>1 DEF Few
  <2>1. PICK w :
        c = e[1] /\ w = e[2]
    BY <2>1a
  <2>2. c <= j => c <= j + 1
    OBVIOUS
  <2> QED
    BY <1>1, <2>1, <2>2 DEF Few
<1> QED
  BY <1>1 DEF AllFew

Agree(V, val, alt) == \A v \in V : alt[v] = val[v]

LEMMA AgreeingValues ==
  ASSUME NEW V, NEW t \in TermOver(V), NEW val, Valued(V, val), NEW alt, Valued(V, alt), Agree(V, val, alt)
  PROVE  ValueOf(t, alt) = ValueOf(t, val)
BY ValueAgrees DEF Agree

LEMMA AddingStep ==
  ASSUME NEW s, Walked(s), NEW t \in TermOver(Vars(s)), NEW r \in [Nat -> Interval], NEW u,
         NEW j \in Nat, NEW most \in Nat, NEW bytes \in Int, Adding(t, r, u, j, most, bytes),
         NEW p, NEW b \in Int, Piece(p, s, r, u, b, most), NEW new, new = AddTerms(t, p)
  PROVE  Adding(new, r, u, j + 1, most, bytes + b)
<1>1. Store(s) /\ Declared < s.vars /\ s.vars \in Nat /\ Vars(s) \in SUBSET Nat /\ Declared \in Nat
  BY StoreVars, Numbering DEF Walked
<1>0. PICK V \in SUBSET Nat, n0 \in Nat : V = Vars(s) /\ n0 = s.vars /\ t \in TermOver(V)
  BY <1>1
<1>2. PICK val \in [Nat -> Nat] : Valuing(val, t, r, u, bytes)
  BY DEF Adding
<1>3. PICK es \in Seq(EntryOver(V)), base \in Int : es = t.terms /\ base = t.konst
  BY <1>0, TermParts
<1>4. AllFew(es, r, j) /\ Counting(es) /\ base >= 1 - j * most
  BY <1>3 DEF Adding, AllFew, Few, Counting
<1>5. j + 1 \in Nat /\ (j + 1) * most = j * most + most /\ j * most \in Int
  OBVIOUS
<1>6. CASE \E n \in Nat : p = ConstTerm(n) /\ b = n
  <2>1. PICK n \in Nat : p = ConstTerm(n) /\ b = n /\ n \in Int
    BY <1>6
  <2>2. new.konst = base + n /\ new.terms = es /\ ValueOf(new, val) = ValueOf(t, val) + n
    <3>1. new = AddTerms(t, ConstTerm(n)) /\ t \in TermOver(V)
      BY <1>0, <2>1
    <3>2. n \in Int
      BY <2>1
    <3>3. SameEntries(new, t, n, val)
      BY ONLY <3>1, <3>2, ConstJoins, V \in SUBSET Nat, val \in [Nat -> Nat]
    <3> QED
      BY <1>3, <3>3 DEF SameEntries
  <2>3. Valuing(val, new, r, u, bytes + b)
    BY <1>2, <1>3, <2>1, <2>2 DEF Valuing, Within
  <2>4. new.konst >= 1 - (j + 1) * most
    BY <1>4, <1>5, <2>1, <2>2
  <2>5. AllFew(es, r, j + 1)
    BY <1>4, FewNext
  <2> QED
    BY <2>2, <2>3, <2>4, <2>5 DEF Adding
<1>7. CASE \E o \in Strings, n \in Nat : /\ n < most /\ p = Plain(LenVar(o), -n - 1)
                                        /\ b = u[o] - n - 1 /\ In(u[o], r[LenVar(o)])
  <2>1. PICK o \in Strings, n \in Nat : /\ n < most /\ p = Plain(LenVar(o), -n - 1)
                                        /\ b = u[o] - n - 1 /\ In(u[o], r[LenVar(o)])
    BY <1>7
  <2>2. PICK v \in V, k \in Int : v = LenVar(o) /\ k = -n - 1 /\ p = Plain(v, k) /\ v \in Nat
    BY <1>0, <1>1, <2>1, WalkedVars
  <2>3. val[v] = u[o] /\ val[v] \in Nat /\ Within(t, val, r) /\ ValueOf(t, val) = bytes
    BY <1>2, <2>2 DEF Valuing
  <2>4. /\ new.konst = base + k /\ ValueOf(new, val) = bytes + (val[v] + k)
        /\ Within(new, val, r) /\ MoreBy(new.terms, es, v)
    <3>1. In(val[v], r[v])
      BY <2>1, <2>2, <2>3
    <3>2. new = AddTerms(t, Plain(v, k)) /\ t \in TermOver(V) /\ Counting(t.terms)
      BY <1>0, <1>3, <1>4, <2>2
    <3>3. /\ new.konst = t.konst + k /\ ValueOf(new, val) = ValueOf(t, val) + (val[v] + k)
          /\ Within(new, val, r) /\ MoreBy(new.terms, t.terms, v)
      BY <2>3, <3>1, <3>2, PlainJoins
    <3> QED
      BY <1>3, <2>3, <3>3
  <2>5. val[v] + k = b
    <3>1. PICK x \in Nat : x = val[v] /\ x = u[o]
      BY <2>3
    <3>2. k = -n - 1 /\ b = x - n - 1
      BY <2>1, <2>2, <3>1
    <3>3. x + (-n - 1) = x - n - 1
      OBVIOUS
    <3> QED
      BY ONLY <3>1, <3>2, <3>3
  <2>6. Valuing(val, new, r, u, bytes + b)
    BY <1>2, <2>4, <2>5 DEF Valuing
  <2>7. new.konst >= 1 - (j + 1) * most
    BY <1>4, <1>5, <2>1, <2>2, <2>4
  <2>8. AllFew(new.terms, r, j + 1)
    BY <1>4, <2>2, <2>4, FewMore
  <2> QED
    BY <2>6, <2>7, <2>8 DEF Adding
<1>8. CASE \E v \in Nat : v >= s.vars /\ p = Plain(v, 0) /\ b \in Nat /\ In(b, r[v]) /\ r[v].lo < INF
  <2>1. PICK v \in Nat : v >= s.vars /\ p = Plain(v, 0) /\ b \in Nat /\ In(b, r[v]) /\ r[v].lo < INF
    BY <1>8
  <2>2. PICK alt \in [Nat -> Nat] : alt[v] = b /\ \A w \in Nat : w # v => alt[w] = val[w]
    <3> DEFINE f == [w \in Nat |-> IF w = v THEN b ELSE val[w]]
    <3>1. f \in [Nat -> Nat] /\ f[v] = b /\ \A w \in Nat : w # v => f[w] = val[w]
      BY <2>1
    <3> QED
      BY <3>1
  <2>3. v \notin V /\ v > Declared /\ \A w \in V : w \in Nat /\ alt[w] = val[w]
    <3>1. v >= n0 /\ Declared < n0
      BY <1>0, <1>1, <2>1
    <3>2. V = 0 .. n0 - 1
      BY <1>0 DEF Vars
    <3>3. v \notin V
      BY <3>1, <3>2
    <3>4. v > Declared
      BY <1>1, <3>1
    <3> QED
      BY <2>2, <3>3, <3>4
  <2>4. \A i \in DOMAIN es : es[i][2] \in V
    <3>1. \A e \in EntryOver(V) : e[2] \in V
      BY DEF EntryOver
    <3>2. \A i \in DOMAIN es : es[i] \in EntryOver(V)
      OBVIOUS
    <3> QED
      BY <3>1, <3>2
  <2>5. ValueOf(t, alt) = ValueOf(t, val)
    <3>0. V \subseteq Nat
      OBVIOUS
    <3>1. Valued(V, val) /\ Valued(V, alt)
      <4>1. Valued(Nat, val)
        BY DEF Valued
      <4>2. Valued(Nat, alt)
        BY DEF Valued
      <4> QED
        BY ONLY <3>0, <4>1, <4>2 DEF Valued
    <3>2. t \in TermOver(V) /\ Agree(V, val, alt)
      BY <1>0, <2>3 DEF Agree
    <3> QED
      BY ONLY <3>1, <3>2, AgreeingValues
  <2>6. Within(t, alt, r)
    BY <1>2, <1>3, <2>3, <2>4 DEF Valuing, Within
  <2>7. PICK W \in SUBSET Nat : W = Nat /\ t \in TermOver(W) /\ v \in W
    BY <1>1, NatTerms
  <2>8. /\ new.konst = base + 0 /\ ValueOf(new, alt) = ValueOf(t, alt) + (alt[v] + 0)
        /\ Within(new, alt, r) /\ MoreBy(new.terms, es, v)
    <3>1. In(alt[v], r[v]) /\ 0 \in Int
      BY <2>1, <2>2
    <3>2. new = AddTerms(t, Plain(v, 0)) /\ Counting(t.terms)
      BY <1>3, <1>4, <2>1
    <3>3. /\ new.konst = t.konst + 0 /\ ValueOf(new, alt) = ValueOf(t, alt) + (alt[v] + 0)
          /\ Within(new, alt, r) /\ MoreBy(new.terms, t.terms, v)
      BY <2>6, <2>7, <3>1, <3>2, PlainJoins
    <3> QED
      BY <1>3, <3>3
  <2>9. \A o \in Strings : alt[LenVar(o)] = u[o]
    <3>1. \A o \in Strings : LenVar(o) \in V
      BY <1>0, WalkedVars
    <3> QED
      BY <1>2, <2>3, <3>1 DEF Valuing
  <2>10. Valuing(alt, new, r, u, bytes + b)
    <3>1. ValueOf(new, alt) = bytes + b
      <4>1. alt[v] + 0 = b /\ ValueOf(t, alt) = bytes
        BY <1>2, <2>2, <2>5 DEF Valuing
      <4> QED
        BY <2>8, <4>1
    <3> QED
      BY <2>8, <2>9, <3>1 DEF Valuing
  <2>11. new.konst >= 1 - (j + 1) * most
    BY <1>4, <1>5, <2>8
  <2>12. AllFew(new.terms, r, j + 1)
    <3>1. \A i \in DOMAIN es : es[i][2] # v
      BY <2>3, <2>4
    <3> QED
      BY <1>4, <2>1, <2>3, <2>8, <3>1, FewMore
  <2> QED
    BY <2>10, <2>11, <2>12 DEF Adding
<1> QED
  BY <1>6, <1>7, <1>8 DEF Piece, Printable

LEMMA MulLess ==
  ASSUME NEW c \in Nat, NEW d \in Nat, c <= d, NEW l \in Int, NEW m \in Int, m > 0, d * l < m
  PROVE  c * l < m
<1>1. CASE l < 0
  <2>1. c * l <= 0
    BY <1>1
  <2> QED
    BY <2>1
<1>2. CASE l >= 0
  <2>1. PICK e \in Nat : d = c + e
    <3>1. d - c \in Nat /\ d = c + (d - c)
      OBVIOUS
    <3> QED
      BY <3>1
  <2>2. d * l = c * l + e * l
    BY <2>1
  <2>3. e * l >= 0 /\ c * l \in Int /\ e * l \in Int /\ d * l \in Int
    BY <1>2
  <2> QED
    BY <2>2, <2>3
<1> QED
  BY <1>1, <1>2

LEMMA AddingStart ==
  ASSUME NEW u \in [Strings -> Nat], NEW r \in [Nat -> Interval], NEW most \in Nat
  PROVE  Adding(One, r, u, 0, most, 1)
<1>1. /\ \A o \in Strings : LenVar(o) \in Nat
      /\ \A o, p \in Strings : LenVar(o) = LenVar(p) => o = p
  BY Numbering, ObjectTerms
<1>2. PICK val \in [Nat -> Nat] : \A o \in Strings : val[LenVar(o)] = u[o]
  <2> DEFINE f == [w \in Nat |-> IF \E o \in Strings : w = LenVar(o)
                                 THEN u[CHOOSE o \in Strings : w = LenVar(o)] ELSE 0]
  <2>1. ASSUME NEW o \in Strings
        PROVE  f[LenVar(o)] = u[o]
    <3>1. (CHOOSE p \in Strings : LenVar(o) = LenVar(p)) = o
      BY <1>1
    <3> QED
      BY <1>1, <3>1
  <2>2. ASSUME NEW w \in Nat
        PROVE  f[w] \in Nat
    <3>1. CASE \E o \in Strings : w = LenVar(o)
      <4>1. PICK p \in Strings : p = CHOOSE o \in Strings : w = LenVar(o)
        BY <3>1
      <4>2. f[w] = u[p]
        BY <3>1, <4>1
      <4> QED
        BY <4>2
    <3>2. CASE ~\E o \in Strings : w = LenVar(o)
      <4>1. f[w] = 0
        BY <3>2
      <4> QED
        BY <4>1
    <3> QED
      BY <3>1, <3>2
  <2>3. f \in [Nat -> Nat]
    BY <2>2
  <2> QED
    BY <2>1, <2>3
<1>3. PICK t \in TermOver(Nat) : t = One /\ t.terms = << >> /\ t.konst = 1
  <2>1. ConstTerm(1) \in TermOver(Nat) /\ ConstTerm(1).terms = << >> /\ ConstTerm(1).konst = 1
    BY PlainTypes DEF ConstTerm
  <2> QED
    BY <2>1 DEF One
<1>4. ValueOf(t, val) = 1
  BY <1>3, ConstValue DEF IsConstant
<1>5. DOMAIN t.terms = {}
  BY <1>3
<1>6. Valuing(val, t, r, u, 1) /\ AllFew(t.terms, r, 0)
  BY <1>2, <1>4, <1>5 DEF Valuing, Within, AllFew
<1>7. 1 >= 1 - 0 * most
  OBVIOUS
<1> QED
  BY <1>2, <1>3, <1>6, <1>7 DEF Adding

LEMMA AddingHolds ==
  ASSUME NEW t \in TermOver(Nat), NEW r \in [Nat -> Interval], NEW u, NEW n \in Nat, NEW most \in Nat,
         NEW bytes, Adding(t, r, u, n, most, bytes), LowFor(n, RangesOf(r)), most * n < INF
  PROVE  Holds(t, r, bytes)
<1>1. PICK val \in [Nat -> Nat] : Valuing(val, t, r, u, bytes)
  BY DEF Adding
<1>2. PICK es \in Seq(EntryOver(Nat)), base \in Int : es = t.terms /\ base = t.konst
  BY TermParts
<1>3. AllFew(es, r, n) /\ base >= 1 - n * most /\ Within(t, val, r) /\ bytes = ValueOf(t, val)
  BY <1>1, <1>2 DEF Adding, Valuing
<1>4. base > NEGINF
  <2>1. PICK m \in Int : m = n * most /\ m = most * n
    OBVIOUS
  <2>2. m < INF /\ base >= 1 - m
    BY <1>3, <2>1
  <2> QED
    BY <2>2, EndpointFacts
<1>5. ASSUME NEW i \in DOMAIN es
      PROVE  es[i][1] \in Nat /\ es[i][1] * r[es[i][2]].lo < INF
  <2>1. PICK c \in Nat, w \in Nat : c = es[i][1] /\ w = es[i][2]
    <3>1. es[i] \in EntryOver(Nat)
      OBVIOUS
    <3> QED
      BY <1>3, <3>1 DEF AllFew, Few, EntryOver
  <2>2. (c <= n /\ \E o \in Strings : w = LenVar(o)) \/ (c = 1 /\ r[w].lo < INF)
    <3>1. Few(es[i], r, n)
      BY <1>3 DEF AllFew
    <3> QED
      BY <2>1, <3>1 DEF Few
  <2>3. r[w].lo \in Int
    BY IntervalFacts, EndpointFacts
  <2>4. ASSUME c <= n, \E o \in Strings : w = LenVar(o)
        PROVE  c * r[w].lo < INF
    <3>1. PICK o \in Strings : w = LenVar(o)
      BY <2>4
    <3>2. In(val[w], r[w]) /\ val[w] \in Int
      <4>1. In(val[es[i][2]], r[es[i][2]])
        BY <1>2, <1>3 DEF Within
      <4>2. PICK x \in Nat : x = val[w]
        OBVIOUS
      <4>3. x \in Int
        OBVIOUS
      <4> QED
        BY ONLY <2>1, <4>1, <4>2, <4>3
    <3>3. RangesOf(r)[o].len = r[w]
      BY <3>1, <3>2, RangesIn
    <3>4. (1 + n) * r[w].lo < INF
      <4>1. ~IsEmpty(r[w])
        <5>1. r[w] \in Interval
          BY <2>1
        <5> QED
          BY <3>2, <5>1, InFull
      <4> QED
        BY <3>3, <4>1 DEF LowFor
    <3>5. c <= 1 + n /\ 1 + n \in Nat /\ INF \in Int /\ INF > 0
      BY <2>4, EndpointFacts
    <3>6. c * r[w].lo < INF
      BY <2>3, <3>4, <3>5, MulLess
    <3> QED
      BY <3>6
  <2>5. ASSUME c = 1, r[w].lo < INF
        PROVE  c * r[w].lo < INF
    <3>1. PICK l \in Int : l = r[w].lo
      BY <2>3
    <3>2. 1 * l = l
      OBVIOUS
    <3> QED
      BY ONLY <2>5, <3>1, <3>2
  <2> QED
    BY <2>1, <2>2, <2>4, <2>5
<1>6. Fit(t, r)
  BY <1>2, <1>4, <1>5 DEF Fit
<1> QED
  BY <1>3, <1>6, FitHolds

(* The operations of formats leave the queries as they are.                *)
Keeps(t, s) == Shape(t) /\ t.queries = s.queries

LEMMA GrownKeeps ==
  ASSUME NEW s, Shape(s), NEW t, t = Grown(s)
  PROVE  Keeps(t, s)
<1>1. PICK n, c, a, p : /\ n = s.vars /\ c = s.cons /\ a = s.queries /\ p = << >>
                        /\ s = [vars |-> n, cons |-> c, queries |-> a, pins |-> p]
  BY DEF Shape
<1>2. PICK m : m = s.vars + 1
  OBVIOUS
<1>3. t = [s EXCEPT !.vars = m]
  BY <1>2 DEF Grown
<1>4. [s EXCEPT !.vars = m] = [vars |-> m, cons |-> c, queries |-> a, pins |-> p]
  BY <1>1
<1>5. t = [vars |-> m, cons |-> c, queries |-> a, pins |-> p]
  BY ONLY <1>3, <1>4
<1>6. t.vars = m /\ t.cons = c /\ t.queries = a
  BY ONLY <1>5
<1> QED
  BY <1>1, <1>5, <1>6 DEF Keeps, Shape

LEMMA SubsetKeeps ==
  ASSUME NEW s, Shape(s), NEW l, NEW r, NEW t, t = AddSubset(s, l, r)
  PROVE  Keeps(t, s)
<1>1. PICK n, c, a, p : /\ n = s.vars /\ c = s.cons /\ a = s.queries /\ p = << >>
                        /\ s = [vars |-> n, cons |-> c, queries |-> a, pins |-> p]
  BY DEF Shape
<1>2. PICK d : d = s.cons \o SubsetOf(l, r)
  OBVIOUS
<1>3. t = [s EXCEPT !.cons = d]
  BY <1>2 DEF AddSubset
<1>4. [s EXCEPT !.cons = d] = [vars |-> n, cons |-> d, queries |-> a, pins |-> p]
  BY <1>1
<1>5. t = [vars |-> n, cons |-> d, queries |-> a, pins |-> p]
  BY ONLY <1>3, <1>4
<1>6. t.vars = n /\ t.cons = d /\ t.queries = a
  BY ONLY <1>5
<1> QED
  BY <1>1, <1>5, <1>6 DEF Keeps, Shape

LEMMA MinKeeps ==
  ASSUME NEW s, Shape(s), NEW x, NEW y, NEW t, t = AddMin(s, x, y)
  PROVE  Keeps(t, s)
<1>1. PICK n, c, a, p : /\ n = s.vars /\ c = s.cons /\ a = s.queries /\ p = << >>
                        /\ s = [vars |-> n, cons |-> c, queries |-> a, pins |-> p]
  BY DEF Shape
<1>2. PICK d, m : d = s.cons \o MinOf(x, y, s.vars) /\ m = s.vars + MinVars(x, y)
  OBVIOUS
<1>3. t = [[s EXCEPT !.cons = d] EXCEPT !.vars = m]
  BY <1>2 DEF AddMin
<1>4. PICK v : v = [s EXCEPT !.cons = d]
  OBVIOUS
<1>5. v = [vars |-> n, cons |-> d, queries |-> a, pins |-> p]
  BY <1>1, <1>4
<1>6. [v EXCEPT !.vars = m] = [vars |-> m, cons |-> d, queries |-> a, pins |-> p]
  BY <1>5
<1>7. t = [vars |-> m, cons |-> d, queries |-> a, pins |-> p]
  BY ONLY <1>3, <1>4, <1>6
<1>8. t.vars = m /\ t.cons = d /\ t.queries = a
  BY ONLY <1>7
<1> QED
  BY <1>1, <1>7, <1>8 DEF Keeps, Shape

LEMMA MoreKeeps ==
  ASSUME NEW s, Shape(s), NEW a, NEW b, NEW l, NEW r
  PROVE  /\ Keeps(AddSubsets(s, <<a, b>>, r), s)
         /\ Keeps(force_len_top(s, r), s)
         /\ Keeps(AddSubsets(Grown(s), <<a, b>>, r), s)
         /\ Keeps(force_len_top(Grown(s), r), s)
<1>1. ASSUME NEW t, Keeps(t, s)
      PROVE  Keeps(AddSubsets(t, <<a, b>>, r), s) /\ Keeps(force_len_top(t, r), s)
  <2>1. Shape(t) /\ t.queries = s.queries
    BY <1>1 DEF Keeps
  <2>2. \A x, y : Keeps(AddSubset(AddSubset(t, x, r), y, r), t)
    <3> SUFFICES ASSUME NEW x, NEW y
                 PROVE  Keeps(AddSubset(AddSubset(t, x, r), y, r), t)
      OBVIOUS
    <3>1. PICK v : v = AddSubset(t, x, r)
      OBVIOUS
    <3>2. Keeps(v, t)
      BY <2>1, <3>1, SubsetKeeps
    <3>3. PICK w : w = AddSubset(v, y, r)
      OBVIOUS
    <3>4. Keeps(w, v)
      BY <3>2, <3>3, SubsetKeeps DEF Keeps
    <3> QED
      BY <3>1, <3>2, <3>3, <3>4 DEF Keeps
  <2>3. Keeps(AddSubsets(t, <<a, b>>, r), t)
    BY <2>2, TwoAdded
  <2>4. Keeps(force_len_top(t, r), t)
    BY <2>2 DEF force_len_top
  <2> QED
    BY <2>1, <2>3, <2>4 DEF Keeps
<1>2. Keeps(s, s)
  BY DEF Keeps
<1>3. Keeps(Grown(s), s)
  BY GrownKeeps
<1> QED
  BY <1>1, <1>2, <1>3

LEMMA BodyKeeps ==
  ASSUME NEW s, Shape(s), NEW args, NEW item, NEW i, NEW width, NEW prec,
         width.known \in BOOLEAN, prec.known \in BOOLEAN,
         NEW body, body = expand_conv(s, item, args, i, width, prec)
  PROVE  Keeps(body.sys, s)
<1>1. CASE item.conv = "s"
  <2>1. PICK n, cut : n = Characters(s, args, i) /\ cut = CutTo(prec, n)
    OBVIOUS
  <2>2. body = PaddedTo(width, n, cut)
    BY <1>1, <2>1, ObjectAssumption DEF expand_conv, ConvString
  <2>3. Keeps(n.sys, s)
    <3>1. CASE IsKind(args, i, "str")
      BY <2>1, <3>1 DEF Characters, Keeps
    <3>2. CASE ~IsKind(args, i, "str")
      <4>1. n.sys = force_len_top(Grown(s), NewTerm(s))
        BY <2>1, <3>2 DEF Characters
      <4> QED
        BY <4>1, MoreKeeps
    <3> QED
      BY <3>1, <3>2
  <2>4. Keeps(cut.sys, s)
    <3>1. CASE prec.known
      <4>1. cut.sys = AddMin(n.sys, prec.term, n.term)
        BY <2>1, <3>1 DEF CutTo
      <4>2. Keeps(cut.sys, n.sys)
        BY <2>3, <4>1, MinKeeps DEF Keeps
      <4> QED
        BY <2>3, <4>2 DEF Keeps
    <3>2. CASE ~prec.known
      BY <2>1, <2>3, <3>2 DEF CutTo
    <3> QED
      BY <3>1, <3>2
  <2>5. CASE width.known
    <3>1. body.sys = AddSubsets(Grown(cut.sys), <<width.term, n.term>>, NewTerm(cut.sys))
      BY <2>2, <2>5 DEF PaddedTo
    <3>2. Keeps(body.sys, cut.sys)
      BY <2>4, <3>1, MoreKeeps DEF Keeps
    <3> QED
      BY <2>4, <3>2 DEF Keeps
  <2>6. CASE ~width.known
    BY <2>2, <2>4, <2>6 DEF PaddedTo
  <2> QED
    BY <2>5, <2>6
<1>2. CASE item.conv # "s" /\ item.conv \in DOMAIN ConvMax
  <2>1. body.sys = UpTo(s, ConvMax[item.conv])
    BY <1>2 DEF expand_conv
  <2> QED
    BY <2>1, MoreKeeps DEF UpTo
<1>3. CASE item.conv # "s" /\ item.conv \notin DOMAIN ConvMax
  BY <1>3 DEF expand_conv, Keeps
<1> QED
  BY <1>1, <1>2, <1>3

(* The scan of a format: its states, and their sequence.                   *)
Systems(s) == [vars : Nat, cons : Seq(ConstraintOver(Nat)), queries : {s.queries}, pins : {<< >>}]

Scans(s) == {acc \in [sys : Systems(s), term : TermOver(Nat), next : Int] :
               Grew(acc.sys, s) /\ acc.term \in TermOver(Vars(acc.sys))}

LEMMA SystemIs ==
  ASSUME NEW s, Store(s), NEW t, Grew(t, s), Keeps(t, s)
  PROVE  t \in Systems(s)
<1>1. Store(t) /\ t.vars \in Nat /\ t.cons \in Seq(ConstraintOver(Vars(t))) /\ t.queries = s.queries
  BY DEF Grew, Store, Keeps
<1>2. t = [vars |-> t.vars, cons |-> t.cons, queries |-> t.queries, pins |-> << >>]
  BY DEF Keeps, Shape
<1>3. ConstraintOver(Vars(t)) \subseteq ConstraintOver(Nat)
  BY <1>1, NatTerms
<1>4. t.cons \in Seq(ConstraintOver(Nat))
  <2>1. PICK S, U, q : S = ConstraintOver(Vars(t)) /\ U = ConstraintOver(Nat) /\ q = t.cons /\ q \in Seq(S) /\ S \subseteq U
    BY <1>1, <1>3
  <2>2. q \in Seq(U)
    BY ONLY <2>1
  <2> QED
    BY <2>1, <2>2
<1> QED
  BY ONLY <1>1, <1>2, <1>4 DEF Systems

LEMMA ScanIs ==
  ASSUME NEW s, Store(s), NEW t, Grew(t, s), Keeps(t, s), NEW term \in TermOver(Vars(t)), NEW next \in Int,
         NEW acc, acc = [sys |-> t, term |-> term, next |-> next]
  PROVE  acc \in Scans(s)
<1>1. t \in Systems(s)
  BY SystemIs
<1>2. term \in TermOver(Nat)
  BY NatTerms DEF Grew
<1>3. acc.sys = t /\ acc.term = term
  OBVIOUS
<1> QED
  BY <1>1, <1>2, <1>3 DEF Scans

LEMMA ScanParts ==
  ASSUME NEW s, Store(s), NEW acc \in Scans(s)
  PROVE  /\ Grew(acc.sys, s) /\ Store(acc.sys) /\ Keeps(acc.sys, s) /\ acc.term \in TermOver(Vars(acc.sys))
         /\ acc.next \in Int /\ acc = [sys |-> acc.sys, term |-> acc.term, next |-> acc.next]
<1>1. acc \in [sys : Systems(s), term : TermOver(Nat), next : Int]
      /\ Grew(acc.sys, s) /\ acc.term \in TermOver(Vars(acc.sys))
  BY DEF Scans
<1>2. acc.sys \in Systems(s) /\ acc.next \in Int /\ acc = [sys |-> acc.sys, term |-> acc.term, next |-> acc.next]
  BY <1>1
<1>3. PICK t : t = acc.sys
  OBVIOUS
<1>4. t.queries = s.queries
  BY <1>2, <1>3 DEF Systems
<1>5. Store(t)
  BY <1>1, <1>3 DEF Grew
<1> QED
  BY <1>1, <1>2, <1>3, <1>4, <1>5 DEF Keeps, Store

LEMMA NextType ==
  ASSUME NEW item, NEW i \in Int
  PROVE  NextArg(item, i) \in Int /\ Place(item, i) \in Int
         /\ NextArg(item, i) = IF TakesArg(item.conv) THEN Place(item, i) + 1 ELSE Place(item, i)
<1>1. \A j \in Int : \A spec : After(j, spec) \in Int
  BY DEF After
<1>2. PICK j \in Int : j = Place(item, i)
  BY <1>1 DEF Place
<1>3. NextArg(item, i) = IF TakesArg(item.conv) THEN j + 1 ELSE j
  BY <1>2 DEF NextArg, Place
<1> QED
  BY <1>2, <1>3

LEMMA PercentTyped ==
  ASSUME NEW s, Walked(s), NEW es \in Seq(Texts \cup Ints), NEW acc \in Scans(s), NEW item \in Items,
         NEW new, new = expand_percent(acc, Contexts(es), item),
         NEW body, body = Body(acc.sys, es, item, acc.next)
  PROVE  /\ new \in Scans(s) /\ new.sys = body.sys /\ new.term = AddTerms(acc.term, body.term)
         /\ new.next = NextArg(item, acc.next) /\ Grew(new.sys, acc.sys)
<1>1. Store(s)
  BY DEF Walked
<1>2. PICK t, x, i : /\ t = acc.sys /\ x = acc.term /\ i = acc.next /\ i \in Int
                    /\ Grew(t, s) /\ Store(t) /\ Keeps(t, s) /\ x \in TermOver(Vars(t))
  BY <1>1, ScanParts
<1>3. Walked(t)
  BY <1>2, WalkedGrows
<1>4. ArgsOver(Contexts(es), t)
  BY <1>3, ContextsOver
<1>5. PICK width, prec, p : width = WidthOf(es, item, i) /\ prec = PrecOf(es, item, i) /\ p = Place(item, i)
  OBVIOUS
<1>6. item.width \in Int /\ item.prec \in Int
  BY EndpointFacts DEF Items, Width, Number, Absent, Star
<1>7. KnownOver(width, t)
  BY <1>4, <1>5, <1>6, ReadNum DEF WidthOf
<1>8. KnownOver(prec, t)
  BY <1>4, <1>5, <1>6, ReadNum DEF PrecOf
<1>9. body = expand_conv(t, item, Contexts(es), p, width, prec)
  BY <1>2, <1>5 DEF Body
<1>10. BodyOver(body, t)
  BY <1>2, <1>4, <1>7, <1>8, <1>9, BodyTyped
<1>11. Keeps(body.sys, t)
  BY <1>2, <1>7, <1>8, <1>9, BodyKeeps DEF KnownOver, Keeps
<1>12. new = [sys |-> body.sys, term |-> AddTerms(x, body.term), next |-> NextArg(item, i)]
  <2>1. new = Converted(acc, item, p, body)
    BY <1>2, <1>5, <1>9 DEF expand_percent, WidthOf, PrecOf, Place
  <2>2. NextArg(item, i) = IF TakesArg(item.conv) THEN p + 1 ELSE p
    BY <1>2, <1>5, NextType
  <2> QED
    BY <1>2, <2>1, <2>2 DEF Converted
<1>13. PICK u, y : u = body.sys /\ y = body.term /\ Grew(u, t) /\ y \in TermOver(Vars(u))
  BY <1>10 DEF BodyOver
<1>14. Grew(u, s) /\ Keeps(u, s) /\ x \in TermOver(Vars(u))
  BY <1>1, <1>2, <1>11, <1>13, GrewTrans, GrewTerms DEF Keeps
<1>15. PICK z \in TermOver(Vars(u)), j \in Int : z = AddTerms(x, y) /\ j = NextArg(item, i)
  <2>1. AddTerms(x, y) \in TermOver(Vars(u)) /\ NextArg(item, i) \in Int
    BY <1>2, <1>13, <1>14, AddTermsType, NextType
  <2> QED
    BY <2>1
<1>16. new = [sys |-> u, term |-> z, next |-> j]
  BY <1>12, <1>13, <1>15
<1>17. new \in Scans(s)
  BY <1>1, <1>14, <1>16, ScanIs
<1>18. new.sys = u /\ new.term = z /\ new.next = j
  BY ONLY <1>16
<1> QED
  BY <1>2, <1>13, <1>15, <1>17, <1>18

Foldable(n, T, base, G, R0) ==
  n \in Nat /\ base \in T /\ G \in [1 .. n -> [T -> T]] /\ FoldedBy(R0, n, T, base, G)

Traced(n, T, base, G, R0) == \E f : Traces(f, n, T, base, G) /\ f[n] = R0[1 .. n]

LEMMA FoldTraced ==
  ASSUME NEW n, NEW T, NEW base, NEW G, NEW R0, Foldable(n, T, base, G, R0)
  PROVE  Traced(n, T, base, G, R0)
<1>1. PICK m \in Nat, b \in T, H \in [1 .. n -> [T -> T]] : m = n /\ b = base /\ H = G /\ FoldedBy(R0, m, T, b, H)
  BY DEF Foldable
<1>2. \E f : Traces(f, m, T, b, H) /\ f[m] = R0[1 .. m]
  BY <1>1, FoldTrace
<1> QED
  BY <1>1, <1>2 DEF Traced

Begins(s) == [sys |-> s, term |-> One, next |-> 1]

Percents(f, s, es, fmt) ==
  /\ f \in [0 .. Len(fmt) -> Scans(s)]
  /\ f[0] = Begins(s) /\ f[Len(fmt)] = parse_fmt(s, fmt, Contexts(es))
  /\ \A k \in 0 .. Len(fmt) - 1 : f[k + 1] = expand_percent(f[k], Contexts(es), fmt[k + 1])

LEMMA FormatSteps ==
  ASSUME NEW s, Walked(s), NEW es \in Seq(Texts \cup Ints), NEW fmt \in Seq(Items)
  PROVE  \E f : Percents(f, s, es, fmt)
<1>1. PICK n \in Nat : n = Len(fmt) /\ DOMAIN fmt = 1 .. n /\ \A i \in 1 .. n : fmt[i] \in Items
  OBVIOUS
<1>2. PICK args, base : args = Contexts(es) /\ base = Begins(s)
  OBVIOUS
<1> DEFINE T == Scans(s)
           op(acc, item) == expand_percent(acc, args, item)
           G == [i \in 1 .. n |-> [acc \in T |-> op(acc, fmt[i])]]
<1>3. \A acc \in T, item \in Items : op(acc, item) \in T
  BY <1>2, PercentTyped
<1>4. base \in T
  <2>1. Store(s)
    BY DEF Walked
  <2>2. Grew(s, s) /\ Keeps(s, s) /\ One \in TermOver(Vars(s)) /\ 1 \in Int
    BY <2>1, GrewSelf, PlainTypes DEF Keeps, Store, One
  <2> QED
    BY <1>2, <2>1, <2>2, ScanIs DEF Begins
<1> HIDE DEF T
<1>5. G \in [1 .. n -> [T -> T]] /\ \A i \in 1 .. n : \A acc \in T : G[i][acc] = op(acc, fmt[i])
  BY <1>1, <1>3
<1> HIDE DEF G
<1>6. PICK it : Folds(it, n, base, G) /\ it \in [SUBSET (1 .. n) -> T]
  BY <1>4, <1>5, FoldExists
<1> DEFINE rec(R) == [S \in SUBSET (1 .. n) |-> IF S = {} THEN base ELSE op(R[S \ {Max(S)}], fmt[Max(S)])]
           R0 == CHOOSE R : R = rec(R)
<1>7. parse_fmt(s, fmt, args) = R0[1 .. n]
  BY <1>1, <1>2 DEF parse_fmt, FoldLeft, MapThenFoldSet, Begins
<1> HIDE DEF op
<1>8. \A S \in SUBSET (1 .. n) : S # {} => Max(S) \in 1 .. n /\ S \ {Max(S)} \in SUBSET (1 .. n)
  BY MaxExists
<1>9. it = rec(it)
  <2>1. \A S \in SUBSET (1 .. n) : S # {} => G[Max(S)][it[S \ {Max(S)}]] = op(it[S \ {Max(S)}], fmt[Max(S)])
    BY <1>5, <1>6, <1>8
  <2> QED
    BY <1>6, <2>1 DEF Folds
<1>10. R0 = rec(R0)
  BY <1>9
<1> HIDE DEF R0
<1>11. R0[{}] = base
  BY <1>10
<1>12. \A S \in SUBSET (1 .. n) : S # {} /\ R0[S \ {Max(S)}] \in T => R0[S] = G[Max(S)][R0[S \ {Max(S)}]]
  BY <1>5, <1>8, <1>10
<1>13. FoldedBy(R0, n, T, base, G)
  BY <1>11, <1>12 DEF FoldedBy
<1>14. PICK f : Traces(f, n, T, base, G) /\ f[n] = R0[1 .. n]
  <2>1. Foldable(n, T, base, G, R0)
    BY <1>4, <1>5, <1>13 DEF Foldable
  <2>2. Traced(n, T, base, G, R0)
    BY ONLY <2>1, FoldTraced
  <2> QED
    BY ONLY <2>2 DEF Traced
<1>15. f \in [0 .. n -> T] /\ f[0] = base /\ \A k \in 0 .. n - 1 : f[k + 1] = G[k + 1][f[k]]
  BY <1>14 DEF Traces
<1>16. \A k \in 0 .. n - 1 : f[k + 1] = op(f[k], fmt[k + 1])
  <2> SUFFICES ASSUME NEW k \in 0 .. n - 1
               PROVE  f[k + 1] = op(f[k], fmt[k + 1])
    OBVIOUS
  <2>1. k + 1 \in 1 .. n /\ k \in 0 .. n
    OBVIOUS
  <2> QED
    BY <1>5, <1>15, <2>1
<1> QED
  BY <1>1, <1>2, <1>7, <1>14, <1>15, <1>16 DEF T, Percents, op

(* The output of the C library, item by item.                              *)
Counts(g, fmt, amounts, long) ==
  /\ g \in [0 .. Len(fmt) -> [next : Int, bytes : Int]]
  /\ g[0] = [next |-> 1, bytes |-> 1] /\ Output(fmt, amounts, long) = g[Len(fmt)].bytes
  /\ \A k \in 0 .. Len(fmt) - 1 :
       g[k + 1] = [next  |-> NextArg(fmt[k + 1], g[k].next),
                   bytes |-> g[k].bytes + Padded(amounts, fmt[k + 1], g[k].next, long)]

LEMMA PaddedType ==
  ASSUME NEW n \in Nat, NEW amounts \in [1 .. n -> Nat], NEW item \in Items, NEW i, NEW long \in BOOLEAN
  PROVE  Padded(amounts, item, i, long) \in Int
<1>1. \A j : AmountAt(amounts, j) \in Nat
  BY DEF AmountAt
<1>2. item.width \in Int /\ item.prec \in Int
  BY EndpointFacts DEF Items, Width, Number, Absent, Star
<1>3. \A j : NumberOf(amounts, j, item.width) \in Int /\ NumberOf(amounts, j, item.prec) \in Int
  BY <1>1, <1>2 DEF NumberOf
<1>4. \A j, p : p \in Int => Printed(amounts, item, j, p, long) \in Int
  <2> SUFFICES ASSUME NEW j, NEW p \in Int
               PROVE  Printed(amounts, item, j, p, long) \in Int
    OBVIOUS
  <2>1. PICK a \in Nat : a = AmountAt(amounts, j)
    BY <1>1
  <2>2. \A c \in DOMAIN ConvMax : ConvMax[c] \in Int
    BY ObjectAssumption
  <2>3. Lesser(p, a - 1) \in Int /\ a - 1 \in Int
    BY DEF Lesser
  <2> QED
    BY <2>1, <2>2, <2>3 DEF Printed
<1>5. PICK w : w = After(i, item.width)
  OBVIOUS
<1>6. PICK x \in Int, y \in Int :
        /\ x = NumberOf(amounts, i, item.width)
        /\ y = Printed(amounts, item, After(w, item.prec), NumberOf(amounts, w, item.prec), long)
  BY <1>3, <1>4
<1>7. Padded(amounts, item, i, long) = Greater(x, y)
  BY <1>5, <1>6 DEF Padded
<1> QED
  BY <1>7 DEF Greater

LEMMA OutputSteps ==
  ASSUME NEW m \in Nat, NEW amounts \in [1 .. m -> Nat], NEW fmt \in Seq(Items), NEW long \in BOOLEAN
  PROVE  \E g : Counts(g, fmt, amounts, long)
<1>1. PICK n \in Nat : n = Len(fmt) /\ DOMAIN fmt = 1 .. n /\ \A i \in 1 .. n : fmt[i] \in Items
  OBVIOUS
<1>2. PICK base : base = [next |-> 1, bytes |-> 1]
  OBVIOUS
<1> DEFINE T == [next : Int, bytes : Int]
           op(acc, item) == [next  |-> NextArg(item, acc.next),
                             bytes |-> acc.bytes + Padded(amounts, item, acc.next, long)]
           G == [i \in 1 .. n |-> [acc \in T |-> op(acc, fmt[i])]]
<1>3. \A acc \in T, item \in Items : op(acc, item) \in T
  <2> SUFFICES ASSUME NEW acc \in T, NEW item \in Items
               PROVE  op(acc, item) \in T
    OBVIOUS
  <2>1. PICK i \in Int, b \in Int : i = acc.next /\ b = acc.bytes
    OBVIOUS
  <2>2. NextArg(item, i) \in Int /\ Padded(amounts, item, i, long) \in Int
    BY NextType, PaddedType
  <2>3. b + Padded(amounts, item, i, long) \in Int
    BY <2>2
  <2> QED
    BY <2>1, <2>2, <2>3
<1>4. base \in T
  BY <1>2
<1> HIDE DEF T
<1>5. G \in [1 .. n -> [T -> T]] /\ \A i \in 1 .. n : \A acc \in T : G[i][acc] = op(acc, fmt[i])
  BY <1>1, <1>3
<1> HIDE DEF G
<1>6. PICK it : Folds(it, n, base, G) /\ it \in [SUBSET (1 .. n) -> T]
  BY <1>4, <1>5, FoldExists
<1> DEFINE rec(R) == [S \in SUBSET (1 .. n) |-> IF S = {} THEN base ELSE op(R[S \ {Max(S)}], fmt[Max(S)])]
           R0 == CHOOSE R : R = rec(R)
<1>7. Output(fmt, amounts, long) = R0[1 .. n].bytes
  BY <1>1, <1>2 DEF Output, FoldLeft, MapThenFoldSet
<1> HIDE DEF op
<1>8. \A S \in SUBSET (1 .. n) : S # {} => Max(S) \in 1 .. n /\ S \ {Max(S)} \in SUBSET (1 .. n)
  BY MaxExists
<1>9. it = rec(it)
  <2>1. \A S \in SUBSET (1 .. n) : S # {} => G[Max(S)][it[S \ {Max(S)}]] = op(it[S \ {Max(S)}], fmt[Max(S)])
    BY <1>5, <1>6, <1>8
  <2> QED
    BY <1>6, <2>1 DEF Folds
<1>10. R0 = rec(R0)
  BY <1>9
<1> HIDE DEF R0
<1>11. R0[{}] = base
  BY <1>10
<1>12. \A S \in SUBSET (1 .. n) : S # {} /\ R0[S \ {Max(S)}] \in T => R0[S] = G[Max(S)][R0[S \ {Max(S)}]]
  BY <1>5, <1>8, <1>10
<1>13. FoldedBy(R0, n, T, base, G)
  BY <1>11, <1>12 DEF FoldedBy
<1>14. PICK f : Traces(f, n, T, base, G) /\ f[n] = R0[1 .. n]
  <2>1. Foldable(n, T, base, G, R0)
    BY <1>4, <1>5, <1>13 DEF Foldable
  <2>2. Traced(n, T, base, G, R0)
    BY ONLY <2>1, FoldTraced
  <2> QED
    BY ONLY <2>2 DEF Traced
<1>15. f \in [0 .. n -> T] /\ f[0] = base /\ \A k \in 0 .. n - 1 : f[k + 1] = G[k + 1][f[k]]
  BY <1>14 DEF Traces
<1>16. \A k \in 0 .. n - 1 : f[k + 1] = op(f[k], fmt[k + 1])
  <2> SUFFICES ASSUME NEW k \in 0 .. n - 1
               PROVE  f[k + 1] = op(f[k], fmt[k + 1])
    OBVIOUS
  <2>1. k + 1 \in 1 .. n /\ k \in 0 .. n
    OBVIOUS
  <2> QED
    BY <1>5, <1>15, <2>1
<1> QED
  <2>1. f \in [0 .. Len(fmt) -> [next : Int, bytes : Int]]
    BY <1>1, <1>15 DEF T
  <2>2. f[0] = [next |-> 1, bytes |-> 1] /\ Output(fmt, amounts, long) = f[Len(fmt)].bytes
    BY <1>1, <1>2, <1>7, <1>14, <1>15
  <2>3. \A k \in 0 .. n - 1 :
          f[k + 1] = [next  |-> NextArg(fmt[k + 1], f[k].next),
                      bytes |-> f[k].bytes + Padded(amounts, fmt[k + 1], f[k].next, long)]
    BY <1>16 DEF op
  <2>4. Counts(f, fmt, amounts, long)
    BY ONLY <1>1, <2>1, <2>2, <2>3 DEF Counts
  <2> QED
    BY <2>4

LEMMA FormatTyped ==
  ASSUME NEW s, Walked(s), NEW es \in Seq(Texts \cup Ints), NEW fmt \in Seq(Items),
         NEW parsed, parsed = parse_fmt(s, fmt, Contexts(es))
  PROVE  Grew(parsed.sys, s) /\ parsed.term \in TermOver(Vars(parsed.sys))
<1>1. PICK f : Percents(f, s, es, fmt)
  BY FormatSteps
<1>2. parsed \in Scans(s)
  <2>1. Len(fmt) \in 0 .. Len(fmt)
    OBVIOUS
  <2> QED
    BY <1>1, <2>1 DEF Percents
<1>3. Store(s)
  BY DEF Walked
<1> QED
  BY <1>2, <1>3, ScanParts

(* Every state of the scan is satisfied by what satisfies the last one.    *)
LEMMA ScanSatisfied ==
  ASSUME NEW s, Walked(s), NEW es \in Seq(Texts \cup Ints), NEW fmt \in Seq(Items),
         NEW f, Percents(f, s, es, fmt), NEW r, Sat(r, f[Len(fmt)].sys), NEW k \in 0 .. Len(fmt)
  PROVE  Sat(r, f[k].sys)
<1>1. PICK n \in Nat : n = Len(fmt) /\ \A i \in 1 .. n : fmt[i] \in Items
  OBVIOUS
<1>2. ASSUME NEW i \in 0 .. n - 1, Sat(r, f[i + 1].sys)
      PROVE  Sat(r, f[i].sys)
  <2>1. i \in 0 .. n /\ i + 1 \in 1 .. n
    OBVIOUS
  <2>2. PICK acc \in Scans(s), item \in Items : acc = f[i] /\ item = fmt[i + 1]
    BY <1>1, <2>1 DEF Percents
  <2>3. f[i + 1] = expand_percent(acc, Contexts(es), item)
    BY <1>1, <2>2 DEF Percents
  <2>4. Grew(f[i + 1].sys, acc.sys)
    BY <2>3, PercentTyped
  <2> QED
    BY <1>2, <2>2, <2>4, GrewSat
<1> DEFINE Good == {i \in Nat : i <= n => Sat(r, f[n - i].sys)}
<1>3. 0 \in Good
  <2>1. n - 0 = n
    OBVIOUS
  <2> QED
    BY <1>1, <2>1
<1>4. \A i \in Nat : i \in Good => i + 1 \in Good
  <2> SUFFICES ASSUME NEW i \in Nat, i \in Good, i + 1 <= n
               PROVE  Sat(r, f[n - (i + 1)].sys)
    OBVIOUS
  <2>1. PICK j \in 0 .. n - 1 : j = n - (i + 1) /\ j + 1 = n - i /\ i <= n
    OBVIOUS
  <2> QED
    BY <1>2, <2>1
<1>5. Nat \subseteq Good
  <2> HIDE DEF Good
  <2> QED
    BY <1>3, <1>4, SetInduction
<1>6. PICK i \in Nat : i = n - k /\ i <= n /\ n - i = k
  <2>1. n - k \in Nat /\ n - k <= n /\ n - (n - k) = k
    BY <1>1
  <2> QED
    BY <2>1
<1> QED
  BY <1>5, <1>6

Fits(fmt, es, at) ==
  /\ at \in [1 .. Len(fmt) + 1 -> 1 .. Len(es) + 1]
  /\ at[1] = 1
  /\ \A j \in DOMAIN fmt : ItemReads(fmt[j], es, at[j]) /\ at[j + 1] = NextArg(fmt[j], at[j])

LEMMA FormatHolds ==
  ASSUME NEW s, Walked(s), NEW es \in Seq(Texts \cup Ints), NEW fmt \in Seq(Items), NEW at, Fits(fmt, es, at),
         NEW parsed, parsed = parse_fmt(s, fmt, Contexts(es)), NEW r \in [Nat -> Interval], Sat(r, parsed.sys),
         NEW u, NEW amounts, NEW most \in Nat, Ready(es, r, u, amounts, most),
         most * Len(fmt) < INF, LowFor(Len(fmt), RangesOf(r)), NEW long \in BOOLEAN
  PROVE  Holds(parsed.term, r, Output(fmt, amounts, long))
<1>1. PICK n \in Nat : n = Len(fmt) /\ DOMAIN fmt = 1 .. n /\ \A i \in 1 .. n : fmt[i] \in Items
  OBVIOUS
<1>2. PICK f : Percents(f, s, es, fmt)
  BY FormatSteps
<1>3. amounts \in [1 .. Len(es) -> Nat] /\ Len(es) \in Nat /\ u \in [Strings -> Nat]
  BY DEF Ready
<1>4. PICK g : Counts(g, fmt, amounts, long)
  BY <1>3, OutputSteps
<1>5. /\ f \in [0 .. n -> Scans(s)] /\ f[0] = Begins(s) /\ f[n] = parsed
      /\ \A k \in 0 .. n - 1 : f[k + 1] = expand_percent(f[k], Contexts(es), fmt[k + 1])
  BY <1>1, <1>2 DEF Percents
<1>6. /\ g \in [0 .. n -> [next : Int, bytes : Int]] /\ g[0] = [next |-> 1, bytes |-> 1]
      /\ Output(fmt, amounts, long) = g[n].bytes
      /\ \A k \in 0 .. n - 1 : g[k + 1] = [next  |-> NextArg(fmt[k + 1], g[k].next),
                                           bytes |-> g[k].bytes + Padded(amounts, fmt[k + 1], g[k].next, long)]
  BY <1>1, <1>4 DEF Counts
<1>7. Store(s)
  BY DEF Walked
<1>8. \A k \in 0 .. n : Sat(r, f[k].sys)
  BY <1>1, <1>2, <1>5, ScanSatisfied
<1> DEFINE Inv(k) == /\ f[k].next = at[k + 1] /\ g[k].next = at[k + 1]
                     /\ Adding(f[k].term, r, u, k, most, g[k].bytes)
           Good == {k \in Nat : k <= n => Inv(k)}
<1>9. 0 \in Good
  <2>1. f[0].next = 1 /\ f[0].term = One /\ g[0].next = 1 /\ g[0].bytes = 1
    BY <1>5, <1>6 DEF Begins
  <2>2. at[1] = 1 /\ 0 + 1 = 1
    BY DEF Fits
  <2>3. Adding(One, r, u, 0, most, 1)
    BY <1>3, AddingStart
  <2> QED
    BY <2>1, <2>2, <2>3
<1>10. ASSUME NEW k \in 0 .. n - 1, Inv(k)
       PROVE  Inv(k + 1)
  <2>1. k \in 0 .. n - 1 /\ k \in 0 .. n /\ k + 1 \in 1 .. n /\ k + 1 \in 0 .. n /\ k <= n /\ k \in Nat
    OBVIOUS
  <2>2. Inv(k)
    BY <1>10
  <2>3a. PICK acc \in Scans(s), item \in Items : \E i :
        acc = f[k] /\ item = fmt[k + 1] /\ i = at[k + 1]
    BY <1>1, <1>5, <2>1
  <2>3. PICK i :
        acc = f[k] /\ item = fmt[k + 1] /\ i = at[k + 1]
    BY <2>3a
  <2>4a. PICK bytes \in Int : \E new :
        bytes = g[k].bytes /\ new = f[k + 1]
    BY <1>6, <2>1
  <2>4. PICK new :
        bytes = g[k].bytes /\ new = f[k + 1]
    BY <2>4a
  <2>5. acc.next = i /\ g[k].next = i /\ Adding(acc.term, r, u, k, most, bytes)
    BY ONLY <2>2, <2>3, <2>4
  <2>6. /\ new = expand_percent(acc, Contexts(es), item)
        /\ g[k + 1].next = NextArg(item, i) /\ g[k + 1].bytes = bytes + Padded(amounts, item, i, long)
    <3>1. f[k + 1] = expand_percent(f[k], Contexts(es), fmt[k + 1])
      BY <1>5
    <3>2. new = expand_percent(acc, Contexts(es), item)
      BY ONLY <2>3, <2>4, <3>1
    <3>3. g[k + 1] = [next  |-> NextArg(fmt[k + 1], g[k].next),
                      bytes |-> g[k].bytes + Padded(amounts, fmt[k + 1], g[k].next, long)]
      BY <1>6
    <3>4. /\ g[k + 1].next = NextArg(fmt[k + 1], g[k].next)
          /\ g[k + 1].bytes = g[k].bytes + Padded(amounts, fmt[k + 1], g[k].next, long)
      BY ONLY <3>3
    <3>5. /\ g[k + 1].next = NextArg(item, i) /\ g[k + 1].bytes = bytes + Padded(amounts, item, i, long)
      BY ONLY <2>3, <2>4, <2>5, <3>4
    <3> QED
      BY <3>2, <3>5
  <2>7. ItemReads(item, es, i) /\ at[k + 1 + 1] = NextArg(item, i)
    BY <1>1, <2>1, <2>3 DEF Fits
  <2>8. PICK body : body = Body(acc.sys, es, item, i)
    OBVIOUS
  <2>9. /\ new.sys = body.sys /\ new.term = AddTerms(acc.term, body.term) /\ new.next = NextArg(item, i)
    <3>1. body = Body(acc.sys, es, item, acc.next) /\ acc \in Scans(s) /\ item \in Items
      BY <2>5, <2>8
    <3>2. new = expand_percent(acc, Contexts(es), item)
      BY <2>6
    <3>3. new.sys = body.sys /\ new.term = AddTerms(acc.term, body.term) /\ new.next = NextArg(item, acc.next)
      BY <3>1, <3>2, PercentTyped
    <3> QED
      BY ONLY <2>5, <3>3
  <2>10. PICK t, x : /\ t = acc.sys /\ x = acc.term /\ x \in TermOver(Vars(t)) /\ Walked(t)
    BY <1>7, ScanParts, WalkedGrows
  <2>11. Sat(r, body.sys)
    BY <1>8, <2>1, <2>4, <2>9
  <2>12. PICK b \in Int : b = Padded(amounts, item, i, long)
    BY <1>3, PaddedType
  <2>13. Piece(body.term, t, r, u, b, most)
    <3>1. body = Body(t, es, item, i)
      BY <2>8, <2>10
    <3> QED
      BY <2>7, <2>10, <2>11, <2>12, <3>1, ItemPiece
  <2>14. Adding(new.term, r, u, k + 1, most, bytes + b)
    <3>1. PICK y, z : y = body.term /\ z = new.term /\ z = AddTerms(x, y)
      BY <2>9, <2>10
    <3>2. Piece(y, t, r, u, b, most) /\ Adding(x, r, u, k, most, bytes)
      BY <2>5, <2>10, <2>13, <3>1
    <3>3. PICK j \in Nat, d \in Int, c \in Int : j = k /\ d = bytes /\ c = b
      BY <2>1
    <3>4. x \in TermOver(Vars(t)) /\ Walked(t) /\ r \in [Nat -> Interval] /\ most \in Nat
      BY <2>10
    <3>5. Piece(y, t, r, u, c, most) /\ Adding(x, r, u, j, most, d)
      BY ONLY <3>2, <3>3
    <3>6. z = AddTerms(x, y)
      BY ONLY <3>1
    <3>7. Adding(z, r, u, j + 1, most, d + c)
      BY ONLY <3>4, <3>5, <3>6, j \in Nat, d \in Int, c \in Int, AddingStep
    <3> QED
      BY ONLY <3>1, <3>3, <3>7
  <2> QED
    BY <2>4, <2>6, <2>7, <2>9, <2>12, <2>14
<1>11. Inv(n)
  <2>1. Nat \subseteq Good
    <3>1. \A k \in Nat : k \in Good => k + 1 \in Good
      <4> HIDE DEF Inv
      <4> SUFFICES ASSUME NEW k \in Nat, k \in Good
                   PROVE  k + 1 <= n => Inv(k + 1)
        OBVIOUS
      <4> QED
        BY <1>10
    <3> HIDE DEF Good
    <3> QED
      BY <1>9, <3>1, SetInduction
  <2> QED
    BY <2>1
<1>12. Adding(parsed.term, r, u, n, most, Output(fmt, amounts, long))
  BY <1>5, <1>6, <1>11
<1>13. parsed.term \in TermOver(Nat)
  <2>1. Grew(parsed.sys, s) /\ parsed.term \in TermOver(Vars(parsed.sys))
    BY FormatTyped
  <2> QED
    BY <2>1, NatTerms DEF Grew
<1>14. LowFor(n, RangesOf(r)) /\ most * n < INF
  BY <1>1
<1> QED
  BY <1>12, <1>13, <1>14, AddingHolds

-----------------------------------------------------------------------------
(* The calls of the printf family.                                         *)

(* The arguments from the k-th on, without it. *)
Drops(es, args, k) ==
  /\ es \in Seq(Texts \cup Ints) /\ Len(es) = Len(args) - k
  /\ \A i \in 1 .. Len(es) : i + k \in DOMAIN args /\ es[i] = args[i + k]

LEMMA Dropped ==
  ASSUME NEW args \in Seq(Texts \cup Ints), NEW k \in Nat, k <= Len(args), NEW es, es = SubSeq(args, k + 1, Len(args))
  PROVE  Drops(es, args, k)
<1>1. es \in Seq(Texts \cup Ints)
  OBVIOUS
<1>2. Len(es) = Len(args) - k
  OBVIOUS
<1>3. \A i \in 1 .. Len(es) : i + k \in DOMAIN args /\ es[i] = args[i + k]
  OBVIOUS
<1> QED
  BY <1>1, <1>2, <1>3 DEF Drops

LEMMA TailsDrop ==
  ASSUME NEW args \in Seq(Texts \cup Ints)
  PROVE  /\ args # << >> => Tail(args) = SubSeq(args, 1 + 1, Len(args)) /\ Drops(Tail(args), args, 1)
         /\ Len(args) > 1 => Tail(Tail(args)) = SubSeq(args, 2 + 1, Len(args)) /\ Drops(Tail(Tail(args)), args, 2)
<1>1. args # << >> => Tail(args) = SubSeq(args, 1 + 1, Len(args)) /\ 1 <= Len(args)
  OBVIOUS
<1>2. Len(args) > 1 => Tail(Tail(args)) = SubSeq(args, 2 + 1, Len(args)) /\ 2 <= Len(args)
  OBVIOUS
<1> QED
  BY <1>1, <1>2, Dropped

LEMMA RestIs ==
  ASSUME NEW c \in Calls, NEW k \in Nat, NEW es, Drops(es, c.args, k)
  PROVE  Rest(c, k) = Contexts(es)
BY DEF Drops, Rest, Contexts, Arg

(* The format prints what it may print.                                    *)
LEMMA PrintHolds ==
  ASSUME NEW c \in Calls, FewSkipped(c), NEW k \in Nat, NEW es, Drops(es, c.args, k),
         c.fmt # Unparsed, FormatFits(c.fmt, es), Modelled(c), NEW s, Walked(s),
         NEW parsed, parsed = parse_fmt(s, c.fmt, Contexts(es)), NEW r \in [Nat -> Interval], Sat(r, parsed.sys),
         Calm(RangesOf(r), Len(c.fmt)), NEW w, MayPrint(c.fmt, es, RangesOf(r), w)
  PROVE  Holds(parsed.term, r, w)
<1>1. PICK fmt \in Seq(Items) : fmt = c.fmt
  BY DEF Calls
<1>2. es \in Seq(Texts \cup Ints) /\ \A i \in 1 .. Len(es) : i + k \in DOMAIN c.args /\ es[i] = c.args[i + k]
  BY DEF Drops
<1>3. PICK at : Fits(fmt, es, at)
  <2>1. PICK f \in [1 .. Len(fmt) + 1 -> 1 .. Len(es) + 1] :
          /\ f[1] = 1
          /\ \A j \in DOMAIN fmt : /\ fmt[j].conv # "?"
                                   /\ ItemFits(fmt[j], es, f[j])
                                   /\ f[j + 1] = NextArg(fmt[j], f[j])
    BY <1>1 DEF FormatFits
  <2>2. \A j \in DOMAIN fmt : fmt[j] \in Items /\ (fmt[j].conv # "s" => fmt[j].width = Absent)
    BY <1>1 DEF Modelled
  <2>3. Fits(fmt, es, f)
    BY <2>1, <2>2 DEF Fits, ItemReads
  <2> QED
    BY <2>3
<1>4. PICK most \in 1 .. INF - 1 : /\ most * Len(fmt) < INF
                                   /\ \A j \in DOMAIN c.args : c.args[j].expr = "ref" => c.args[j].n < most
  BY <1>1 DEF FewSkipped
<1>5. most \in Nat /\ INF > 1
  BY <1>4, EndpointFacts
<1>6. PICK u \in [Strings -> Nat], amounts \in [1 .. Len(es) -> Nat], long \in BOOLEAN :
        /\ w = Output(fmt, amounts, long)
        /\ \A i \in 1 .. Len(es) : MayAmount(es[i], RangesOf(r), u, amounts[i])
  BY <1>1 DEF MayPrint
<1>7. Ready(es, r, u, amounts, most)
  <2>1. \A i \in 1 .. Len(es) : Skips(es[i]) /\ (es[i].expr = "ref" => es[i].n < most)
    BY <1>2, <1>4, ArgsSkip
  <2>2. Tame(RangesOf(r)) /\ Sized(RangesOf(r))
    BY DEF Calm
  <2> QED
    BY <1>2, <1>5, <1>6, <2>1, <2>2 DEF Ready
<1>8. LowFor(Len(fmt), RangesOf(r)) /\ parsed = parse_fmt(s, fmt, Contexts(es))
  BY <1>1 DEF Calm
<1>9. Holds(parsed.term, r, Output(fmt, amounts, long))
  BY <1>2, <1>3, <1>4, <1>5, <1>6, <1>7, <1>8, FormatHolds
<1> QED
  BY <1>6, <1>9

LEMMA SprintfTaken ==
  ASSUME NEW c \in Calls, WellTyped(c), FewSkipped(c), Walked(sys), Sprintf(c)
  PROVE  Taken(c)
<1>1. c.call = "sprintf" /\ c.to = Nobody /\ c.args # << >> /\ c.args[1] \in Targets /\ FormatFits(c.fmt, Tail(c.args))
  BY DEF WellTyped, Sprintf
<1>2a. PICK args \in Seq(Texts \cup Ints) : \E es :
      args = c.args /\ es = Tail(args)
  BY DEF Calls
<1>2. PICK es :
      args = c.args /\ es = Tail(args)
  BY <1>2a
<1>3. Drops(es, c.args, 1) /\ es \in Seq(Texts \cup Ints)
  BY <1>1, <1>2, TailsDrop DEF Drops
<1>4. PICK parsed : parsed = parse_fmt(sys, c.fmt, Contexts(es))
  OBVIOUS
<1>5. sys' = IF c.fmt = Unparsed THEN force_len_top(sys, Arg(c, 1).len)
             ELSE AddSubset(parsed.sys, parsed.term, Arg(c, 1).len)
  <2>1. Rest(c, 1) = Contexts(es)
    BY <1>3, RestIs
  <2>2. Result(c, IF c.fmt = Unparsed THEN force_len_top(sys, Arg(c, 1).len)
                  ELSE AddSubset(parsed.sys, parsed.term, Arg(c, 1).len), Arg(c, 1))
    BY <1>4, <2>1 DEF Sprintf
  <2> QED
    BY <1>1, <2>2, ResultIs
<1>6. CASE c.fmt = Unparsed
  <2>1. /\ Grew(sys', sys)
        /\ \A r \in [Nat -> Interval], w \in Pos : Sat(r, sys') => Reaches(c, RangesOf(r), w)
    BY <1>1, <1>5, <1>6, AnyLength
  <2> QED
    BY <1>1, <1>6, <2>1 DEF Taken, Sends
<1>7. CASE c.fmt # Unparsed
  <2>1. Grew(parsed.sys, sys) /\ parsed.term \in TermOver(Vars(parsed.sys)) /\ c.fmt \in Seq(Items)
    <3>1. c.fmt \in Seq(Items)
      BY DEF Calls
    <3> QED
      BY <1>3, <1>4, <3>1, FormatTyped
  <2>2. PICK t, term : t = parsed.sys /\ term = parsed.term
    OBVIOUS
  <2>3. Walked(t) /\ Store(t) /\ Grew(t, sys) /\ Store(sys) /\ term \in TermOver(Vars(t))
    BY <2>1, <2>2, WalkedGrows DEF Walked
  <2>4. PICK v \in Vars(t), k \in Nat : v = LenVar(Dst(c)) /\ k = At(c) /\ Dst(c) \in Strings /\ Arg(c, 1).len = Plain(v, -k)
    BY <1>1, <2>3, TargetForm DEF Arg, Dst, At
  <2>5. sys' = AddSubset(t, term, Plain(v, -k))
    BY <1>5, <1>7, <2>2, <2>4
  <2>6. /\ Grew(sys', t)
        /\ \A r \in [Nat -> Interval], x \in Int : Sat(r, sys') /\ Holds(term, r, x) => In(x + k, r[v])
    BY <2>3, <2>5, SubsetSends
  <2>7. Grew(sys', sys)
    BY <2>3, <2>6, GrewTrans
  <2>8. ASSUME NEW r \in [Nat -> Interval], Sat(r, sys'), Modelled(c), Calm(RangesOf(r), Len(c.fmt)),
               NEW w \in Pos, MayPrint(c.fmt, es, RangesOf(r), w)
        PROVE  Reaches(c, RangesOf(r), w)
    <3>1. Sat(r, parsed.sys) /\ w \in Int
      BY <2>2, <2>6, <2>8, GrewSat DEF Pos
    <3>2. FormatFits(c.fmt, es) /\ 1 \in Nat
      BY <1>1, <1>2
    <3>3. Holds(parsed.term, r, w)
      BY <1>3, <1>4, <1>7, <2>8, <3>1, <3>2, PrintHolds
    <3>4. In(w + k, r[v]) /\ w + k = k + w /\ k + w \in Int
      <4>1. In(w + k, r[v])
        BY <2>2, <2>6, <2>8, <3>1, <3>3
      <4> QED
        BY <3>1, <4>1
    <3> QED
      BY <2>4, <3>4, InLen DEF Reaches
  <2> QED
    BY <1>1, <1>2, <1>7, <2>7, <2>8 DEF Taken, Sends
<1> QED
  BY <1>6, <1>7

LEMMA SnprintfTaken ==
  ASSUME NEW c \in Calls, WellTyped(c), FewSkipped(c), Walked(sys), Snprintf(c)
  PROVE  Taken(c)
<1>1. /\ c.call = "snprintf" /\ c.to = Nobody /\ Len(c.args) > 1 /\ c.args[1] \in Targets /\ c.args[2] \in Ints
      /\ FormatFits(c.fmt, Tail(Tail(c.args)))
  BY DEF WellTyped, Snprintf
<1>2a. PICK args \in Seq(Texts \cup Ints) : \E es :
      args = c.args /\ es = Tail(Tail(args))
  BY DEF Calls
<1>2. PICK es :
      args = c.args /\ es = Tail(Tail(args))
  BY <1>2a
<1>3. Drops(es, c.args, 2) /\ es \in Seq(Texts \cup Ints)
  BY <1>1, <1>2, TailsDrop DEF Drops
<1>4. PICK parsed, bound, out :
        parsed = parse_fmt(sys, c.fmt, Contexts(es)) /\ bound = Arg(c, 2) /\ out = Bounded(parsed, bound)
  OBVIOUS
<1>5. sys' = IF c.fmt = Unparsed THEN sys ELSE AddSubset(out.sys, out.term, Arg(c, 1).len)
  <2>1. Rest(c, 2) = Contexts(es)
    BY <1>3, RestIs
  <2>2. IF c.fmt = Unparsed THEN Result(c, sys, NoneCtx)
        ELSE Result(c, AddSubset(out.sys, out.term, Arg(c, 1).len), Arg(c, 1))
    BY <1>4, <2>1 DEF Snprintf
  <2> QED
    BY <1>1, <2>2, ResultIs
<1>6. CASE c.fmt = Unparsed
  <2>1. Grew(sys', sys) /\ ~Modelled(c)
    BY <1>1, <1>5, <1>6, GrewSelf DEF Walked, Modelled
  <2> QED
    BY <2>1 DEF Taken
<1>7. CASE c.fmt # Unparsed
  <2>1. Grew(parsed.sys, sys) /\ parsed.term \in TermOver(Vars(parsed.sys)) /\ c.fmt \in Seq(Items)
    <3>1. c.fmt \in Seq(Items)
      BY DEF Calls
    <3> QED
      BY <1>3, <1>4, <3>1, FormatTyped
  <2>2. PICK s, text : s = parsed.sys /\ text = parsed.term
    OBVIOUS
  <2>3. Walked(s) /\ Store(s) /\ Grew(s, sys) /\ Store(sys) /\ text \in TermOver(Vars(s))
    BY <2>1, <2>2, WalkedGrows DEF Walked
  <2>4. bound.kind = "int" /\ bound.val \in TermOver(Vars(s))
    BY <1>1, <1>4, <2>3, IntHolds DEF Arg
  <2>5. PICK t : t = AddMin(s, text, bound.val) /\ out.sys = t /\ out.term = NewTerm(s)
    BY <1>4, <2>2, <2>4 DEF Bounded
  <2>6. /\ Grew(t, s) /\ s.vars \in Vars(t)
        /\ NewTerm(s) = Plain(s.vars, 0) /\ NewTerm(s) \in TermOver(Vars(t))
        /\ \A r \in [Nat -> Interval] : \A a, b \in Int :
             Sat(r, t) /\ In(a, EvalTerm(text, r)) /\ In(b, EvalTerm(bound.val, r)) => In(Lesser(a, b), r[s.vars])
    BY <2>3, <2>4, <2>5, MinAdded
  <2>7. Walked(t) /\ Store(t)
    BY <2>3, <2>6, WalkedGrows DEF Walked
  <2>8. PICK v \in Vars(t), k \in Nat : v = LenVar(Dst(c)) /\ k = At(c) /\ Dst(c) \in Strings /\ Arg(c, 1).len = Plain(v, -k)
    BY <1>1, <2>7, TargetForm DEF Arg, Dst, At
  <2>9. sys' = AddSubset(t, NewTerm(s), Plain(v, -k))
    BY <1>5, <1>7, <2>5, <2>8
  <2>10. /\ Grew(sys', t)
         /\ \A r \in [Nat -> Interval], x \in Int : Sat(r, sys') /\ Holds(NewTerm(s), r, x) => In(x + k, r[v])
    BY <2>6, <2>7, <2>9, SubsetSends
  <2>11. Grew(sys', sys)
    BY <2>3, <2>6, <2>10, GrewTrans
  <2>12. ASSUME NEW r \in [Nat -> Interval], Sat(r, sys'), Modelled(c), Calm(RangesOf(r), Len(c.fmt)),
                NEW w \in Pos, MayPrint(c.fmt, es, RangesOf(r), w), NEW n \in Nat, MayInt(c.args[2], RangesOf(r), n)
         PROVE  Reaches(c, RangesOf(r), Lesser(w, n))
    <3>1. Sat(r, t) /\ Sat(r, s) /\ w \in Int
      <4>1. Sat(r, t)
        BY <2>10, <2>12, GrewSat
      <4> QED
        BY <2>6, <2>12, <4>1, GrewSat DEF Pos
    <3>2. FormatFits(c.fmt, es) /\ 2 \in Nat /\ Sat(r, parsed.sys)
      BY <1>1, <1>2, <2>2, <3>1
    <3>3. Holds(text, r, w)
      BY <1>3, <1>4, <1>7, <2>2, <2>12, <3>1, <3>2, PrintHolds
    <3>4. INF > 1 /\ Tame(RangesOf(r)) /\ Sized(RangesOf(r))
      BY <2>12, ArgsSkip DEF Calm
    <3>5. Holds(bound.val, r, n)
      BY <1>1, <1>4, <2>3, <2>12, <3>4, IntHolds DEF Arg
    <3>6. text \in TermOver(Nat) /\ bound.val \in TermOver(Nat)
      BY <2>3, <2>4, NatTerms
    <3>7. In(w, EvalTerm(text, r)) /\ In(n, EvalTerm(bound.val, r)) /\ n \in Int
      BY <3>1, <3>3, <3>5, <3>6, HoldsIn
    <3>8. PICK x \in Nat : x = Lesser(w, n)
      BY DEF Lesser, Pos
    <3>9. In(x, r[s.vars]) /\ s.vars \in Nat
      BY <2>3, <2>6, <3>1, <3>7, <3>8, StoreVars
    <3>10. Holds(NewTerm(s), r, x)
      BY <2>6, <3>9, VarMay
    <3>11. In(x + k, r[v]) /\ x + k = k + x /\ k + x \in Int
      <4>1. x \in Int
        OBVIOUS
      <4> QED
        BY <2>10, <2>12, <3>10, <4>1
    <3> QED
      BY <2>8, <3>8, <3>11, InLen DEF Reaches
  <2> QED
    BY <1>1, <1>2, <1>7, <2>11, <2>12 DEF Taken, Sends
<1> QED
  BY <1>6, <1>7

(* The walker takes account of every call.                                 *)
LEMMA CallTaken ==
  ASSUME NEW c \in Calls, WellTyped(c), FewSkipped(c), Walked(sys), WalkCall(c)
  PROVE  Taken(c)
BY AssignmentTaken, StrcpyTaken, StrncpyTaken, StrspnTaken, StrdupTaken, StrcatTaken, StrncatTaken, StrchrTaken,
   FgetsTaken, GetsTaken, GetenvTaken, MallocTaken, SprintfTaken, SnprintfTaken DEF WalkCall

-----------------------------------------------------------------------------
(* The walk and its solution.                                              *)

(* A variable that a term does not mention is of no consequence to it.     *)
LEMMA EvalTermWider ==
  ASSUME NEW V \in SUBSET Nat, NEW t \in TermOver(V), NEW r \in [V -> Interval], NEW s \in [Nat -> Interval],
         Agree(V, s, r)
  PROVE  EvalTerm(t, r) = EvalTerm(t, s)
<1>1. PICK n \in Nat : n = Len(t.terms) /\ DOMAIN t.terms = 1 .. n
  BY TermParts
<1>2. t \in TermOver(Nat)
  BY TermWider
<1>3. TermRun(t.terms, r) = TermRun(t.terms, s)
  <2>1. \A i \in 1 .. n : r[t.terms[i][2]] = s[t.terms[i][2]]
    BY <1>1, TermParts, EntryFacts DEF Agree
  <2> QED
    BY <1>1, <2>1 DEF TermRun
<1>4. PICK f : Runs(f, n, Singleton(t.konst), TermRun(t.terms, r)) /\ EvalTerm(t, r) = f[n]
  BY <1>1, TermParts, TermFold
<1>5. PICK h : Runs(h, n, Singleton(t.konst), TermRun(t.terms, s)) /\ EvalTerm(t, s) = h[n]
  BY <1>1, <1>2, TermParts, TermFold
<1>6. Runs(h, n, Singleton(t.konst), TermRun(t.terms, r))
  BY <1>3, <1>5
<1>7. f[n] = h[n]
  BY <1>4, <1>6, RunsAgree
<1> QED
  BY <1>4, <1>5, <1>7

LEMMA EvalWider ==
  ASSUME NEW V \in SUBSET Nat, NEW c \in ConstraintOver(V), NEW r \in [V -> Interval], NEW s \in [Nat -> Interval],
         Agree(V, s, r)
  PROVE  EvalConstraint(c, r) = EvalConstraint(c, s)
<1>1. CASE c.form = "subset" /\ c.lhs \in TermOver(V)
  BY <1>1, EvalTermWider DEF EvalConstraint
<1>2. CASE c.form = "min" /\ c.items \in Seq(ItemOver(V)) /\ c = MinSubset(c.items, c.var)
  <2>1. PICK n \in Nat : n = Len(c.items) /\ DOMAIN c.items = 1 .. n
                         /\ \A i \in 1 .. n : c.items[i] \in ItemOver(V)
    BY <1>2
  <2>2. PICK f : Runs(f, n, Singleton(INF), MinRun(c.items, r)) /\ EvalConstraint(c, r) = f[n]
    BY <1>2, <2>1, MinFold
  <2>3. c \in ConstraintOver(Nat) /\ c.items \in Seq(ItemOver(Nat))
    <3>1. ItemOver(V) \subseteq ItemOver(Nat)
      BY DEF ItemOver
    <3>2. Seq(ItemOver(V)) \subseteq Seq(ItemOver(Nat))
      BY <3>1
    <3>3. c \in ConstraintOver(Nat)
      BY TermWider
    <3> QED
      BY <1>2, <3>2, <3>3
  <2>4. PICK h : Runs(h, n, Singleton(INF), MinRun(c.items, s)) /\ EvalConstraint(c, s) = h[n]
    BY <1>2, <2>1, <2>3, MinFold
  <2>5. \A i \in 1 .. n : EvalItem(c.items[i], r) = EvalItem(c.items[i], s)
    <3> TAKE i \in 1 .. n
    <3>1. c.items[i].item = "const" \/ (c.items[i].item = "term" /\ c.items[i].var \in V)
      BY <2>1 DEF ItemOver
    <3> QED
      BY <3>1 DEF EvalItem, Agree
  <2>6. MinRun(c.items, r) = MinRun(c.items, s)
    BY <2>1, <2>5 DEF MinRun
  <2>7. Runs(h, n, Singleton(INF), MinRun(c.items, r))
    BY <2>4, <2>6
  <2>8. f[n] = h[n]
    BY <2>2, <2>7, RunsAgree
  <2> QED
    BY <2>2, <2>4, <2>8
<1> QED
  BY <1>1, <1>2, ConstraintForms

(* The least solution, of the variables of a store, satisfies it as ranges *)
(* of all variables do.                                                    *)
LEMMA SolvedRanges ==
  ASSUME NEW s, Walked(s)
  PROVE  \E r \in [Nat -> Interval] :
           /\ Sat(r, s) /\ RangesOf(r) = RangesOf(Least(s))
           /\ \A t \in TermOver(Vars(s)) : EvalTerm(t, Least(s)) = EvalTerm(t, r)
<1>1. PICK V : V = Vars(s) /\ V \subseteq Nat /\ s.cons \in Seq(ConstraintOver(V)) /\ Store(s)
  BY StoreVars DEF Walked, Store
<1>2. PICK least \in [V -> Interval] : least = Least(s) /\ Solves(least, ToSet(s.cons))
  BY <1>1, LeastSolves
<1>3. PICK r \in [Nat -> Interval] : \A v \in V : r[v] = least[v]
  <2> DEFINE f == [v \in Nat |-> IF v \in V THEN least[v] ELSE Empty]
  <2>1. f \in [Nat -> Interval] /\ \A v \in V : f[v] = least[v]
    BY <1>1, ConstantTypes
  <2> QED
    BY <2>1
<1>4. \A t \in TermOver(V) : EvalTerm(t, least) = EvalTerm(t, r)
  <2> SUFFICES ASSUME NEW t \in TermOver(V)
               PROVE  EvalTerm(t, least) = EvalTerm(t, r)
    OBVIOUS
  <2>1. Agree(V, r, least) /\ V \in SUBSET Nat
    BY <1>1, <1>3 DEF Agree
  <2>2. least \in [V -> Interval] /\ r \in [Nat -> Interval]
    OBVIOUS
  <2> QED
    BY ONLY t \in TermOver(V), <2>1, <2>2, EvalTermWider
<1>5. Sat(r, s)
  <2> SUFFICES ASSUME NEW c \in ToSet(s.cons)
               PROVE  Leq(EvalConstraint(c, r), r[Rhs(c)])
    BY DEF Sat, Solves
  <2>1. c \in ConstraintOver(V)
    BY <1>1 DEF ToSet
  <2>2. Rhs(c) \in V
    BY <2>1 DEF ConstraintOver, Subset, MinSubset, Rhs
  <2>3. EvalConstraint(c, least) = EvalConstraint(c, r)
    <3>1. Agree(V, r, least) /\ V \in SUBSET Nat
      BY <1>1, <1>3 DEF Agree
    <3>2. least \in [V -> Interval] /\ r \in [Nat -> Interval]
      OBVIOUS
    <3> QED
      BY ONLY <2>1, <3>1, <3>2, EvalWider
  <2>4. Leq(EvalConstraint(c, least), least[Rhs(c)])
    BY <1>2 DEF Solves
  <2> QED
    BY <1>3, <2>2, <2>3, <2>4
<1>6. RangesOf(r) = RangesOf(least)
  <2>1. NumVar \in TermOver(V) /\ \A o \in Strings : SizOf(o) \in TermOver(V) /\ LenOf(o) \in TermOver(V)
    BY <1>1, WalkedVars, ObjectTerms, PlainTypes
  <2> QED
    BY <1>4, <2>1 DEF RangesOf
<1> QED
  BY <1>1, <1>2, <1>4, <1>5, <1>6

(* What holds of the store all along the walk: it has the variables and    *)
(* queries of the objects, and the size of every array.                    *)
QueryOf(o) == [name |-> o, siz |-> SizOf(o), len |-> LenOf(o)]

Declares(s) ==
  /\ Walked(s)
  /\ \A o \in Strings : QueryOf(o) \in ToSet(s.queries)
  /\ \A r \in [Nat -> Interval] : Sat(r, s) => Sized(RangesOf(r))

LEMMA DeclaresGrows ==
  ASSUME NEW s, NEW t, Declares(s), Grew(t, s)
  PROVE  Declares(t)
<1>1. Walked(t)
  BY WalkedGrows DEF Declares
<1>2. ToSet(s.queries) \subseteq ToSet(t.queries)
  BY DEF Grew, Extends
<1>3. \A r : Sat(r, t) => Sat(r, s)
  BY GrewSat
<1> QED
  BY <1>1, <1>2, <1>3 DEF Declares

LEMMA DeclaredDeclares == Declares(DeclaredSystem)
<1>1a. PICK n \in Nat : \E arrays :
      arrays \in [1 .. n -> Arrays] /\ arrays = SetToSeq(Arrays) /\ \A o \in Arrays : \E i \in 1 .. n : arrays[i] = o
  <2>1. IsFiniteSet(Arrays)
    BY ObjectAssumption
  <2>2. PICK n \in Nat : n = Cardinality(Arrays)
    BY <2>1, FS_CardinalityType
  <2>3. PICK b : b \in Bijection(1 .. n, Arrays)
    BY <2>1, <2>2, FS_CardinalityType DEF ExistsBijection
  <2>4. b \in [1 .. n -> Arrays] /\ IsInjective(b)
    BY <2>3 DEF Bijection, Injection
  <2>5. PICK q : q = SetToSeq(Arrays) /\ q \in [1 .. n -> Arrays] /\ IsInjective(q)
    BY <2>2, <2>4 DEF SetToSeq
  <2>6. q \in Surjection(1 .. n, Arrays)
    <3>1. q \in Injection(1 .. n, Arrays)
      BY <2>5 DEF Injection
    <3>2. IsFiniteSet(1 .. n) /\ Cardinality(1 .. n) = n
      BY FS_Interval
    <3> QED
      BY <2>1, <2>2, <3>1, <3>2, FS_Injection
  <2>7. \A o \in Arrays : \E i \in 1 .. n : q[i] = o
    BY <2>6 DEF Surjection
  <2> QED
    BY <2>5, <2>7
<1>1. PICK arrays :
      arrays \in [1 .. n -> Arrays] /\ arrays = SetToSeq(Arrays) /\ \A o \in Arrays : \E i \in 1 .. n : arrays[i] = o
  BY <1>1a
<1>2. DOMAIN arrays = 1 .. n /\ arrays \in [1 .. n -> Arrays]
  BY <1>1
<1>3. PICK V : V = 0 .. Declared /\ \A o \in Strings : SizVar(o) \in V /\ LenVar(o) \in V
  BY Numbering
<1> DEFINE fits(i) == Subset(Less(ConstTerm(ArraySize[arrays[i]]), 0), SizVar(arrays[i]))
<1>4. ASSUME NEW i \in 1 .. n
      PROVE  /\ Moved(ConstTerm(ArraySize[arrays[i]]), SizOf(arrays[i])) = fits(i)
             /\ fits(i) \in ConstraintOver(V)
  <2>1. PICK o \in Strings, k \in Int : o = arrays[i] /\ k = ArraySize[o]
    BY <1>2, ObjectAssumption DEF Strings
  <2>2. ConstTerm(k) \in TermOver(V) /\ SizVar(o) \in V /\ SizOf(o) = Plain(SizVar(o), 0)
    BY <1>3, PlainTypes, ObjectTerms
  <2>3. /\ SubsetOf(ConstTerm(k), Plain(SizVar(o), 0)) = <<Subset(Less(ConstTerm(k), 0), SizVar(o))>>
        /\ Subset(Less(ConstTerm(k), 0), SizVar(o)) \in ConstraintOver(V)
    BY <2>2, SubsetIs
  <2>4. ~IsConstant(Plain(SizVar(o), 0))
    BY DEF IsConstant, Plain
  <2>5. Moved(ConstTerm(k), SizOf(o)) = Subset(Less(ConstTerm(k), 0), SizVar(o))
    BY <2>2, <2>3, <2>4 DEF SubsetOf
  <2> QED
    BY <2>1, <2>3, <2>5
<1>5. PICK cons \in Seq(ConstraintOver(V)) : cons = [i \in 1 .. n |-> fits(i)]
  <2> HIDE DEF fits
  <2>1. PICK q : q = [i \in 1 .. n |-> fits(i)]
    OBVIOUS
  <2>2. \A i \in 1 .. n : q[i] \in ConstraintOver(V)
    BY <1>4, <2>1
  <2>3. q \in [1 .. n -> ConstraintOver(V)]
    BY <2>1, <2>2
  <2>4. q \in Seq(ConstraintOver(V))
    BY <2>3
  <2> QED
    BY <2>1, <2>4
<1>6. PICK queries : queries = [i \in DOMAIN NameOrder |-> QueryOf(NameOrder[i])]
  OBVIOUS
<1>7. DeclaredSystem = [vars |-> Declared + 1, cons |-> cons, queries |-> queries, pins |-> << >>]
  <2>1. [i \in DOMAIN arrays |-> Moved(ConstTerm(ArraySize[arrays[i]]), SizOf(arrays[i]))] = cons
    <3> HIDE DEF fits
    <3> QED
      BY <1>2, <1>4, <1>5
  <2> QED
    BY <1>1, <1>6, <2>1 DEF DeclaredSystem, QueryOf
<1>8. PICK s : s = DeclaredSystem
  OBVIOUS
<1>9. s.vars = Declared + 1 /\ s.cons = cons /\ s.queries = queries /\ Shape(s)
  BY <1>7, <1>8 DEF Shape
<1>10. Walked(s) /\ DOMAIN queries = DOMAIN NameOrder
  <2>1. Declared \in Nat /\ Declared + 1 \in Nat /\ Declared < Declared + 1 /\ Vars(s) = V
    BY <1>3, <1>9, Numbering DEF Vars
  <2>2. IsList(queries)
    <3> DEFINE S == {QueryOf(o) : o \in Strings}
    <3>0. Len(NameOrder) \in Nat
      BY Numbering
    <3>1. PICK m \in Nat : m = Len(NameOrder)
      BY <3>0
    <3>2. DOMAIN NameOrder = 1 .. m /\ \A i \in 1 .. m : NameOrder[i] \in Strings
      BY <3>1, Numbering
    <3>3. queries \in [1 .. m -> S]
      BY <1>6, <3>2
    <3>4. queries \in Seq(S)
      <4> HIDE DEF S
      <4> QED
        BY <3>3
    <3> QED
      BY <3>4 DEF IsList
  <2> QED
    BY <1>6, <1>9, <2>1, <2>2 DEF Walked, Store
<1>11. \A o \in Strings : QueryOf(o) \in ToSet(queries)
  BY <1>6, Numbering DEF ToSet
<1>12. ASSUME NEW r \in [Nat -> Interval], Sat(r, s), NEW o \in Arrays
       PROVE  In(ArraySize[o], RangesOf(r)[o].siz)
  <2>1. PICK i \in 1 .. n : arrays[i] = o
    BY <1>1
  <2>2. PICK k \in Int, v \in Nat : k = ArraySize[o] /\ v = SizVar(o) /\ o \in Strings
    BY ObjectAssumption, ObjectTerms DEF Strings
  <2>3. PICK m : m = Subset(Less(ConstTerm(k), 0), v) /\ m = cons[i] /\ i \in DOMAIN cons
    BY <1>5, <2>1, <2>2
  <2>4. m \in ToSet(s.cons)
    BY <1>9, <2>3 DEF ToSet
  <2>5. Leq(EvalConstraint(m, r), r[Rhs(m)])
    BY <1>12, <2>4 DEF Sat, Solves
  <2>6. Rhs(m) = v /\ EvalConstraint(m, r) = EvalTerm(Less(ConstTerm(k), 0), r)
    BY <2>3 DEF Subset, Rhs, EvalConstraint
  <2>7. Less(ConstTerm(k), 0) = ConstTerm(k)
    BY DEF Less, ConstTerm
  <2>8. In(k, EvalTerm(ConstTerm(k), r)) /\ ConstTerm(k) \in TermOver(Nat)
    BY ConstHolds, PlainTypes
  <2>9. In(k, r[v])
    BY <2>5, <2>6, <2>7, <2>8, EvalTermType, InWider
  <2> QED
    BY <2>2, <2>9, InLen
<1> QED
  BY <1>8, <1>9, <1>10, <1>11, <1>12 DEF Declares, Sized

(* No range begins at the sentinel: nothing is above it, and a sum stops   *)
(* at it.                                                                  *)
Written == Arrays \cup {Heap}

Unsaturated ==
  phase # "walk" =>
    /\ \A i \in program : LowFor(Len(Pool[i].fmt), ranges)
    /\ \A o \in Written : ~IsEmpty(ranges[o].siz) => ranges[o].siz.lo < INF

(* What the walk has made, before and after it is solved.                  *)
CountsFor(c, r) == Modelled(c) /\ Calm(RangesOf(r), Len(c.fmt)) => Sends(c, RangesOf(r))

WalkInv ==
  /\ Declares(sys)
  /\ \A i \in program : \A r \in [Nat -> Interval] : Sat(r, sys) => CountsFor(Pool[i], r)

Ranged(R) == \A o \in Strings : R[o].siz \in Interval /\ R[o].len \in Interval

SolvedInv ==
  /\ Ranged(ranges) /\ Sized(ranges)
  /\ \A i \in program : Modelled(Pool[i]) /\ Calm(ranges, Len(Pool[i].fmt)) => Sends(Pool[i], ranges)
  /\ \A o \in Strings : ~EpGe(ranges[o].siz.lo, ranges[o].len.hi) => o \in reported

LEMMA PoolCalls ==
  ASSUME NEW i \in DOMAIN Pool
  PROVE  Pool[i] \in Calls /\ WellTyped(Pool[i]) /\ FewSkipped(Pool[i])
<1>1. Pool \in Seq(Calls)
  BY PoolAssumption
<1>2. Pool[i] \in Calls
  BY <1>1
<1> QED
  BY <1>2, PoolAssumption

LEMMA WalkKeeps ==
  ASSUME NEW i \in DOMAIN Pool, program \in SUBSET DOMAIN Pool, WalkInv, Walk(i)
  PROVE  WalkInv'
<1>1. WalkCall(Pool[i]) /\ program' = program \cup {i}
  BY DEF Walk
<1>2. Walked(sys)
  BY DEF WalkInv, Declares
<1>3. PICK c \in Calls : c = Pool[i] /\ WellTyped(c) /\ FewSkipped(c)
  BY PoolCalls
<1>4. Taken(c)
  <2>1. WalkCall(c)
    BY <1>1, <1>3
  <2> QED
    BY <1>2, <1>3, <2>1, CallTaken
<1>5. Grew(sys', sys)
  BY <1>4 DEF Taken
<1>6. Declares(sys')
  BY <1>5, DeclaresGrows DEF WalkInv
<1>7. ASSUME NEW j \in program', NEW r \in [Nat -> Interval], Sat(r, sys')
      PROVE  CountsFor(Pool[j], r)
  <2>1. CASE j \in program
    <3>1. Sat(r, sys)
      BY <1>5, <1>7, GrewSat
    <3> QED
      BY <2>1, <3>1 DEF WalkInv
  <2>2. CASE j = i
    BY <1>3, <1>4, <1>7, <2>2 DEF Taken, CountsFor
  <2> QED
    BY <1>1, <2>1, <2>2
<1> QED
  BY <1>6, <1>7 DEF WalkInv

LEMMA SolveSolves ==
  ASSUME WalkInv, Solve
  PROVE  SolvedInv'
<1>1. PICK r \in [Nat -> Interval] :
        /\ Sat(r, sys) /\ RangesOf(r) = RangesOf(Least(sys))
        /\ \A t \in TermOver(Vars(sys)) : EvalTerm(t, Least(sys)) = EvalTerm(t, r)
  <2>1. Walked(sys)
    BY DEF WalkInv, Declares
  <2> QED
    BY <2>1, SolvedRanges
<1>2. /\ ranges' = RangesOf(r) /\ program' = program
      /\ reported' = {q.name : q \in {p \in ToSet(sys.queries) : Fails(p, Least(sys))}}
  BY <1>1 DEF Solve
<1>3. Ranged(RangesOf(r))
  BY RangesFacts DEF Ranged
<1>4. Sized(RangesOf(r))
  BY <1>1 DEF WalkInv, Declares
<1>5. \A i \in program : CountsFor(Pool[i], r)
  BY <1>1 DEF WalkInv
<1>6. ASSUME NEW o \in Strings, ~EpGe(RangesOf(r)[o].siz.lo, RangesOf(r)[o].len.hi)
      PROVE  o \in reported'
  <2>1. PICK q : q = QueryOf(o) /\ q \in ToSet(sys.queries)
    BY DEF WalkInv, Declares
  <2>2. q.name = o /\ q.siz = SizOf(o) /\ q.len = LenOf(o)
    BY <2>1 DEF QueryOf
  <2>3. q.siz \in TermOver(Vars(sys)) /\ q.len \in TermOver(Vars(sys))
    BY <2>2, WalkedVars DEF WalkInv, Declares
  <2>4. EvalTerm(q.siz, Least(sys)) = RangesOf(r)[o].siz /\ EvalTerm(q.len, Least(sys)) = RangesOf(r)[o].len
    <3>1. EvalTerm(q.siz, Least(sys)) = EvalTerm(q.siz, r) /\ EvalTerm(q.len, Least(sys)) = EvalTerm(q.len, r)
      BY <1>1, <2>3
    <3>2. RangesOf(r)[o].siz = EvalTerm(SizOf(o), r) /\ RangesOf(r)[o].len = EvalTerm(LenOf(o), r)
      BY RangesFacts, ObjectTerms
    <3> QED
      BY <2>2, <3>1, <3>2
  <2>5. Fails(q, Least(sys))
    BY <1>6, <2>4 DEF Fails
  <2> QED
    BY <1>2, <2>1, <2>2, <2>5
<1> QED
  BY <1>2, <1>3, <1>4, <1>5, <1>6 DEF SolvedInv, CountsFor

-----------------------------------------------------------------------------
(* The memory.                                                             *)

MemoryOK ==
  /\ memory \in [size : [Buffers -> Nat \cup {Unset}], nuls : [Buffers -> SUBSET Nat]]
  /\ \A o \in Buffers : \A i \in memory.nuls[o] : i < memory.size[o]
  /\ \A o \in Arrays : memory.size[o] = ArraySize[o]
  /\ window \in [of : Buffers \cup {Nobody}, at : Nat]
  /\ window.of \in Buffers => window.at < memory.size[window.of]
  /\ num \in Nat \cup {Unset}
  /\ overflow \in [of : Written \cup {Nobody}, by : {Nobody, "string", "padding"}]

LEMMA Names ==
  /\ Window \notin Buffers /\ Nobody \notin Buffers /\ Nobody \notin Strings /\ Env \notin Written
  /\ Heap \notin Arrays /\ Env \notin Strings /\ Env # Heap /\ Nobody \notin Written
  /\ Strings = Written \cup {Window} /\ Buffers = Written \cup {Env} /\ Num \notin Strings
BY ObjectAssumption DEF Written, Strings, Buffers, Heap, Window, Nobody, Env, Num

(* A nonempty set of numbers has a least element. *)
LEMMA MinIs ==
  ASSUME NEW S \in SUBSET Nat, S # {}
  PROVE  Min(S) \in S /\ \A j \in S : Min(S) <= j
<1>1. PICK n \in S : n \in Nat
  OBVIOUS
<1>2. PICK m \in Nat : m = n + 1
  OBVIOUS
<1>3. PICK T \in SUBSET (1 .. m) : T = {i \in 1 .. m : i - 1 \in S}
  OBVIOUS
<1>4. n + 1 \in T
  <2>1. n + 1 \in 1 .. m /\ (n + 1) - 1 = n
    BY <1>1, <1>2
  <2> QED
    BY <1>3, <2>1
<1>5. PICK x \in T : \A y \in T : x <= y
  BY <1>4, LeastExists
<1>6. PICK k \in S : k = x - 1
  BY <1>3
<1>7. ASSUME NEW j \in S
      PROVE  k <= j
  <2>1. CASE j + 1 <= m
    <3>1. j + 1 \in 1 .. m /\ (j + 1) - 1 = j
      BY <2>1
    <3>2. j + 1 \in T
      BY <1>3, <3>1
    <3>3. x <= j + 1
      BY <1>5, <3>2
    <3> QED
      BY <1>6, <3>3
  <2>2. CASE ~(j + 1 <= m)
    BY <1>6, <2>2
  <2> QED
    BY <2>1, <2>2
<1>8. \E y \in S : \A j \in S : y =< j
  BY <1>7
<1> QED
  BY <1>8 DEF Min

(* The string from "at" on ends with the first NUL there. *)
Ends(i, marks, at) == i \in marks /\ at <= i /\ \A j \in marks : at <= j => i <= j

LEMMA StringAtIs ==
  ASSUME NEW o, memory.nuls[o] \in SUBSET Nat, NEW at \in Nat, NEW x, x = StringAt(o, at)
  PROVE  /\ x \in Nat
         /\ x > 0 => \E i \in Nat : Ends(i, memory.nuls[o], at) /\ x = i - at + 1
<1>1. PICK S \in SUBSET Nat : S = memory.nuls[o]
  OBVIOUS
<1>2. PICK T \in SUBSET Nat : T = {i \in S : i >= at}
  OBVIOUS
<1>3. x = IF T = {} THEN 0 ELSE Min(T) - at + 1
  BY <1>1, <1>2 DEF StringAt
<1>4. CASE T = {}
  BY <1>3, <1>4
<1>5. CASE T # {}
  <2>1. PICK i \in T : i = Min(T) /\ \A j \in T : i <= j
    BY <1>5, MinIs
  <2>2. i \in Nat /\ i >= at /\ x = i - at + 1
    BY <1>2, <1>3, <1>5, <2>1
  <2>3. Ends(i, S, at)
    BY <1>2, <2>1, <2>2 DEF Ends
  <2> QED
    BY <1>1, <2>2, <2>3
<1> QED
  BY <1>4, <1>5

LEMMA MemoryIs ==
  ASSUME MemoryOK
  PROVE  /\ \A o \in Buffers : /\ memory.nuls[o] \in SUBSET Nat /\ memory.size[o] \in Nat \cup {Unset}
                               /\ \A i \in memory.nuls[o] : i < memory.size[o]
         /\ \A o \in Arrays : memory.size[o] = ArraySize[o] /\ ArraySize[o] \in Nat
         /\ window.of \in Buffers \cup {Nobody} /\ window.at \in Nat /\ num \in Nat \cup {Unset}
BY ObjectAssumption DEF MemoryOK

LEMMA UsedIs ==
  ASSUME MemoryOK, NEW o \in Strings
  PROVE  /\ Used(o) \in Nat
         /\ o \in Written => Used(o) = StringAt(o, 0)
         /\ o = Window /\ window.of \in Buffers => Used(o) = StringAt(window.of, window.at)
         /\ Used(o) > 0 => o \in Written \/ (o = Window /\ window.of \in Buffers)
<1>1. o \in Written => Used(o) = StringAt(o, 0) /\ o \in Buffers
  BY Names DEF Used
<1>2. o = Window /\ window.of \in Buffers => Used(o) = StringAt(window.of, window.at)
  BY Names DEF Used
<1>3. o = Window /\ window.of \notin Buffers => Used(o) = 0
  BY Names DEF Used
<1>4. o \in Written \/ o = Window
  BY Names
<1>5. 0 \in Nat /\ ~(0 > 0)
  OBVIOUS
<1> QED
  BY <1>1, <1>2, <1>3, <1>4, <1>5, MemoryIs, StringAtIs

(* A string that a text names. *)
LEMMA BytesAre ==
  ASSUME MemoryOK, NEW e \in Texts
  PROVE  /\ Bytes(e) \in Nat /\ e.n \in Nat
         /\ e.expr = "lit" => Bytes(e) = e.n + 1
         /\ e.expr # "lit" => e.of \in Strings /\ (Bytes(e) > 0 => Used(e.of) = Bytes(e) + e.n)
<1>1. e.n \in Nat
  BY TextForms
<1>2. CASE e.expr = "lit"
  BY <1>1, <1>2 DEF Bytes
<1>3. CASE e.expr # "lit"
  <2>1. e.of \in Strings
    BY <1>3, TextForms
  <2>2. PICK u \in Nat, n \in Nat : u = Used(e.of) /\ n = e.n
    BY <1>1, <2>1, UsedIs
  <2>3. Bytes(e) = Greater(u - n, 0)
    BY <1>3, <2>2 DEF Bytes
  <2> QED
    BY <1>3, <2>1, <2>2, <2>3 DEF Greater
<1> QED
  BY <1>2, <1>3

LEMMA IntsAre ==
  ASSUME MemoryOK, NEW e \in Ints
  PROVE  /\ IntOf(e) \in Nat \cup {Unset}
         /\ e.expr = "int" => IntOf(e) = e.n
         /\ e.expr = "ref" => IntOf(e) = num
         /\ e.expr = "sizeof" => IntOf(e) = ArraySize[e.of]
         /\ e.expr = "strlen" /\ IntOf(e) # Unset => Used(e.of) \in Nat \ {0} /\ IntOf(e) = Used(e.of) - 1 + e.n
<1>1. CASE e.expr = "int"
  <2>1. e.n \in Nat
    BY <1>1, IntForms
  <2> QED
    BY <1>1, <2>1 DEF IntOf
<1>2. CASE e.expr = "ref"
  <2>1. num \in Nat \cup {Unset}
    BY MemoryIs
  <2> QED
    BY <1>2, <2>1 DEF IntOf
<1>3. CASE e.expr = "sizeof"
  <2>1. e.of \in Arrays
    BY <1>3, IntForms
  <2> QED
    BY <1>3, <2>1, MemoryIs DEF IntOf, SizeOfBuffer
<1>4. CASE e.expr = "strlen"
  <2>1. e.of \in Strings /\ e.n \in Nat
    BY <1>4, IntForms
  <2>2. PICK u \in Nat, n \in Nat : u = Used(e.of) /\ n = e.n
    BY <2>1, UsedIs
  <2>3. IntOf(e) = IF u > 0 THEN u - 1 + n ELSE Unset
    BY <1>4, <2>2 DEF IntOf
  <2>4. u > 0 => u - 1 + n \in Nat
    OBVIOUS
  <2> QED
    BY <1>4, <2>2, <2>3, <2>4
<1> QED
  BY <1>1, <1>2, <1>3, <1>4, IntForms

-----------------------------------------------------------------------------
(* What the ranges account for: a NUL that the length does not cover is    *)
(* one that strncpy padded with, after another.                            *)
PadsAt(o, i) ==
  \E j \in program : /\ Pool[j].call = "strncpy" /\ Dst(Pool[j]) = o
                     /\ \E n \in Nat : MayInt(Pool[j].args[3], ranges, n) /\ i < At(Pool[j]) + n

NulCovered(o, i) == In(i + 1, ranges[o].len) \/ (i - 1 \in memory.nuls[o] /\ PadsAt(o, i))

Shows(o, at) ==
  /\ \E u \in Nat : u > at /\ In(u, ranges[o].len)
  /\ \A u \in Nat : u > at /\ In(u, ranges[o].len) => In(u - at, ranges[Window].len)

ShowsEnv ==
  /\ window.at = 0 /\ \E w \in Pos : memory.nuls[Env] = {w - 1}
  /\ \A w \in Pos : In(w, ranges[Window].len)

Covered ==
  /\ \A o \in Written : \A i \in memory.nuls[o] : NulCovered(o, i)
  /\ memory.size[Heap] # Unset => In(memory.size[Heap], ranges[Heap].siz)
  /\ num # Unset => In(num, ranges[Num].val)
  /\ window.of \in Written => Shows(window.of, window.at)
  /\ window.of = Env => ShowsEnv
  /\ overflow.by = "string" => overflow.of \in reported

(* The first NUL from "at" on, if some byte past it is covered. *)
LEMMA EndCovered ==
  ASSUME MemoryOK, Covered, Ranged(ranges), NEW o \in Written, NEW at \in Nat,
         NEW i \in Nat, Ends(i, memory.nuls[o], at),
         at = 0 \/ \E u \in Nat : u > at /\ In(u, ranges[o].len)
  PROVE  In(i + 1, ranges[o].len)
<1>1. PICK S \in SUBSET Nat : S = memory.nuls[o]
  BY MemoryIs, Names
<1>2. PICK len \in Interval : len = ranges[o].len
  BY Names DEF Ranged
<1>3. \A j \in S : In(j + 1, len) \/ j - 1 \in S
  BY <1>1, <1>2 DEF Covered, NulCovered
<1>4. i \in S /\ at <= i /\ \A j \in S : at <= j => i <= j
  BY <1>1 DEF Ends
<1>5. SUFFICES ASSUME ~In(i + 1, len)
               PROVE  FALSE
  BY <1>2
<1>6. i - 1 \in S /\ i - 1 \in Nat
  BY <1>1, <1>3, <1>4, <1>5
<1>7. i = at /\ at > 0
  BY <1>4, <1>6
<1>8. PICK q \in S : q = Min(S) /\ \A j \in S : q <= j
  BY <1>4, MinIs
<1>9. q \in Nat /\ q <= i - 1 /\ q - 1 \notin S
  <2>1. q \in Nat
    BY <1>1
  <2>2. ~(q <= q - 1)
    BY <2>1
  <2> QED
    BY <1>6, <1>8, <2>1, <2>2
<1>10. In(q + 1, len)
  BY <1>3, <1>8, <1>9
<1>11. PICK u \in Nat : u > at /\ In(u, len)
  BY <1>2, <1>7
<1>12. q + 1 <= i + 1 /\ i + 1 <= u /\ q + 1 \in Int /\ u \in Int /\ i + 1 \in Int
  BY <1>7, <1>9, <1>11
<1> QED
  BY <1>5, <1>10, <1>11, <1>12, InBetween

LEMMA UsedCovered ==
  ASSUME MemoryOK, Covered, Ranged(ranges), NEW o \in Strings, Used(o) > 0
  PROVE  In(Used(o), ranges[o].len)
<1>1. CASE o \in Written
  <2>1. Used(o) = StringAt(o, 0) /\ memory.nuls[o] \in SUBSET Nat /\ 0 \in Nat
    BY <1>1, UsedIs, MemoryIs, Names
  <2>2. PICK i \in Nat : Ends(i, memory.nuls[o], 0) /\ Used(o) = i - 0 + 1
    BY <2>1, StringAtIs
  <2>3. In(i + 1, ranges[o].len)
    BY <1>1, <2>1, <2>2, EndCovered
  <2> QED
    BY <2>2, <2>3
<1>2. CASE o = Window /\ window.of \in Written
  <2>1. PICK p \in Written, at \in Nat : p = window.of /\ at = window.at
    BY <1>2, MemoryIs
  <2>2. Used(o) = StringAt(p, at) /\ memory.nuls[p] \in SUBSET Nat
    BY <1>2, <2>1, UsedIs, MemoryIs, Names
  <2>3. PICK i \in Nat : Ends(i, memory.nuls[p], at) /\ Used(o) = i - at + 1
    BY <2>2, StringAtIs
  <2>4. Shows(p, at)
    BY <1>2, <2>1 DEF Covered
  <2>5. In(i + 1, ranges[p].len)
    BY <2>3, <2>4, EndCovered DEF Shows
  <2>6. i + 1 \in Nat /\ i + 1 > at /\ (i + 1) - at = i - at + 1
    BY <2>3 DEF Ends
  <2>7. In((i + 1) - at, ranges[Window].len)
    BY <2>4, <2>5, <2>6 DEF Shows
  <2> QED
    BY <1>2, <2>3, <2>6, <2>7
<1>3. CASE o = Window /\ window.of = Env
  <2>1. Used(o) = StringAt(Env, 0) /\ memory.nuls[Env] \in SUBSET Nat /\ ShowsEnv /\ 0 \in Nat
    BY <1>3, UsedIs, MemoryIs, Names DEF Covered, ShowsEnv
  <2>2. Used(o) \in Pos
    BY UsedIs DEF Pos
  <2> QED
    BY <1>3, <2>1, <2>2 DEF ShowsEnv
<1> QED
  BY <1>1, <1>2, <1>3, UsedIs, Names

(* What the arguments of a call may be, they are. *)
LEMMA TextMay ==
  ASSUME MemoryOK, Covered, Ranged(ranges), NEW e \in Texts, NEW x, x = Bytes(e), x > 0
  PROVE  x \in Pos /\ MayText(e, ranges, x)
<1>1. x \in Nat /\ x \in Nat \ {0} /\ x \in Pos
  BY BytesAre DEF Pos
<1>2. CASE e.expr = "lit"
  BY <1>1, <1>2, BytesAre DEF MayText
<1>3. CASE e.expr # "lit"
  <2>1. e.of \in Strings /\ Used(e.of) = x + e.n /\ e.n \in Nat
    BY <1>3, BytesAre
  <2>2. Used(e.of) > 0
    BY <1>1, <2>1
  <2>3. In(x + e.n, ranges[e.of].len)
    BY <2>1, <2>2, UsedCovered
  <2> QED
    BY <1>1, <1>3, <2>3 DEF MayText
<1> QED
  BY <1>2, <1>3

LEMMA IntMay ==
  ASSUME MemoryOK, Covered, Ranged(ranges), NEW e \in Ints, NEW n, n = IntOf(e), n # Unset
  PROVE  n \in Nat /\ MayInt(e, ranges, n)
<1>1. n \in Nat
  BY IntsAre
<1>2. e.expr = "int" => n = e.n
  BY IntsAre
<1>3. e.expr = "ref" => In(n, ranges[Num].val)
  BY IntsAre DEF Covered
<1>4. e.expr = "sizeof" => n = ArraySize[e.of]
  BY IntsAre
<1>5. ASSUME e.expr = "strlen"
      PROVE  \E u \in Nat \ {0} : n = u - 1 + e.n /\ In(u, ranges[e.of].len)
  <2>1. e.of \in Strings
    BY <1>5, IntForms
  <2>2. PICK u \in Nat \ {0} : u = Used(e.of) /\ n = u - 1 + e.n
    BY <1>5, IntsAre
  <2>3. In(u, ranges[e.of].len)
    BY <2>1, <2>2, UsedCovered
  <2> QED
    BY <2>2, <2>3
<1> QED
  BY <1>1, <1>2, <1>3, <1>4, <1>5 DEF MayInt

-----------------------------------------------------------------------------
(* A write to a buffer.                                                    *)
WriteFits(o, at, marks, text, extent) ==
  /\ o \in Written /\ at \in Nat /\ text \in Nat /\ extent \in Nat
  /\ marks \in SUBSET Nat /\ \A i \in marks : i < extent

LEMMA PutIs ==
  ASSUME MemoryOK, NEW o, NEW at, NEW marks, NEW text, NEW extent, WriteFits(o, at, marks, text, extent),
         Put(o, at, marks, text, extent), NEW size, size = memory.size[o]
  PROVE  /\ size \in Nat /\ window' = window /\ num' = num
         /\ at + extent > size => /\ memory' = memory /\ phase' = "overflow"
                                  /\ overflow' = [of |-> o, by |-> IF at + text > size THEN "string" ELSE "padding"]
         /\ at + extent <= size =>
              /\ phase' = phase /\ overflow' = overflow
              /\ memory' \in [size : [Buffers -> Nat \cup {Unset}], nuls : [Buffers -> SUBSET Nat]]
              /\ memory'.size = memory.size
              /\ memory'.nuls[o] = (memory.nuls[o] \ (at .. at + extent - 1)) \cup {at + i : i \in marks}
              /\ \A p \in Buffers : p # o => memory'.nuls[p] = memory.nuls[p]
<1>1. o \in Buffers /\ size \in Nat
  <2>1. o \in Buffers /\ size \in Nat \cup {Unset} /\ size # Unset
    BY MemoryIs, Names DEF WriteFits, Put, SizeOfBuffer
  <2> QED
    BY <2>1
<1>2. window' = window /\ num' = num
  BY DEF Put
<1>3. PICK a \in Nat, t \in Nat, e \in Nat : a = at /\ t = text /\ e = extent
  BY DEF WriteFits
<1>4. CASE a + e > size
  BY <1>1, <1>2, <1>3, <1>4 DEF Put, SizeOfBuffer
<1>5. CASE ~(a + e > size)
  <2>1. PICK X : X = (memory.nuls[o] \ (at .. at + extent - 1)) \cup {at + i : i \in marks}
    OBVIOUS
  <2>2. X \in SUBSET Nat
    <3>1. memory.nuls[o] \in SUBSET Nat
      BY <1>1, MemoryIs
    <3>2. \A i \in marks : a + i \in Nat
      BY DEF WriteFits
    <3> QED
      BY <1>3, <2>1, <3>1, <3>2
  <2>3. memory' = [memory EXCEPT !.nuls[o] = X] /\ phase' = phase /\ overflow' = overflow
    BY <1>1, <1>3, <1>5, <2>1 DEF Put, SizeOfBuffer
  <2>4. PICK sz \in [Buffers -> Nat \cup {Unset}], nl \in [Buffers -> SUBSET Nat] : memory = [size |-> sz, nuls |-> nl]
    BY DEF MemoryOK
  <2>5. PICK new : new = [nl EXCEPT ![o] = X]
    OBVIOUS
  <2>6. new \in [Buffers -> SUBSET Nat] /\ new[o] = X /\ \A p \in Buffers : p # o => new[p] = nl[p]
    BY <1>1, <2>2, <2>5
  <2>7. memory' = [size |-> sz, nuls |-> new]
    BY <2>3, <2>4, <2>5
  <2>8. memory'.size = sz /\ memory'.nuls = new /\ memory.size = sz /\ memory.nuls = nl
    BY <2>4, <2>7
  <2>9. memory' \in [size : [Buffers -> Nat \cup {Unset}], nuls : [Buffers -> SUBSET Nat]]
    BY <2>6, <2>7
  <2> QED
    BY <1>1, <1>2, <1>3, <1>5, <2>1, <2>3, <2>6, <2>8, <2>9
<1> QED
  BY <1>4, <1>5

LEMMA PutTyped ==
  ASSUME MemoryOK, NEW o, NEW at, NEW marks, NEW text, NEW extent, WriteFits(o, at, marks, text, extent),
         Put(o, at, marks, text, extent)
  PROVE  MemoryOK'
<1>1. PICK size \in Nat : size = memory.size[o]
  BY PutIs
<1>2. PICK a \in Nat, e \in Nat : a = at /\ e = extent /\ o \in Written
  BY DEF WriteFits
<1>3. window' = window /\ num' = num
  BY PutIs
<1>4. CASE a + e > size
  <2>1. memory' = memory /\ overflow' = [of |-> o, by |-> IF at + text > size THEN "string" ELSE "padding"]
    BY <1>1, <1>2, <1>4, PutIs
  <2>2. overflow' \in [of : Written \cup {Nobody}, by : {Nobody, "string", "padding"}]
    BY <1>2, <2>1
  <2> QED
    BY <1>3, <2>1, <2>2 DEF MemoryOK
<1>5. CASE ~(a + e > size)
  <2>1. a + e <= size
    BY <1>5
  <2>2. /\ overflow' = overflow
        /\ memory' \in [size : [Buffers -> Nat \cup {Unset}], nuls : [Buffers -> SUBSET Nat]]
        /\ memory'.size = memory.size
        /\ memory'.nuls[o] = (memory.nuls[o] \ (at .. at + extent - 1)) \cup {at + i : i \in marks}
        /\ \A p \in Buffers : p # o => memory'.nuls[p] = memory.nuls[p]
    BY <1>1, <1>2, <2>1, PutIs
  <2>3. ASSUME NEW i \in memory'.nuls[o]
        PROVE  i < memory'.size[o]
    <3>1. CASE i \in memory.nuls[o]
      BY <1>2, <2>2, <3>1, Names DEF MemoryOK
    <3>2. CASE \E j \in marks : i = a + j
      <4>1. PICK j \in marks : i = a + j
        BY <3>2
      <4>2. j \in Nat /\ j < e
        BY <1>2 DEF WriteFits
      <4>3. i < size
        BY <2>1, <4>1, <4>2
      <4> QED
        BY <1>1, <2>2, <4>3
    <3> QED
      BY <1>2, <2>2, <3>1, <3>2
  <2>4. \A p \in Buffers : \A i \in memory'.nuls[p] : i < memory'.size[p]
    BY <2>2, <2>3 DEF MemoryOK
  <2> QED
    BY <1>3, <2>2, <2>4 DEF MemoryOK
<1> QED
  BY <1>4, <1>5

(* What a write needs, for the ranges to cover the memory after it.        *)
Reached(o, at, marks, text, extent) ==
  /\ \A i \in marks : In(at + i + 1, ranges[o].len) \/ (i - 1 \in marks /\ PadsAt(o, at + i))
  /\ extent > 0 /\ extent - 1 \notin marks /\ PadsAt(o, at + extent) => In(at + extent + 1, ranges[o].len)
  /\ In(at + text, ranges[o].len)

(* A string that goes past the end of a buffer fails its query.            *)
LEMMA PastEnd ==
  ASSUME NEW siz \in Interval, NEW len \in Interval, NEW n \in Nat, NEW m \in Nat,
         In(n, siz), siz.lo < INF, In(m, len), m > n
  PROVE  ~EpGe(siz.lo, len.hi)
<1>1. PICK x \in Int, y \in Int : x = siz.lo /\ y = len.hi
  BY IntervalFacts
<1>2. x < INF /\ (x = NEGINF \/ n >= x) /\ (y = INF \/ m <= y) /\ NEGINF < 0 /\ 0 < INF /\ NEGINF \in Int /\ INF \in Int
  BY <1>1, EndpointFacts DEF In
<1>3. ~(y <= NEGINF)
  BY <1>2
<1>4. ~(Finite(x) /\ y < INF /\ x >= y)
  <2>1. SUFFICES ASSUME x # NEGINF, y # INF
                 PROVE  ~(x >= y)
    BY <1>2 DEF Finite
  <2> QED
    BY <1>2, <2>1
<1> QED
  BY <1>1, <1>2, <1>3, <1>4 DEF EpGe

LEMMA PutCovered ==
  ASSUME MemoryOK, Covered, Ranged(ranges), Sized(ranges), phase = "run", Unsaturated,
         \A o \in Strings : ~EpGe(ranges[o].siz.lo, ranges[o].len.hi) => o \in reported,
         NEW o, NEW at, NEW marks, NEW text, NEW extent, WriteFits(o, at, marks, text, extent),
         Put(o, at, marks, text, extent), Reached(o, at, marks, text, extent),
         UNCHANGED <<program, ranges, reported>>
  PROVE  Covered'
<1>1. PICK size \in Nat : size = memory.size[o]
  BY PutIs
<1>2. PICK a \in Nat, e \in Nat, w \in Nat : a = at /\ e = extent /\ w = text
  BY DEF WriteFits
<1>3. o \in Written /\ o \in Strings /\ o \in Buffers
  BY Names DEF WriteFits
<1>4. window' = window /\ num' = num
  BY PutIs
<1>5. CASE a + e > size
  <2>1. /\ memory' = memory
        /\ overflow' = [of |-> o, by |-> IF a + w > size THEN "string" ELSE "padding"]
    BY <1>1, <1>2, <1>5, PutIs
  <2>2. ASSUME a + w > size
        PROVE  o \in reported
    <3>1. In(size, ranges[o].siz)
      <4>1. CASE o \in Arrays
        BY <1>1, <4>1, MemoryIs DEF Sized
      <4>2. CASE o = Heap
        <5>1. memory.size[Heap] # Unset
          BY <1>1, <4>2 DEF Unset
        <5> QED
          BY <1>1, <4>2, <5>1 DEF Covered
      <4> QED
        BY <1>3, <4>1, <4>2 DEF Written
    <3>2. ranges[o].siz.lo < INF
      <4>1. ranges[o].siz \in Interval
        BY <1>3 DEF Ranged
      <4>2. ~IsEmpty(ranges[o].siz)
        BY <3>1, <4>1, InFull
      <4> QED
        BY <1>3, <4>2 DEF Unsaturated
    <3>3. In(a + w, ranges[o].len)
      BY <1>2 DEF Reached
    <3>4. a + w \in Nat
      OBVIOUS
    <3>5. ranges[o].siz \in Interval /\ ranges[o].len \in Interval
      BY <1>3 DEF Ranged
    <3>6. ~EpGe(ranges[o].siz.lo, ranges[o].len.hi)
      BY <2>2, <3>1, <3>2, <3>3, <3>4, <3>5, PastEnd
    <3> QED
      BY <1>3, <3>6
  <2>3. overflow'.by = "string" => overflow'.of \in reported'
    BY <2>1, <2>2
  <2> QED
    BY <1>4, <2>1, <2>3 DEF Covered, NulCovered, PadsAt, Shows, ShowsEnv
<1>6. CASE ~(a + e > size)
  <2>1. a + e <= size
    BY <1>6
  <2>2. /\ overflow' = overflow /\ memory'.size = memory.size
        /\ memory'.nuls[o] = (memory.nuls[o] \ (a .. a + e - 1)) \cup {a + i : i \in marks}
        /\ \A p \in Buffers : p # o => memory'.nuls[p] = memory.nuls[p]
    BY <1>1, <1>2, <2>1, PutIs
  <2>3. \A p : \A i : PadsAt(p, i)' <=> PadsAt(p, i)
    BY DEF PadsAt
  <2>4. ASSUME NEW i \in memory'.nuls[o]
        PROVE  NulCovered(o, i)'
    <3>1. CASE i \in memory.nuls[o] /\ i \notin a .. a + e - 1
      <4>1. i \in Nat
        BY <1>3, <3>1, MemoryIs
      <4>2. CASE In(i + 1, ranges[o].len)
        BY <4>2 DEF NulCovered
      <4>3. CASE i - 1 \in memory.nuls[o] /\ PadsAt(o, i)
        <5>1. CASE i - 1 \in memory'.nuls[o]
          BY <2>3, <4>3, <5>1 DEF NulCovered
        <5>2. CASE i - 1 \notin memory'.nuls[o]
          <6>1. i - 1 \in a .. a + e - 1
            BY <2>2, <4>3, <5>2
          <6>2. i = a + e /\ e > 0
            BY <3>1, <4>1, <6>1
          <6>3. e - 1 \notin marks
            <7>1. SUFFICES ASSUME e - 1 \in marks
                           PROVE  FALSE
              OBVIOUS
            <7>2. a + (e - 1) = i - 1
              BY <6>2
            <7> QED
              BY <2>2, <5>2, <7>1, <7>2
          <6>4. In(a + e + 1, ranges[o].len)
            BY <1>2, <4>3, <6>2, <6>3 DEF Reached
          <6>5. a + e + 1 = i + 1
            BY <6>2
          <6> QED
            BY <6>4, <6>5 DEF NulCovered
        <5> QED
          BY <5>1, <5>2
      <4> QED
        BY <1>3, <3>1, <4>2, <4>3 DEF Covered, NulCovered
    <3>2. CASE \E j \in marks : i = a + j
      <4>1. PICK j \in marks : i = a + j
        BY <3>2
      <4>2. j \in Nat
        BY DEF WriteFits
      <4>3. CASE In(a + j + 1, ranges[o].len)
        BY <4>1, <4>3 DEF NulCovered
      <4>4. CASE j - 1 \in marks /\ PadsAt(o, a + j)
        <5>1. a + (j - 1) = i - 1
          BY <4>1, <4>2
        <5>2. i - 1 \in memory'.nuls[o]
          BY <2>2, <4>4, <5>1
        <5> QED
          BY <2>3, <4>1, <4>4, <5>2 DEF NulCovered
      <4> QED
        BY <1>2, <4>3, <4>4 DEF Reached
    <3> QED
      BY <2>2, <3>1, <3>2
  <2>5. ASSUME NEW p \in Written, p # o, NEW i \in memory'.nuls[p]
        PROVE  NulCovered(p, i)'
    <3>1. memory'.nuls[p] = memory.nuls[p]
      BY <2>2, <2>5, Names
    <3>2. NulCovered(p, i)
      BY <2>5, <3>1 DEF Covered
    <3> QED
      BY <2>3, <3>1, <3>2 DEF NulCovered
  <2>6. memory'.nuls[Env] = memory.nuls[Env]
    BY <1>3, <2>2, Names
  <2> QED
    BY <1>4, <2>2, <2>4, <2>5, <2>6 DEF Covered, Shows, ShowsEnv
<1> QED
  BY <1>5, <1>6

-----------------------------------------------------------------------------
(* The calls that write.                                                   *)

(* What the ranges have to be for a call, and the program around it.       *)
Held(c) ==
  /\ Covered /\ Ranged(ranges) /\ Sends(c, ranges) /\ Modelled(c) /\ \E j \in program : Pool[j] = c
  /\ c.call = "strncpy" =>
       \A j \in program : Pool[j].call = "strncpy" /\ Dst(Pool[j]) = Dst(c) => Pool[j] = c

Writes(c) ==
  \E at, marks, text, extent :
    /\ WriteFits(Dst(c), at, marks, text, extent) /\ Put(Dst(c), at, marks, text, extent)
    /\ Held(c) => Reached(Dst(c), at, marks, text, extent)

LEMMA WritesIs ==
  ASSUME NEW c, NEW at, NEW marks, NEW text, NEW extent,
         WriteFits(Dst(c), at, marks, text, extent), Put(Dst(c), at, marks, text, extent),
         Held(c) => Reached(Dst(c), at, marks, text, extent)
  PROVE  Writes(c)
BY DEF Writes

(* A string written whole. *)
LEMMA StringWritten ==
  ASSUME NEW c, Dst(c) \in Written, NEW at \in Nat, NEW w \in Pos, PutString(Dst(c), at, w),
         Held(c) => In(at + w, ranges[Dst(c)].len)
  PROVE  Writes(c)
<1>1. PICK marks : marks = {w - 1}
  OBVIOUS
<1>2. w \in Nat /\ w - 1 \in Nat /\ w - 1 < w
  BY DEF Pos
<1>3. WriteFits(Dst(c), at, marks, w, w)
  BY <1>1, <1>2 DEF WriteFits
<1>4. Put(Dst(c), at, marks, w, w)
  BY <1>1 DEF PutString
<1>5. ASSUME Held(c)
      PROVE  Reached(Dst(c), at, marks, w, w)
  <2>1. at + (w - 1) + 1 = at + w
    BY <1>2
  <2> QED
    BY <1>1, <1>5, <2>1 DEF Reached
<1> QED
  BY <1>3, <1>4, <1>5, WritesIs

LEMMA TargetIs ==
  ASSUME NEW c, c.args[1] \in Targets
  PROVE  Dst(c) \in Written /\ At(c) \in Nat
BY DEF Targets, Dst, At, Written, Number

LEMMA StrcpyWrites ==
  ASSUME MemoryOK, NEW c \in Calls, WellTyped(c), RunStrcpy(c)
  PROVE  Writes(c)
<1>1. c.call = "strcpy" /\ c.args[1] \in Targets /\ c.args[2] \in Texts
  BY DEF WellTyped, RunStrcpy
<1>2. PICK w : w = Bytes(c.args[2]) /\ w > 0 /\ PutString(Dst(c), At(c), w)
  BY DEF RunStrcpy, Readable
<1>3. w \in Pos
  BY <1>1, <1>2, BytesAre DEF Pos
<1>4. ASSUME Held(c)
      PROVE  In(At(c) + w, ranges[Dst(c)].len)
  <2>1. MayText(c.args[2], ranges, w)
    BY <1>1, <1>2, <1>4, TextMay DEF Held
  <2> QED
    BY <1>1, <1>3, <1>4, <2>1 DEF Held, Sends, Reaches
<1> QED
  BY <1>1, <1>2, <1>3, <1>4, TargetIs, StringWritten

LEMMA StrncpyWrites ==
  ASSUME MemoryOK, NEW c \in Calls, WellTyped(c), RunStrncpy(c)
  PROVE  Writes(c)
<1>1. c.call = "strncpy" /\ c.args[1] \in Targets /\ c.args[2] \in Texts /\ c.args[3] \in Ints
  BY DEF WellTyped, RunStrncpy
<1>2. PICK w, n : /\ w = Bytes(c.args[2]) /\ w > 0 /\ n = IntOf(c.args[3]) /\ n # Unset
                  /\ Put(Dst(c), At(c), w - 1 .. n - 1, Lesser(w, n), n)
  BY DEF RunStrncpy, Readable
<1>3. w \in Pos /\ w \in Nat /\ n \in Nat
  BY <1>1, <1>2, BytesAre, IntsAre DEF Pos
<1>4. PICK o \in Written, at \in Nat : o = Dst(c) /\ at = At(c)
  BY <1>1, TargetIs
<1>5. PICK marks \in SUBSET Nat : marks = w - 1 .. n - 1
  BY <1>2, <1>3
<1>6. PICK text \in Nat : text = Lesser(w, n)
  BY <1>3 DEF Lesser
<1>7. WriteFits(o, at, marks, text, n) /\ Put(o, at, marks, text, n)
  <2>1. \A i \in marks : i < n
    BY <1>3, <1>5
  <2>2. WriteFits(o, at, marks, text, n)
    BY <1>3, <2>1 DEF WriteFits
  <2>3. Put(o, at, marks, text, n)
    BY ONLY <1>2, <1>4, <1>5, <1>6
  <2> QED
    BY <2>2, <2>3
<1>8. ASSUME Held(c)
      PROVE  Reached(o, at, marks, text, n)
  <2>1. MayText(c.args[2], ranges, w) /\ MayInt(c.args[3], ranges, n)
    BY <1>1, <1>2, <1>8, TextMay, IntMay DEF Held
  <2>2. \A m \in Nat : MayInt(c.args[3], ranges, m) => In(at + Lesser(w, m), ranges[o].len)
    BY <1>1, <1>3, <1>4, <1>8, <2>1 DEF Held, Sends, Reaches
  <2>3. In(at + text, ranges[o].len)
    BY <1>3, <1>6, <2>1, <2>2
  <2>4. ASSUME NEW i \in marks
        PROVE  In(at + i + 1, ranges[o].len) \/ (i - 1 \in marks /\ PadsAt(o, at + i))
    <3>1. i \in Nat /\ w - 1 <= i /\ i <= n - 1
      BY <1>3, <1>5
    <3>2. CASE i = w - 1
      <4>1. text = w /\ at + i + 1 = at + w
        BY <1>3, <1>6, <3>1, <3>2 DEF Lesser
      <4> QED
        BY <2>3, <4>1
    <3>3. CASE i # w - 1
      <4>1. i - 1 \in marks
        BY <1>3, <1>5, <3>1, <3>3
      <4>2. at + i < at + n
        BY <1>3, <3>1
      <4>3. PadsAt(o, at + i)
        BY <1>1, <1>3, <1>4, <1>8, <2>1, <4>2 DEF Held, PadsAt
      <4> QED
        BY <4>1, <4>3
    <3> QED
      BY <3>2, <3>3
  <2>5. ASSUME n > 0, n - 1 \notin marks, PadsAt(o, at + n)
        PROVE  In(at + n + 1, ranges[o].len)
    <3>1. w > n
      BY <1>3, <1>5, <2>5
    <3>2. PICK j \in program, m \in Nat :
            /\ Pool[j].call = "strncpy" /\ Dst(Pool[j]) = o
            /\ MayInt(Pool[j].args[3], ranges, m) /\ at + n < At(Pool[j]) + m
      BY <2>5 DEF PadsAt
    <3>3. Pool[j] = c
      BY <1>1, <1>4, <1>8, <3>2 DEF Held
    <3>4. MayInt(c.args[3], ranges, m) /\ at + n < at + m
      BY <1>4, <3>2, <3>3
    <3>5. In(at + Lesser(w, m), ranges[o].len)
      BY <2>2, <3>4
    <3>6. PICK x \in Nat : x = Lesser(w, m) /\ x >= n + 1
      <4>1. Lesser(w, m) \in Nat /\ Lesser(w, m) >= n + 1
        BY <1>3, <3>1, <3>4 DEF Lesser
      <4> QED
        BY <4>1
    <3>7. text = n
      BY <1>3, <1>6, <3>1 DEF Lesser
    <3>8. In(at + n, ranges[o].len) /\ In(at + x, ranges[o].len)
      BY <2>3, <3>5, <3>6, <3>7
    <3>9. at + n <= at + n + 1 /\ at + n + 1 <= at + x /\ at + n \in Int /\ at + x \in Int /\ at + n + 1 \in Int
      BY <1>3, <3>6
    <3>10. ranges[o].len \in Interval
      BY <1>8, Names DEF Held, Ranged
    <3> QED
      BY <3>8, <3>9, <3>10, InBetween
  <2> QED
    BY <2>3, <2>4, <2>5 DEF Reached
<1> QED
  BY <1>4, <1>7, <1>8, WritesIs

LEMMA StrcatWrites ==
  ASSUME MemoryOK, NEW c \in Calls, WellTyped(c), RunStrcat(c)
  PROVE  Writes(c)
<1>1. /\ c.call \in {"strcat", "strncat"} /\ c.args[1] \in Whole /\ c.args[2] \in Texts
      /\ c.call = "strncat" => c.args[3] \in Ints
  BY DEF WellTyped, RunStrcat
<1>2. PICK w, n, u : /\ w = Bytes(c.args[2]) /\ w > 0 /\ u = Used(Dst(c)) /\ u > 0
                     /\ n = (IF c.call = "strcat" THEN w ELSE IntOf(c.args[3])) /\ n # Unset
                     /\ PutString(Dst(c), u - 1, Lesser(w - 1, n) + 1)
  BY DEF RunStrcat, Readable
<1>3. Dst(c) \in Written /\ Dst(c) \in Strings
  BY <1>1, Names DEF Whole, Dst, Written
<1>4. w \in Pos /\ w \in Nat /\ u \in Pos /\ u \in Nat /\ n \in Nat
  <2>1. w \in Nat /\ u \in Nat
    BY <1>1, <1>2, <1>3, BytesAre, UsedIs
  <2>2. c.call = "strncat" => n \in Nat
    BY <1>1, <1>2, IntsAre
  <2>3. c.call = "strcat" => n = w
    BY <1>2
  <2> QED
    BY <1>1, <1>2, <2>1, <2>2, <2>3 DEF Pos
<1>5. PICK at \in Nat, x \in Nat, y \in Pos : at = u - 1 /\ x = Lesser(w - 1, n) /\ y = x + 1 /\ at + y = u + x
  <2>1. u - 1 \in Nat /\ Lesser(w - 1, n) \in Nat
    BY <1>2, <1>4 DEF Lesser
  <2>2. PICK x \in Nat : x = Lesser(w - 1, n)
    BY <2>1
  <2>3. x + 1 \in Pos /\ (u - 1) + (x + 1) = u + x
    BY <1>4 DEF Pos
  <2> QED
    BY <2>1, <2>2, <2>3
<1>6. PutString(Dst(c), at, y)
  BY <1>2, <1>5
<1>7. ASSUME Held(c)
      PROVE  In(at + y, ranges[Dst(c)].len)
  <2>1. c.call = "strncat" /\ c.args[3] \in Ints
    BY <1>1, <1>7 DEF Held, Modelled
  <2>2. MayText(c.args[2], ranges, w) /\ MayInt(c.args[3], ranges, n)
    BY <1>1, <1>2, <1>7, <2>1, TextMay, IntMay DEF Held
  <2>3. In(u, ranges[Dst(c)].len)
    BY <1>2, <1>3, <1>7, UsedCovered DEF Held
  <2>4. In(u + Lesser(w - 1, n), ranges[Dst(c)].len)
    BY <1>4, <1>7, <2>1, <2>2, <2>3 DEF Held, Sends
  <2> QED
    BY <1>5, <2>4
<1> QED
  BY <1>3, <1>5, <1>6, <1>7, StringWritten

LEMMA ReadWrites ==
  ASSUME MemoryOK, NEW c \in Calls, WellTyped(c), RunRead(c)
  PROVE  Writes(c)
<1>1. CASE c.call = "fgets"
  <2>1. c.args[1] \in Targets /\ c.args[2] \in Ints
    BY <1>1 DEF WellTyped
  <2>2. PICK w : w \in 1 .. IntOf(c.args[2]) /\ PutString(Dst(c), At(c), w)
    BY <1>1 DEF RunRead
  <2>3. PICK n \in Nat : n = IntOf(c.args[2]) /\ w \in 1 .. n /\ w \in Pos /\ n # Unset
    <3>1. IntOf(c.args[2]) \in Nat \cup {Unset}
      BY <2>1, IntsAre
    <3> QED
      BY <2>2, <3>1 DEF Unset, Pos
  <2>4. ASSUME Held(c)
        PROVE  In(At(c) + w, ranges[Dst(c)].len)
    <3>1. MayInt(c.args[2], ranges, n)
      BY <2>1, <2>3, <2>4, IntMay DEF Held
    <3> QED
      BY <1>1, <2>3, <2>4, <3>1 DEF Held, Sends, Reaches
  <2> QED
    BY <2>1, <2>2, <2>3, <2>4, TargetIs, StringWritten
<1>2. CASE c.call = "gets"
  <2>1. c.args[1] \in Targets
    BY <1>2 DEF WellTyped
  <2>2. PICK w : w \in 1 .. MaxLine /\ PutString(Dst(c), At(c), w)
    BY <1>2 DEF RunRead
  <2>3. w \in Pos
    BY <2>2, PoolAssumption DEF Pos
  <2>4. ASSUME Held(c)
        PROVE  In(At(c) + w, ranges[Dst(c)].len)
    BY <1>2, <2>3, <2>4 DEF Held, Sends, Reaches
  <2> QED
    BY <2>1, <2>2, <2>3, <2>4, TargetIs, StringWritten
<1> QED
  BY <1>1, <1>2 DEF RunRead

-----------------------------------------------------------------------------
(* The calls that print.                                                   *)

(* A value that prints its characters, of which there is one at least.     *)
Printables(es, amounts) ==
  /\ es \in Seq(Texts \cup Ints) /\ amounts \in [1 .. Len(es) -> Nat]
  /\ \A i \in 1 .. Len(es) : es[i] \in Texts => amounts[i] > 0

LEMMA PaddedNat ==
  ASSUME NEW es, NEW amounts, Printables(es, amounts), NEW item \in Items, NEW i, item.conv # "?",
         ItemFits(item, es, i), NEW long \in BOOLEAN
  PROVE  Padded(amounts, item, i, long) \in Nat
<1>1. es \in Seq(Texts \cup Ints) /\ amounts \in [1 .. Len(es) -> Nat] /\ DOMAIN es = 1 .. Len(es)
  BY DEF Printables
<1>2. \A j : AmountAt(amounts, j) \in Nat
  BY <1>1 DEF AmountAt
<1>3. PICK w, p, x, q :
        /\ w = After(i, item.width) /\ p = After(w, item.prec)
        /\ x = NumberOf(amounts, i, item.width) /\ q = NumberOf(amounts, w, item.prec)
  OBVIOUS
<1>4. x \in Nat \cup {-1} /\ q \in Nat \cup {Unset}
  <2>1. item.width \in Width /\ item.prec \in Width
    BY DEF Items
  <2>2. \A spec \in Width : \A j : NumberOf(amounts, j, spec) \in Nat \cup {-1}
    BY <1>2, EndpointFacts DEF NumberOf, Width, Number, Absent, Star
  <2> QED
    BY <1>3, <2>1, <2>2 DEF Unset
<1>5. PICK y : y = Printed(amounts, item, p, q, long)
  OBVIOUS
<1>6. y \in Nat
  <2>1. CASE item.conv = "s"
    <3>1. p \in 1 .. Len(es) /\ es[p] \in Texts
      BY <1>1, <1>3, <2>1 DEF ItemFits, TakesArg
    <3>2. PICK a \in Nat : a = AmountAt(amounts, p) /\ a > 0
      BY <1>1, <1>2, <3>1 DEF Printables, AmountAt
    <3>3. y = IF q = Unset THEN a - 1 ELSE Lesser(q, a - 1)
      BY <1>5, <2>1, <3>2, ObjectAssumption DEF Printed
    <3>4. PICK b \in Nat : b = a - 1
      BY <3>2
    <3> QED
      BY <1>4, <3>3, <3>4 DEF Lesser
  <2>2. CASE item.conv # "s"
    <3>1. \A d \in DOMAIN ConvMax : ConvMax[d] \in Nat
      BY ObjectAssumption
    <3> QED
      BY <1>5, <2>2, <3>1 DEF Printed
  <2> QED
    BY <2>1, <2>2
<1>7. Padded(amounts, item, i, long) = Greater(x, y)
  BY <1>3, <1>5 DEF Padded
<1> QED
  BY <1>4, <1>6, <1>7 DEF Greater

LEMMA OutputPos ==
  ASSUME NEW es, NEW amounts, Printables(es, amounts), NEW fmt \in Seq(Items), fmt # Unparsed,
         FormatFits(fmt, es), NEW long \in BOOLEAN
  PROVE  Output(fmt, amounts, long) \in Pos
<1>1. PICK n \in Nat : n = Len(fmt) /\ DOMAIN fmt = 1 .. n /\ \A i \in 1 .. n : fmt[i] \in Items
  OBVIOUS
<1>2. PICK at \in [1 .. n + 1 -> 1 .. Len(es) + 1] :
        /\ at[1] = 1
        /\ \A j \in 1 .. n : /\ fmt[j].conv # "?" /\ ItemFits(fmt[j], es, at[j])
                             /\ at[j + 1] = NextArg(fmt[j], at[j])
  BY <1>1 DEF FormatFits
<1>3. amounts \in [1 .. Len(es) -> Nat] /\ Len(es) \in Nat
  BY DEF Printables
<1>4. PICK g : Counts(g, fmt, amounts, long)
  BY <1>3, OutputSteps
<1>5. /\ g[0] = [next |-> 1, bytes |-> 1]
      /\ Output(fmt, amounts, long) = g[n].bytes
      /\ \A k \in 0 .. n - 1 : g[k + 1] = [next  |-> NextArg(fmt[k + 1], g[k].next),
                                           bytes |-> g[k].bytes + Padded(amounts, fmt[k + 1], g[k].next, long)]
  BY <1>1, <1>4 DEF Counts
<1> DEFINE Inv(k) == g[k].next = at[k + 1] /\ g[k].bytes \in Pos
           Good == {k \in Nat : k <= n => Inv(k)}
<1>6. 0 \in Good
  <2>1. g[0].next = 1 /\ g[0].bytes = 1 /\ 0 + 1 = 1
    BY <1>5
  <2> QED
    BY <1>2, <2>1 DEF Pos
<1>7. ASSUME NEW k \in 0 .. n - 1, Inv(k)
      PROVE  Inv(k + 1)
  <2>1. k + 1 \in 1 .. n
    OBVIOUS
  <2>2a. PICK item \in Items : \E i :
        item = fmt[k + 1] /\ i = at[k + 1]
    BY <1>1, <2>1
  <2>2. PICK i :
        item = fmt[k + 1] /\ i = at[k + 1]
    BY <2>2a
  <2>3. item.conv # "?" /\ ItemFits(item, es, i) /\ at[k + 1 + 1] = NextArg(item, i)
    BY <1>2, <2>1, <2>2
  <2>4. PICK b \in Nat : b = Padded(amounts, item, i, long)
    BY <2>3, PaddedNat
  <2>5. PICK a \in Pos : g[k].bytes = a /\ g[k].next = i
    BY <1>7, <2>2
  <2>6. g[k + 1] = [next |-> NextArg(item, i), bytes |-> a + b]
    <3>1. g[k + 1] = [next  |-> NextArg(fmt[k + 1], g[k].next),
                      bytes |-> g[k].bytes + Padded(amounts, fmt[k + 1], g[k].next, long)]
      BY <1>5
    <3> QED
      BY ONLY <2>2, <2>4, <2>5, <3>1
  <2>7. a + b \in Pos
    BY DEF Pos
  <2> QED
    BY <2>3, <2>6, <2>7
<1>8. \A k \in Nat : k \in Good => k + 1 \in Good
  <2> HIDE DEF Inv
  <2> SUFFICES ASSUME NEW k \in Nat, k \in Good
               PROVE  k + 1 <= n => Inv(k + 1)
    OBVIOUS
  <2> QED
    BY <1>7
<1>9. Nat \subseteq Good
  <2> HIDE DEF Good
  <2> QED
    BY <1>6, <1>8, SetInduction
<1> QED
  BY <1>5, <1>9

(* The beginning of a string, possibly nothing. *)
LEMMA BeginningWritten ==
  ASSUME NEW c, Dst(c) \in Written, NEW at \in Nat, NEW w \in Nat,
         Put(Dst(c), at, IF w = 0 THEN {} ELSE {w - 1}, w, w), Held(c) => In(at + w, ranges[Dst(c)].len)
  PROVE  Writes(c)
<1>1. PICK marks : marks = IF w = 0 THEN {} ELSE {w - 1}
  OBVIOUS
<1>2. w # 0 => w - 1 \in Nat /\ w - 1 < w
  OBVIOUS
<1>3. WriteFits(Dst(c), at, marks, w, w)
  BY <1>1, <1>2 DEF WriteFits
<1>4. Put(Dst(c), at, marks, w, w)
  BY <1>1
<1>5. ASSUME Held(c)
      PROVE  Reached(Dst(c), at, marks, w, w)
  <2>1. w # 0 => at + (w - 1) + 1 = at + w
    BY <1>2
  <2> QED
    BY <1>1, <1>5, <2>1 DEF Reached
<1> QED
  BY <1>3, <1>4, <1>5, WritesIs

(* What the arguments of a call have, it may print. *)
Prints(c, es, out) ==
  /\ out \in Pos
  /\ Held(c) => /\ c.fmt = Unparsed => c.call = "sprintf"
                /\ c.fmt # Unparsed => MayPrint(c.fmt, es, ranges, out)

LEMMA UsableIs ==
  ASSUME MemoryOK, NEW e \in Texts \cup Ints, NEW o, Usable(e, o)
  PROVE  /\ e \in Texts => IsText(e) /\ Bytes(e) \in Pos /\ Amount(e) = Bytes(e)
         /\ e \in Ints => ~IsText(e) /\ IntOf(e) \in Nat /\ IntOf(e) # Unset /\ Amount(e) = IntOf(e)
<1>1. CASE e \in Texts
  <2>1. IsText(e) /\ e \notin Ints
    BY <1>1, AmountKinds
  <2>2. Bytes(e) \in Nat /\ Bytes(e) > 0
    BY <1>1, <2>1, BytesAre DEF Usable, Readable
  <2> QED
    BY <2>1, <2>2 DEF Amount, Pos
<1>2. CASE e \in Ints
  <2>1. ~IsText(e) /\ e \notin Texts
    BY <1>2, AmountKinds
  <2>2. IntOf(e) \in Nat \cup {Unset} /\ IntOf(e) # Unset
    BY <1>2, <2>1, IntsAre DEF Usable
  <2> QED
    BY <2>1, <2>2 DEF Amount
<1> QED
  BY <1>1, <1>2

LEMMA AmountMay ==
  ASSUME MemoryOK, Covered, Ranged(ranges), NEW e \in Texts \cup Ints, NEW o, Usable(e, o),
         NEW u, u = [p \in Strings |-> Used(p)], NEW x, x = Amount(e)
  PROVE  MayAmount(e, ranges, u, x)
<1>1. CASE e \in Texts
  <2>1. IsText(e) /\ x \in Pos /\ x = Bytes(e) /\ x > 0
    BY <1>1, UsableIs DEF Pos
  <2>2. MayText(e, ranges, x)
    BY <1>1, <2>1, TextMay
  <2>3. e.expr # "lit" => e.of \in Strings /\ Used(e.of) = x + e.n
    BY <1>1, <2>1, BytesAre
  <2> QED
    BY <2>1, <2>2, <2>3 DEF MayAmount, MayText
<1>2. CASE e \in Ints
  <2>1. ~IsText(e) /\ x = IntOf(e) /\ IntOf(e) # Unset
    BY <1>2, UsableIs
  <2>2. MayInt(e, ranges, x)
    BY <1>2, <2>1, IntMay
  <2> QED
    BY <2>1, <2>2 DEF MayAmount
<1> QED
  BY <1>1, <1>2

LEMMA OutputsPrint ==
  ASSUME MemoryOK, NEW c \in Calls, NEW k \in Nat, NEW es, Drops(es, c.args, k), FormatFits(c.fmt, es),
         c.call = "sprintf" \/ (c.call = "snprintf"), \A i \in DOMAIN es : Usable(es[i], Dst(c)),
         NEW out \in Outputs(c, [i \in DOMAIN es |-> Amount(es[i])])
  PROVE  Prints(c, es, out)
<1>1. es \in Seq(Texts \cup Ints) /\ DOMAIN es = 1 .. Len(es) /\ c.fmt \in Seq(Items)
  BY DEF Drops, Calls
<1>2. PICK amounts : amounts = [i \in 1 .. Len(es) |-> Amount(es[i])]
  OBVIOUS
<1>3. Printables(es, amounts)
  <2>1. \A i \in 1 .. Len(es) : es[i] \in Texts \cup Ints /\ Amount(es[i]) \in Nat /\ (es[i] \in Texts => Amount(es[i]) > 0)
    BY <1>1, UsableIs DEF Pos
  <2> QED
    BY <1>1, <1>2, <2>1 DEF Printables
<1>4. CASE c.fmt = Unparsed
  <2>1. out \in 1 .. MaxLine
    BY <1>4 DEF Outputs
  <2>2. out \in Pos
    BY <2>1, PoolAssumption DEF Pos
  <2>3. Held(c) => c.call = "sprintf"
    BY <1>4 DEF Held, Modelled
  <2> QED
    BY <1>4, <2>2, <2>3 DEF Prints
<1>5. CASE c.fmt # Unparsed
  <2>1. PICK long \in BOOLEAN : out = Output(c.fmt, amounts, long)
    BY <1>1, <1>2, <1>5 DEF Outputs
  <2>2. out \in Pos
    BY <1>1, <1>3, <1>5, <2>1, OutputPos
  <2>3. ASSUME Held(c)
        PROVE  MayPrint(c.fmt, es, ranges, out)
    <3>1. PICK u : u = [o \in Strings |-> Used(o)]
      OBVIOUS
    <3>2. u \in [Strings -> Nat]
      BY <3>1, UsedIs
    <3>3. \A i \in 1 .. Len(es) : MayAmount(es[i], ranges, u, amounts[i])
      <4> SUFFICES ASSUME NEW i \in 1 .. Len(es)
                   PROVE  MayAmount(es[i], ranges, u, amounts[i])
        OBVIOUS
      <4>1a. PICK e \in Texts \cup Ints : \E x :
            e = es[i] /\ x = Amount(e) /\ x = amounts[i] /\ Usable(e, Dst(c))
        BY <1>1, <1>2
      <4>1. PICK x :
            e = es[i] /\ x = Amount(e) /\ x = amounts[i] /\ Usable(e, Dst(c))
        BY <4>1a
      <4> QED
        BY <2>3, <3>1, <4>1, AmountMay DEF Held
    <3>4. amounts \in [1 .. Len(es) -> Nat]
      BY <1>3 DEF Printables
    <3> QED
      BY <2>1, <3>2, <3>3, <3>4 DEF MayPrint
  <2> QED
    BY <1>5, <2>2, <2>3 DEF Prints
<1> QED
  BY <1>4, <1>5

LEMMA PrintfWrites ==
  ASSUME MemoryOK, NEW c \in Calls, WellTyped(c), RunPrintf(c)
  PROVE  Writes(c)
<1>1. PICK args \in Seq(Texts \cup Ints) : args = c.args
  BY DEF Calls
<1>2. CASE c.call = "sprintf"
  <2>1. c.args # << >> /\ c.args[1] \in Targets /\ FormatFits(c.fmt, Tail(c.args))
    BY <1>2 DEF WellTyped
  <2>2. PICK es : es = Tail(args) /\ es = SubSeq(args, 2, Len(args)) /\ Drops(es, args, 1)
    <3>1. PICK es : es = Tail(args)
      OBVIOUS
    <3>2. es = SubSeq(args, 1 + 1, Len(args)) /\ Drops(es, args, 1)
      BY <1>1, <2>1, <3>1, TailsDrop
    <3>3. 1 + 1 = 2
      OBVIOUS
    <3>4. es = SubSeq(args, 2, Len(args))
      BY ONLY <3>2, <3>3
    <3> QED
      BY <3>1, <3>2, <3>4
  <2>3. /\ \A i \in 2 .. Len(args) : Usable(args[i], Dst(c))
        /\ \E out \in Outputs(c, [i \in DOMAIN es |-> Amount(es[i])]) :
             Put(Dst(c), At(c), IF out = 0 THEN {} ELSE {out - 1}, out, out)
    BY <1>1, <1>2, <2>2 DEF RunPrintf
  <2>4. PICK out : /\ out \in Outputs(c, [i \in DOMAIN es |-> Amount(es[i])])
                   /\ Put(Dst(c), At(c), IF out = 0 THEN {} ELSE {out - 1}, out, out)
    BY <2>3
  <2>5. \A i \in DOMAIN es : Usable(es[i], Dst(c))
    <3> SUFFICES ASSUME NEW i \in DOMAIN es
                 PROVE  Usable(es[i], Dst(c))
      OBVIOUS
    <3>1. es \in Seq(Texts \cup Ints) /\ i \in 1 .. Len(es) /\ i + 1 \in DOMAIN args /\ es[i] = args[i + 1]
      BY <2>2 DEF Drops
    <3>2. i + 1 \in 2 .. Len(args)
      BY <3>1
    <3> QED
      BY <2>3, <3>1, <3>2
  <2>6. FormatFits(c.fmt, es) /\ Drops(es, c.args, 1)
    BY <1>1, <2>1, <2>2
  <2>7. Prints(c, es, out)
    BY <1>2, <2>4, <2>5, <2>6, OutputsPrint
  <2>8. ASSUME Held(c)
        PROVE  In(At(c) + out, ranges[Dst(c)].len)
    BY <1>1, <1>2, <2>2, <2>7, <2>8 DEF Held, Prints, Sends, Reaches
  <2>9. out \in Nat
    BY <2>7 DEF Prints, Pos
  <2> QED
    BY <2>1, <2>4, <2>8, <2>9, TargetIs, BeginningWritten
<1>3. CASE c.call = "snprintf"
  <2>1. Len(c.args) > 1 /\ c.args[1] \in Targets /\ c.args[2] \in Ints /\ FormatFits(c.fmt, Tail(Tail(c.args)))
    BY <1>3 DEF WellTyped
  <2>2. PICK es : es = Tail(Tail(args)) /\ es = SubSeq(args, 3, Len(args)) /\ Drops(es, args, 2)
    <3>1. PICK es : es = Tail(Tail(args))
      OBVIOUS
    <3>2. es = SubSeq(args, 2 + 1, Len(args)) /\ Drops(es, args, 2)
      BY <1>1, <2>1, <3>1, TailsDrop
    <3>3. 2 + 1 = 3
      OBVIOUS
    <3>4. es = SubSeq(args, 3, Len(args))
      BY ONLY <3>2, <3>3
    <3> QED
      BY <3>1, <3>2, <3>4
  <2>3. /\ \A i \in 2 .. Len(args) : Usable(args[i], Dst(c))
        /\ \E out \in Outputs(c, [i \in DOMAIN es |-> Amount(es[i])]) :
             \E w \in {Lesser(out, IntOf(args[2]))} : Put(Dst(c), At(c), IF w = 0 THEN {} ELSE {w - 1}, w, w)
    BY <1>1, <1>3, <2>2 DEF RunPrintf
  <2>4. PICK out, w : /\ out \in Outputs(c, [i \in DOMAIN es |-> Amount(es[i])]) /\ w = Lesser(out, IntOf(args[2]))
                      /\ Put(Dst(c), At(c), IF w = 0 THEN {} ELSE {w - 1}, w, w)
    BY <2>3
  <2>5. \A i \in DOMAIN es : Usable(es[i], Dst(c))
    <3> SUFFICES ASSUME NEW i \in DOMAIN es
                 PROVE  Usable(es[i], Dst(c))
      OBVIOUS
    <3>1. es \in Seq(Texts \cup Ints) /\ i \in 1 .. Len(es) /\ i + 2 \in DOMAIN args /\ es[i] = args[i + 2]
      BY <2>2 DEF Drops
    <3>2. i + 2 \in 2 .. Len(args)
      BY <3>1
    <3> QED
      BY <2>3, <3>1, <3>2
  <2>6. FormatFits(c.fmt, es) /\ Drops(es, c.args, 2)
    BY <1>1, <2>1, <2>2
  <2>7. Prints(c, es, out)
    BY <1>3, <2>4, <2>5, <2>6, OutputsPrint
  <2>8. PICK n \in Nat : n = IntOf(c.args[2]) /\ n # Unset
    <3>1. Usable(args[2], Dst(c))
      <4>1. 2 \in 2 .. Len(args)
        BY <1>1, <2>1
      <4> QED
        BY <2>3, <4>1
    <3> QED
      BY <1>1, <2>1, <3>1, UsableIs
  <2>9. out \in Pos /\ out \in Nat /\ w = Lesser(out, n) /\ w \in Nat
    <3>1. out \in Pos /\ out \in Nat
      BY <2>7 DEF Prints, Pos
    <3> QED
      BY <1>1, <2>4, <2>8, <3>1 DEF Lesser
  <2>10. ASSUME Held(c)
         PROVE  In(At(c) + w, ranges[Dst(c)].len)
    <3>1. MayInt(c.args[2], ranges, n)
      BY <2>1, <2>8, <2>10, IntMay DEF Held
    <3>2. MayPrint(c.fmt, es, ranges, out)
      BY <1>3, <2>7, <2>10 DEF Prints
    <3>3. Reaches(c, ranges, Lesser(out, n))
      BY <1>1, <1>3, <2>2, <2>9, <2>10, <3>1, <3>2 DEF Held, Sends
    <3> QED
      BY <2>9, <3>3 DEF Reaches
  <2> QED
    BY <2>1, <2>4, <2>9, <2>10, TargetIs, BeginningWritten
<1> QED
  BY <1>2, <1>3 DEF RunPrintf

-----------------------------------------------------------------------------
(* The calls that write nothing.                                           *)

Renewed(o, size, marks) ==
  /\ memory' \in [size : [Buffers -> Nat \cup {Unset}], nuls : [Buffers -> SUBSET Nat]]
  /\ memory'.size[o] = size /\ memory'.nuls[o] = marks
  /\ \A p \in Buffers : p # o => memory'.size[p] = memory.size[p] /\ memory'.nuls[p] = memory.nuls[p]

Renews(o, size, marks) == memory' = [memory EXCEPT !.size[o] = size, !.nuls[o] = marks]

LEMMA RenewIs ==
  ASSUME MemoryOK, NEW o \in Buffers, NEW size \in Nat, NEW marks \in SUBSET Nat, Renews(o, size, marks)
  PROVE  Renewed(o, size, marks)
<1>1. PICK sz \in [Buffers -> Nat \cup {Unset}], nl \in [Buffers -> SUBSET Nat] : memory = [size |-> sz, nuls |-> nl]
  BY DEF MemoryOK
<1>2. PICK newsz, newnl : newsz = [sz EXCEPT ![o] = size] /\ newnl = [nl EXCEPT ![o] = marks]
  OBVIOUS
<1>3. newsz \in [Buffers -> Nat \cup {Unset}] /\ newsz[o] = size /\ \A p \in Buffers : p # o => newsz[p] = sz[p]
  BY <1>2
<1>4. newnl \in [Buffers -> SUBSET Nat] /\ newnl[o] = marks /\ \A p \in Buffers : p # o => newnl[p] = nl[p]
  BY <1>2
<1>5. memory' = [size |-> newsz, nuls |-> newnl]
  BY <1>1, <1>2 DEF Renews
<1>6. memory'.size = newsz /\ memory'.nuls = newnl /\ memory.size = sz /\ memory.nuls = nl
  BY ONLY <1>1, <1>5
<1>7. memory' \in [size : [Buffers -> Nat \cup {Unset}], nuls : [Buffers -> SUBSET Nat]]
  BY <1>3, <1>4, <1>5
<1> QED
  BY <1>3, <1>4, <1>6, <1>7 DEF Renewed

(* What a step that does not write leaves behind. *)
Leaves(c) == MemoryOK' /\ (Held(c) => Covered')

LEMMA AllocateLeaves ==
  ASSUME MemoryOK, NEW c, NEW size \in Nat, NEW marks \in SUBSET Nat, \A i \in marks : i < size,
         Allocate(size, marks), UNCHANGED <<program, ranges, reported>>,
         Held(c) => In(size, ranges[Heap].siz) /\ \A i \in marks : In(i + 1, ranges[Heap].len)
  PROVE  Leaves(c)
<1>1. Heap \in Buffers /\ Heap \in Written
  BY DEF Buffers, Written
<1>2. Renewed(Heap, size, marks)
  <2>1. Renews(Heap, size, marks)
    BY DEF Allocate, Renews
  <2> QED
    BY <1>1, <2>1, RenewIs
<1>3. window.of = Heap => window' = [of |-> Nobody, at |-> 0]
  BY DEF Allocate
<1>4. window.of # Heap => window' = window
  BY DEF Allocate
<1>5. overflow' = overflow /\ num' = num
  BY DEF Allocate
<1>6. MemoryOK'
  <2>1. \A o \in Buffers : \A i \in memory'.nuls[o] : i < memory'.size[o]
    BY <1>2 DEF MemoryOK, Renewed
  <2>2. \A o \in Arrays : memory'.size[o] = ArraySize[o]
    BY <1>2, Names DEF MemoryOK, Renewed, Buffers
  <2>3. window' \in [of : Buffers \cup {Nobody}, at : Nat]
    BY <1>3, <1>4 DEF MemoryOK
  <2>4. window'.of \in Buffers => window'.at < memory'.size[window'.of]
    <3>1. CASE window.of = Heap
      <4>1. window'.of = Nobody
        BY <1>3, <3>1
      <4> QED
        BY <4>1, Names
    <3>2. CASE window.of # Heap
      <4>1. window' = window
        BY <1>4, <3>2
      <4>2. window.of \in Buffers => memory'.size[window.of] = memory.size[window.of]
        BY <1>2, <3>2 DEF Renewed
      <4> QED
        BY <4>1, <4>2 DEF MemoryOK
    <3> QED
      BY <3>1, <3>2
  <2> QED
    BY <1>2, <1>5, <2>1, <2>2, <2>3, <2>4 DEF MemoryOK, Renewed
<1>7. ASSUME Held(c)
      PROVE  Covered'
  <2>1. Covered /\ In(size, ranges[Heap].siz) /\ \A i \in marks : In(i + 1, ranges[Heap].len)
    BY <1>7 DEF Held
  <2>2. ASSUME NEW o \in Written, NEW i \in memory'.nuls[o]
        PROVE  NulCovered(o, i)'
    <3>1. CASE o = Heap
      BY <1>2, <2>1, <2>2, <3>1 DEF NulCovered, Renewed
    <3>2. CASE o # Heap
      <4>1. memory'.nuls[o] = memory.nuls[o]
        BY <1>2, <3>2, Names DEF Renewed
      <4>2. NulCovered(o, i)
        BY <2>1, <2>2, <4>1 DEF Covered
      <4> QED
        BY <4>1, <4>2 DEF NulCovered, PadsAt
    <3> QED
      BY <3>1, <3>2
  <2>3. In(memory'.size[Heap], ranges'[Heap].siz)
    BY <1>2, <2>1 DEF Renewed
  <2>4. /\ window'.of \in Written => Shows(window.of, window.at)'
        /\ window'.of = Env => ShowsEnv'
    <3>1. CASE window.of = Heap
      <4>1. window'.of = Nobody
        BY <1>3, <3>1
      <4>2. Nobody \notin Written /\ Nobody # Env
        BY Names DEF Buffers
      <4> QED
        BY <4>1, <4>2
    <3>2. CASE window.of # Heap
      <4>1. window' = window /\ memory'.nuls[Env] = memory.nuls[Env] /\ ranges' = ranges
        BY <1>2, <1>4, <3>2, Names DEF Renewed
      <4>2. window.of \in Written => Shows(window.of, window.at)
        BY <2>1 DEF Covered
      <4>3. window.of = Env => ShowsEnv
        BY <2>1 DEF Covered
      <4>4. window.of \in Written => Shows(window.of, window.at)'
        BY <4>1, <4>2 DEF Shows
      <4>5. window.of = Env => ShowsEnv'
        BY <4>1, <4>3 DEF ShowsEnv
      <4> QED
        BY <4>1, <4>4, <4>5
    <3> QED
      BY <3>1, <3>2
  <2>5. num' # Unset => In(num', ranges'[Num].val)
    BY <1>5, <2>1 DEF Covered
  <2>6. overflow'.by = "string" => overflow'.of \in reported'
    BY <1>5, <2>1 DEF Covered
  <2> QED
    BY <2>2, <2>3, <2>4, <2>5, <2>6 DEF Covered
<1> QED
  BY <1>6, <1>7 DEF Leaves

LEMMA AllocationLeaves ==
  ASSUME MemoryOK, NEW c \in Calls, WellTyped(c), RunAllocation(c), UNCHANGED <<program, ranges, reported>>
  PROVE  Leaves(c)
<1>1. CASE c.call = "malloc"
  <2>1. c.args[1] \in Ints
    BY <1>1 DEF WellTyped
  <2>2. PICK n : n = IntOf(c.args[1]) /\ n # Unset /\ Allocate(n, {})
    BY <1>1 DEF RunAllocation
  <2>3. n \in Nat
    BY <2>1, <2>2, IntsAre
  <2>4. ASSUME Held(c)
        PROVE  In(n, ranges[Heap].siz)
    <3>1. MayInt(c.args[1], ranges, n)
      BY <2>1, <2>2, <2>4, IntMay DEF Held
    <3> QED
      BY <1>1, <2>3, <2>4, <3>1 DEF Held, Sends
  <2> QED
    BY <2>2, <2>3, <2>4, AllocateLeaves
<1>2. CASE c.call = "strdup"
  <2>1. c.args[1] \in Texts
    BY <1>2 DEF WellTyped
  <2>2. PICK w : w = Bytes(c.args[1]) /\ w > 0 /\ Allocate(w, {w - 1})
    BY <1>2 DEF RunAllocation
  <2>3. w \in Nat /\ w \in Pos /\ w - 1 \in Nat
    <3>1. w \in Nat
      BY <2>1, <2>2, BytesAre
    <3> QED
      BY <2>2, <3>1 DEF Pos
  <2>4. ASSUME Held(c)
        PROVE  In(w, ranges[Heap].siz) /\ In(w, ranges[Heap].len)
    <3>1. MayText(c.args[1], ranges, w)
      BY <2>1, <2>2, <2>4, TextMay DEF Held
    <3> QED
      BY <1>2, <2>3, <2>4, <3>1 DEF Held, Sends
  <2>5. PICK marks \in SUBSET Nat : marks = {w - 1} /\ Allocate(w, marks)
    BY <2>2, <2>3
  <2>6. (\A i \in marks : i < w) /\ (Held(c) => In(w, ranges[Heap].siz) /\ \A i \in marks : In(i + 1, ranges[Heap].len))
    <3>1. (w - 1) + 1 = w /\ w - 1 < w
      BY <2>3
    <3> QED
      BY <2>4, <2>5, <3>1
  <2> QED
    BY <2>3, <2>5, <2>6, AllocateLeaves
<1> QED
  BY <1>1, <1>2 DEF RunAllocation

LEMMA PointerLeaves ==
  ASSUME MemoryOK, NEW c \in Calls, WellTyped(c), c.to = Window, c.call \in {"=", "strchr"},
         RunWindow(c), UNCHANGED <<program, ranges, reported>>
  PROVE  Leaves(c)
<1>1. c.args[1] \in Others
  BY DEF WellTyped, Window, Num, Heap, Nobody
<1>2. PICK e \in Texts : e = c.args[1] /\ e.of # Window
  BY <1>1 DEF Others
<1>3. PICK w \in Pos, k \in Nat :
        /\ w = Bytes(e) /\ k < w /\ (c.call = "=" => k = 0)
        /\ window' = [of |-> e.of, at |-> e.n + k] /\ UNCHANGED <<memory, phase, overflow, num>>
  <2>1. /\ Bytes(e) > 0 /\ UNCHANGED <<memory, phase, overflow, num>>
        /\ \E k \in IF c.call = "=" THEN {0} ELSE 0 .. Bytes(e) - 1 : window' = [of |-> e.of, at |-> e.n + k]
    BY <1>2, Zenon, "getenv" # "=" /\ "getenv" # "strchr" DEF RunWindow
  <2>2. PICK w \in Nat : w = Bytes(e) /\ w > 0 /\ w \in Pos
    BY <2>1, BytesAre DEF Pos
  <2>3. PICK k \in IF c.call = "=" THEN {0} ELSE 0 .. w - 1 : window' = [of |-> e.of, at |-> e.n + k]
    BY <2>1, <2>2
  <2>4. k \in Nat /\ k < w /\ (c.call = "=" => k = 0)
    BY <2>2, <2>3
  <2> QED
    BY <2>1, <2>2, <2>3, <2>4
<1>4. PICK n \in Nat, at \in Nat : n = e.n /\ at = n + k
  BY <1>3, BytesAre
<1>5. window'.of = e.of /\ window'.at = at
  BY <1>3, <1>4
<1>6. e.expr = "lit" => e.of = Nobody
  BY DEF Texts
<1>7. ASSUME e.expr # "lit"
      PROVE  /\ e.of \in Written /\ Used(e.of) = w + n /\ Used(e.of) > at /\ at < memory.size[e.of]
  <2>1. e.of \in Written /\ e.of \in Strings /\ e.of \in Buffers
    BY <1>2, <1>7, BytesAre, Names
  <2>2. Used(e.of) = w + n
    BY <1>3, <1>4, <1>7, BytesAre DEF Pos
  <2>3. w + n > at
    BY <1>3, <1>4 DEF Pos
  <2>4. memory.nuls[e.of] \in SUBSET Nat /\ Used(e.of) = StringAt(e.of, 0) /\ 0 \in Nat
    BY <2>1, MemoryIs, UsedIs
  <2>5. w + n > 0 /\ w + n \in Nat
    BY DEF Pos
  <2>6. PICK i \in Nat : Ends(i, memory.nuls[e.of], 0) /\ w + n = i - 0 + 1
    BY <2>2, <2>4, <2>5, StringAtIs
  <2>7. i < memory.size[e.of] /\ memory.size[e.of] \in Nat \cup {Unset}
    BY <2>1, <2>6, MemoryIs DEF Ends
  <2>8. at <= i
    BY <2>3, <2>6
  <2>9. at < memory.size[e.of]
    <3>1. PICK m \in Int : m = memory.size[e.of] /\ i < m
      BY <2>7 DEF Unset
    <3> QED
      BY <2>8, <3>1
  <2> QED
    BY <2>1, <2>2, <2>3, <2>9
<1>8. MemoryOK'
  <2>1. e.of \in Buffers \cup {Nobody}
    BY <1>6, <1>7, Names
  <2>2. window' \in [of : Buffers \cup {Nobody}, at : Nat]
    BY <1>3, <1>4, <2>1
  <2>3. window'.of \in Buffers => window'.at < memory'.size[window'.of]
    <3>1. window'.of \in Buffers => e.expr # "lit"
      BY <1>5, <1>6, Names
    <3> QED
      BY <1>3, <1>5, <1>7, <3>1
  <2> QED
    BY <1>3, <2>2, <2>3 DEF MemoryOK
<1>9. ASSUME Held(c)
      PROVE  Covered'
  <2>1. Covered /\ Ranged(ranges) /\ Sends(c, ranges)
    BY <1>9 DEF Held
  <2>2. ASSUME window'.of \in Written
        PROVE  Shows(e.of, at)
    <3>1. e.expr # "lit" /\ e.of \in Written /\ e.of \in Strings
      BY <1>5, <1>6, <1>7, <2>2, Names
    <3>2. PICK u \in Nat : u = Used(e.of) /\ u > at
      BY <1>7, <3>1, UsedIs
    <3>3. In(u, ranges[e.of].len)
      <4>1. u > 0
        BY <3>2
      <4> QED
        BY <2>1, <3>1, <3>2, <4>1, UsedCovered
    <3>4. ASSUME NEW v \in Nat, v > at, In(v, ranges[e.of].len)
          PROVE  In(v - at, ranges[Window].len)
      <4>1. PICK x \in Pos, y \in Pos : x = v - n /\ y = v - at /\ y = x - k
        <5>1. v - n \in Pos /\ v - at \in Pos /\ v - at = (v - n) - k
          BY <1>4, <3>4 DEF Pos
        <5> QED
          BY <5>1
      <4>2. x + n = v /\ x \in Nat \ {0}
        BY <4>1 DEF Pos
      <4>3. MayText(e, ranges, x)
        BY <1>4, <3>1, <3>4, <4>2 DEF MayText
      <4>4. CASE c.call = "="
        <5>1. In(x, ranges[Window].len)
          BY <1>2, <2>1, <4>3, <4>4 DEF Sends
        <5>2. y = x
          BY <1>3, <4>1, <4>4 DEF Pos
        <5> QED
          BY <4>1, <5>1, <5>2
      <4>5. CASE c.call = "strchr"
        <5>1. y \in 1 .. x
          BY <4>1 DEF Pos
        <5> QED
          BY <1>2, <2>1, <4>1, <4>3, <4>5, <5>1 DEF Sends
      <4> QED
        BY <4>4, <4>5
    <3> QED
      BY <3>2, <3>3, <3>4 DEF Shows
  <2>3. window'.of # Env
    <3>1. Nobody # Env
      BY Names DEF Buffers
    <3> QED
      BY <1>5, <1>6, <1>7, <3>1, Names
  <2>4. \A o, i : NulCovered(o, i)' <=> NulCovered(o, i)
    BY <1>3 DEF NulCovered, PadsAt
  <2> QED
    BY <1>3, <1>5, <2>1, <2>2, <2>3, <2>4 DEF Covered, Shows
<1> QED
  BY <1>8, <1>9 DEF Leaves

LEMMA GetenvLeaves ==
  ASSUME MemoryOK, NEW c \in Calls, c.call = "getenv", c.to = Window,
         RunWindow(c), UNCHANGED <<program, ranges, reported>>
  PROVE  Leaves(c)
<1>1. PICK w \in 1 .. MaxLine : Renews(Env, w, {w - 1})
  <2>1. \E w \in 1 .. MaxLine : memory' = [memory EXCEPT !.size[Env] = w, !.nuls[Env] = {w - 1}]
    BY Zenon, "getenv" # "=" /\ "getenv" # "strchr" DEF RunWindow
  <2> QED
    BY <2>1, Zenon DEF Renews
<1>2. w \in Pos /\ w \in Nat /\ w - 1 \in Nat /\ w - 1 < w /\ 0 < w
  BY PoolAssumption DEF Pos
<1>3. PICK marks \in SUBSET Nat : marks = {w - 1}
  BY <1>2
<1>4. Env \in Buffers
  BY DEF Buffers
<1>5. Renewed(Env, w, marks)
  <2>1. Renews(Env, w, marks)
    BY <1>1, <1>3
  <2> QED
    BY <1>2, <1>4, <2>1, RenewIs
<1>6. window' = [of |-> Env, at |-> 0] /\ UNCHANGED <<phase, overflow, num>>
  BY Zenon, "getenv" # "=" /\ "getenv" # "strchr" DEF RunWindow
<1>7. MemoryOK'
  <2>1. \A o \in Buffers : \A i \in memory'.nuls[o] : i < memory'.size[o]
    BY <1>2, <1>3, <1>5 DEF MemoryOK, Renewed
  <2>2. \A o \in Arrays : memory'.size[o] = ArraySize[o]
    BY <1>5, ObjectAssumption DEF MemoryOK, Renewed, Buffers
  <2>3. window' \in [of : Buffers \cup {Nobody}, at : Nat]
    BY <1>4, <1>6
  <2>4. window'.at < memory'.size[window'.of]
    BY <1>2, <1>5, <1>6 DEF Renewed
  <2> QED
    BY <1>5, <1>6, <2>1, <2>2, <2>3, <2>4 DEF MemoryOK, Renewed
<1>8. ASSUME Held(c)
      PROVE  Covered'
  <2>1. Covered /\ Sends(c, ranges)
    BY <1>8 DEF Held
  <2>2. ASSUME NEW o \in Written, NEW i \in memory'.nuls[o]
        PROVE  NulCovered(o, i)'
    <3>1. memory'.nuls[o] = memory.nuls[o]
      BY <1>5, Names DEF Renewed
    <3>2. NulCovered(o, i)
      BY <2>1, <2>2, <3>1 DEF Covered
    <3> QED
      BY <3>1, <3>2 DEF NulCovered, PadsAt
  <2>3. memory'.size[Heap] = memory.size[Heap]
    BY <1>5, Names DEF Renewed, Buffers
  <2>4. window'.of \notin Written
    BY <1>6, Names
  <2>5. ShowsEnv'
    <3>1. window'.at = 0 /\ memory'.nuls[Env] = {w - 1}
      BY <1>3, <1>5, <1>6 DEF Renewed
    <3>2. \A x \in Pos : In(x, ranges[Window].len)
      BY <2>1 DEF Sends
    <3> QED
      BY <1>2, <3>1, <3>2 DEF ShowsEnv
  <2> QED
    BY <1>6, <2>1, <2>2, <2>3, <2>4, <2>5 DEF Covered
<1> QED
  BY <1>7, <1>8 DEF Leaves

LEMMA NumberLeaves ==
  ASSUME MemoryOK, NEW c \in Calls, WellTyped(c), RunNumber(c), UNCHANGED <<program, ranges, reported>>
  PROVE  Leaves(c)
<1>1. UNCHANGED <<phase, overflow, memory, window>> /\ c.to = Num
  BY DEF RunNumber
<1>2. num' \in Nat /\ (Held(c) => In(num', ranges[Num].val))
  <2>1. CASE c.call = "="
    <3>1. c.args[1] \in Ints
      BY <1>1, <2>1 DEF WellTyped, Window, Num, Heap, Nobody
    <3>2. num' = IntOf(c.args[1]) /\ IntOf(c.args[1]) # Unset
      BY <2>1 DEF RunNumber
    <3>3. num' \in Nat
      BY <3>1, <3>2, IntsAre
    <3>4. ASSUME Held(c)
          PROVE  In(num', ranges[Num].val)
      <4>1. MayInt(c.args[1], ranges, IntOf(c.args[1]))
        BY <3>1, <3>2, <3>4, IntMay DEF Held
      <4>2. MayInt(c.args[1], ranges, num')
        BY <3>2, <4>1
      <4>3. Sends(c, ranges)
        BY <3>4 DEF Held
      <4> QED
        BY <1>1, <2>1, <3>3, <4>2, <4>3 DEF Sends
    <3> QED
      BY <3>3, <3>4
  <2>2. CASE c.call = "strspn"
    <3>1. c.args[1] \in Texts
      BY <2>2 DEF WellTyped
    <3>2. PICK w \in Nat : w = Bytes(c.args[1])
      BY <3>1, BytesAre
    <3>3. num' \in 0 .. w - 1
      BY <2>2, <3>2 DEF RunNumber
    <3>4. num' \in Nat /\ w \in Pos /\ w > 0
      BY <3>3 DEF Pos
    <3>5. ASSUME Held(c)
          PROVE  In(num', ranges[Num].val)
      <4>1. MayText(c.args[1], ranges, w)
        BY <3>1, <3>2, <3>4, <3>5, TextMay DEF Held
      <4>2. Sends(c, ranges)
        BY <3>5 DEF Held
      <4> QED
        BY <2>2, <3>3, <3>4, <4>1, <4>2 DEF Sends
    <3> QED
      BY <3>4, <3>5
  <2> QED
    BY <2>1, <2>2 DEF RunNumber
<1>3. MemoryOK'
  BY <1>1, <1>2 DEF MemoryOK
<1>4. ASSUME Held(c)
      PROVE  Covered'
  <2>1. \A o, i : NulCovered(o, i)' <=> NulCovered(o, i)
    BY <1>1 DEF NulCovered, PadsAt
  <2>2. Covered
    BY <1>4 DEF Held
  <2> QED
    BY <1>1, <1>2, <1>4, <2>1, <2>2 DEF Covered, Shows, ShowsEnv
<1> QED
  BY <1>3, <1>4 DEF Leaves

-----------------------------------------------------------------------------
(* The inductive invariant: before Solve the constraints account for every *)
(* call walked, and nothing has run; after it the ranges do, and they      *)
(* cover the memory, whatever has run.                                     *)
Fresh ==
  /\ \A o \in Buffers : memory.nuls[o] = {}
  /\ memory.size[Heap] = Unset /\ num = Unset /\ window.of = Nobody /\ overflow.by = Nobody

Inv ==
  /\ phase \in {"walk", "run", "overflow"}
  /\ program \in SUBSET DOMAIN Pool
  /\ phase = "walk" => WalkInv /\ Fresh
  /\ phase # "walk" => SolvedInv /\ sys = Unsolved
  /\ MemoryOK
  /\ Promised /\ Unsaturated => Covered

LEMMA FreshCovered ==
  ASSUME Fresh
  PROVE  Covered
BY Names DEF Fresh, Covered, Nobody, Env, Buffers

LEMMA InvInit ==
  ASSUME Init
  PROVE  Inv
<1>1. WalkInv
  BY DeclaredDeclares DEF Init, WalkInv
<1>2. PICK sz, nl : /\ sz = [o \in Buffers |-> IF o \in Arrays THEN ArraySize[o] ELSE Unset]
                    /\ nl = [o \in Buffers |-> {}] /\ memory = [size |-> sz, nuls |-> nl]
  BY DEF Init
<1>3. memory.size = sz /\ memory.nuls = nl
  BY ONLY <1>2
<1>4. Fresh
  <2>1. Heap \in Buffers /\ Heap \notin Arrays
    BY Names DEF Buffers
  <2> QED
    BY <1>2, <1>3, <2>1 DEF Init, Fresh
<1>5. MemoryOK
  <2>1. sz \in [Buffers -> Nat \cup {Unset}] /\ nl \in [Buffers -> SUBSET Nat]
    BY <1>2, ObjectAssumption
  <2>2. memory \in [size : [Buffers -> Nat \cup {Unset}], nuls : [Buffers -> SUBSET Nat]]
    BY <1>2, <2>1
  <2>3. \A o \in Buffers : memory.nuls[o] = {}
    BY <1>4 DEF Fresh
  <2>4. \A o \in Arrays : memory.size[o] = ArraySize[o]
    BY <1>2, <1>3 DEF Buffers
  <2>5. /\ window \in [of : Buffers \cup {Nobody}, at : Nat] /\ window.of \notin Buffers
        /\ num \in Nat \cup {Unset}
        /\ overflow \in [of : Written \cup {Nobody}, by : {Nobody, "string", "padding"}]
    BY Names DEF Init
  <2> QED
    BY <2>2, <2>3, <2>4, <2>5 DEF MemoryOK
<1>6. phase = "walk" /\ program = {}
  BY DEF Init
<1> QED
  BY <1>1, <1>4, <1>5, <1>6 DEF Inv, Promised

LEMMA InvWalk ==
  ASSUME Inv, NEW i \in DOMAIN Pool, Walk(i)
  PROVE  Inv'
<1>1. phase = "walk" /\ program' = program \cup {i} /\ UNCHANGED <<phase, ranges, reported, memory, window, num, overflow>>
  BY DEF Walk
<1>2. program \in SUBSET DOMAIN Pool /\ WalkInv /\ Fresh /\ MemoryOK
  BY <1>1 DEF Inv
<1>3. WalkInv'
  BY <1>2, WalkKeeps
<1>4. Fresh'
  BY <1>1, <1>2 DEF Fresh
<1>5. MemoryOK'
  BY <1>1, <1>2 DEF MemoryOK
<1>6. ~Promised'
  BY <1>1 DEF Promised
<1> QED
  BY <1>1, <1>2, <1>3, <1>4, <1>5, <1>6 DEF Inv

LEMMA InvSolve ==
  ASSUME Inv, Solve
  PROVE  Inv'
<1>1. /\ phase = "walk" /\ phase' = "run" /\ sys' = Unsolved /\ UNCHANGED <<program, memory, window, num, overflow>>
  BY DEF Solve
<1>2. program \in SUBSET DOMAIN Pool /\ WalkInv /\ Fresh /\ MemoryOK
  BY <1>1 DEF Inv
<1>3. SolvedInv'
  BY <1>2, SolveSolves
<1>4. MemoryOK'
  BY <1>1, <1>2 DEF MemoryOK
<1>5. Fresh'
  BY <1>1, <1>2 DEF Fresh
<1>6. Covered'
  <2>1. Heap \in Written /\ Nobody \notin Written /\ Nobody # Env /\ "string" # Nobody /\ Written \subseteq Buffers
    BY Names DEF Buffers, Nobody, Written
  <2> QED
    BY <1>5, <2>1 DEF Fresh, Covered
<1> QED
  BY <1>1, <1>2, <1>3, <1>4, <1>6 DEF Inv

(* Every call that runs writes, or leaves the buffers as they are.         *)
LEMMA RunIs ==
  ASSUME MemoryOK, NEW c \in Calls, WellTyped(c), RunCall(c), UNCHANGED <<program, ranges, reported>>
  PROVE  Writes(c) \/ (Leaves(c) /\ phase' = phase)
<1>1. CASE RunStrcpy(c)
  BY <1>1, StrcpyWrites
<1>2. CASE RunStrncpy(c)
  BY <1>2, StrncpyWrites
<1>3. CASE RunStrcat(c)
  BY <1>3, StrcatWrites
<1>4. CASE RunRead(c)
  BY <1>4, ReadWrites
<1>5. CASE RunAllocation(c)
  <2>1. phase' = phase
    BY <1>5 DEF RunAllocation, Allocate
  <2> QED
    BY <1>5, <2>1, AllocationLeaves
<1>6. CASE RunWindow(c)
  <2>1. phase' = phase /\ c.to = Window /\ c.call \in {"=", "strchr", "getenv"}
    BY <1>6, Zenon DEF RunWindow
  <2>2. CASE c.call = "getenv"
    BY <1>6, <2>1, <2>2, GetenvLeaves
  <2>3. CASE c.call # "getenv"
    BY <1>6, <2>1, <2>3, PointerLeaves
  <2> QED
    BY <2>2, <2>3
<1>7. CASE RunNumber(c)
  <2>1. phase' = phase
    BY <1>7 DEF RunNumber
  <2> QED
    BY <1>7, <2>1, NumberLeaves
<1>8. CASE RunPrintf(c)
  BY <1>8, PrintfWrites
<1> QED
  BY <1>1, <1>2, <1>3, <1>4, <1>5, <1>6, <1>7, <1>8 DEF RunCall

LEMMA SendsHere ==
  ASSUME SolvedInv, Unsaturated, phase # "walk", NEW i \in program, program \in SUBSET DOMAIN Pool, Modelled(Pool[i])
  PROVE  Sends(Pool[i], ranges)
<1>1. PICK c \in Calls : c = Pool[i]
  BY PoolCalls
<1>2. LowFor(Len(c.fmt), ranges) /\ Ranged(ranges) /\ Sized(ranges)
  BY <1>1 DEF Unsaturated, SolvedInv
<1>3. Len(c.fmt) \in Nat
  BY DEF Calls
<1>4. Tame(ranges)
  BY <1>2, <1>3, LowLengths DEF Tame, Ranged
<1>5. Calm(ranges, Len(c.fmt))
  BY <1>2, <1>4 DEF Calm
<1> QED
  BY <1>1, <1>5 DEF SolvedInv

LEMMA InvRun ==
  ASSUME Inv, NEW i \in DOMAIN Pool, Run(i)
  PROVE  Inv'
<1>1. phase = "run" /\ i \in program /\ RunCall(Pool[i]) /\ UNCHANGED <<program, sys, ranges, reported>>
  BY DEF Run
<1>2. program \in SUBSET DOMAIN Pool /\ SolvedInv /\ sys = Unsolved /\ MemoryOK
  BY <1>1 DEF Inv
<1>3. PICK c \in Calls : c = Pool[i] /\ WellTyped(c) /\ RunCall(c)
  BY <1>1, PoolCalls
<1>4. Writes(c) \/ (Leaves(c) /\ phase' = phase)
  BY <1>1, <1>2, <1>3, RunIs
<1>5. SolvedInv'
  BY <1>1, <1>2 DEF SolvedInv
<1>6. ASSUME Promised, Unsaturated
      PROVE  Held(c)
  <2>1. Covered
    BY <1>6 DEF Inv
  <2>2. Modelled(c)
    BY <1>1, <1>3, <1>6 DEF Promised
  <2>3. Sends(c, ranges)
    BY <1>1, <1>2, <1>3, <1>6, <2>2, SendsHere
  <2>4. Ranged(ranges)
    BY <1>2 DEF SolvedInv
  <2>5. ASSUME c.call = "strncpy", NEW j \in program, Pool[j].call = "strncpy", Dst(Pool[j]) = Dst(c)
        PROVE  Pool[j] = c
    BY <1>1, <1>3, <1>6, <2>5 DEF Promised
  <2> QED
    BY <1>1, <1>3, <2>1, <2>2, <2>3, <2>4, <2>5 DEF Held
<1>7. ASSUME Promised', Unsaturated', phase' # "walk"
      PROVE  Promised /\ Unsaturated
  BY <1>1, <1>7 DEF Promised, Unsaturated
<1>8. CASE Writes(c)
  <2>1. PICK at, marks, text, extent :
          /\ WriteFits(Dst(c), at, marks, text, extent) /\ Put(Dst(c), at, marks, text, extent)
          /\ Held(c) => Reached(Dst(c), at, marks, text, extent)
    BY <1>8 DEF Writes
  <2>2. MemoryOK'
    BY <1>2, <2>1, PutTyped
  <2>3. phase' \in {"run", "overflow"}
    BY <1>1, <2>1 DEF Put
  <2>4. ASSUME Promised', Unsaturated'
        PROVE  Covered'
    <3>1. Held(c) /\ Unsaturated
      BY <1>6, <1>7, <2>3, <2>4
    <3>2. Covered /\ Reached(Dst(c), at, marks, text, extent)
      BY <2>1, <3>1 DEF Held
    <3>3. Ranged(ranges) /\ Sized(ranges) /\ \A o \in Strings : ~EpGe(ranges[o].siz.lo, ranges[o].len.hi) => o \in reported
      BY <1>2 DEF SolvedInv
    <3> QED
      BY <1>1, <1>2, <2>1, <3>1, <3>2, <3>3, PutCovered
  <2> QED
    BY <1>1, <1>2, <1>5, <2>2, <2>3, <2>4 DEF Inv
<1>9. CASE Leaves(c) /\ phase' = phase
  <2>1. MemoryOK' /\ (Held(c) => Covered')
    BY <1>9 DEF Leaves
  <2>2. Promised' /\ Unsaturated' => Covered'
    BY <1>1, <1>6, <1>7, <1>9, <2>1
  <2> QED
    BY <1>1, <1>2, <1>5, <1>9, <2>1, <2>2 DEF Inv
<1> QED
  BY <1>4, <1>8, <1>9

LEMMA InvStutters ==
  ASSUME Inv, UNCHANGED vars
  PROVE  Inv'
<1>1. UNCHANGED <<phase, program, sys, ranges, reported, memory, window, num, overflow>>
  BY DEF vars
<1>2. (phase = "walk" => WalkInv /\ Fresh)' <=> (phase = "walk" => WalkInv /\ Fresh)
  BY <1>1 DEF WalkInv, Fresh
<1>3. (phase # "walk" => SolvedInv /\ sys = Unsolved)' <=> (phase # "walk" => SolvedInv /\ sys = Unsolved)
  BY <1>1 DEF SolvedInv
<1>4. MemoryOK' <=> MemoryOK
  BY <1>1 DEF MemoryOK
<1>5. (Promised' <=> Promised) /\ (Unsaturated' <=> Unsaturated)
  BY <1>1 DEF Promised, Unsaturated
<1>6. Covered' <=> Covered
  <2>1. \A o, i : NulCovered(o, i)' <=> NulCovered(o, i)
    BY <1>1 DEF NulCovered, PadsAt
  <2> QED
    BY <1>1, <2>1 DEF Covered, Shows, ShowsEnv
<1> QED
  BY <1>1, <1>2, <1>3, <1>4, <1>5, <1>6 DEF Inv

LEMMA Invariance == Spec => []Inv
<1>1. Init => Inv
  BY InvInit
<1>2. Inv /\ [Next]_vars => Inv'
  <2> SUFFICES ASSUME Inv, [Next]_vars
               PROVE  Inv'
    OBVIOUS
  <2>1. CASE Solve
    BY <2>1, InvSolve
  <2>2. ASSUME NEW i \in DOMAIN Pool, Walk(i)
        PROVE  Inv'
    BY <2>2, InvWalk
  <2>3. ASSUME NEW i \in DOMAIN Pool, Run(i)
        PROVE  Inv'
    BY <2>3, InvRun
  <2>4. CASE UNCHANGED vars
    BY <2>4, InvStutters
  <2> QED
    BY <2>1, <2>2, <2>3, <2>4 DEF Next
<1> QED
  BY <1>1, <1>2, PTL DEF Spec

(* Every constraint that the models of the calls make, the walk over, is   *)
(* about variables that exist; a string ends in its buffer, for a write    *)
(* that does not fit ends the program; and the reading pointer points into *)
(* a buffer, whatever was allocated, freed or read meanwhile.              *)
THEOREM TypeCorrect == Spec => []TypeOK
<1>1. Inv => TypeOK
  <2> SUFFICES ASSUME Inv
               PROVE  TypeOK
    OBVIOUS
  <2>1. ASSUME NEW i \in DOMAIN sys.cons
        PROVE  {Rhs(sys.cons[i])} \cup ToSet(LhsVars(sys.cons[i])) \subseteq 0 .. sys.vars - 1
    <3>1. CASE phase = "walk"
      <4>1. sys.cons \in Seq(ConstraintOver(Vars(sys)))
        BY <3>1 DEF Inv, WalkInv, Declares, Walked, Store
      <4>2. PICK V, c : V = 0 .. sys.vars - 1 /\ c = sys.cons[i] /\ c \in ConstraintOver(V)
        <5>1. PICK V : V = Vars(sys)
          OBVIOUS
        <5>2. sys.cons[i] \in ConstraintOver(V)
          BY <2>1, <4>1, <5>1
        <5> QED
          BY <5>1, <5>2 DEF Vars
      <4>3. LhsVars(c) \in Seq(V) /\ Rhs(c) \in V
        BY <4>2, LhsVarsFacts
      <4>4. ToSet(LhsVars(c)) \subseteq V
        BY <4>3 DEF ToSet
      <4> QED
        BY <4>2, <4>3, <4>4
    <3>2. CASE phase # "walk"
      <4>1. sys.cons = << >>
        BY <3>2 DEF Inv, Unsolved
      <4> QED
        BY <2>1, <4>1
    <3> QED
      BY <3>1, <3>2
  <2>2. overflow.of \in Arrays \cup {Heap, Nobody}
    BY DEF Inv, MemoryOK, Written
  <2> QED
    BY <2>1, <2>2 DEF Inv, MemoryOK, TypeOK
<1> QED
  BY <1>1, Invariance, PTL

(* The models of the string functions and formats in walk.rs are sound for *)
(* lengths: in every program made of the modelled calls, in whatever order *)
(* and however often they run, each string ends where the range of its     *)
(* length allows.  Past the sentinel the arithmetic of ranges saturates,   *)
(* and nothing is claimed.                                                 *)
THEOREM LengthsCorrect == Spec => [](Unsaturated => LengthsAreCovered)
<1>1. Inv => (Unsaturated => LengthsAreCovered)
  <2> SUFFICES ASSUME Inv, Unsaturated, Promised, NEW o \in Strings, Used(o) > 0
               PROVE  In(Used(o), ranges[o].len)
    BY DEF LengthsAreCovered
  <2>1. Covered /\ MemoryOK /\ Ranged(ranges)
    BY DEF Inv, Promised, SolvedInv
  <2> QED
    BY <2>1, UsedCovered
<1> QED
  BY <1>1, Invariance, PTL

(* They are sound for sizes and numbers: what malloc and strdup allocate,  *)
(* and the integer that a strlen, a strspn or a sizeof left in a variable, *)
(* are in their ranges.                                                    *)
THEOREM ValuesCorrect == Spec => [](Unsaturated => ValuesAreCovered)
<1>1. Inv => (Unsaturated => ValuesAreCovered)
  <2> SUFFICES ASSUME Inv, Unsaturated, Promised
               PROVE  /\ SizeOfBuffer(Heap) # Unset => In(SizeOfBuffer(Heap), ranges[Heap].siz)
                      /\ num # Unset => In(num, ranges[Num].val)
    BY DEF ValuesAreCovered
  <2>1. Covered
    BY DEF Inv
  <2> QED
    BY <2>1 DEF Covered, SizeOfBuffer
<1> QED
  BY <1>1, Invariance, PTL

(* No overrun is missed: a run of the program that writes a string past    *)
(* the end of a buffer does so to a buffer whose query failed.             *)
THEOREM OverflowCorrect == Spec => [](Unsaturated => OverflowIsReported)
<1>1. Inv => (Unsaturated => OverflowIsReported)
  <2> SUFFICES ASSUME Inv, Unsaturated, Promised, overflow.by = "string"
               PROVE  overflow.of \in reported
    BY DEF OverflowIsReported
  <2>1. Covered
    BY DEF Inv
  <2> QED
    BY <2>1 DEF Covered
<1> QED
  BY <1>1, Invariance, PTL
=============================================================================
