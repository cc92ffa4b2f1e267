----------------------------- MODULE Evaluation -----------------------------
(***************************************************************************)
(* solver.rs eval_term and eval_constraint as loops over the entries of a  *)
(* term or the items of a minimum, beside two companions that give the     *)
(* accumulated range its meaning: a value computed by ordinary arithmetic  *)
(* from values of the variables, and a second evaluation of the same       *)
(* expression on wider ranges.                                             *)
(***************************************************************************)
EXTENDS Ranges

CONSTANTS
  Coeff,      \* coefficients
  Konst,      \* constants of terms
  Value,      \* integers that values of variables are taken from
  MaxItems    \* bound on the entries of an expression

ASSUME TermAssumption == Coeff \subseteq Int /\ Konst \subseteq Int

ASSUME ValueAssumption == Value \subseteq Int /\ Endpoint \subseteq Value

VARIABLES
  form,    \* "subset": a sum; "min": a minimum
  items,   \* the entries evaluated so far
  acc,     \* the accumulated range
  wide,    \* the range accumulated from wider operands
  val,     \* the value of the expression so far
  exact    \* no operand was pushed past the infinity of its other side

vars == <<form, items, acc, wide, val, exact>>

(* Term: seed with the constant. *)
SeedTerm(k) ==
  /\ form = "subset"
  /\ acc = Singleton(k)
  /\ val = k

(* Minimum: seed with +Infinity; the value counts from the first item on. *)
SeedMin ==
  /\ form = "min"
  /\ acc = Singleton(INF)
  /\ val = INF

Init ==
  /\ SeedMin \/ \E k \in Konst : SeedTerm(k)
  /\ items = 0
  /\ wide = acc
  /\ exact = (form = "subset" => Proper(acc))

(* The ranges a variable can have, and those that contain one of them and  *)
(* reach one endpoint further.                                             *)
Operand == {r \in Interval : r.lo <= r.hi} \cup {Empty}

Wider(y) == {z \in Operand :
               \/ z = y
               \/ IsEmpty(y) /\ z.lo = z.hi
               \/ z.lo = y.lo /\ z.hi = y.hi + 1
               \/ z.hi = y.hi /\ z.lo = y.lo - 1}

(* acc = add(acc, mul(coeff, ranges[v])), where v has the value n. *)
SumItem(c, y, z, n) ==
  /\ form = "subset"
  /\ acc' = Add(acc, Mul(c, y))
  /\ wide' = Add(wide, Mul(c, z))
  /\ val' = val + c * n
  /\ exact' = (exact /\ Proper(y) /\ Proper(Mul(c, y)) /\ Proper(acc'))

(* acc = rmin(acc, mul(coeff, ranges[v])) *)
MinItem(c, y, z, n) ==
  /\ form = "min"
  /\ acc' = RMin(acc, Mul(c, y))
  /\ wide' = RMin(wide, Mul(c, z))
  /\ val' = IF items = 0 THEN c * n ELSE Lesser(val, c * n)
  /\ exact' = (exact /\ Proper(y))

Next ==
  /\ items < MaxItems
  /\ items' = items + 1
  /\ UNCHANGED form
  /\ \E c \in Coeff, y \in Operand : \E z \in Wider(y) :
       \E n \in {k \in Value : In(k, y)} \cup (IF IsEmpty(y) THEN {0} ELSE {}) :
          SumItem(c, y, z, n) \/ MinItem(c, y, z, n)

Spec == Init /\ [][Next]_vars

-----------------------------------------------------------------------------
(* The tier a failed query is reported in, by the ranges of the size and   *)
(* of the length (walk.rs elt, chance).                                    *)
(* Mutant: an endpoint is less than itself. *)
EltOrEqual(a, b) == a < INF /\ a <= b

Elt(a, b) == IF a <= NEGINF THEN b > NEGINF ELSE a < INF /\ (b >= INF \/ a < b)

Chance(sr, lr) ==
  CASE Elt(sr.hi, lr.lo) -> 0
    [] ~Elt(sr.hi, lr.lo) /\ Elt(sr.hi, lr.hi) -> 1
    [] OTHER -> 2

-----------------------------------------------------------------------------
TypeOK ==
  /\ acc \in Interval
  /\ wide \in Interval
  /\ val \in Int

Begun == form = "subset" \/ items > 0

(* Saturation is on the safe side: the range of an expression contains     *)
(* every value the expression takes when its variables take values of      *)
(* their ranges, as long as no operand has run off to the infinity of its  *)
(* other side, from where the code lets nothing return.                    *)
RangeContainsValue == exact /\ Begun /\ ~IsEmpty(acc) => In(val, acc)

(* Evaluation is monotone, saturated endpoints, negative coefficients and  *)
(* empty operands included: without it the constraints need not have a     *)
(* least solution at all.                                                  *)
EvaluationIsMonotone == Leq(acc, wide)

(* A query on two ranges, against its meaning: every value of the one is   *)
(* at least every value of the other.                                      *)
AllGe(a, b) == \A i, j \in Value : In(i, a) /\ In(j, b) => i >= j

(* The tier of a failed query says how sure the overflow is: it is 0       *)
(* ("almost certainly") just when every length exceeds every size, and at  *)
(* most 1 just when some length exceeds every size.                        *)
TierTellsCertainty ==
  ~IsEmpty(acc) =>
    \A lr \in Operand \ {Empty} :
      LET sizes   == {n \in Value : In(n, acc)}
          lengths == {n \in Value : In(n, lr)} IN
        ~EpGe(acc.lo, lr.hi) =>
          /\ Chance(acc, lr) = 0 <=> \A s \in sizes, l \in lengths : s < l
          /\ Chance(acc, lr) <= 1 <=> \E l \in lengths : \A s \in sizes : s < l

(* "The check is "a >= b for all values": a.lo >= b.hi." (solver.rs)       *)
(* Below the sentinel it decides exactly that.  At the sentinel it passes  *)
(* for any b: an array of 32767 bytes or more is never reported.           *)
QueryDecidesGe ==
  acc.lo < INF /\ ~IsEmpty(acc) =>
    \A b \in Operand \ {Empty} : b.hi > NEGINF => (EpGe(acc.lo, b.hi) <=> AllGe(acc, b))
=============================================================================
