------------------------------- MODULE Ranges -------------------------------
(***************************************************************************)
(* The interval arithmetic of range.rs.                                    *)
(*                                                                         *)
(* An endpoint is an integer between -INF and INF, and the two extreme     *)
(* values are sentinels that stand for "unbounded": the code uses          *)
(* INF = 32767.  INF is a parameter here, so that the runs can saturate    *)
(* with small numbers and the proofs hold for every sentinel.  A range     *)
(* whose lower endpoint exceeds its upper one is empty.                    *)
(***************************************************************************)
EXTENDS Integers

CONSTANT INF

ASSUME INFAssumption == INF \in Nat \ {0}

NEGINF == -INF

Lesser(x, y)  == IF x <= y THEN x ELSE y
Greater(x, y) == IF x >= y THEN x ELSE y

Endpoint == NEGINF .. INF

Interval == [lo : Endpoint, hi : Endpoint]

(* range.rs clamp: everything at or beyond a sentinel becomes it. *)
Clamp(x) == Greater(NEGINF, Lesser(x, INF))

Empty        == [lo |-> INF, hi |-> NEGINF]
Singleton(n) == [lo |-> Clamp(n), hi |-> Clamp(n)]
Top          == [lo |-> NEGINF, hi |-> INF]
IsEmpty(r)   == r.lo > r.hi

-----------------------------------------------------------------------------
(* Endpoint arithmetic. *)

Finite(x) == NEGINF < x /\ x < INF

(* The weight of an endpoint in a sum or product that is not finite: an   *)
(* infinite one counts twice as much as a finite one.                     *)
InfSign(x) ==
  IF x >= INF THEN 2
  ELSE IF x <= NEGINF THEN -2
  ELSE IF x > 0 THEN 1
  ELSE IF x < 0 THEN -1
  ELSE 0

(* Mutant: the sum of two finite endpoints is not clamped. *)
AddEpUnclamped(x, y, defaultBad) ==
  LET s == InfSign(x) + InfSign(y)
  IN  IF Finite(x) /\ Finite(y) THEN x + y
      ELSE IF s > 0 THEN INF
      ELSE IF s < 0 THEN NEGINF
      ELSE defaultBad

(* A sum that is not finite takes the sign of its infinite operand; of two *)
(* opposite infinities it is the default of the endpoint.                  *)
AddEp(x, y, defaultBad) ==
  LET s == InfSign(x) + InfSign(y)
  IN  IF Finite(x) /\ Finite(y) THEN Clamp(x + y)
      ELSE IF s > 0 THEN INF
      ELSE IF s < 0 THEN NEGINF
      ELSE defaultBad

MulEp(x, y) ==
  LET s == InfSign(x) * InfSign(y)
  IN  IF Finite(x) /\ Finite(y) THEN Clamp(x * y)
      ELSE IF s > 0 THEN INF
      ELSE IF s < 0 THEN NEGINF
      ELSE 0

(* Mutant: strictly greater. *)
EpGt(x, y) == x >= INF \/ (Finite(x) /\ y < INF /\ (y <= NEGINF \/ x > y))

(* Is endpoint x at least endpoint y?  +Infinity is at least anything,    *)
(* +Infinity included.                                                    *)
EpGe(x, y) ==
  \/ x >= INF
  \/ x <= NEGINF /\ y <= NEGINF
  \/ Finite(x) /\ y < INF /\ (y <= NEGINF \/ x >= y)

-----------------------------------------------------------------------------
(* Range arithmetic. *)

Add(x, y) ==
  IF IsEmpty(x) \/ IsEmpty(y) THEN Empty
  ELSE [lo |-> AddEp(x.lo, y.lo, NEGINF), hi |-> AddEp(x.hi, y.hi, INF)]

(* Mutant: a negative coefficient does not flip the endpoints. *)
MulUnflipped(c, y) ==
  IF IsEmpty(y) THEN Empty
  ELSE IF c = 0 THEN Singleton(0)
  ELSE [lo |-> MulEp(c, y.lo), hi |-> MulEp(c, y.hi)]

(* Mutant: zero times an empty range is the singleton zero. *)
MulZeroFirst(c, y) ==
  IF c = 0 THEN Singleton(0)
  ELSE IF IsEmpty(y) THEN Empty
  ELSE IF c > 0 THEN [lo |-> MulEp(c, y.lo), hi |-> MulEp(c, y.hi)]
  ELSE [lo |-> MulEp(c, y.hi), hi |-> MulEp(c, y.lo)]

Mul(c, y) ==
  IF IsEmpty(y) THEN Empty
  ELSE IF c = 0 THEN Singleton(0)
  ELSE IF c > 0 THEN [lo |-> MulEp(c, y.lo), hi |-> MulEp(c, y.hi)]
  ELSE [lo |-> MulEp(c, y.hi), hi |-> MulEp(c, y.lo)]

Sub(x, y) == Add(x, Mul(-1, y))

(* The smallest range that contains both; an empty operand is neutral. *)
Hull(x, y) ==
  IF IsEmpty(x) THEN y
  ELSE IF IsEmpty(y) THEN x
  ELSE [lo |-> Lesser(x.lo, y.lo), hi |-> Greater(x.hi, y.hi)]

(* Mutant: the lower endpoint of a minimum is the larger one. *)
RMinLargerLo(x, y) ==
  IF IsEmpty(x) \/ IsEmpty(y) THEN Empty
  ELSE [lo |-> Greater(x.lo, y.lo), hi |-> Lesser(x.hi, y.hi)]

(* The range of min(a, b) for a in x and b in y. *)
RMin(x, y) ==
  IF IsEmpty(x) \/ IsEmpty(y) THEN Empty
  ELSE [lo |-> Lesser(x.lo, y.lo), hi |-> Lesser(x.hi, y.hi)]

-----------------------------------------------------------------------------
(* What ranges mean, for the properties: which integers a range stands for *)
(* when its sentinels are read as "unbounded", and the order by inclusion. *)

In(n, r) == (r.lo = NEGINF \/ n >= r.lo) /\ (r.hi = INF \/ n <= r.hi)

Leq(x, y) == IsEmpty(x) \/ (y.lo <= x.lo /\ x.hi <= y.hi)

(* A range an exact computation can produce: neither endpoint has run off *)
(* to the infinity of the other side.                                     *)
Proper(r) == r.lo < INF /\ r.hi > NEGINF
=============================================================================
