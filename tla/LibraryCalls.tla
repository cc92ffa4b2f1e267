---------------------------- MODULE LibraryCalls ----------------------------
(***************************************************************************)
(* walk.rs: the models of library calls and of printf-style formats,       *)
(* beside the C library they stand for.                                    *)
(*                                                                         *)
(* Three phases.  "walk" picks calls one by one and does what check_str_op *)
(* and its companions do: it makes range variables, constraints and        *)
(* queries.  Solve takes the least solution of the constraints and answers *)
(* the queries.  "run" then executes the same calls on a memory of bytes,  *)
(* in any order and any number of times, for the analysis is insensitive   *)
(* to the flow of the program, until a call writes past a buffer.          *)
(*                                                                         *)
(* Of the bytes of a buffer the memory keeps where the NULs are.  Writes   *)
(* go to arrays, directly, and to the one heap cell of a pointer; another  *)
(* pointer only reads.  Bytes never written are not NUL.                   *)
(***************************************************************************)
EXTENDS Contexts

CONSTANTS
  Pool,       \* the calls programs are made of, in the order of the walk
  MaxCalls,   \* bound on the calls of a program
  ArraySize,  \* declared arrays |-> their sizes
  ConvMax,    \* conversions of numbers |-> most characters they print
  MaxLine     \* bound on the bytes of a line or environment variable

VARIABLES
  phase,     \* "walk", "run" or "overflow"
  program,   \* the calls walked, by their places in the pool
  sys,       \* the System: number of variables, constraints, queries
  ranges,    \* Solve: the ranges of the sizes and lengths of the buffers
  reported,  \* Solve: the names of the buffers that are reported
  memory,    \* run: bytes allocated to and positions of NULs in each buffer
  window,    \* run: the buffer and offset that the reading pointer holds
  num,       \* run: the value of the integer variable
  overflow   \* run: the buffer written past its end, and by what

vars == <<phase, program, sys, ranges, reported, memory, window, num, overflow>>

(* The C variables: arrays, a pointer to the heap, a pointer that only     *)
(* reads, an integer; and the environment, which is no variable.           *)
Heap   == "heap"
Window == "window"
Num    == "num"
Env    == "environment"
Nobody == "nobody"

Arrays  == DOMAIN ArraySize
Strings == Arrays \cup {Heap, Window}
Buffers == Arrays \cup {Heap, Env}

-----------------------------------------------------------------------------
(* Expressions of the calls. *)

Lit(n)        == [expr |-> "lit", of |-> Nobody, n |-> n]    \* n characters
Int1(n)       == [expr |-> "int", of |-> Nobody, n |-> n]
Ref(o)        == [expr |-> "ref", of |-> o, n |-> 0]
Plus(o, n)    == [expr |-> "ref", of |-> o, n |-> n]         \* o + n
SizeOf(o)     == [expr |-> "sizeof", of |-> o, n |-> 0]
StrLen(o, n)  == [expr |-> "strlen", of |-> o, n |-> n]      \* strlen(o) + n
Opaque        == [expr |-> "opaque", of |-> Nobody, n |-> 0]

(* to = call(args), the value unused if to is Nobody; fmt is the literal   *)
(* format of the printf family.                                            *)
Call(to, call, args)        == [to |-> to, call |-> call, args |-> args, fmt |-> << >>]
Formatted(call, args, fmt)  == [to |-> Nobody, call |-> call, args |-> args, fmt |-> fmt]

(* Items of a format: a character that prints itself ("%%" included) or a  *)
(* conversion with its width and precision.                                *)
Absent == -1
Star   == -2

Char               == [conv |-> "char", width |-> Absent, prec |-> Absent]
Conv(c, w, p)      == [conv |-> c, width |-> w, prec |-> p]
Unparsed           == <<Conv("?", Absent, Absent)>>  \* the format is not a literal

TakesArg(conv) == conv = "s" \/ conv = "c" \/ conv \in DOMAIN ConvMax

After(i, spec) == IF spec = Star THEN i + 1 ELSE i

(* The argument that is next after an item whose arguments start at i. *)
NextArg(item, i) ==
  LET p == After(After(i, item.width), item.prec) IN IF TakesArg(item.conv) THEN p + 1 ELSE p

-----------------------------------------------------------------------------
(* The programs: calls as C declares them, on strings and numbers smaller  *)
(* than the sentinel.  A target is written from its n-th byte; the pointer *)
(* that only reads is set to strings of other buffers.  strcat appends to  *)
(* a whole buffer, sizeof is that of an array, and only strings are        *)
(* printed with a precision.                                               *)
Number == 0 .. INF - 1

Texts   == [expr : {"lit"}, of : {Nobody}, n : Number] \cup [expr : {"ref"}, of : Strings, n : Number]
Targets == [expr : {"ref"}, of : Arrays \cup {Heap}, n : Number]
Whole   == [expr : {"ref"}, of : Arrays \cup {Heap}, n : {0}]
Others  == {e \in Texts : e.of # Window}
Ints    == [expr : {"int"}, of : {Nobody}, n : Number] \cup [expr : {"ref"}, of : {Num}, n : {0}]
           \cup [expr : {"sizeof"}, of : Arrays, n : {0}] \cup [expr : {"strlen"}, of : Strings, n : Number]

Width == {Absent, Star} \cup Number
Items == [conv : {"char", "s", "c", "?"} \cup DOMAIN ConvMax, width : Width, prec : Width]

ItemFits(item, args, i) ==
  LET w == After(i, item.width)
      p == After(w, item.prec)
  IN  /\ item.width = Star => i \in DOMAIN args /\ args[i] \in Ints
      /\ item.prec = Star => w \in DOMAIN args /\ args[w] \in Ints
      /\ TakesArg(item.conv) => /\ p \in DOMAIN args
                                /\ args[p] \in (IF item.conv = "s" THEN Texts ELSE Ints)
      /\ item.conv # "s" => item.prec = Absent
      /\ item.conv = "char" => item.width = Absent

(* The arguments start at the places at[1], at[2] and so on. *)
FormatFits(fmt, args) ==
  \/ fmt = Unparsed
  \/ \E at \in [1 .. Len(fmt) + 1 -> 1 .. Len(args) + 1] :
       /\ at[1] = 1
       /\ \A j \in DOMAIN fmt : /\ fmt[j].conv # "?"
                               /\ ItemFits(fmt[j], args, at[j])
                               /\ at[j + 1] = NextArg(fmt[j], at[j])

Calls == [to : {Nobody, Heap, Window, Num}, call : STRING, args : Seq(Texts \cup Ints), fmt : Seq(Items)]

WellTyped(c) ==
  \/ c.to = Nobody /\ c.call = "strcpy" /\ c.args \in Targets \X Texts
  \/ c.to = Nobody /\ c.call = "strncpy" /\ c.args \in Targets \X Texts \X Ints
  \/ c.to = Nobody /\ c.call = "strcat" /\ c.args \in Whole \X Texts
  \/ c.to = Nobody /\ c.call = "strncat" /\ c.args \in Whole \X Texts \X Ints
  \/ c.to = Nobody /\ c.call = "fgets" /\ c.args \in Targets \X Ints
  \/ c.to = Nobody /\ c.call = "gets" /\ Len(c.args) = 1 /\ c.args[1] \in Targets
  \/ c.to = Heap /\ c.call = "malloc" /\ Len(c.args) = 1 /\ c.args[1] \in Ints
  \/ c.to = Heap /\ c.call = "strdup" /\ Len(c.args) = 1 /\ c.args[1] \in Texts
  \/ c.to = Window /\ c.call \in {"=", "strchr"} /\ Len(c.args) = 1 /\ c.args[1] \in Others
  \/ c.to = Window /\ c.call = "getenv" /\ c.args = << >>
  \/ c.to = Num /\ c.call = "=" /\ Len(c.args) = 1 /\ c.args[1] \in Ints
  \/ c.to = Num /\ c.call = "strspn" /\ Len(c.args) = 1 /\ c.args[1] \in Texts
  \/ /\ c.to = Nobody /\ c.call = "sprintf" /\ c.args # << >> /\ c.args[1] \in Targets
     /\ FormatFits(c.fmt, Tail(c.args))
  \/ /\ c.to = Nobody /\ c.call = "snprintf" /\ Len(c.args) > 1
     /\ c.args[1] \in Targets /\ c.args[2] \in Ints
     /\ FormatFits(c.fmt, Tail(Tail(c.args)))

(* The bytes skipped at the start of the strings that a format prints sum  *)
(* up below the sentinel.                                                  *)
FewSkipped(c) ==
  \E most \in 1 .. INF - 1 :
    /\ most * Len(c.fmt) < INF
    /\ \A k \in DOMAIN c.args : c.args[k].expr = "ref" => c.args[k].n < most

ASSUME PoolAssumption ==
  /\ Pool \in Seq(Calls)
  /\ \A i \in DOMAIN Pool : WellTyped(Pool[i]) /\ FewSkipped(Pool[i])
  /\ MaxLine \in Nat

ASSUME ObjectAssumption ==
  /\ IsFiniteSet(Arrays) /\ Arrays \cap {Heap, Window, Num, Env, Nobody} = {}
  /\ \A o \in Arrays : ArraySize[o] \in Nat
  /\ DOMAIN ConvMax \cap {"char", "s", "c", "?"} = {}
  /\ \A c \in DOMAIN ConvMax : ConvMax[c] \in Nat \ {0}

-----------------------------------------------------------------------------
(* The variables of the declared objects come first. *)
NameOrder == SetToSeq(Strings)
PlaceOf(o) == CHOOSE i \in DOMAIN NameOrder : NameOrder[i] = o
Declared  == 2 * Len(NameOrder)

SizOf(o)  == VarTerm(2 * PlaceOf(o) - 2)
LenOf(o)  == VarTerm(2 * PlaceOf(o) - 1)
NumVar    == VarTerm(Declared)

Minus1(t) == SubTerms(t, One)

(* Walker::expr *)
expr(e) ==
  CASE e.expr = "lit"    -> StrCtx(ConstTerm(e.n + 1), ConstTerm(e.n + 1))
    [] e.expr = "int"    -> IntCtx(ConstTerm(e.n))
    [] e.expr = "ref" /\ e.of = Num -> IntCtx(NumVar)
    [] e.expr = "ref" /\ e.of # Num /\ e.n = 0 -> StrCtx(SizOf(e.of), LenOf(e.of))
    [] e.expr = "ref" /\ e.of # Num /\ e.n # 0 ->
         advance(StrCtx(SizOf(e.of), LenOf(e.of)), ConstTerm(e.n))
    [] e.expr = "sizeof" -> IntCtx(SizOf(e.of))
    [] e.expr = "strlen" -> IntCtx(AddTerms(Minus1(LenOf(e.of)), ConstTerm(e.n)))
    [] OTHER             -> NoneCtx

-----------------------------------------------------------------------------
(* Formats.  The scan carries the store, the next argument and the length  *)
(* of the output so far.                                                   *)

IsKind(args, i, kind) == i \in DOMAIN args /\ args[i].kind = kind

(* A width or precision: a term, if it is given and known. *)
Known(t)  == [known |-> TRUE, term |-> t]
Unknown   == [known |-> FALSE]

read_num(args, i, spec) ==
  CASE spec = Star /\ IsKind(args, i, "int") -> Known(args[i].val)
    [] spec >= 0                             -> Known(ConstTerm(spec))
    [] OTHER                                 -> Unknown

(* A new variable that lies between 1 and n. *)
UpTo(s, n) == AddSubsets(Grown(s), <<One, ConstTerm(n)>>, NewTerm(s))

(* The characters of a string argument, unbounded if it is not known to   *)
(* be one.                                                                 *)
Characters(s, args, i) ==
  IF IsKind(args, i, "str") THEN [sys |-> s, term |-> Minus1(args[i].len)]
  ELSE [sys |-> force_len_top(Grown(s), NewTerm(s)), term |-> NewTerm(s)]

CutTo(prec, n) ==
  IF prec.known
  THEN [sys |-> AddMin(n.sys, prec.term, n.term), term |-> NewTerm(n.sys)]
  ELSE n

(* With a width the precision has no effect on the length. *)
PaddedTo(width, n, cut) ==
  IF width.known
  THEN [sys  |-> AddSubsets(Grown(cut.sys), <<width.term, n.term>>, NewTerm(cut.sys)),
        term |-> NewTerm(cut.sys)]
  ELSE cut

ConvString(n, width, prec) == PaddedTo(width, n, CutTo(prec, n))

expand_conv(s, item, args, i, width, prec) ==
  CASE item.conv = "s"              -> ConvString(Characters(s, args, i), width, prec)
    [] item.conv \in DOMAIN ConvMax -> [sys |-> UpTo(s, ConvMax[item.conv]), term |-> NewTerm(s)]
    [] OTHER                        -> [sys |-> s, term |-> One]

Converted(acc, item, afterPrec, body) ==
  [sys  |-> body.sys, term |-> AddTerms(acc.term, body.term),
   next |-> IF TakesArg(item.conv) THEN afterPrec + 1 ELSE afterPrec]

expand_percent(acc, args, item) ==
  LET afterWidth == After(acc.next, item.width)
      afterPrec  == After(afterWidth, item.prec)
  IN  Converted(acc, item, afterPrec,
                expand_conv(acc.sys, item, args, afterPrec,
                            read_num(args, acc.next, item.width),
                            read_num(args, afterWidth, item.prec)))

(* The length starts with the NUL that ends the output. *)
parse_fmt(s, fmt, args) ==
  FoldLeft(LAMBDA acc, item : expand_percent(acc, args, item),
           [sys |-> s, term |-> One, next |-> 1], fmt)

-----------------------------------------------------------------------------
(* "walk": one action per modelled call.  Each makes its constraints and   *)
(* has a value, which an assignment around the call takes.                 *)

Arg(c, i)  == expr(c.args[i])
Rest(c, k) == [i \in 1 .. Len(c.args) - k |-> Arg(c, i + k)]

Result(c, s, ctx) ==
  sys' = IF c.to = Nobody THEN s ELSE assign(s, expr(Ref(c.to)), ctx)

Assignment(c) == c.call = "=" /\ Result(c, sys, Arg(c, 1))

Strcpy(c) ==
  /\ c.call = "strcpy"
  /\ Result(c, AddSubset(sys, Arg(c, 2).len, Arg(c, 1).len), Arg(c, 2))

Strncpy(c) ==
  /\ c.call = "strncpy"
  /\ LET s == AddMin(sys, Arg(c, 2).len, Arg(c, 3).val)
     IN  Result(c, AddSubset(s, NewTerm(sys), Arg(c, 1).len), Arg(c, 1))

Strspn(c) ==
  /\ c.call = "strspn"
  /\ Result(c, AddSubsets(Grown(sys), <<ConstTerm(0), Minus1(Arg(c, 1).len)>>, NewTerm(sys)),
            IntCtx(NewTerm(sys)))

(* Mutant: the copy has the size of the buffer it copies. *)
StrdupSizeOfSource(c) ==
  /\ c.call = "strdup"
  /\ LET new == NewStr(sys)
         s   == AddSubset(fresh_str(sys, "alloc"), Arg(c, 1).siz, new.siz)
     IN  Result(c, AddSubset(s, Arg(c, 1).len, new.len), new)

Strdup(c) ==
  /\ c.call = "strdup"
  /\ LET new == NewStr(sys)
         s   == AddSubset(fresh_str(sys, "alloc"), Arg(c, 1).len, new.siz)
     IN  Result(c, AddSubset(s, Arg(c, 1).len, new.len), new)

(* warn_strcat: "str[n]cat() calls are not checked". *)
Strcat(c) ==
  /\ c.call = "strcat"
  /\ Result(c, AddSubset(sys, Arg(c, 2).len, Arg(c, 1).len), Arg(c, 1))

(* Mutant: the result does not include what was there. *)
StrncatReplaces(c) ==
  /\ c.call = "strncat"
  /\ LET s == AddMin(sys, Minus1(Arg(c, 2).len), Arg(c, 3).val)
     IN  Result(c, AddSubset(s, AddTerms(NewTerm(sys), One), Arg(c, 1).len), Arg(c, 1))

Strncat(c) ==
  /\ c.call = "strncat"
  /\ LET s == AddMin(sys, Minus1(Arg(c, 2).len), Arg(c, 3).val)
     IN  Result(c, AddSubset(s, AddTerms(NewTerm(sys), Arg(c, 1).len), Arg(c, 1).len),
                Arg(c, 1))

Strchr(c) ==
  /\ c.call = "strchr"
  /\ LET new == NewStr(sys)
         s   == AddSubsets(fresh_str(sys, "(unnamed)"), <<One, Arg(c, 1).siz>>, new.siz)
     IN  Result(c, AddSubsets(s, <<One, Arg(c, 1).len>>, new.len), new)

Fgets(c) ==
  /\ c.call = "fgets"
  /\ Result(c, AddSubsets(sys, <<One, Arg(c, 2).val>>, Arg(c, 1).len), Arg(c, 1))

Gets(c) == c.call = "gets" /\ Result(c, force_len_top(sys, Arg(c, 1).len), Arg(c, 1))

Getenv(c) ==
  /\ c.call = "getenv"
  /\ Result(c, force_len_top(Grown(sys), NewTerm(sys)), StrCtx(NewTerm(sys), NewTerm(sys)))

Malloc(c) ==
  /\ c.call = "malloc"
  /\ LET new == NewStr(sys)
     IN  Result(c, AddSubset(fresh_str(sys, "alloc"), Arg(c, 1).val, new.siz), new)

(* A format that is no literal may print anything; snprintf ignores it,   *)
(* and a bound that is no integer.                                         *)
Sprintf(c) ==
  /\ c.call = "sprintf"
  /\ \E parsed \in {parse_fmt(sys, c.fmt, Rest(c, 1))} :
       Result(c, IF c.fmt = Unparsed THEN force_len_top(sys, Arg(c, 1).len)
                 ELSE AddSubset(parsed.sys, parsed.term, Arg(c, 1).len), Arg(c, 1))

Bounded(parsed, n) ==
  IF n.kind = "int"
  THEN [sys |-> AddMin(parsed.sys, parsed.term, n.val), term |-> NewTerm(parsed.sys)]
  ELSE parsed

Snprintf(c) ==
  /\ c.call = "snprintf"
  /\ \E out \in {Bounded(parse_fmt(sys, c.fmt, Rest(c, 2)), Arg(c, 2))} :
       IF c.fmt = Unparsed THEN Result(c, sys, NoneCtx)
       ELSE Result(c, AddSubset(out.sys, out.term, Arg(c, 1).len), Arg(c, 1))

(* Only the numbers of variables depend on the order of the calls. *)
WalkCall(c) ==
  \/ Assignment(c) \/ Strcpy(c) \/ Strncpy(c) \/ Strspn(c) \/ Strdup(c)
  \/ Strcat(c) \/ Strncat(c) \/ Strchr(c) \/ Fgets(c) \/ Gets(c)
  \/ Getenv(c) \/ Malloc(c) \/ Sprintf(c) \/ Snprintf(c)

Walk(i) ==
  /\ phase = "walk"
  /\ \A j \in program : j < i
  /\ Cardinality(program) < MaxCalls
  /\ WalkCall(Pool[i])
  /\ program' = program \cup {i}
  /\ UNCHANGED <<phase, ranges, reported, memory, window, num, overflow>>

-----------------------------------------------------------------------------
(* The solver's part: the least solution, and the queries that fail on it. *)

RangesOf(r) ==
  [o \in Strings \cup {Num} |->
     IF o = Num THEN [val |-> EvalTerm(NumVar, r)]
     ELSE [siz |-> EvalTerm(SizOf(o), r), len |-> EvalTerm(LenOf(o), r)]]

Solve ==
  /\ phase = "walk"
  /\ program # {}
  /\ LET r == Least(sys)
     IN  /\ ranges' = RangesOf(r)
         /\ reported' = {q.name : q \in {p \in ToSet(sys.queries) : Fails(p, r)}}
  /\ phase' = "run"
  /\ sys' = Unsolved
  /\ UNCHANGED <<program, memory, window, num, overflow>>

-----------------------------------------------------------------------------
(* The C library on a memory of bytes.                                     *)

Unset == -1

SizeOfBuffer(o) == memory.size[o]

(* The bytes of the string that starts at an offset of a buffer, its NUL  *)
(* included; 0 if there is none.                                           *)
StringAt(o, at) ==
  LET nuls == {i \in memory.nuls[o] : i >= at}
  IN  IF nuls = {} THEN 0 ELSE Min(nuls) - at + 1

Used(o) ==
  CASE o \in Buffers                       -> StringAt(o, 0)
    [] o = Window /\ window.of \in Buffers -> StringAt(window.of, window.at)
    [] OTHER                               -> 0

(* The string of an expression; o + n must not point past the end of o. *)
Bytes(e) == IF e.expr = "lit" THEN e.n + 1 ELSE Greater(Used(e.of) - e.n, 0)

BufferOf(e) == IF e.of = Window THEN window.of ELSE e.of

IntOf(e) ==
  CASE e.expr = "int"                     -> e.n
    [] e.expr = "ref"                     -> num
    [] e.expr = "sizeof"                  -> SizeOfBuffer(e.of)
    [] e.expr = "strlen" /\ Used(e.of) > 0 -> Used(e.of) - 1 + e.n
    [] OTHER                              -> Unset

(* A source: a string that does not lie in the buffer written. *)
Readable(e, dst) == Bytes(e) > 0 /\ (e.expr = "lit" \/ BufferOf(e) # dst)

(* Write from offset "at" of a buffer: as many bytes as extent says, of    *)
(* which the first ones, text, are a string or its beginning, with NULs    *)
(* at the places nuls.  Past the end of the buffer the program is lost.    *)
Put(o, at, nuls, text, extent) ==
  /\ SizeOfBuffer(o) # Unset
  /\ IF at + extent > SizeOfBuffer(o)
     THEN /\ overflow' = [of |-> o, by |-> IF at + text > SizeOfBuffer(o)
                                            THEN "string" ELSE "padding"]
          /\ phase' = "overflow"
          /\ UNCHANGED memory
     ELSE /\ memory' = [memory EXCEPT !.nuls[o] =
                           (@ \ (at .. at + extent - 1)) \cup {at + i : i \in nuls}]
          /\ UNCHANGED <<phase, overflow>>
  /\ UNCHANGED <<window, num>>

PutString(o, at, w) == Put(o, at, {w - 1}, w, w)

Dst(c) == c.args[1].of
At(c)  == c.args[1].n

RunStrcpy(c) ==
  /\ c.call = "strcpy"
  /\ Readable(c.args[2], Dst(c))
  /\ PutString(Dst(c), At(c), Bytes(c.args[2]))

(* A shorter source is padded with NULs, a longer one is not terminated. *)
RunStrncpy(c) ==
  /\ c.call = "strncpy"
  /\ Readable(c.args[2], Dst(c))
  /\ LET w == Bytes(c.args[2])
         n == IntOf(c.args[3])
     IN  /\ n # Unset
         /\ Put(Dst(c), At(c), w - 1 .. n - 1, Lesser(w, n), n)

RunStrcat(c) ==
  /\ c.call \in {"strcat", "strncat"}
  /\ Readable(c.args[2], Dst(c))
  /\ Used(Dst(c)) > 0
  /\ LET w == Bytes(c.args[2])
         n == IF c.call = "strcat" THEN w ELSE IntOf(c.args[3])
     IN  /\ n # Unset
         /\ PutString(Dst(c), Used(Dst(c)) - 1, Lesser(w - 1, n) + 1)

(* A line of any length that fits; of any length at all for gets. *)
RunRead(c) ==
  \/ /\ c.call = "fgets"
     /\ \E w \in 1 .. IntOf(c.args[2]) : PutString(Dst(c), At(c), w)
  \/ /\ c.call = "gets"
     /\ \E w \in 1 .. MaxLine : PutString(Dst(c), At(c), w)

(* The cell of the heap pointer is a new one, the old one is out of reach. *)
Allocate(size, nuls) ==
  /\ memory' = [memory EXCEPT !.size[Heap] = size, !.nuls[Heap] = nuls]
  /\ window' = IF window.of = Heap THEN [of |-> Nobody, at |-> 0] ELSE window
  /\ UNCHANGED <<phase, overflow, num>>

RunAllocation(c) ==
  /\ c.to = Heap
  /\ \/ /\ c.call = "malloc"
        /\ IntOf(c.args[1]) # Unset
        /\ Allocate(IntOf(c.args[1]), {})
     \/ /\ c.call = "strdup"
        /\ Bytes(c.args[1]) > 0
        /\ Allocate(Bytes(c.args[1]), {Bytes(c.args[1]) - 1})

(* strchr yields a pointer to some character, or to the NUL. *)
RunWindow(c) ==
  /\ c.to = Window
  /\ \/ /\ c.call \in {"=", "strchr"}
        /\ Bytes(c.args[1]) > 0
        /\ \E k \in IF c.call = "=" THEN {0} ELSE 0 .. Bytes(c.args[1]) - 1 :
             window' = [of |-> c.args[1].of, at |-> c.args[1].n + k]
        /\ UNCHANGED memory
     \/ /\ c.call = "getenv"
        /\ \E w \in 1 .. MaxLine :
             memory' = [memory EXCEPT !.size[Env] = w, !.nuls[Env] = {w - 1}]
        /\ window' = [of |-> Env, at |-> 0]
  /\ UNCHANGED <<phase, overflow, num>>

RunNumber(c) ==
  /\ c.to = Num
  /\ \/ c.call = "=" /\ IntOf(c.args[1]) # Unset /\ num' = IntOf(c.args[1])
     \/ c.call = "strspn" /\ \E k \in 0 .. Bytes(c.args[1]) - 1 : num' = k
  /\ UNCHANGED <<phase, overflow, memory, window>>

(* The output of a format, its numbers short or long, when the arguments   *)
(* are strings of so many bytes or numbers; ok unless one has no value.     *)
IsText(e) == e.expr = "lit" \/ (e.of \in Strings /\ e.expr = "ref")

Amount(e) == IF IsText(e) THEN Bytes(e) ELSE IntOf(e)

AmountAt(amounts, i) == IF i \in DOMAIN amounts THEN amounts[i] ELSE 0

NumberOf(amounts, i, spec) == IF spec = Star THEN AmountAt(amounts, i) ELSE spec

Printed(amounts, item, i, prec, long) ==
  CASE item.conv = "s" /\ prec = Unset -> AmountAt(amounts, i) - 1
    [] item.conv = "s" /\ prec # Unset -> Lesser(prec, AmountAt(amounts, i) - 1)
    [] item.conv \in DOMAIN ConvMax    -> IF long THEN ConvMax[item.conv] ELSE 1
    [] OTHER                           -> 1

(* With a width, at least so many. *)
Padded(amounts, item, i, long) ==
  LET w == After(i, item.width)
      p == After(w, item.prec)
  IN  Greater(NumberOf(amounts, i, item.width),
              Printed(amounts, item, p, NumberOf(amounts, w, item.prec), long))

Output(fmt, amounts, long) ==
  FoldLeft(LAMBDA acc, item : [next  |-> NextArg(item, acc.next),
                               bytes |-> acc.bytes + Padded(amounts, item, acc.next, long)],
           [next |-> 1, bytes |-> 1], fmt).bytes

Outputs(c, amounts) ==
  IF c.fmt = Unparsed THEN 1 .. MaxLine
  ELSE {Output(c.fmt, amounts, long) : long \in BOOLEAN}

Usable(e, dst) == IF IsText(e) THEN Readable(e, dst) ELSE IntOf(e) # Unset

RunPrintf(c) ==
  /\ c.call \in {"sprintf", "snprintf"}
  /\ LET first == IF c.call = "sprintf" THEN 2 ELSE 3
         rest  == SubSeq(c.args, first, Len(c.args))
     IN  /\ \A i \in 2 .. Len(c.args) : Usable(c.args[i], Dst(c))
         /\ \E out \in Outputs(c, [i \in DOMAIN rest |-> Amount(rest[i])]) :
              LET w == IF c.call = "sprintf" THEN out ELSE Lesser(out, IntOf(c.args[2]))
              IN  Put(Dst(c), At(c), IF w = 0 THEN {} ELSE {w - 1}, w, w)

RunCall(c) ==
  \/ RunStrcpy(c) \/ RunStrncpy(c) \/ RunStrcat(c) \/ RunRead(c)
  \/ RunAllocation(c) \/ RunWindow(c) \/ RunNumber(c) \/ RunPrintf(c)

Run(i) ==
  /\ phase = "run"
  /\ i \in program
  /\ RunCall(Pool[i])
  /\ UNCHANGED <<program, sys, ranges, reported>>

-----------------------------------------------------------------------------
(* fresh_var_ctx of every declared object, with the size of an array. *)
DeclaredSystem ==
  LET arrays == SetToSeq(Arrays)
  IN  [vars    |-> Declared + 1,
       cons    |-> [i \in DOMAIN arrays |-> Moved(ConstTerm(ArraySize[arrays[i]]), SizOf(arrays[i]))],
       queries |-> [i \in DOMAIN NameOrder |->
                      [name |-> NameOrder[i], siz |-> SizOf(NameOrder[i]), len |-> LenOf(NameOrder[i])]],
       pins    |-> << >>]

Init ==
  /\ phase = "walk"
  /\ program = {}
  /\ sys = DeclaredSystem
  /\ ranges = << >>
  /\ reported = {}
  /\ memory = [size |-> [o \in Buffers |-> IF o \in Arrays THEN ArraySize[o] ELSE Unset],
               nuls |-> [o \in Buffers |-> {}]]
  /\ window = [of |-> Nobody, at |-> 0]
  /\ num = Unset
  /\ overflow = [of |-> Nobody, by |-> Nobody]

Next == Solve \/ \E i \in DOMAIN Pool : Walk(i) \/ Run(i)

Spec == Init /\ [][Next]_vars

-----------------------------------------------------------------------------
(* Properties.                                                             *)

(* Constraints and queries mention variables that exist; strings end in    *)
(* their buffers, and so does what the reading pointer points to.          *)
TypeOK ==
  /\ phase \in {"walk", "run", "overflow"}
  /\ program \in SUBSET DOMAIN Pool
  /\ \A i \in DOMAIN sys.cons :
       {Rhs(sys.cons[i])} \cup ToSet(LhsVars(sys.cons[i])) \subseteq 0 .. sys.vars - 1
  /\ \A o \in Buffers : \A i \in memory.nuls[o] : i < memory.size[o]
  /\ window.of \in Buffers => window.at < memory.size[window.of]
  /\ overflow.of \in Arrays \cup {Heap, Nobody}

(* What the walker takes account of.  It says that it does not check       *)
(* strcat; it leaves out an snprintf whose format is no literal, and the   *)
(* width of anything but a string; and of two strncpy into one buffer the   *)
(* second may uncover NULs that the first one padded with.                 *)
Modelled(c) ==
  /\ c.call # "strcat"
  /\ c.call = "snprintf" => c.fmt # Unparsed
  /\ \A j \in DOMAIN c.fmt : c.fmt[j].conv # "s" => c.fmt[j].width = Absent

Promised ==
  /\ phase # "walk"
  /\ \A i \in program : Modelled(Pool[i])
  /\ \A i, j \in program :
       Pool[i].call = "strncpy" /\ Pool[j].call = "strncpy" /\ Dst(Pool[i]) = Dst(Pool[j]) => i = j

(* "len bytes used (incl. \0)": whatever the calls of a program do to a    *)
(* string, in whatever order and however often, the bytes it uses lie in   *)
(* the range of its length.                                                *)
LengthsAreCovered ==
  Promised => \A o \in Strings : Used(o) > 0 => In(Used(o), ranges[o].len)

(* "siz bytes allocated": the size of whatever the heap pointer points to, *)
(* and every integer computed from a string, lie in their ranges, though   *)
(* the string may have changed since.                                      *)
ValuesAreCovered ==
  Promised => /\ SizeOfBuffer(Heap) # Unset => In(SizeOfBuffer(Heap), ranges[Heap].siz)
              /\ num # Unset => In(num, ranges[Num].val)

(* "A buffer overrun is reported whenever a buffer's allocation siz need   *)
(* not be >= its used length len": the buffer that a string is written     *)
(* past the end of is among those reported.  NULs that strncpy pads with   *)
(* are no part of the string.                                              *)
OverflowIsReported ==
  Promised /\ overflow.by = "string" => overflow.of \in reported
=============================================================================
