------------------------------- MODULE Types -------------------------------
(***************************************************************************)
(* C types and the three kinds of values that the analysis tells apart     *)
(* (ctype.rs; walk.rs type_eq, spec_eq, sizeof_type).                      *)
(*                                                                         *)
(* A type is a specifier and the derivations on top of it.  A type         *)
(* environment holds the typedefs and the struct definitions of the        *)
(* program: tenv.typedefs maps names to types, tenv.structs maps tags to   *)
(* sequences of fields.                                                    *)
(***************************************************************************)
EXTENDS Integers, Sequences
LOCAL INSTANCE SequencesExt

(* Specifiers.  An anonymous aggregate has no tag. *)
NoTag == ""

Spec0(which)            == [spec |-> which, name |-> NoTag, fields |-> << >>]
Void                    == Spec0("void")
Char                    == Spec0("char")
Integer                 == Spec0("int")
Real                    == Spec0("real")
Named(name)             == [Spec0("named") EXCEPT !.name = name]
NamedAggregate(tag)     == [Spec0("tag") EXCEPT !.name = tag]
Aggregate(tag, fields)  == [spec |-> "aggregate", name |-> tag, fields |-> fields]

(* Derivations; an array may have no size that is known. *)
NoSize   == -1
Pointer  == [deriv |-> "pointer", size |-> NoSize]
Array(n) == [deriv |-> "array", size |-> n]

CType(spec, derivs) == [spec |-> spec, derivs |-> derivs]

void   == CType(Void, << >>)
int    == CType(Integer, << >>)
char   == CType(Char, << >>)
string == CType(Char, <<Pointer>>)

is_array(t)   == t.derivs # << >> /\ Head(t.derivs).deriv = "array"
is_pointer(t) == t.derivs # << >> /\ Head(t.derivs).deriv = "pointer"

array_to_ptr(t) == IF is_array(t) THEN [t EXCEPT !.derivs[1] = Pointer] ELSE t

deref(t) == [t EXCEPT !.derivs = IF @ = << >> THEN @ ELSE Tail(@)]

kind(t) ==
  CASE t.spec = Char /\ Len(t.derivs) = 1                -> "str"
    [] t.spec \in {Char, Integer} /\ t.derivs = << >>    -> "int"
    [] OTHER                                             -> "none"

(* Typedefs are replaced by what they stand for, through as many others as *)
(* the guard against cycles lets pass, and a tag by its definition; fields *)
(* are left as they are.                                                   *)
MaxDepth == 64

RECURSIVE resolve_depth(_, _, _)
resolve_depth(tenv, t, depth) ==
  IF depth > MaxDepth THEN t
  ELSE IF t.spec.spec = "named" /\ t.spec.name \in DOMAIN tenv.typedefs
  THEN LET def == tenv.typedefs[t.spec.name]
       IN  resolve_depth(tenv, CType(def.spec, t.derivs \o def.derivs), depth + 1)
  ELSE IF t.spec.spec = "tag" /\ t.spec.name \in DOMAIN tenv.structs
  THEN [t EXCEPT !.spec = Aggregate(t.spec.name, tenv.structs[t.spec.name])]
  ELSE t

resolve(tenv, t) == resolve_depth(tenv, t, 0)

(* The type of a field, void if t has no such field. *)
field_ctype(tenv, t, id) ==
  LET fields == resolve(tenv, t).spec.fields
      found  == {i \in DOMAIN fields : fields[i].name = id}
  IN  IF found = {} THEN void
      ELSE resolve(tenv, fields[CHOOSE i \in found : \A j \in found : i <= j].type)

(* An aggregate without a tag equals nothing, itself included. *)
spec_eq(a, b) ==
  \/ a.spec = b.spec /\ a.spec \in {"void", "char", "int", "real"}
  \/ a.spec = "named" /\ b.spec = "named" /\ a.name = b.name
  \/ /\ {a.spec, b.spec} \subseteq {"aggregate", "tag"}
     /\ a.name = b.name /\ a.name # NoTag

(* Mutant: the typedefs are not looked through. *)
type_eqAsWritten(tenv, a, b) == Len(a.derivs) = Len(b.derivs) /\ spec_eq(a.spec, b.spec)

type_eq(tenv, a, b) ==
  LET ra == resolve(tenv, a)
      rb == resolve(tenv, b)
  IN  Len(ra.derivs) = Len(rb.derivs) /\ spec_eq(ra.spec, rb.spec)

(* The size of a type, NoSize if it depends on the platform. *)
SpecSize(spec) ==
  CASE spec = Char    -> 1
    [] spec = Integer -> 4
    [] spec = Real    -> 8
    [] OTHER          -> NoSize

sizeof_type(tenv, t) ==
  LET r == resolve(tenv, t) IN IF r.derivs = << >> THEN SpecSize(r.spec) ELSE NoSize
=============================================================================
