---------------------------- MODULE FloatCompare ----------------------------
(***************************************************************************)
(* The comparison primitives of floats.c: caml_eq_float, caml_neq_float,  *)
(* caml_le_float, caml_lt_float, caml_ge_float, caml_gt_float (647-699)   *)
(* and caml_float_compare (701-715), in either build.                      *)
(*                                                                         *)
(* A double of the hosted build is NaN or a signed magnitude, where the   *)
(* magnitude is a small integer or INF; -0 and +0 are distinct values     *)
(* that compare equal.  The kernel build's __double is a fixed-point      *)
(* number: no NaN, no infinities, no negative zero.                        *)
(*                                                                         *)
(* The runtime calls one primitive on two boxed floats; the state is the *)
(* call and, once it has returned, its result.                             *)
(***************************************************************************)
EXTENDS Integers

CONSTANTS
  Backend,  \* "hosted" (libm) or "kernel" (__FreeBSD__ && _KERNEL, fixmath)
  MaxMag    \* the largest finite magnitude modelled

ASSUME Backend \in {"hosted", "kernel"} /\ MaxMag \in Nat \ {0}

Mags == 0..MaxMag
INF == MaxMag + 1
NaN == [neg |-> FALSE, mag |-> -1]
IsNaN(d) == d.mag = -1

Doubles ==
  IF Backend = "hosted"
  THEN {NaN} \cup [neg : BOOLEAN, mag : Mags \cup {INF}]
  ELSE {d \in [neg : BOOLEAN, mag : Mags] : ~(d.neg /\ d.mag = 0)}

(* The value a non-NaN double denotes; INF stands for infinity.            *)
Real(d) == IF d.neg THEN -d.mag ELSE d.mag

(* The C operators on doubles: every relation with a NaN operand is false *)
(* except !=.                                                              *)
Eq(f, g) == ~IsNaN(f) /\ ~IsNaN(g) /\ Real(f) = Real(g)
Lt(f, g) == ~IsNaN(f) /\ ~IsNaN(g) /\ Real(f) < Real(g)
Le(f, g) == Eq(f, g) \/ Lt(f, g)

(* Val_bool: an OCaml bool is the immediate 0 or 1.                       *)
ValBool(b) == IF b THEN 1 ELSE 0

Relations == {"eq", "neq", "le", "lt", "ge", "gt"}

VARIABLES
  call,  \* [op, f, g, res]: the primitive called and its result
  pc     \* "call" until the primitive has returned, then "done"

vars == <<call, pc>>

-----------------------------------------------------------------------------
(* Plausible bugs, used as mutants.                                        *)
(* The kernel build's caml_lt_float everywhere: <= for <.                  *)
LtFloatAsLe(f, g) == Le(f, g)
(* The #if 0 branch of caml_float_compare enabled: NaN below everything.  *)
FloatCompareNaNLowest(f, g) ==
  CASE Eq(f, g) -> 0 [] Lt(f, g) -> -1 [] Lt(g, f) -> 1
    [] ~IsNaN(f) -> 1 [] ~IsNaN(g) -> -1 [] OTHER -> 0

-----------------------------------------------------------------------------
(* caml_lt_float: f < g, but f <= g in the kernel build (line 677).        *)
LtFloat(f, g) == IF Backend = "kernel" THEN Le(f, g) ELSE Lt(f, g)

(* The Val_bool result of each relational primitive.                       *)
RelFloat(op, f, g) ==
  CASE op = "eq"  -> Eq(f, g)
    [] op = "neq" -> ~Eq(f, g)
    [] op = "le"  -> Le(f, g)
    [] op = "lt"  -> LtFloat(f, g)
    [] op = "ge"  -> Le(g, f)
    [] op = "gt"  -> Lt(g, f)

(* caml_float_compare: ==, then <, then >, and 0 when one is NaN.          *)
FloatCompare(f, g) ==
  CASE Eq(f, g) -> 0 [] Lt(f, g) -> -1 [] Lt(g, f) -> 1 [] OTHER -> 0

Init ==
  /\ pc = "call"
  /\ \E op \in Relations \cup {"compare"}, f, g \in Doubles :
       call = [op |-> op, f |-> f, g |-> g, res |-> 0]

(* caml_eq_float ... caml_gt_float: Val_bool(Double_val(f) op Double_val(g)). *)
CallRelation ==
  /\ pc = "call" /\ call.op \in Relations
  /\ call' = [call EXCEPT !.res = ValBool(RelFloat(call.op, call.f, call.g))]
  /\ pc' = "done"

CallCompare ==
  /\ pc = "call" /\ call.op = "compare"
  /\ call' = [call EXCEPT !.res = FloatCompare(call.f, call.g)]
  /\ pc' = "done"

(* The primitive has returned.                                             *)
Returned == pc = "done" /\ UNCHANGED vars

Next == CallRelation \/ CallCompare \/ Returned

Spec == Init /\ [][Next]_vars

-----------------------------------------------------------------------------
TypeOK ==
  call.op \in Relations \cup {"compare"} =>
    /\ call \in [op : Relations \cup {"compare"}, f : Doubles, g : Doubles,
                res : {-1, 0, 1}]
    /\ pc \in {"call", "done"}

(* The spec's three-way order: the sign of f - g, and 0 when either is NaN.*)
SpecCompare(f, g) ==
  IF IsNaN(f) \/ IsNaN(g) THEN 0
  ELSE IF Real(f) < Real(g) THEN -1 ELSE IF Real(f) > Real(g) THEN 1 ELSE 0

(* caml_float_compare returns what the spec says, including the NaN rule  *)
(* that the code's own comment contradicts ("NaN < x for all x").          *)
CompareMatchesSpec ==
  pc = "done" /\ call.op = "compare" => call.res = SpecCompare(call.f, call.g)

(* Each relational primitive agrees with caml_float_compare on ordered    *)
(* operands, and with a NaN operand only neq holds.  Polymorphic code     *)
(* that mixes (<) and compare relies on this.                             *)
RelationsAgreeWithCompare ==
  pc = "done" /\ call.op \in Relations =>
    LET c == FloatCompare(call.f, call.g)
        nan == IsNaN(call.f) \/ IsNaN(call.g)
    IN call.res = ValBool(CASE call.op = "eq"  -> ~nan /\ c = 0
                    [] call.op = "neq" -> nan \/ c # 0
                    [] call.op = "le"  -> ~nan /\ c <= 0
                    [] call.op = "lt"  -> ~nan /\ c < 0
                    [] call.op = "ge"  -> ~nan /\ c >= 0
                    [] call.op = "gt"  -> ~nan /\ c > 0)

(* The spec's testable property: compare is a total order usable for      *)
(* sorting, so compare(f, g) <= 0 and compare(g, h) <= 0 give              *)
(* compare(f, h) <= 0 for every f, g, h the call could have been given.    *)
CompareTransitive ==
  pc = "done" /\ call.op = "compare" =>
    \A h \in Doubles :
      FloatCompare(call.f, call.g) <= 0 /\ FloatCompare(call.g, h) <= 0
        => FloatCompare(call.f, h) <= 0
=============================================================================
