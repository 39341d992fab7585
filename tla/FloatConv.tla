------------------------------ MODULE FloatConv ------------------------------
(***************************************************************************)
(* The hosted primitives of floats.c whose result the model can compute   *)
(* exactly: caml_int_of_float (261-268), caml_float_of_int (270-277),     *)
(* caml_ldexp_float (373-380) and the wrappers neg, abs, add, sub, mul,   *)
(* div, floor, fmod, sqrt and ceil (279-354, 420-427, 528-535), on the    *)
(* doubles of BinaryFloat.  intnat has LONG_BITS bits, an OCaml int one   *)
(* bit less, a C int INT_BITS bits.                                        *)
(***************************************************************************)
EXTENDS BinaryFloat

CONSTANTS
  LONG_BITS,  \* width of intnat (64)
  INT_BITS    \* width of int (32)

ASSUME INT_BITS >= 2 /\ LONG_BITS > INT_BITS + 1

Wrap(x, b) == ((x + 2^(b - 1)) % 2^b) - 2^(b - 1)
Range(b) == -(2^(b - 1))..(2^(b - 1) - 1)
Intnat == Range(LONG_BITS)
OcamlInts == Range(LONG_BITS - 1)


-----------------------------------------------------------------------------
(* Plausible bugs, used as mutants.                                        *)
(* The word shifted back without the wrap of its top bit.                  *)
ValLongNoWrap(x) == 2 * x + 1
(* Long_val as a logical shift, the word read as unsigned.                 *)
LongValUnsigned(w) == (w % 2^LONG_BITS) \div 2

-----------------------------------------------------------------------------
(* The value macros: Val_long(x) = (x << 1) + 1 on an intnat word,         *)
(* Long_val(v) = v >> 1 (arithmetic), Int_val(v) = (int) Long_val(v).      *)
ValLong(x) == Wrap(2 * x + 1, LONG_BITS)
LongVal(w) == (w - 1) \div 2
IntVal(w) == Wrap((w - 1) \div 2, INT_BITS)

(* (intnat) d for a finite d: the conversion truncates toward zero.        *)
Cast(a) == IF a.neg THEN -(a.v \div S) ELSE a.v \div S

(* The intnat values (intnat) d can produce.  Out of range, and for NaN   *)
(* and infinities, the conversion is undefined in C: the build produces   *)
(* whatever its instruction gives (INT_MIN on x86, saturation on ARM).     *)
CastResults(a) ==
  IF IsFinite(a) /\ Cast(a) \in Intnat THEN {Cast(a)} ELSE Intnat

VARIABLES
  call,  \* [op, x, y, n, from, res]: the primitive called and its result;
         \* from is {n} when x is the result of float_of_int n
  pc     \* "call" until the primitive has returned, then "done"

vars == <<call, pc>>

UnaryOps == {"neg", "abs", "floor", "ceil", "sqrt"}
BinaryOps == {"add", "sub", "mul", "div", "fmod"}
ConvOps == {"int_of_float", "float_of_int", "ldexp"} \cup UnaryOps \cup BinaryOps
NoFloat == Fin(FALSE, 0)
Call(op, x, y, n) ==
  [op |-> op, x |-> x, y |-> y, n |-> n, from |-> {}, res |-> NoFloat]

Init ==
  /\ pc = "call"
  /\ \/ \E x \in Doubles : call = Call("int_of_float", x, NoFloat, 0)
     \/ \E n \in OcamlInts : call = Call("float_of_int", NoFloat, NoFloat, n)
     \/ \E x \in Doubles, n \in OcamlInts : call = Call("ldexp", x, NoFloat, n)
     \/ \E op \in UnaryOps, x \in Doubles : call = Call(op, x, NoFloat, 0)
     \/ \E op \in BinaryOps, x, y \in Doubles : call = Call(op, x, y, 0)

(* caml_int_of_float(f) = Val_long((intnat) Double_val(f)).               *)
IntOfFloat ==
  /\ pc = "call" /\ call.op = "int_of_float"
  /\ \E c \in CastResults(call.x) :
       call' = [call EXCEPT !.res = LongVal(ValLong(c))]
  /\ pc' = "done"

(* caml_float_of_int(n) = caml_copy_double((double) Long_val(n)).          *)
FloatOfInt ==
  /\ pc = "call" /\ call.op = "float_of_int"
  /\ call' = [call EXCEPT !.res = FromInt(LongVal(ValLong(call.n)))]
  /\ pc' = "done"

(* caml_ldexp_float(f, i) = caml_copy_double(ldexp(Double_val(f),         *)
(* Int_val(i))).                                                           *)
LdexpFloat ==
  /\ pc = "call" /\ call.op = "ldexp"
  /\ call' = [call EXCEPT !.res = Ldexp(call.x, IntVal(ValLong(call.n)))]
  /\ pc' = "done"

(* caml_neg_float, caml_abs_float, caml_floor_float, caml_ceil_float,    *)
(* caml_sqrt_float (hosted branch):                                        *)
(* caml_copy_double(op(Double_val(f))).                                    *)
UnaryFloat ==
  /\ pc = "call" /\ call.op \in UnaryOps
  /\ call' = [call EXCEPT !.res =
       CASE call.op = "neg" -> Neg(call.x)
         [] call.op = "abs" -> Fabs(call.x)
         [] call.op = "floor" -> Floor(call.x)
         [] call.op = "sqrt" -> Sqrt(call.x)
         [] OTHER -> Ceil(call.x)]
  /\ pc' = "done"

(* caml_add_float ... caml_div_float, caml_fmod_float:                     *)
(* caml_copy_double(Double_val(f) op Double_val(g)).                       *)
BinaryFloat ==
  /\ pc = "call" /\ call.op \in BinaryOps
  /\ call' = [call EXCEPT !.res =
       CASE call.op = "add" -> Add(call.x, call.y)
         [] call.op = "sub" -> Sub(call.x, call.y)
         [] call.op = "mul" -> Mul(call.x, call.y)
         [] call.op = "div" -> Div(call.x, call.y)
         [] OTHER -> Fmod(call.x, call.y)]
  /\ pc' = "done"

(* The caller passes the boxed result of float_of_int n to int_of_float:  *)
(* truncate (float_of_int n) in OCaml.                                     *)
ConvertBack ==
  /\ pc = "done" /\ call.op = "float_of_int"
  /\ call' = [Call("int_of_float", call.res, NoFloat, 0) EXCEPT
                !.from = {call.n}]
  /\ pc' = "call"

(* The primitive has returned.                                             *)
Returned == pc = "done" /\ UNCHANGED vars

Next ==
  \/ IntOfFloat \/ FloatOfInt \/ LdexpFloat \/ UnaryFloat \/ BinaryFloat
  \/ ConvertBack \/ Returned

Spec == Init /\ [][Next]_vars

-----------------------------------------------------------------------------
TypeOK ==
  call.op \in ConvOps =>
    /\ pc \in {"call", "done"}
    /\ call.x \in Doubles /\ call.y \in Doubles /\ call.n \in OcamlInts
    /\ call.from \subseteq OcamlInts
    /\ pc = "done" =>
         call.res \in IF call.op = "int_of_float" THEN OcamlInts ELSE Doubles

(* truncate (float_of_int n) = n for every n the significand holds         *)
(* exactly: through Val_long, Long_val, the rounding and the cast.         *)
SmallIntsRoundTrip ==
  pc = "done" /\ call.op = "int_of_float" =>
    \A n \in call.from : Abs(n) <= 2^PREC => call.res = n

(* The spec calls both conversions truncating: the round trip never moves  *)
(* a value away from zero, and never changes its sign.                     *)
RoundTripTruncates ==
  pc = "done" /\ call.op = "int_of_float" =>
    \A n \in call.from : /\ Abs(call.res) <= Abs(n)
                         /\ n >= 0 => call.res >= 0

(* The spec: ldexp_float computes f * 2^i for its int argument i.          *)
LdexpScales ==
  pc = "done" /\ call.op = "ldexp" => call.res = Ldexp(call.x, call.n)
=============================================================================
