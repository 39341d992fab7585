------------------------------ MODULE FloatLibm ------------------------------
(***************************************************************************)
(* The hosted transcendental wrappers of floats.c: caml_exp_float         *)
(* (329-336), caml_log_float and caml_log10_float (382-398),              *)
(* caml_power_float (429-436), the trigonometric, hyperbolic and inverse  *)
(* trigonometric wrappers (438-517) and caml_atan2_float (519-526).  Each *)
(* is caml_copy_double(f(Double_val(x)[, Double_val(y)])) for a libm      *)
(* function f.  libm is given by its contract, C99 Annex F (F.9): the     *)
(* value Annex F fixes at its special arguments, NaN outside the domain,  *)
(* and elsewhere any double but NaN, since Annex F leaves the rounding    *)
(* of a transcendental value to the library.  The kernel build calls      *)
(* fixpt_* of <fixmath.h>, which is not part of the repository.           *)
(***************************************************************************)
EXTENDS BinaryFloat

One == Fin(FALSE, S)
MinusOne == Fin(TRUE, S)
PlusZero == Fin(FALSE, 0)
(* pi and its fractions, rounded to nearest (355/113 is pi to 7 digits).  *)
Pi == Round(FALSE, 355 * S, 113)
HalfPi == Round(FALSE, 355 * S, 226)
QuarterPi == Round(FALSE, 355 * S, 452)
ThreeQuarterPi == Round(FALSE, 3 * 355 * S, 452)
IsInt(a) == IsFinite(a) /\ a.v % S = 0
OddInt(a) == IsInt(a) /\ (a.v \div S) % 2 = 1
AnyValue == Doubles \ {NaN}

(* The results Annex F allows for the one-argument functions.             *)
Annex1(fn, x) ==
  CASE IsNaN(x) -> {NaN}
    [] IsZero(x) /\ fn \in {"sin", "tan", "sinh", "tanh", "asin", "atan"} -> {x}
    [] IsZero(x) /\ fn \in {"exp", "cos", "cosh"} -> {One}
    [] IsZero(x) /\ fn \in {"log", "log10"} -> {Inf(TRUE)}
    [] x = One /\ fn \in {"log", "log10", "acos"} -> {PlusZero}
    [] x.neg /\ fn \in {"log", "log10"} -> {NaN}
    [] Lt(One, Fabs(x)) /\ fn \in {"asin", "acos"} -> {NaN}
    [] IsInf(x) /\ fn \in {"sin", "cos", "tan"} -> {NaN}
    [] IsInf(x) /\ fn \in {"sinh", "log", "log10"} -> {x}
    [] IsInf(x) /\ fn = "cosh" -> {Inf(FALSE)}
    [] IsInf(x) /\ fn = "exp" -> {IF x.neg THEN PlusZero ELSE x}
    [] IsInf(x) /\ fn = "tanh" -> {Fin(x.neg, S)}
    [] IsInf(x) /\ fn = "atan" -> {Fin(x.neg, HalfPi.v)}
    [] OTHER -> AnyValue

(* pow(x, y), F.9.4.4: y = +-0 and x = 1 give 1 even against NaN.          *)
Pow(x, y) ==
  CASE IsZero(y) \/ x = One -> {One}
    [] IsNaN(x) \/ IsNaN(y) -> {NaN}
    [] IsZero(x) /\ y.neg -> {Inf(x.neg /\ OddInt(y))}
    [] IsZero(x) -> {Fin(x.neg /\ OddInt(y), 0)}
    [] IsInf(y) /\ x = MinusOne -> {One}
    [] IsInf(y) -> {IF Lt(Fabs(x), One) = y.neg THEN Inf(FALSE) ELSE PlusZero}
    [] IsInf(x) /\ y.neg -> {Fin(x.neg /\ OddInt(y), 0)}
    [] IsInf(x) -> {Inf(x.neg /\ OddInt(y))}
    [] x.neg /\ ~IsInt(y) -> {NaN}
    [] OTHER -> AnyValue

(* atan2(y, x), F.9.1.4: the angle of the point (x, y).                    *)
Atan2(y, x) ==
  CASE IsNaN(x) \/ IsNaN(y) -> {NaN}
    [] IsZero(y) /\ x.neg -> {Fin(y.neg, Pi.v)}
    [] IsZero(y) -> {y}
    [] IsInf(y) /\ IsInf(x) ->
         {Fin(y.neg, IF x.neg THEN ThreeQuarterPi.v ELSE QuarterPi.v)}
    [] IsInf(y) \/ IsZero(x) -> {Fin(y.neg, HalfPi.v)}
    [] IsInf(x) -> {Fin(y.neg, IF x.neg THEN Pi.v ELSE 0)}
    [] OTHER -> AnyValue

-----------------------------------------------------------------------------
VARIABLES
  call,  \* [op, x, y, res]: the primitive called and its result
  pc     \* "call" until the primitive has returned, then "done"

vars == <<call, pc>>

TrigOps == {"sin", "sinh", "cos", "cosh", "tan", "tanh", "asin", "acos", "atan"}
LibmOps == {"exp", "log", "log10", "power", "atan2"} \cup TrigOps
(* The arguments: NaN, the infinities, both zeros, +-1 and values on each *)
(* side of 1 in magnitude, integral and not, odd and even.                 *)
Args == {NaN, Inf(FALSE), Inf(TRUE)} \cup
        {Fin(n, v) : n \in BOOLEAN, v \in {0, S \div 2, S, 2 * S, 3 * S}}

Init ==
  /\ pc = "call"
  /\ \/ \E op \in LibmOps \ {"power", "atan2"}, x \in Args :
          call = [op |-> op, x |-> x, y |-> NaN, res |-> NaN]
     \/ \E op \in {"power", "atan2"}, x, y \in Args :
          call = [op |-> op, x |-> x, y |-> y, res |-> NaN]

(* Double_val(f) handed to libm, whatever it returns boxed by              *)
(* caml_copy_double.                                                       *)
Return(results) ==
  /\ \E r \in results : call' = [call EXCEPT !.res = r]
  /\ pc' = "done"

(* caml_exp_float(f) = caml_copy_double(exp(Double_val(f))).              *)
CallExp ==
  /\ pc = "call" /\ call.op = "exp"
  /\ Return(Annex1("exp", call.x))

(* caml_log_float and caml_log10_float: log and log10 of Double_val(f).   *)
CallLog ==
  /\ pc = "call" /\ call.op \in {"log", "log10"}
  /\ Return(Annex1(call.op, call.x))

(* caml_power_float(f, g) = caml_copy_double(pow(Double_val(f),          *)
(* Double_val(g))).                                                        *)
CallPowerArgs(x, y) == Pow(x, y)
CallPower ==
  /\ pc = "call" /\ call.op = "power"
  /\ Return(CallPowerArgs(call.x, call.y))

(* caml_sin_float ... caml_atan_float: f of Double_val(f), the libm       *)
(* function of the primitive's name.                                       *)
CallTrig ==
  /\ pc = "call" /\ call.op \in TrigOps
  /\ Return(Annex1(call.op, call.x))

(* caml_atan2_float(f, g) = caml_copy_double(atan2(Double_val(f),         *)
(* Double_val(g))).                                                        *)
CallAtan2 ==
  /\ pc = "call" /\ call.op = "atan2"
  /\ Return(Atan2(call.x, call.y))

(* The primitive has returned.                                             *)
Returned == pc = "done" /\ UNCHANGED vars

Next == CallExp \/ CallLog \/ CallPower \/ CallTrig \/ CallAtan2 \/ Returned

Spec == Init /\ [][Next]_vars

-----------------------------------------------------------------------------
TypeOK ==
  call.op \in LibmOps =>
    /\ pc \in {"call", "done"}
    /\ call.x \in Args /\ call.y \in Args /\ call.res \in Doubles
=============================================================================
