---------------------------- MODULE FloatFallbacks ----------------------------
(***************************************************************************)
(* caml_hypot (538-552), caml_expm1 (567-579) and caml_log1p (581-592)    *)
(* without HAS_C99_FLOAT_OPS, on every double of BinaryFloat, NaN, the    *)
(* infinities and signed zeros included: the formulas with each operation *)
(* rounded as the FPU rounds it.  libm's exp and log are correctly        *)
(* rounded; the instance gives their values on the finite doubles as      *)
(* tables from signed step counts to signed step counts (Big standing for *)
(* an overflow).  C99 Annex F, with C99's expm1 and log1p correctly       *)
(* rounded as tables of the same kind, is the reference the properties    *)
(* compare with.                                                           *)
(***************************************************************************)
EXTENDS BinaryFloat

CONSTANTS
  ExpTable,  \* exp on the finite doubles
  LogTable,  \* log on the positive finite doubles
  Expm1Table, \* C99's expm1 on the finite doubles
  Log1pTable  \* C99's log1p on the finite doubles above -1

Finite == {Fin(n, v) : n \in BOOLEAN, v \in Mags}
(* Each table has an entry for every argument its function is read at.   *)
TablesComplete ==
       /\ DOMAIN ExpTable = {Val(x) : x \in Finite}
       /\ DOMAIN LogTable = Mags \ {0}
       /\ DOMAIN Expm1Table = DOMAIN ExpTable
       /\ DOMAIN Log1pTable = {Val(x) : x \in {y \in Finite : Val(y) > -S}}
ASSUME TablesComplete

FromSteps(r) == IF Abs(r) = Big THEN Inf(r < 0) ELSE Fin(r < 0, Abs(r))
Exp(a) ==
  CASE IsNaN(a) -> NaN
    [] IsInf(a) -> IF a.neg THEN Fin(FALSE, 0) ELSE a
    [] OTHER -> FromSteps(ExpTable[Val(a)])
Log(a) ==
  CASE IsNaN(a) \/ (a.neg /\ ~IsZero(a)) -> NaN
    [] IsZero(a) -> Inf(TRUE)
    [] IsInf(a) -> a
    [] OTHER -> FromSteps(LogTable[a.v])
One == Fin(FALSE, S)
MinusOne == Fin(TRUE, S)

-----------------------------------------------------------------------------
(* Plausible bugs, used as mutants.                                        *)
(* hypot without the swap that puts the larger magnitude in x.            *)
HypotNoSwap(x0, y0) ==
  IF IsNaN(x0) THEN x0 ELSE IF IsNaN(y0) THEN y0
  ELSE LET x == Fabs(x0)
           y == Fabs(y0)
       IN IF Eq(x, Fin(FALSE, 0)) THEN Fin(FALSE, 0)
          ELSE LET ratio == Div(y, x)
               IN Mul(x, Sqrt(Add(One, Mul(ratio, ratio))))
(* expm1 without its u == 1 return.                                        *)
Expm1NoUnitTest(x) ==
  LET u == Exp(x)
  IN IF Eq(Sub(u, One), MinusOne) THEN MinusOne
     ELSE Div(Mul(Sub(u, One), x), Log(u))
(* log1p without its u == 1 return.                                        *)
Log1pNoUnitTest(x) ==
  LET u == Add(One, x) IN Div(Mul(Log(u), x), Sub(u, One))

-----------------------------------------------------------------------------
(* NaN operands first; x = fabs(x); y = fabs(y); swap so that x >= y;     *)
(* if (x == 0.0) return 0.0; ratio = y / x;                                *)
(* return x * sqrt(1.0 + ratio * ratio);                                   *)
Hypot(x0, y0) ==
  IF IsNaN(x0) THEN x0 ELSE IF IsNaN(y0) THEN y0
  ELSE LET ax == Fabs(x0)
           ay == Fabs(y0)
           x == IF Lt(ax, ay) THEN ay ELSE ax
           y == IF Lt(ax, ay) THEN ax ELSE ay
       IN IF Eq(x, Fin(FALSE, 0)) THEN Fin(FALSE, 0)
          ELSE LET ratio == Div(y, x)
               IN Mul(x, Sqrt(Add(One, Mul(ratio, ratio))))

(* u = exp(x); if (u == 1.) return x; if (u - 1. == -1.) return -1.;      *)
(* return (u - 1.) * x / log(u);                                           *)
Expm1(x) ==
  LET u == Exp(x)
  IN IF Eq(u, One) THEN x
     ELSE IF Eq(Sub(u, One), MinusOne) THEN MinusOne
     ELSE Div(Mul(Sub(u, One), x), Log(u))

(* u = 1. + x; if (u == 1.) return x; else return log(u) * x / (u - 1.);  *)
Log1p(x) ==
  LET u == Add(One, x)
  IN IF Eq(u, One) THEN x ELSE Div(Mul(Log(u), x), Sub(u, One))

VARIABLES
  call,  \* [op, x, y, res]: the primitive called and its result
  pc     \* "call" until the primitive has returned, then "done"

vars == <<call, pc>>

Init ==
  /\ pc = "call"
  /\ \/ \E x, y \in Doubles : call = [op |-> "hypot", x |-> x, y |-> y, res |-> NaN]
     \/ \E op \in {"expm1", "log1p"}, x \in Doubles :
          call = [op |-> op, x |-> x, y |-> NaN, res |-> NaN]

(* caml_hypot_float(f, g) = caml_copy_double(caml_hypot(f, g)).           *)
CallHypot ==
  /\ pc = "call" /\ call.op = "hypot"
  /\ call' = [call EXCEPT !.res = Hypot(call.x, call.y)]
  /\ pc' = "done"

(* caml_expm1_float(f) = caml_copy_double(caml_expm1(Double_val(f))).    *)
CallExpm1 ==
  /\ pc = "call" /\ call.op = "expm1"
  /\ call' = [call EXCEPT !.res = Expm1(call.x)]
  /\ pc' = "done"

(* caml_log1p_float(f) = caml_copy_double(caml_log1p(Double_val(f))).    *)
CallLog1p ==
  /\ pc = "call" /\ call.op = "log1p"
  /\ call' = [call EXCEPT !.res = Log1p(call.x)]
  /\ pc' = "done"

(* The primitive has returned.                                             *)
Returned == pc = "done" /\ UNCHANGED vars

Next == CallHypot \/ CallExpm1 \/ CallLog1p \/ Returned

Spec == Init /\ [][Next]_vars

-----------------------------------------------------------------------------
(* What C99 Annex F (F.9.3.3, F.9.3.9, F.9.4.3) requires, where it says:  *)
(* expm1 and log1p everywhere, their finite values correctly rounded;     *)
(* hypot where an argument is infinite, NaN or zero.                      *)
Specified(c) ==
  \/ c.op \in {"expm1", "log1p"}
  \/ c.op = "hypot" /\ \E a \in {c.x, c.y} : ~IsFinite(a) \/ IsZero(a)
C99(c) ==
  CASE c.op = "hypot" ->
         CASE IsInf(c.x) \/ IsInf(c.y) -> Inf(FALSE)
           [] IsNaN(c.x) \/ IsNaN(c.y) -> NaN
           [] IsZero(c.y) -> Fabs(c.x)
           [] OTHER -> Fabs(c.y)
    [] IsNaN(c.x) \/ IsZero(c.x) \/ (IsInf(c.x) /\ ~c.x.neg) -> c.x
    [] c.op = "expm1" ->
         IF IsInf(c.x) THEN MinusOne ELSE FromSteps(Expm1Table[Val(c.x)])
    [] Eq(c.x, MinusOne) -> Inf(TRUE)
    [] Lt(c.x, MinusOne) -> NaN
    [] OTHER -> FromSteps(Log1pTable[Val(c.x)])

(* The arguments where Annex F fixes the result outright, with no          *)
(* rounding: NaN, signed zeros and minus infinity for expm1 and log1p,    *)
(* log1p at and below -1, hypot of a zero or NaN and a finite value.       *)
Exact(c) ==
  CASE c.op = "hypot" -> Specified(c) /\ ~IsInf(c.x) /\ ~IsInf(c.y)
    [] c.op = "expm1" -> IsNaN(c.x) \/ IsZero(c.x) \/ c.x = Inf(TRUE)
    [] c.op = "log1p" -> IsNaN(c.x) \/ IsZero(c.x) \/ ~Lt(MinusOne, c.x)
    [] OTHER -> FALSE

(* The finite arguments where a primitive's value is a real number: any  *)
(* x for expm1, x > -1 for log1p.                                          *)
InDomain(c) ==
  /\ pc = "done" /\ c.op \in {"expm1", "log1p"} /\ IsFinite(c.x)
  /\ c.op = "log1p" => Val(c.x) > -S

(* Where Annex F fixes the result, the fallbacks return it exactly: zeros *)
(* keep their sign through expm1 and log1p (the u == 1 returns), hypot of *)
(* a value and a zero is the value's magnitude (the swap and the x == 0   *)
(* return), NaN propagates, expm1(-inf) = -1 (the u - 1 == -1 return),    *)
(* log1p(-1) = -inf and log1p below -1 is NaN.                            *)
AnnexFExact ==
  pc = "done" /\ Exact(call) => call.res = C99(call)

(* Wherever exp(x) is finite, and on log1p's whole domain, Kahan's        *)
(* formulas never give NaN and keep the sign of x, signed zeros included: *)
(* the u == 1 returns are what keeps 0/0 out.                              *)
KahanKeepsSign ==
  InDomain(call) /\ (call.op = "expm1" => ~IsInf(Exp(call.x))) =>
    ~IsNaN(call.res) /\ call.res.neg = call.x.neg

(* The spec: results are IEEE's, and infinities flow through unmodified.  *)
(* Wherever Annex F says, the fallbacks give NaN exactly where C99 does  *)
(* and an infinity exactly where C99 does: no intermediate product may    *)
(* overflow where the value does not, no infinite argument or overflowing *)
(* exp may turn into inf / inf, and no NaN check may hide an infinity.    *)
NaNAndInfinityAsC99 ==
  pc = "done" /\ Specified(call) =>
    /\ IsNaN(call.res) <=> IsNaN(C99(call))
    /\ IsInf(call.res) <=> IsInf(C99(call))

(* hypot without undue overflow: with both magnitudes finite and at most  *)
(* DBL_MAX / 2 the result, at most DBL_MAX / sqrt(2), is finite; the swap *)
(* keeps ratio <= 1 so that ratio * ratio cannot overflow.                 *)
HypotNoUndueOverflow ==
  /\ pc = "done" /\ call.op = "hypot" /\ IsFinite(call.x) /\ IsFinite(call.y)
  /\ 2 * call.x.v <= Fmax.v /\ 2 * call.y.v <= Fmax.v
  => IsFinite(call.res)
=============================================================================
