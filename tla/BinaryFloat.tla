----------------------------- MODULE BinaryFloat -----------------------------
(***************************************************************************)
(* IEEE 754 binary floating point at a scale TLC can enumerate: the       *)
(* arithmetic the FPU and libm perform behind the primitives of floats.c. *)
(*                                                                         *)
(* PREC significand bits (53 in IEEE 754), a smallest step of 2^-FRAC     *)
(* (2^-1074) and EXPS binades above the subnormal range.  A finite value  *)
(* is held exactly as a dyadic rational: its magnitude v counts steps of  *)
(* 2^-FRAC.  Every operation is IEEE's: the exact result, rounded to      *)
(* nearest, ties to even, with overflow to infinity.                      *)
(***************************************************************************)
EXTENDS Integers

CONSTANTS
  PREC,  \* significand bits
  FRAC,  \* bits below the binary point of the smallest subnormal
  EXPS   \* binades of normal numbers above the first one

ASSUME PREC >= 2 /\ FRAC >= 1 /\ EXPS >= 1

S == 2^FRAC                           \* the steps in 1.0
Mags == {m * 2^e : m \in 0..(2^PREC - 1), e \in 0..EXPS}
Big == 2^(PREC + EXPS)                \* the first magnitude past the largest
Fin(n, v) == [k |-> "num", neg |-> n, v |-> v]
Inf(n) == [k |-> "inf", neg |-> n, v |-> 0]
NaN == [k |-> "nan", neg |-> FALSE, v |-> 0]
Doubles == {Fin(n, v) : n \in BOOLEAN, v \in Mags} \cup
           {Inf(FALSE), Inf(TRUE), NaN}

IsNaN(a) == a.k = "nan"
IsInf(a) == a.k = "inf"
IsFinite(a) == a.k = "num"
IsZero(a) == IsFinite(a) /\ a.v = 0
Val(a) == IF a.neg THEN -a.v ELSE a.v
Abs(x) == IF x < 0 THEN -x ELSE x

-----------------------------------------------------------------------------
(* Rounding to nearest, ties to even.  A magnitude's step is 1 below 2^PREC *)
(* and doubles in every binade above; Big ends the last binade and rounds  *)
(* to infinity, which is IEEE's overflow threshold max + step/2 with the   *)
(* tie going to Big's even significand.                                    *)
Step(r) == 2^(CHOOSE e \in 0..(EXPS + 1) :
                r < 2^(PREC + e) /\ (e = 0 \/ r >= 2^(PREC + e - 1)))
Even(r) == (r \div Step(r)) % 2 = 0
(* The double nearest to num/den steps, with sign n.                      *)
Round(n, num, den) ==
  LET dist(r) == Abs(r * den - num)
      r == CHOOSE r \in Mags \cup {Big} :
             \A s \in Mags \cup {Big} :
               dist(r) < dist(s) \/ (dist(r) = dist(s) /\ (r = s \/ Even(r)))
  IN IF r = Big THEN Inf(n) ELSE Fin(n, r)

(* libm and the FPU: IEEE 754 in round-to-nearest mode.                    *)
Neg(a) == IF IsNaN(a) THEN a ELSE [a EXCEPT !.neg = ~a.neg]
Fabs(a) == IF IsNaN(a) THEN a ELSE [a EXCEPT !.neg = FALSE]
Add(a, b) ==
  CASE IsNaN(a) \/ IsNaN(b) -> NaN
    [] IsInf(a) /\ IsInf(b) -> IF a.neg = b.neg THEN a ELSE NaN
    [] IsInf(a) -> a
    [] IsInf(b) -> b
    [] Val(a) + Val(b) = 0 -> Fin(IsZero(a) /\ IsZero(b) /\ a.neg /\ b.neg, 0)
    [] OTHER -> Round(Val(a) + Val(b) < 0, Abs(Val(a) + Val(b)), 1)
Mul(a, b) ==
  CASE IsNaN(a) \/ IsNaN(b) -> NaN
    [] (IsInf(a) /\ IsZero(b)) \/ (IsZero(a) /\ IsInf(b)) -> NaN
    [] IsInf(a) \/ IsInf(b) -> Inf(a.neg # b.neg)
    [] OTHER -> Round(a.neg # b.neg, a.v * b.v, S)
Div(a, b) ==
  CASE IsNaN(a) \/ IsNaN(b) \/ (IsInf(a) /\ IsInf(b)) -> NaN
    [] IsZero(a) /\ IsZero(b) -> NaN
    [] IsInf(a) \/ IsZero(b) -> Inf(a.neg # b.neg)
    [] IsInf(b) -> Fin(a.neg # b.neg, 0)
    [] OTHER -> Round(a.neg # b.neg, a.v * S, b.v)
(* floor and ceil: the integer below or above, in steps; always exact.     *)
Floor(a) ==
  IF ~IsFinite(a) THEN a
  ELSE LET q == a.v \div S IN
       Fin(a.neg, IF a.neg /\ a.v % S # 0 THEN (q + 1) * S ELSE q * S)
Ceil(a) == Neg(Floor(Neg(a)))
(* fmod: x - trunc(x / y) * y, with x's sign; always exact.               *)
Fmod(a, b) ==
  CASE IsNaN(a) \/ IsNaN(b) \/ IsInf(a) \/ IsZero(b) -> NaN
    [] IsInf(b) -> a
    [] OTHER -> Fin(a.neg, a.v % b.v)
(* ldexp(x, e) = x * 2^e, rounded.                                         *)
Ldexp(a, e) ==
  CASE ~IsFinite(a) \/ IsZero(a) -> a
    [] e >= 0 -> Round(a.neg, a.v * 2^e, 1)
    [] OTHER -> Round(a.neg, a.v, 2^(-e))
(* (double) n for an integer n: rounded to the nearest double.             *)
FromInt(n) == Round(n < 0, Abs(n) * S, 1)
Sub(a, b) == Add(a, Neg(b))
(* sqrt, correctly rounded: r is nearest to sqrt(X) steps, X = v * S,    *)
(* when every other magnitude s lies on the far side of the midpoint      *)
(* (r + s) / 2, compared squared.                                          *)
Sqrt(a) ==
  CASE IsNaN(a) \/ IsZero(a) \/ (IsInf(a) /\ ~a.neg) -> a
    [] a.neg -> NaN
    [] OTHER ->
         LET X == a.v * S
             nearer(r, s) ==
               /\ s < r => (r + s)^2 < 4 * X \/ ((r + s)^2 = 4 * X /\ Even(r))
               /\ s > r => (r + s)^2 > 4 * X \/ ((r + s)^2 = 4 * X /\ Even(r))
         IN Fin(FALSE, CHOOSE r \in Mags : \A s \in Mags : nearer(r, s))
Fmax == Fin(FALSE, (2^PREC - 1) * 2^EXPS)   \* DBL_MAX
(* C's == and < on doubles: false when either side is NaN; -0 == +0; the  *)
(* infinities lie beyond every finite value, at -Big and Big.             *)
Ord(a) == IF IsInf(a) THEN (IF a.neg THEN -Big ELSE Big) ELSE Val(a)
Eq(a, b) == ~IsNaN(a) /\ ~IsNaN(b) /\ Ord(a) = Ord(b)
Lt(a, b) == ~IsNaN(a) /\ ~IsNaN(b) /\ Ord(a) < Ord(b)
=============================================================================
