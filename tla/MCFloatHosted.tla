---------------------------- MODULE MCFloatHosted ----------------------------
(***************************************************************************)
(* The hosted primitives of floats.c that compute on doubles, checked     *)
(* together: a caller invokes one of them, FloatConv's conversions and     *)
(* wrappers, FloatFallbacks' hypot, expm1 and log1p, FloatCompare's        *)
(* comparisons, FloatLibm's libm wrappers or FloatBits' classify and      *)
(* copysign, on arguments the components enumerate, and the call         *)
(* returns.  The five share the variables call and pc, FloatBits alone    *)
(* moves target and impl; each acts only on the calls of its primitives.  *)
(*                                                                         *)
(* Doubles: a 3-bit significand, steps of 1/4 and 5 binades, from 1/4 to  *)
(* 56 and infinity, so that max_int (15) rounds up, the cast overflows    *)
(* intnat (31), ldexp overflows and underflows, exp overflows from 4.25   *)
(* on and (u - 1) * x reaches DBL_MAX already at x = 4.  intnat has 6     *)
(* bits (OCaml ints -16..15), int 4 bits, so Int_val drops bits.  libm's  *)
(* exp and log, correctly rounded, as signed step counts, and C99's expm1 *)
(* and log1p the same way; 256 (Big) is an overflow.  The comparisons run *)
(* on magnitudes 0..MaxMag and infinity, both zeros and NaN.              *)
(***************************************************************************)
EXTENDS Integers, TLC

CONSTANTS PREC, FRAC, EXPS, LONG_BITS, INT_BITS, Backend, MaxMag, WB, EB

VARIABLES call, pc, target, impl

MCExpTable ==
  (-224 :> 0) @@ (-192 :> 0) @@ (-160 :> 0) @@ (-128 :> 0) @@ (-112 :> 0) @@
  (-96 :> 0) @@ (-80 :> 0) @@ (-64 :> 0) @@ (-56 :> 0) @@ (-48 :> 0) @@
  (-40 :> 0) @@ (-32 :> 0) @@ (-28 :> 0) @@ (-24 :> 0) @@ (-20 :> 0) @@
  (-16 :> 0) @@ (-14 :> 0) @@ (-12 :> 0) @@ (-10 :> 0) @@ (-8 :> 1) @@
  (-7 :> 1) @@ (-6 :> 1) @@ (-5 :> 1) @@ (-4 :> 1) @@ (-3 :> 2) @@
  (-2 :> 2) @@ (-1 :> 3) @@ (0 :> 4) @@ (1 :> 5) @@ (2 :> 7) @@ (3 :> 8) @@
  (4 :> 10) @@ (5 :> 14) @@ (6 :> 16) @@ (7 :> 24) @@ (8 :> 28) @@
  (10 :> 48) @@ (12 :> 80) @@ (14 :> 128) @@ (16 :> 224) @@ (20 :> 256) @@
  (24 :> 256) @@ (28 :> 256) @@ (32 :> 256) @@ (40 :> 256) @@ (48 :> 256) @@
  (56 :> 256) @@ (64 :> 256) @@ (80 :> 256) @@ (96 :> 256) @@ (112 :> 256) @@
  (128 :> 256) @@ (160 :> 256) @@ (192 :> 256) @@ (224 :> 256)
MCLogTable ==
  (1 :> -6) @@ (2 :> -3) @@ (3 :> -1) @@ (4 :> 0) @@ (5 :> 1) @@ (6 :> 2) @@
  (7 :> 2) @@ (8 :> 3) @@ (10 :> 4) @@ (12 :> 4) @@ (14 :> 5) @@ (16 :> 6) @@
  (20 :> 6) @@ (24 :> 7) @@ (28 :> 8) @@ (32 :> 8) @@ (40 :> 10) @@
  (48 :> 10) @@ (56 :> 10) @@ (64 :> 12) @@ (80 :> 12) @@ (96 :> 12) @@
  (112 :> 14) @@ (128 :> 14) @@ (160 :> 14) @@ (192 :> 16) @@ (224 :> 16)
MCExpm1Table ==
  (-224 :> -4) @@ (-192 :> -4) @@ (-160 :> -4) @@ (-128 :> -4) @@
  (-112 :> -4) @@ (-96 :> -4) @@ (-80 :> -4) @@ (-64 :> -4) @@ (-56 :> -4) @@
  (-48 :> -4) @@ (-40 :> -4) @@ (-32 :> -4) @@ (-28 :> -4) @@ (-24 :> -4) @@
  (-20 :> -4) @@ (-16 :> -4) @@ (-14 :> -4) @@ (-12 :> -4) @@ (-10 :> -4) @@
  (-8 :> -3) @@ (-7 :> -3) @@ (-6 :> -3) @@ (-5 :> -3) @@ (-4 :> -3) @@
  (-3 :> -2) @@ (-2 :> -2) @@ (-1 :> -1) @@ (0 :> 0) @@ (1 :> 1) @@
  (2 :> 3) @@ (3 :> 4) @@ (4 :> 7) @@ (5 :> 10) @@ (6 :> 14) @@ (7 :> 20) @@
  (8 :> 24) @@ (10 :> 48) @@ (12 :> 80) @@ (14 :> 128) @@ (16 :> 224) @@
  (20 :> 256) @@ (24 :> 256) @@ (28 :> 256) @@ (32 :> 256) @@ (40 :> 256) @@
  (48 :> 256) @@ (56 :> 256) @@ (64 :> 256) @@ (80 :> 256) @@ (96 :> 256) @@
  (112 :> 256) @@ (128 :> 256) @@ (160 :> 256) @@ (192 :> 256) @@
  (224 :> 256)
MCLog1pTable ==
  (-3 :> -6) @@ (-2 :> -3) @@ (-1 :> -1) @@ (0 :> 0) @@ (1 :> 1) @@
  (2 :> 2) @@ (3 :> 2) @@ (4 :> 3) @@ (5 :> 3) @@ (6 :> 4) @@ (7 :> 4) @@
  (8 :> 4) @@ (10 :> 5) @@ (12 :> 6) @@ (14 :> 6) @@ (16 :> 6) @@
  (20 :> 7) @@ (24 :> 8) @@ (28 :> 8) @@ (32 :> 8) @@ (40 :> 10) @@
  (48 :> 10) @@ (56 :> 10) @@ (64 :> 12) @@ (80 :> 12) @@ (96 :> 12) @@
  (112 :> 14) @@ (128 :> 14) @@ (160 :> 14) @@ (192 :> 16) @@ (224 :> 16)

Conv == INSTANCE FloatConv
Fallbacks == INSTANCE FloatFallbacks
               WITH ExpTable <- MCExpTable, LogTable <- MCLogTable,
                    Expm1Table <- MCExpm1Table, Log1pTable <- MCLog1pTable
(* The tables cover every argument the fallbacks read them at.           *)
ASSUME Fallbacks!TablesComplete
Compare == INSTANCE FloatCompare
Libm == INSTANCE FloatLibm
Bits == INSTANCE FloatBits

(* Only the bit-inspection primitives read the target and the #if branch *)
(* of classify; the other calls run on one build of them.                 *)
Init ==
  \/ /\ Conv!Init \/ Fallbacks!Init \/ Compare!Init \/ Libm!Init
     /\ target = "little_endian" /\ impl = "manual"
  \/ Bits!Init
build == <<target, impl>>
(* The runtime dispatches a call to the primitive it names: each action  *)
(* is the called component's, under the op it serves.                     *)
IntOfFloat == call.op = "int_of_float" /\ Conv!IntOfFloat /\ UNCHANGED build
FloatOfInt == call.op = "float_of_int" /\ Conv!FloatOfInt /\ UNCHANGED build
LdexpFloat == call.op = "ldexp" /\ Conv!LdexpFloat /\ UNCHANGED build
UnaryFloat == call.op \in Conv!UnaryOps /\ Conv!UnaryFloat /\ UNCHANGED build
BinaryFloat == call.op \in Conv!BinaryOps /\ Conv!BinaryFloat /\ UNCHANGED build
ConvertBack == call.op = "float_of_int" /\ Conv!ConvertBack /\ UNCHANGED build
CallHypot == call.op = "hypot" /\ Fallbacks!CallHypot /\ UNCHANGED build
CallExpm1 == call.op = "expm1" /\ Fallbacks!CallExpm1 /\ UNCHANGED build
CallLog1p == call.op = "log1p" /\ Fallbacks!CallLog1p /\ UNCHANGED build
CallRelation == call.op \in Compare!Relations /\ Compare!CallRelation /\ UNCHANGED build
CallCompare == call.op = "compare" /\ Compare!CallCompare /\ UNCHANGED build
CallExp == call.op = "exp" /\ Libm!CallExp /\ UNCHANGED build
CallLog == call.op \in {"log", "log10"} /\ Libm!CallLog /\ UNCHANGED build
CallPower == call.op = "power" /\ Libm!CallPower /\ UNCHANGED build
CallTrig == call.op \in Libm!TrigOps /\ Libm!CallTrig /\ UNCHANGED build
CallAtan2 == call.op = "atan2" /\ Libm!CallAtan2 /\ UNCHANGED build
CallClassify == call.op = "classify" /\ Bits!CallClassify
CallCopysign == call.op = "copysign" /\ Bits!CallCopysign
(* The call has returned; the four components' Returned are this step.   *)
Returned == pc = "done" /\ UNCHANGED <<call, pc, target, impl>>

Next ==
  \/ IntOfFloat \/ FloatOfInt \/ LdexpFloat \/ UnaryFloat \/ BinaryFloat
  \/ ConvertBack \/ CallHypot \/ CallExpm1 \/ CallLog1p
  \/ CallRelation \/ CallCompare
  \/ CallExp \/ CallLog \/ CallPower \/ CallTrig \/ CallAtan2
  \/ CallClassify \/ CallCopysign \/ Returned
Spec == Init /\ [][Next]_<<call, pc, target, impl>>

-----------------------------------------------------------------------------
(* The components' properties, each about the calls of its primitives.    *)

(* Every call holds arguments and a result of its primitive's types.      *)
TypeOK ==
  /\ Conv!TypeOK /\ Compare!TypeOK /\ Libm!TypeOK
  /\ call.op \in {"classify", "copysign"} => Bits!TypeOK

(* truncate (float_of_int n) = n for |n| <= 2^PREC.                        *)
SmallIntsRoundTrip == Conv!SmallIntsRoundTrip

(* The spec: both conversions truncate, so the round trip never moves a   *)
(* value away from zero.                                                   *)
RoundTripTruncates == Conv!RoundTripTruncates

(* The spec: ldexp_float computes f * 2^i.                                 *)
LdexpScales == Conv!LdexpScales

(* hypot, expm1 and log1p return Annex F's value where it is exact.       *)
AnnexFExact == Fallbacks!AnnexFExact

(* Kahan's expm1 and log1p never give NaN and keep the sign of x.         *)
KahanKeepsSign == Fallbacks!KahanKeepsSign

(* hypot of two values at most DBL_MAX / 2 is finite.                      *)
HypotNoUndueOverflow == Fallbacks!HypotNoUndueOverflow

(* The spec: the fallbacks give NaN and infinities where C99 does.        *)
NaNAndInfinityAsC99 == Fallbacks!NaNAndInfinityAsC99

(* caml_float_compare returns the spec's three-way order.                  *)
CompareMatchesSpec == Compare!CompareMatchesSpec

(* The relational primitives agree with caml_float_compare.               *)
RelationsAgreeWithCompare == Compare!RelationsAgreeWithCompare

(* The spec: caml_float_compare is a total order.                          *)
CompareTransitive == Compare!CompareTransitive

(* classify_float gives the IEEE class of every bit pattern on every      *)
(* target and in every #if branch.                                         *)
ClassifyCorrect == Bits!ClassifyCorrect

(* copysign keeps x's magnitude and takes y's sign on every target.       *)
CopysignCorrect == Bits!CopysignCorrect
=============================================================================
