------------------------------ MODULE FloatBits ------------------------------
(***************************************************************************)
(* IEEE bit inspection in floats.c: the union double_as_two_int32 (613-   *)
(* 620), the copysign fallback caml_copysign (622-636) and               *)
(* caml_classify_float (717-762) in its fpclassify and manual variants.    *)
(*                                                                         *)
(* The double layout is scaled down: a double is two words of WB bits,   *)
(* the high word holding the sign bit, EB exponent bits and MH high       *)
(* mantissa bits (1, 11 and 20 of 32 in IEEE 754).  The masks of the code *)
(* are the same fields at this width.  A target fixes the order in which  *)
(* the two words of a double lie in memory; the union reads them in the   *)
(* order its #if chooses.                                                  *)
(***************************************************************************)
EXTENDS Integers, Bitwise

CONSTANTS
  WB,  \* bits per word (32)
  EB   \* exponent bits (11)

MH == WB - 1 - EB   \* mantissa bits in the high word (20)
ASSUME WB \in Nat /\ EB >= 2 /\ MH >= 1

Words == 0..(2^WB - 1)
Doubles == [hi : Words, lo : Words]   \* a double by its two words

Targets == {"little_endian", "big_endian", "arm_oabi", "arm_eabi"}
(* Where the hardware puts the two words of a double: high word first on  *)
(* big-endian machines and on old-ABI ARM (FPA), low word first otherwise.*)
Memory(t, d) ==
  IF t \in {"big_endian", "arm_oabi"} THEN <<d.hi, d.lo>> ELSE <<d.lo, d.hi>>
FromMemory(t, m) ==
  IF t \in {"big_endian", "arm_oabi"} THEN [hi |-> m[1], lo |-> m[2]]
  ELSE [hi |-> m[2], lo |-> m[1]]

(* A mutant: the enum numbered from 1, past OCaml's last constructor.     *)
FPNanPastEnd == 5

(* OCaml's fpclass, in the order of the code's enum (Val_int 0..4).       *)
FP_normal == 0
FP_subnormal == 1
FP_zero == 2
FP_infinite == 3
FP_nan == 4

(* The masks 0xFFFFF, 0x7FF00000, 0x7FFFFFFF and 0x80000000.              *)
MANT_HI_MASK == 2^MH - 1
EXP_MASK == (2^EB - 1) * 2^MH
ABS_MASK == 2^(WB - 1) - 1
SIGN_MASK == 2^(WB - 1)

VARIABLES
  target,  \* the machine the file was compiled for
  impl,    \* "fpclassify", "kernel" or "manual": the #if branch of classify
  call,    \* [op, x, y, res]: the primitive called and its result
  pc       \* "call" until the primitive has returned, then "done"

vars == <<target, impl, call, pc>>

-----------------------------------------------------------------------------
(* The IEEE fields of a double, and the classification the spec gives.     *)
ExpField(d) == (d.hi \div 2^MH) % 2^EB
Mantissa(d) == (d.hi % 2^MH) * 2^WB + d.lo
SpecClass(d) ==
  CASE ExpField(d) = 0 /\ Mantissa(d) = 0 -> FP_zero
    [] ExpField(d) = 0 -> FP_subnormal
    [] ExpField(d) = 2^EB - 1 /\ Mantissa(d) = 0 -> FP_infinite
    [] ExpField(d) = 2^EB - 1 -> FP_nan
    [] OTHER -> FP_normal
(* fpclassify from libm: correct by assumption; its FP_* names.            *)
FpClassify(d) ==
  CASE SpecClass(d) = FP_nan -> "FP_NAN"
    [] SpecClass(d) = FP_infinite -> "FP_INFINITE"
    [] SpecClass(d) = FP_zero -> "FP_ZERO"
    [] SpecClass(d) = FP_subnormal -> "FP_SUBNORMAL"
    [] OTHER -> "FP_NORMAL"

-----------------------------------------------------------------------------
(* Plausible bugs, used as mutants.                                        *)
(* The old-ABI ARM clause of the #if left out.                             *)
HighWordFirstNoArm(t) == t = "big_endian"
(* The exponent mask taken with the sign bit: 0xFFF00000.                  *)
ClassifyManualSignedMask(h0, l0) ==
  LET l == l0 | (h0 & MANT_HI_MASK)
      h == h0 & (EXP_MASK + SIGN_MASK)
  IN CASE (h | l) = 0 -> FP_zero
       [] h = 0 -> FP_subnormal
       [] h = EXP_MASK /\ l = 0 -> FP_infinite
       [] h = EXP_MASK -> FP_nan
       [] OTHER -> FP_normal

-----------------------------------------------------------------------------
(* union double_as_two_int32: struct { h; l; } when ARCH_BIG_ENDIAN or    *)
(* __arm__ without __ARM_EABI__, struct { l; h; } otherwise.               *)
HighWordFirst(t) == t = "big_endian" \/ t = "arm_oabi"
UnionH(t, m) == IF HighWordFirst(t) THEN m[1] ELSE m[2]
UnionL(t, m) == IF HighWordFirst(t) THEN m[2] ELSE m[1]
(* A store to u.i.h of a union holding memory m.                           *)
SetUnionH(t, m, v) == IF HighWordFirst(t) THEN <<v, m[2]>> ELSE <<m[1], v>>

(* The #else branch of caml_classify_float, on h = u.i.h and l = u.i.l.    *)
ClassifyManual(h0, l0) ==
  LET l == l0 | (h0 & MANT_HI_MASK)
      h == h0 & EXP_MASK
  IN CASE (h | l) = 0 -> FP_zero
       [] h = 0 -> FP_subnormal
       [] h = EXP_MASK /\ l = 0 -> FP_infinite
       [] h = EXP_MASK -> FP_nan
       [] OTHER -> FP_normal

(* The kernel branch: a fixmath __double (the two words read as one fixed-*)
(* point number) is FP_zero when it is 0 and FP_normal otherwise.          *)
ClassifyKernel(d) == IF d.hi = 0 /\ d.lo = 0 THEN FP_zero ELSE FP_normal

(* The fpclassify branch: a switch from the C names to OCaml's enum.       *)
ClassifyFp(c) ==
  CASE c = "FP_NAN" -> FP_nan
    [] c = "FP_INFINITE" -> FP_infinite
    [] c = "FP_ZERO" -> FP_zero
    [] c = "FP_SUBNORMAL" -> FP_subnormal
    [] OTHER -> FP_normal

(* caml_copysign without HAS_C99_FLOAT_OPS: clear the sign bit of x's     *)
(* high word, or in the sign bit of y's, and read the double back.        *)
Copysign(t, x, y) ==
  LET mx == Memory(t, x)
      my == Memory(t, y)
      h == (UnionH(t, mx) & ABS_MASK) | (UnionH(t, my) & SIGN_MASK)
  IN FromMemory(t, SetUnionH(t, mx, h))

Zero == [hi |-> 0, lo |-> 0]

Init ==
  /\ target \in Targets
  /\ impl \in {"fpclassify", "kernel", "manual"}
  /\ pc = "call"
  /\ \/ \E x \in Doubles :
          call = [op |-> "classify", x |-> x, y |-> Zero, res |-> FP_normal]
     \/ \E x, y \in Doubles :
          call = [op |-> "copysign", x |-> x, y |-> y, res |-> Zero]

(* caml_classify_float(vd): Val_int of the class of Double_val(vd).        *)
CallClassify ==
  /\ pc = "call" /\ call.op = "classify"
  /\ call' = [call EXCEPT !.res =
       CASE impl = "fpclassify" -> ClassifyFp(FpClassify(call.x))
         [] impl = "kernel" -> ClassifyKernel(call.x)
         [] OTHER -> LET m == Memory(target, call.x)
                     IN ClassifyManual(UnionH(target, m), UnionL(target, m))]
  /\ pc' = "done" /\ UNCHANGED <<target, impl>>

(* caml_copysign_float(f, g): caml_copy_double(caml_copysign(f, g)).       *)
CallCopysign ==
  /\ pc = "call" /\ call.op = "copysign"
  /\ call' = [call EXCEPT !.res = Copysign(target, call.x, call.y)]
  /\ pc' = "done" /\ UNCHANGED <<target, impl>>

(* The primitive has returned.                                             *)
Returned == pc = "done" /\ UNCHANGED vars

Next == CallClassify \/ CallCopysign \/ Returned

Spec == Init /\ [][Next]_vars

-----------------------------------------------------------------------------
TypeOK ==
  /\ target \in Targets /\ impl \in {"fpclassify", "kernel", "manual"}
  /\ call.op \in {"classify", "copysign"}
  /\ call.x \in Doubles /\ call.y \in Doubles
  /\ call.res \in IF call.op = "classify" THEN 0..4 ELSE Doubles
  /\ pc \in {"call", "done"}

(* classify_float returns the spec's class of every bit pattern on every   *)
(* target: the union reads the true high word, the masks isolate the      *)
(* exponent, and the high mantissa bits count for zero versus subnormal   *)
(* and for infinite versus NaN.  A fixed-point kernel value is only ever  *)
(* zero or normal.                                                         *)
ClassifyCorrect ==
  call.op = "classify" /\ pc = "done" =>
    call.res = IF impl = "kernel"
               THEN IF call.x = Zero THEN FP_zero ELSE FP_normal
               ELSE SpecClass(call.x)

(* copysign(x, y) keeps x's exponent and mantissa, both words of them,    *)
(* and takes y's sign, on every target.                                   *)
CopysignCorrect ==
  call.op = "copysign" /\ pc = "done" =>
    /\ call.res.lo = call.x.lo
    /\ call.res.hi % SIGN_MASK = call.x.hi % SIGN_MASK
    /\ call.res.hi \div SIGN_MASK = call.y.hi \div SIGN_MASK
=============================================================================
