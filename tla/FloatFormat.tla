---------------------------- MODULE FloatFormat ----------------------------
(***************************************************************************)
(* caml_format_float (floats.c 122-188), hosted build: one call, step by  *)
(* step.  The code scans the format for its first digit and for a '.',   *)
(* sizes a buffer from atoi of what follows plus MAX_DIGITS, chooses the  *)
(* 370-byte stack buffer or a heap buffer, sprintf's the double into it,  *)
(* copies the result into an OCaml string and frees the heap buffer.      *)
(* With HAS_BROKEN_PRINTF a non-finite double gets a literal string.      *)
(* The kernel build renders with fixpt_to_str(d, dest, n) instead, n the  *)
(* number of decimals (160); fixmath is not in the repository, so what it *)
(* writes is n decimals and FIX_EXTRA further characters (sign, integer   *)
(* digits, point, NUL), FIX_EXTRA being what the code's sizing leaves.    *)
(*                                                                         *)
(* A format is a sequence of characters ("%", a flag, width digits, '.', *)
(* precision digits, a conversion).  A double is abstracted to what       *)
(* decides the length of its rendering: its kind, its sign and its        *)
(* decimal exponent x (|d| in [10^x, 10^(x+1))), standing for a double     *)
(* whose significant digits have no trailing zeros.  sprintf is the C     *)
(* printf rule for the length of a conversion.  int is INT_BITS wide.    *)
(***************************************************************************)
EXTENDS Integers, Sequences, SequencesExt

CONSTANTS
  MAX_DIGITS,     \* 350, scaled
  MaxIntDigits,   \* integer digits of the largest double under %f (309)
  INT_BITS,       \* width of int
  MAX_YOUNG_LEN,  \* longest string caml_alloc_string makes in the minor heap
  Digits,         \* the digit characters formats are written with
  Exps,           \* the decimal exponents of the finite doubles tried
  FIX_EXTRA       \* what fixpt_to_str writes besides the decimals

FORMAT_BUFFER == MAX_DIGITS + 20   \* sizeof(format_buffer)
DEFAULT_PREC == 6                  \* printf's precision when none is given
INT_MAX == 2^(INT_BITS - 1) - 1

DIGIT_CHARS == <<"0", "1", "2", "3", "4", "5", "6", "7", "8", "9">>
IsDigit(c) == \E k \in 1..10 : DIGIT_CHARS[k] = c
DigitVal(c) == CHOOSE n \in 0..9 : DIGIT_CHARS[n + 1] = c
FLAGS == {"-", "+", " ", "#", "0"}
Convs == {"f", "e", "g"}

ASSUME /\ Digits \subseteq {DIGIT_CHARS[k] : k \in 1..10}
       /\ \A x \in Exps : x < MaxIntDigits

(* The decimal value of a run of digits, and the length of the run of    *)
(* characters satisfying P at the start of s.                             *)
Numeral(s) == FoldLeft(LAMBDA a, c : 10 * a + DigitVal(c), 0, s)
LeadRun(s, P(_)) ==
  IF \A i \in DOMAIN s : P(s[i]) THEN Len(s)
  ELSE SelectInSeq(s, LAMBDA c : ~P(c)) - 1

(* The formats tried: "%", at most one flag, a width, a precision, a     *)
(* conversion.  A width or precision above INT_MAX makes sprintf itself  *)
(* fail (EOVERFLOW); such formats are left out.                           *)
Numerals == {n \in SeqOf(Digits, 2) : Numeral(n) <= INT_MAX}
Formats ==
  {<<"%">> \o fl \o w \o pr \o <<c>> :
     fl \in {<<>>} \cup {<<f>> : f \in {"-", "+", "#", "0"}},
     w \in Numerals,
     pr \in {<<>>} \cup {<<".">> \o n : n \in Numerals},
     c \in Convs}

Doubles ==
  [kind : {"finite"}, neg : BOOLEAN, x : Exps]
  \cup [kind : {"inf", "nan"}, neg : BOOLEAN, x : {0}]

-----------------------------------------------------------------------------
(* The conversion specification as printf parses it: flags, width,      *)
(* precision and conversion character.                                    *)
Conversion(f) ==
  LET body == Tail(f)
      nf == LeadRun(body, LAMBDA c : c \in FLAGS)
      r1 == SubSeq(body, nf + 1, Len(body))
      nw == LeadRun(r1, IsDigit)
      r2 == SubSeq(r1, nw + 1, Len(r1))
      hasPrec == r2[1] = "."
      r3 == IF hasPrec THEN Tail(r2) ELSE r2
      np == LeadRun(r3, IsDigit)
  IN [flags |-> {body[i] : i \in 1..nf},
      width |-> Numeral(SubSeq(r1, 1, nw)),
      prec |-> IF hasPrec THEN Numeral(SubSeq(r3, 1, np)) ELSE DEFAULT_PREC,
      conv |-> r3[np + 1]]

RECURSIVE NumDigits(_)
NumDigits(n) == IF n < 10 THEN 1 ELSE 1 + NumDigits(n \div 10)
Larger(a, b) == IF a >= b THEN a ELSE b

(* The number of characters sprintf(dest, f, d) writes, NUL excluded.     *)
Rendered(f, d) ==
  LET cs == Conversion(f)
      sign == IF d.neg \/ "+" \in cs.flags \/ " " \in cs.flags THEN 1 ELSE 0
      Point(n) == IF n > 0 \/ "#" \in cs.flags THEN 1 + n ELSE 0
      FStyle(n) == sign + (IF d.x >= 0 THEN d.x + 1 ELSE 1) + Point(n)
      EStyle(n) ==
        sign + 1 + Point(n) + 2
        + Larger(2, NumDigits(IF d.x < 0 THEN -d.x ELSE d.x))
      gp == IF cs.prec = 0 THEN 1 ELSE cs.prec
      body ==
        CASE d.kind # "finite" -> sign + 3
          [] cs.conv = "f" -> FStyle(cs.prec)
          [] cs.conv = "e" -> EStyle(cs.prec)
          [] d.x < -4 \/ d.x >= gp -> EStyle(gp - 1)
          [] OTHER -> FStyle(gp - 1 - d.x)
  IN Larger(cs.width, body)

-----------------------------------------------------------------------------
VARIABLES
  fmt, d,     \* the arguments
  BROKEN_PRINTF,  \* HAS_BROKEN_PRINTF: fixed per build, both builds checked
  KERNEL,     \* __FreeBSD__ && _KERNEL: fixed per build, both builds checked
  digits,     \* the decimals the kernel build asks fixpt_to_str for
  pc,         \* the statement the call has reached
  p,          \* index of p in fmt after the first scan loop
  prec,       \* the int prec
  buf,        \* "stack" (format_buffer) or "heap" (caml_stat_alloc)
  cap,        \* size of the buffer dest points to
  written,    \* bytes sprintf stored through dest, NUL included
  frees,      \* caml_stat_free calls on dest
  outcome     \* what the call returned (the string's length) or raised

vars == <<fmt, d, BROKEN_PRINTF, KERNEL, digits, pc, p, prec, buf, cap, written, frees,
          outcome>>

Ok(n) == [kind |-> "ok", len |-> n]
OutOfMemory == [kind |-> "out_of_memory"]
None == [kind |-> "none"]

(* Signed int arithmetic wraps at INT_BITS on the targets this builds for.*)
IntWrap(n) == ((n + 2^(INT_BITS - 1)) % 2^INT_BITS) - 2^(INT_BITS - 1)

(* atoi on the characters of f from index k: its leading digits.          *)
Atoi(f, k) ==
  LET s == SubSeq(f, k, Len(f)) IN Numeral(SubSeq(s, 1, LeadRun(s, IsDigit)))

(* caml_stat_free(dest) when dest is not format_buffer.                    *)
Release == frees' = IF buf = "heap" THEN frees + 1 ELSE frees

(* Plausible bugs, used as mutants.                                        *)
PrecInitMissing == 0
CandidateNoMargin(f, k) == IntWrap(Atoi(f, k))

(* fixpt_to_str asked for prec decimals, the margin not taken off.       *)
FixptDigitsNoMargin(n) == n

(* prec = MAX_DIGITS before the scans.                                     *)
PrecInit == MAX_DIGITS

(* i = atoi(p) + MAX_DIGITS, in int.                                       *)
Candidate(f, k) == IntWrap(Atoi(f, k) + MAX_DIGITS)

(* prec < sizeof(format_buffer): prec converts to size_t, so a negative   *)
(* prec would not fit.                                                     *)
FitsFormatBuffer(n) == n >= 0 /\ n < FORMAT_BUFFER

(* (prec > MAX_DIGITS) ? prec - MAX_DIGITS : MAX_DIGITS                    *)
FixptDigits(n) == IF n > MAX_DIGITS THEN n - MAX_DIGITS ELSE MAX_DIGITS

-----------------------------------------------------------------------------
Init ==
  /\ fmt \in Formats /\ d \in Doubles /\ BROKEN_PRINTF \in BOOLEAN
  /\ KERNEL \in BOOLEAN /\ (KERNEL => d.kind = "finite")   \* fixed point
  /\ digits = 0 /\ pc = "start" /\ p = 0 /\ prec = 0
  /\ buf = "none" /\ cap = 0 /\ written = 0 /\ frees = 0 /\ outcome = None

(* HAS_BROKEN_PRINTF and !isfinite(d): caml_copy_string("nan"), "inf" or   *)
(* "-inf"; a short string is a minor-heap allocation, which does not raise.*)
LiteralNonFinite ==
  /\ pc = "start" /\ BROKEN_PRINTF /\ d.kind # "finite"
  /\ outcome' = Ok(IF d.kind = "inf" /\ d.neg THEN 4 ELSE 3)
  /\ pc' = "done"
  /\ UNCHANGED <<fmt, d, BROKEN_PRINTF, KERNEL, digits, p, prec, buf, cap, written, frees>>

(* prec = MAX_DIGITS; the first loop: at the first digit, i = atoi(p) +   *)
(* MAX_DIGITS; if (i > prec) prec = i; break.                              *)
ScanWidth ==
  LET k == SelectInSeq(fmt, IsDigit)
  IN /\ pc = "start" /\ (~BROKEN_PRINTF \/ d.kind = "finite")
     /\ p' = IF k = 0 THEN Len(fmt) + 1 ELSE k
     /\ prec' = IF k # 0 /\ Candidate(fmt, k) > PrecInit
                THEN Candidate(fmt, k) ELSE PrecInit
     /\ pc' = "scan_point"
     /\ UNCHANGED <<fmt, d, BROKEN_PRINTF, KERNEL, digits, buf, cap, written, frees, outcome>>

(* The second loop, from p: at the first '.', i = atoi(p+1) + MAX_DIGITS; *)
(* if (i > prec) prec = i; break.                                          *)
ScanPrecision ==
  LET rest == SubSeq(fmt, p, Len(fmt))
      j == SelectInSeq(rest, LAMBDA c : c = ".")
      k == p + j
  IN /\ pc = "scan_point"
     /\ prec' = IF j # 0 /\ Candidate(fmt, k) > prec
                THEN Candidate(fmt, k) ELSE prec
     /\ pc' = "buffer"
     /\ UNCHANGED <<fmt, d, BROKEN_PRINTF, KERNEL, digits, p, buf, cap, written, frees, outcome>>

(* dest = format_buffer, or dest = caml_stat_alloc(prec).                  *)
ChooseBuffer ==
  /\ pc = "buffer"
  /\ IF FitsFormatBuffer(prec)
     THEN buf' = "stack" /\ cap' = FORMAT_BUFFER
     ELSE buf' = "heap" /\ cap' = prec
  /\ pc' = "print"
  /\ UNCHANGED <<fmt, d, BROKEN_PRINTF, KERNEL, digits, p, prec, written, frees, outcome>>

(* caml_stat_alloc(prec) raises Out_of_memory; nothing is held yet.        *)
BufferAllocFails ==
  /\ pc = "buffer" /\ ~FitsFormatBuffer(prec)
  /\ outcome' = OutOfMemory /\ pc' = "done"
  /\ UNCHANGED <<fmt, d, BROKEN_PRINTF, KERNEL, digits, p, prec, buf, cap, written, frees>>

(* sprintf(dest, String_val(fmt), d): the rendering and its NUL.           *)
Sprintf ==
  /\ pc = "print" /\ ~KERNEL
  /\ written' = Rendered(fmt, d) + 1
  /\ pc' = "copy"
  /\ UNCHANGED <<fmt, d, BROKEN_PRINTF, KERNEL, digits, p, prec, buf, cap, frees, outcome>>

(* fixpt_to_str(d, dest, (prec > MAX_DIGITS) ? prec - MAX_DIGITS :       *)
(* MAX_DIGITS), in the kernel build.                                       *)
FixptToStr ==
  /\ pc = "print" /\ KERNEL
  /\ digits' = FixptDigits(prec)
  /\ written' = digits' + FIX_EXTRA
  /\ pc' = "copy"
  /\ UNCHANGED <<fmt, d, BROKEN_PRINTF, KERNEL, p, prec, buf, cap, frees, outcome>>

(* res = caml_copy_string(dest); if (dest != format_buffer)                *)
(* caml_stat_free(dest); return res.                                       *)
CopyAndFree ==
  /\ pc = "copy"
  /\ outcome' = Ok(written - 1)
  /\ Release
  /\ pc' = "done"
  /\ UNCHANGED <<fmt, d, BROKEN_PRINTF, KERNEL, digits, p, prec, buf, cap, written>>

(* caml_copy_string of a string too long for the minor heap allocates in  *)
(* the major heap, which raises Out_of_memory when it cannot grow; the     *)
(* exception leaves before the free.                                      *)
CopyRaises ==
  /\ pc = "copy" /\ written - 1 > MAX_YOUNG_LEN
  /\ outcome' = OutOfMemory /\ pc' = "done"
  /\ UNCHANGED <<fmt, d, BROKEN_PRINTF, KERNEL, digits, p, prec, buf, cap, written, frees>>

(* The call has returned or raised.                                        *)
Returned == pc = "done" /\ UNCHANGED vars

Next ==
  \/ LiteralNonFinite \/ ScanWidth \/ ScanPrecision \/ ChooseBuffer
  \/ BufferAllocFails \/ Sprintf \/ FixptToStr \/ CopyAndFree \/ CopyRaises \/ Returned

Spec == Init /\ [][Next]_vars

-----------------------------------------------------------------------------
TypeOK ==
  /\ fmt \in Formats /\ d \in Doubles /\ BROKEN_PRINTF \in BOOLEAN
  /\ KERNEL \in BOOLEAN /\ digits \in Nat
  /\ pc \in {"start", "scan_point", "buffer", "print", "copy", "done"}
  /\ pc \notin {"start", "done"} => prec \in MAX_DIGITS..INT_MAX
  /\ buf \in {"none", "stack", "heap"} /\ cap \in Nat /\ written \in Nat
  /\ frees \in Nat
  /\ \/ outcome \in {None, OutOfMemory}
     \/ outcome.kind = "ok" /\ outcome.len \in Nat

(* Whatever the format and the double, sprintf's output and its NUL fit   *)
(* in the buffer chosen from the scanned width and precision: the        *)
(* MAX_DIGITS margin covers the longest natural rendering.                *)
OutputFits == written <= cap

(* The heap buffer is freed exactly once whichever way the call leaves,   *)
(* as the spec requires of scratch buffers on every exit path.            *)
BufferReleased ==
  pc = "done" /\ buf # "none" => frees = IF buf = "heap" THEN 1 ELSE 0

(* The spec: format_float renders the double as its printf-style format   *)
(* says (format_float "%.2f" 3.14159 = "3.14"), and a format's precision, *)
(* 6 when it gives none, is the number of decimals.  In the kernel build  *)
(* the decimals fixpt_to_str is asked for are that precision.             *)
DecimalsAsPrecision ==
  KERNEL /\ written > 0 => digits = Conversion(fmt).prec
=============================================================================
