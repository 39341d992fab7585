--------------------------- MODULE FloatOfString ---------------------------
(***************************************************************************)
(* caml_float_of_string and caml_float_of_substring (floats.c 190-259).    *)
(*                                                                         *)
(* One call of either primitive, step by step: the length computation,    *)
(* the choice between the 64-byte stack buffer and a heap buffer, the     *)
(* loop that copies the input while deleting '_', the terminating NUL,    *)
(* the emptiness check, strtod and its end-pointer check, and the release *)
(* of the heap buffer on the success and on the failure path.            *)
(*                                                                         *)
(* Bytes are an abstract alphabet: DIGIT stands for '0'..'9', POINT for   *)
(* '.', UNDERSCORE for '_', NUL for a '\0' byte inside the OCaml string,  *)
(* any other member of Chars for a byte strtod never accepts.  A double   *)
(* is abstracted to the decimal text strtod converted.                   *)
(***************************************************************************)
EXTENDS Integers, Sequences, SequencesExt

CONSTANTS
  Chars,         \* the bytes an input string is made of
  MaxLen,        \* longest input string
  PARSE_BUFFER,  \* sizeof(parse_buffer), 64 in the code, scaled down
  WORD_BITS,     \* width of mlsize_t, scaled down
  Indices        \* the values tried for the idx and l arguments

DIGIT == "1"
POINT == "."
UNDERSCORE == "_"
NUL == "nul"

ASSUME /\ {DIGIT, POINT, UNDERSCORE, NUL} \subseteq Chars
       /\ PARSE_BUFFER \in Nat \ {0}
       /\ MaxLen >= PARSE_BUFFER            \* both buffers get used
       /\ 2^WORD_BITS > MaxLen + 1
       /\ Indices \subseteq Int

VARIABLES
  entry,    \* "string" (caml_float_of_string) or "substring"
  vs, fidx, flen,  \* the arguments
  pc,       \* the point the call has reached
  len,      \* remaining iterations of while (len--)
  src,      \* offset of src from String_val(vs)
  buf,      \* "stack" (parse_buffer) or "heap" (caml_stat_alloc)
  cap,      \* size of the buffer buf points to
  written,  \* the bytes stored through dst, in order
  frees,    \* caml_stat_free calls made on buf
  oobRead,  \* a byte outside vs has been read
  outcome   \* what the call returned or raised

vars == <<entry, vs, fidx, flen, pc, len, src, buf, cap, written, frees,
          oobRead, outcome>>

Strings == SeqOf(Chars, MaxLen)
Ok(d) == [kind |-> "ok", d |-> d]
Failure == [kind |-> "failure"]            \* caml_failwith("float_of_string")
OutOfMemory == [kind |-> "out_of_memory"]  \* raised by caml_stat_alloc
None == [kind |-> "none"]

-----------------------------------------------------------------------------
(* C arithmetic on mlsize_t: an intnat compared with or subtracted from an *)
(* unsigned value is converted to unsigned, modulo 2^WORD_BITS.           *)
Unsigned(x) == x % (2^WORD_BITS)
USub(a, b) == Unsigned(a - b)

(* strtod on the C string in s (up to its first NUL): the offset of the   *)
(* end pointer, which is 0 when no prefix is a decimal literal.  A         *)
(* literal is digits with at most one point and at least one digit.       *)
IsDecimal(p) ==
  /\ \E i \in DOMAIN p : p[i] = DIGIT
  /\ \A i \in DOMAIN p : p[i] \in {DIGIT, POINT}
  /\ \A i, j \in DOMAIN p : p[i] = POINT /\ p[j] = POINT => i = j
Strtod(s) ==
  LET cstr == SubSeq(s, 1, SelectInSeq(s, LAMBDA c : c = NUL) - 1)
      ends == {k \in 0..Len(cstr) : IsDecimal(SubSeq(cstr, 1, k))}
  IN IF ends = {} THEN 0 ELSE Max(ends)

(* caml_stat_free(buf) when buf is not parse_buffer.                       *)
Release == frees' = IF buf = "heap" THEN frees + 1 ELSE frees

-----------------------------------------------------------------------------
(* Plausible bugs of the code, used as mutants.                            *)
SubstringLenNoUpperCheck(lenvs, i, l) ==
  IF i >= 0 /\ l > 0 /\ Unsigned(l) <= USub(lenvs, i) THEN l ELSE 0
FitsStackInclusive(n) == n <= PARSE_BUFFER
EndAtNul(s, e) == s[e + 1] = NUL
NonEmptyUnchecked(s) == TRUE

(* The error path without its free before caml_failwith.                  *)
RaiseFailureNoFree ==
  /\ pc = "error"
  /\ outcome' = Failure /\ pc' = "done"
  /\ UNCHANGED <<entry, vs, fidx, flen, len, src, buf, cap, written, frees,
                 oobRead>>

-----------------------------------------------------------------------------
(* The len computed by caml_float_of_substring: the slice if it lies in   *)
(* vs, else 0.  fidx < lenvs and flen <= lenvs - fidx are mixed           *)
(* signed/unsigned comparisons.                                            *)
SubstringLen(lenvs, i, l) ==
  IF i >= 0 /\ Unsigned(i) < lenvs /\ l > 0 /\ Unsigned(l) <= USub(lenvs, i)
  THEN l ELSE 0

(* len < sizeof(parse_buffer): the copy and its NUL fit on the stack.      *)
FitsStack(n) == n < PARSE_BUFFER

(* if (end != dst) goto error: strtod consumed the whole cleaned buffer;   *)
(* s is the buffer with its terminating NUL, dst is at Len(s) - 1.         *)
EndAtDst(s, e) == e = Len(s) - 1

(* if (dst == buf) goto error: at least one byte was kept.                 *)
NonEmpty(s) == Len(s) > 1


-----------------------------------------------------------------------------
Init ==
  /\ \/ /\ entry = "string" /\ vs \in Strings /\ fidx = 0 /\ flen = 0
     \/ /\ entry = "substring" /\ vs \in Strings
        /\ fidx \in Indices /\ flen \in Indices
  /\ pc = "enter"
  /\ len = 0 /\ src = 0 /\ buf = "none" /\ cap = 0
  /\ written = <<>> /\ frees = 0 /\ oobRead = FALSE /\ outcome = None

(* len = ...; buf = len < sizeof(parse_buffer) ? parse_buffer :           *)
(* caml_stat_alloc(len + 1); src = String_val(vs) + fidx; dst = buf.       *)
Enter ==
  LET n == IF entry = "string" THEN Len(vs)
           ELSE SubstringLen(Len(vs), fidx, flen)
  IN /\ pc = "enter"
     /\ len' = n
     /\ src' = IF entry = "string" THEN 0 ELSE fidx
     /\ IF FitsStack(n)
        THEN buf' = "stack" /\ cap' = PARSE_BUFFER
        ELSE buf' = "heap" /\ cap' = n + 1
     /\ pc' = "copy"
     /\ UNCHANGED <<entry, vs, fidx, flen, written, frees, oobRead, outcome>>

(* caml_stat_alloc fails: Out_of_memory is raised before anything else.    *)
EnterAllocFails ==
  /\ pc = "enter"
  /\ ~FitsStack(IF entry = "string" THEN Len(vs)
                ELSE SubstringLen(Len(vs), fidx, flen))
  /\ pc' = "done" /\ outcome' = OutOfMemory
  /\ UNCHANGED <<entry, vs, fidx, flen, len, src, buf, cap, written, frees,
                 oobRead>>

(* One iteration of while (len--) { c = *src++; if (c != '_') *dst++ = c; }*)
(* A read outside vs is undefined: any byte may come back.                 *)
CopyChar ==
  /\ pc = "copy" /\ len > 0
  /\ \E c \in Chars :
       /\ IF src \in 0..Len(vs) - 1
          THEN c = vs[src + 1] /\ UNCHANGED oobRead
          ELSE oobRead' = TRUE
       /\ written' = IF c # UNDERSCORE THEN Append(written, c) ELSE written
  /\ len' = len - 1 /\ src' = src + 1
  /\ UNCHANGED <<entry, vs, fidx, flen, pc, buf, cap, frees, outcome>>

(* *dst = 0; if (dst == buf) goto error; d = strtod(buf, &end);            *)
(* if (end != dst) goto error.                                             *)
Terminate ==
  LET s == Append(written, NUL)
  IN /\ pc = "copy" /\ len = 0
     /\ written' = s
     /\ pc' = IF NonEmpty(s) /\ EndAtDst(s, Strtod(s)) THEN "success"
              ELSE "error"
     /\ UNCHANGED <<entry, vs, fidx, flen, len, src, buf, cap, frees,
                    oobRead, outcome>>

(* if (buf != parse_buffer) caml_stat_free(buf); return caml_copy_double(d);*)
(* The result is a minor-heap allocation, which does not raise.            *)
ReturnDouble ==
  /\ pc = "success"
  /\ Release
  /\ outcome' = Ok(SubSeq(written, 1, Strtod(written)))
  /\ pc' = "done"
  /\ UNCHANGED <<entry, vs, fidx, flen, len, src, buf, cap, written, oobRead>>

(* error: if (buf != parse_buffer) caml_stat_free(buf);                    *)
(* caml_failwith("float_of_string").                                       *)
RaiseFailure ==
  /\ pc = "error"
  /\ Release
  /\ outcome' = Failure /\ pc' = "done"
  /\ UNCHANGED <<entry, vs, fidx, flen, len, src, buf, cap, written, oobRead>>

(* The call has returned; the caller keeps the result.                     *)
Returned == pc = "done" /\ UNCHANGED vars

Next ==
  \/ Enter \/ EnterAllocFails \/ CopyChar \/ Terminate
  \/ ReturnDouble \/ RaiseFailure \/ Returned

Spec == Init /\ [][Next]_vars

-----------------------------------------------------------------------------
TypeOK ==
  /\ entry \in {"string", "substring"}
  /\ vs \in Strings /\ fidx \in Int /\ flen \in Int
  /\ pc \in {"enter", "copy", "success", "error", "done"}
  /\ len \in Nat
  /\ buf \in {"none", "stack", "heap"}
  /\ cap \in Nat
  /\ written \in Seq(Chars)
  /\ frees \in Nat /\ oobRead \in BOOLEAN
  /\ outcome \in {None, Failure, OutOfMemory}
                 \cup {Ok(d) : d \in {p \in SeqOf({DIGIT, POINT}, MaxLen) :
                                      IsDecimal(p)}}

(* The bytes the primitive is asked to parse, as the spec states it: the  *)
(* whole string, or the slice [idx, idx+l) of it when that slice lies in  *)
(* vs and is not empty, and nothing otherwise.                             *)
Slice ==
  IF entry = "string" THEN vs
  ELSE IF 0 <= fidx /\ fidx < Len(vs) /\ flen > 0 /\ fidx + flen <= Len(vs)
       THEN SubSeq(vs, fidx + 1, fidx + flen) ELSE <<>>

(* The input with every digit-group separator deleted.                     *)
Cleaned == SelectSeq(Slice, LAMBDA c : c # UNDERSCORE)

(* Every byte the copy loop reads lies inside the OCaml string: the bound *)
(* check of float_of_substring holds despite its unsigned arithmetic.      *)
ReadsInBounds == ~oobRead

(* Every store through dst, the terminating NUL included, falls inside    *)
(* the buffer that was chosen for it (stack buffer or len + 1 heap bytes). *)
WritesInBounds == Len(written) <= cap

(* The heap buffer is released exactly once, whichever way the call       *)
(* leaves (returned double, or caml_failwith, which does not come back),  *)
(* and the stack buffer never is.                                          *)
BufferReleased ==
  /\ frees <= 1
  /\ pc = "done" /\ buf # "none" => frees = IF buf = "heap" THEN 1 ELSE 0

(* A completed parse agrees with the spec: it returns the value of the    *)
(* cleaned text when that text is a literal strtod consumes entirely (an  *)
(* embedded NUL byte never is), and raises Failure otherwise.              *)
ParseCorrect ==
  pc = "done" /\ outcome # OutOfMemory =>
    outcome = IF IsDecimal(Cleaned) THEN Ok(Cleaned) ELSE Failure

=============================================================================
