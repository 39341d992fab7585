-------------------------- MODULE MCFloatOfString --------------------------
(* Bounds for checking FloatOfString with TLC.                             *)
EXTENDS FloatOfString

(* digit, point, separator, embedded NUL and one byte strtod rejects *)
MCChars == {DIGIT, POINT, UNDERSCORE, NUL, "x"}

(* strings of up to 4 bytes against a 3-byte stack buffer: lengths 0-2   *)
(* use the stack, 3-4 the heap, and the boundary length 2 (= 3 - 1)       *)
(* leaves exactly room for the NUL.                                       *)
MCMaxLen == 4
MCParseBuffer == 3

(* 3-bit mlsize_t: idx past the end makes lenvs - idx wrap around. *)
MCWordBits == 3

(* negative, in-range and past-the-end values of idx and l *)
MCIndices == -1..5
=============================================================================
