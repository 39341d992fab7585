--------------------------- MODULE MCFloatFormat ---------------------------
(* caml_format_float at a scale TLC can enumerate.  MAX_DIGITS keeps the  *)
(* property the real margin is for: the longest natural %f rendering     *)
(* (sign, MaxIntDigits digits, point) plus its NUL takes no more than     *)
(* MAX_DIGITS characters besides the precision; 350 >= 309 + 3 in the     *)
(* code, 8 >= 5 + 3 here, the tightest margin for which that holds.       *)
EXTENDS FloatFormat

MCMaxDigits == 8
MCMaxIntDigits == 5
MCIntBits == 6           \* INT_MAX = 31
MCMaxYoungLen == 21      \* strings of 22 bytes and more go to the major heap
MCDigits == {"0", "2"}   \* widths and precisions 0, 2, 20, 22 (and 00, 02)
MCDigitsWide == {"2", "9"}  \* also 29, so that 29 + MAX_DIGITS passes INT_MAX
MCExps == {-5, -1, 0, 4} \* %g in e-style, 0.xxx, one digit, the largest
(* fixpt_to_str's characters besides the decimals.  The code leaves 20    *)
(* bytes beside MAX_DIGITS decimals in format_buffer and MAX_DIGITS       *)
(* beside prec - MAX_DIGITS in a heap buffer; at this scale the heap      *)
(* buffer's MAX_DIGITS is the tighter margin, and FIX_EXTRA takes all of  *)
(* it.                                                                     *)
MCFixExtra == MCMaxDigits
=============================================================================
