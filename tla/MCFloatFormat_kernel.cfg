CONSTANTS
  MAX_DIGITS <- MCMaxDigits
  MaxIntDigits <- MCMaxIntDigits
  INT_BITS <- MCIntBits
  MAX_YOUNG_LEN <- MCMaxYoungLen
  Digits <- MCDigits
  Exps <- MCExps
  FIX_EXTRA <- MCFixExtra
SPECIFICATION Spec
INVARIANT DecimalsAsPrecision
