CONSTANTS
  PREC = 3
  FRAC = 2
  EXPS = 5
  LONG_BITS = 6
  INT_BITS = 4
  Backend = "hosted"
  MaxMag = 2
  WB = 4
  EB = 2
SPECIFICATION Spec
INVARIANT LdexpScales
