CONSTANTS
  Addrs <- MCAddrs
  Inputs <- MCInputs

SPECIFICATION Spec

INVARIANT TypeOK
INVARIANT ResultIntact
