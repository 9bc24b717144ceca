SPECIFICATION Spec
CONSTANTS
  KEY = 1
  UNIT = {0, 1, 2}
  Firsts <- Multisigs
  Others <- MCOthers
INVARIANTS
  SignaturesZeroed
