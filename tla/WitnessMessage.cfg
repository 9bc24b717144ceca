SPECIFICATION Spec
CONSTANTS
  KEY = 1
  UNIT = {0, 1, 2}
  Firsts <- AllFirsts
  Others <- MCOthers
INVARIANTS
  TypeOK
  SighashMessage
  MultisigMessage
