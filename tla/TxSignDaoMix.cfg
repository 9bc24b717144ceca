SPECIFICATION Spec
CONSTANTS
  MOD = 16
  HASH = 2
  ARG = 3
  UNIT = {0, 1, 2, 3}
  MAX_OUTPUTS = 3
  MAX_SCREEN_COUNT = 6
  INT_WIDTH = 4
  SignHash <- Own
  ChangeHashes <- MCChange
  InCells <- DaoIns3
  OutCells <- DaoOuts3
  MaxIns = 2
  MaxOuts = 2
  MaxToggles = 0
INVARIANTS
  DaoOperationsNotMixed
