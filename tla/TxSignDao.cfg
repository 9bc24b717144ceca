SPECIFICATION Spec
CONSTANTS
  MOD = 8
  HASH = 2
  ARG = 3
  UNIT = {0, 1, 2, 3}
  MAX_OUTPUTS = 3
  MAX_SCREEN_COUNT = 6
  INT_WIDTH = 2
  SignHash <- Own
  ChangeHashes <- MCChange
  InCells <- DaoIns3
  OutCells <- DaoOuts3
  MaxIns = 2
  MaxOuts = 3
  MaxToggles = 0
INVARIANTS
  AssertionsHold
  FeeIsInputsMinusOutputs
  DaoPromptIsAboutTheCells
