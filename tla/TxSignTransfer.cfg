SPECIFICATION Spec
CONSTANTS
  MOD = 8
  HASH = 2
  ARG = 3
  UNIT = {0, 1, 2, 3}
  MAX_OUTPUTS = 2
  MAX_SCREEN_COUNT = 6
  INT_WIDTH = 4
  SignHash <- Own
  ChangeHashes <- MCChange
  InCells <- TransferIns
  OutCells <- TransferOuts
  MaxIns = 3
  MaxOuts = 3
  MaxToggles = 0
INVARIANTS
  TypeOK
  AssertionsHold
  FeeIsInputsMinusOutputs
  PromptNamesEveryPayment
  MultiInputNamesSource
