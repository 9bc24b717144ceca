SPECIFICATION Spec
CONSTANTS
  MOD = 16
  HASH = 2
  ARG = 3
  UNIT = {0, 1, 2, 3}
  MAX_OUTPUTS = 3
  MAX_SCREEN_COUNT = 6
  INT_WIDTH = 2
  SignHash <- Own
  ChangeHashes <- MCChangeAny
  InCells <- ContractIns
  OutCells <- ContractOuts
  MaxIns = 1
  MaxOuts = 2
  MaxToggles = 1
INVARIANTS
  LockArgReceived
  ContractDataGated
