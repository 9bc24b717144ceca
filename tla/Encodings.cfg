SPECIFICATION Spec
CONSTANTS
  MAX_INT_DIGITS = 4
  DECIMAL_DIGITS = 2
  VALUE_WIDTH = 30
  DISPLAY = 15
  BECH = 20
  CODE_HASH = 2
  HASH = 2
  ARG = 3
  SCALAR = 2
  HARDENED = 512
  UNIT = 32
  MAX_BIP32_PATH = 5
  MAGIC <- MCMagic
  Numbers <- MCNumbers
  Counts <- MCCounts
  Labels <- MCLabels
  Locks <- MCLocks
  Outputs <- MCOutputs
  Paths <- MCPaths
  Packets <- MCPackets
  Hashes <- MCHashes
  Scalars <- MCScalars
  MaxSteps = 2
INVARIANTS
  TypeOK
  ShownIsMeant
  RenderingSucceeds
  OnlyTimelockedSpills
  SignatureIsCompact
