SPECIFICATION Spec
CONSTANTS
  BASE = 32
  WORD = 3
  HASH = 3
  MAX_PATH = 3
  blake2b <- MCblake2b
  Types <- MCTypes
  Callbacks <- MCCallbacks
  Uses <- MCUses
  Inner <- MCInner
  Txs <- MCTxs
  Wires <- MCWires
  Rejected <- MCRejected
  Lens = {1, 7, 250}
INVARIANTS
  TypeOK
  NumbersAsReceived
  ChunksCoverReceived
  CallbacksAsSent
  HashIsOfRawTransaction
  CountIsOfInputs
  HashBindsCells
PROPERTY ParserReturns
