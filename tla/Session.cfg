SPECIFICATION Spec
CONSTANTS
  Paths = {p1, bad}
  GoodPaths = {p1}
  NoPath = nopath
  Junk = junk
  Txs = {t1}
  Magic = {m1, m2}
  OtherPackets = {o1}
  Hashes = {h1}
  PACKET_MAX = 2
INVARIANTS
  TypeOK
  OwedIffPrompt
  PromptIsCurrent
  MessageShowsItsFirstPacket
PROPERTIES
  HashSignedOnlyWhenAllowed
  ApprovalSpec
  PromptIsAnswered
