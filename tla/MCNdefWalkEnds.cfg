SPECIFICATION FairSpec
CONSTANTS
  Base = 16
  Word = 65536
  TLV_NULL = 0
  TLV_NDEF = 3
  TLV_TERMINATOR = 14
  LongLength = 15
  Short <- MCShort
  HasId <- MCHasId
  WellKnown <- MCWellKnown
  TypeUri = 5
  Control = {0, 1}
  PrefixCount = 3
  PrefixLength <- MCPrefixLength
  OutSize = 12
  Memories <- MCMemories
CHECK_DEADLOCK FALSE
PROPERTY
  WalkEnds
