SPECIFICATION SequentialSpec
CONSTANTS
  Base = 128
  Word = 268435456
  TLV_NULL = 0
  TLV_NDEF = 3
  TLV_TERMINATOR = 126
  LongLength = 127
  Short <- MCShort
  HasId <- MCHasId
  WellKnown <- MCWellKnown
  TypeUri = 85
  Control <- MCControl
  PrefixCount = 7
  PrefixLength <- MCPrefixLength
  OutSize = 512
  Memories <- MCMemories
  RecordHeader = 81
  ShortRecordMax = 126
  PageSize = 4
  UriPrefixes <- MCPrefixes
  Uris <- MCUris
  Before <- MCBefore
  ImageMax = 512
  Urls <- MCUrls
  UrlSize <- MCUrlSize
  NoUrl = NoUrl
  Garbled = Garbled
  Others <- MCOthers
  OtherSize <- MCOtherSize
  OtherText <- MCOtherText
  Spelt <- Text
  TagSize = 4
  OtherBytes <- MCOtherBytes
  zeros = zeros
  fresh = fresh
  empty = empty
  note = note
  SQUASH_BUFFER = 64
  CODE_MAX = 64
  Ids <- MCIds
  Chars <- MCChars
  Prefix <- MCPrefix
  Hosts <- MCHosts
  MaxChanges = 3
  UriChars = {9, 35, 47, 63, 115, 120}
  Starts <- MCStarts
  OutputCount = 2
  TerminatorCount = 2
  KeyDelayCount = 4
  KeyDelay <- MCKeyDelay
  Defaults <- MCDefaults
  FileOutputs = {0, 1, 2}
  FileTerminators = {0, 1, 2}
  FileFlags = {0, 1, 3}
  FileDelays <- MCFileDelays
  Unusable = Unusable
INVARIANTS
  TypeOK
  Inside
  ReadsBack
  PagesAreTheImage
  LongestPrefixWins
  BytesSayWhatPagesSay
  CleanCopyIsRead
  SlipIsRefused
  TagReadsLikeLabel
  CodeFollowsRule
  SettingsTypeOK
  ListShowsConfig
PROPERTIES
  ImplementsPreferences
  OnlyForward
  WalkEndsUnlessWrapped
CHECK_DEADLOCK FALSE
