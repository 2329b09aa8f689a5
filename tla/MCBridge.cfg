SPECIFICATION FairSpec
CONSTANTS
  a = a
  b = b
  wide = wide
  bad = bad
  blank = blank
  note = note
  Tags = {t1, t2}
  NoTag = NoTag
  Urls <- MCUrls
  NoUrl = NoUrl
  Garbled = Garbled
  Others = {blank, note}
  OtherSize <- MCOtherSize
  OtherText <- MCOtherText
  Spelt <- MCSpelt
  UrlSize <- MCUrlSize
  UserPages = 3
  TotalPages = 4
  Contents <- MCContents
  Lines <- MCLines
  QueueDepth = 1
  MaxLines = 2
INVARIANTS
  TypeOK
  LinesAccountedFor
  PartialWriteTold
  PlainWriteKeepsUrls
  WroteIsTrue
PROPERTIES
  ImplementsLineService
  StopsWhenTold
  LinesServed
