SPECIFICATION Spec
CONSTANTS
  a = a
  b = b
  wide = wide
  bad = bad
  blank = blank
  note = note
  Tags = {t1, t2}
  NoTag = NoTag
  Urls <- MCUrls
  NoUrl = NoUrl
  Garbled = Garbled
  Others = {blank, note}
  OtherSize <- MCOtherSize
  OtherText <- MCOtherText
  Spelt <- MCSpelt
  UrlSize <- MCUrlSize
  UserPages = 3
  TotalPages = 4
  Contents <- MCTwoUrls
  Lines <- MCLines
  QueueDepth = 1
  MaxLines = 3
INVARIANT
  ClosedSessionLeftAlone
SYMMETRY MCSymmetry
