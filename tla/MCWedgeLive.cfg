SPECIFICATION FairSpec
CONSTANTS
  flaky = flaky
  good = good
  i1 = i1
  i2 = i2
  Tags <- MCTags
  NoTag = NoTag
  Ids = {i2}
  NoId = NoId
  Unreadable = Unreadable
  ReadError = ReadError
  Reading <- MCReadingLive
  Interfaces = {Serial, Hid}
  Hid = Hid
  NoInterface = NoInterface
  Outputs = {Plain}
  SelfTest = SelfTest
  Terminators = {None}
  NoTerminator = None
  TextLen = 1
  WaitTicks = 1
PROPERTIES
  LeavingEnds
  RequestServed
  TagDealtWith
  TestLetsGo
