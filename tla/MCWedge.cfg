SPECIFICATION Spec
CONSTANTS
  flaky = flaky
  good = good
  i1 = i1
  i2 = i2
  Tags <- MCTags
  NoTag = NoTag
  Ids = {i1, i2}
  NoId = NoId
  Unreadable = Unreadable
  ReadError = ReadError
  Reading <- MCReading
  Interfaces = {Serial, Hid}
  Hid = Hid
  NoInterface = NoInterface
  Outputs = {Plain, TagUrl}
  SelfTest = SelfTest
  Terminators = {None, Enter}
  NoTerminator = None
  TextLen = 2
  WaitTicks = 1
INVARIANTS
  TypeOK
  UsbRestored
  TypesWhatIsShown
  OutcomeHonest
  RequestNeedsTag
PROPERTIES
  ConfigSettled
  SittingTagHandledOnce
  RefusalAlertedOnce
  ImplementsTypist
