CONSTANTS
  MaxRangeCount = 4
  HeaderLines = {"disposition", "type"}
  MaxFiles = 2
  Size_ = 3
  Asked <- MCAsked
  Contents <- MCContents
  MaxTrailers = 1
  Limits <- MCLimits
  Items <- MCItems
  Epilogues <- MCEpilogues
SPECIFICATION FairMessagesSpec
INVARIANTS Untruncated RangesServed FormParsed
PROPERTY ReaderFinishes
CHECK_DEADLOCK FALSE
