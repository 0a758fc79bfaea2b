SPECIFICATION FairSpec
CONSTANTS
  mosque = mosque  copy = copy  annex = annex
  unnamed = unnamed  kiosk = kiosk  stall = stall  park = park
  istiqlal = istiqlal  monas = monas  none = none
  Objects <- MCObjects
  Names <- MCNames
  NoName <- none
  NameOf <- MCNameOf
  LatsOf <- MCLatsOf
  LonsOf <- MCLonsOf
  WordsOf <- MCWordsOf
  Ways <- OneBatch
  Nodes <- NoDocument
  BatchSize = 2
  MaxPosting = 2
  MaxFaults = 2
  Cancellable = FALSE
INVARIANTS
  FaultsSurface
PROPERTIES
  Terminates
