SPECIFICATION Spec
CONSTANTS
  mosque = mosque  copy = copy  annex = annex
  unnamed = unnamed  kiosk = kiosk  stall = stall  park = park
  istiqlal = istiqlal  monas = monas  none = none
  Objects <- MCObjects
  Names <- MCNames
  NoName <- none
  NameOf <- MCNameOf
  LatsOf <- MCLatsOf
  LonsOf <- MCLonsOf
  WordsOf <- MCWordsOf
  Ways <- OneWay
  Nodes <- TwoNodes
  BatchSize = 2
  MaxPosting = 3
  MaxFaults = 0
  Cancellable = FALSE
INVARIANTS
  CompleteOnSuccess
  DroppedIsCovered
