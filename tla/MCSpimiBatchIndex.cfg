SPECIFICATION Spec
CONSTANTS
  mosque = mosque  copy = copy  annex = annex
  unnamed = unnamed  kiosk = kiosk  stall = stall  park = park
  istiqlal = istiqlal  monas = monas  none = none
  Objects <- MCObjects
  Names <- MCNames
  NoName <- none
  NameOf <- MCNameOf
  LatsOf <- MCLatsOf
  LonsOf <- MCLonsOf
  WordsOf <- MCWordsOf
  Ways <- TwoBatches
  Nodes <- Nothing
  BatchSize = 2
  MaxPosting = 9
  MaxFaults = 0
  Cancellable = TRUE
INVARIANTS
  TypeOK
  DocumentIDs
  BlockFilesExclusive
  MergeRunsAlone
  ListedIsStored
  CompleteOnSuccess
  DroppedIsCovered
PROPERTIES
  ImplementsIndexBuild
