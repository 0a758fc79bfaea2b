SPECIFICATION Spec
CONSTANTS
  jalan = jalan  raya = raya  bogor = bogor
  Words <- MCWords
  Batches <- MCBatches
  MaxPosting = 3
INVARIANTS
  TypeOK
  BlocksSorted
  EachTermOnce
  NothingInvented
  InvertedWithoutLoss
