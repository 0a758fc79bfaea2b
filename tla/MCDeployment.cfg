CONSTANTS
  MaxBuilds = 3
  MaxStarts = 3
  MetadataSize <- MCMetadataSize
  FieldSum <- MCFieldSum
  FieldDocs <- MCFieldDocs
SPECIFICATION Spec
INVARIANTS TypeOK ServesWhole StartsAfterBuild AverageStays
PROPERTY StartEnds
CHECK_DEADLOCK FALSE
