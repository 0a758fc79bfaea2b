CONSTANTS
  c1 = c1
  c2 = c2
  MinChildItems = 2
  MaxChildItems = 3
  Dimensions = 3
  MaxHeight = 2
  Weight <- FlatWeight
  Scale = 1
  Clients = {c1, c2}
  FenceNames = {"f", "!"}
  QueryPointIDs = {"v1", "v2"}
  Requests <- MCRequests
  ValidNames = {"f", "a", "b", "d", "e"}
  Nearby = 2
  Unknown <- MCUnknown
  MaxRequests = 5
  MaxFaults = 1
  MaxRestarts = 1
SPECIFICATION Spec
INVARIANTS TypeOK AckedPointsKept SearchTellsAll
PROPERTY ServerErrorsExplained
CHECK_DEADLOCK FALSE
