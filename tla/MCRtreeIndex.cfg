CONSTANTS
  MinChildItems = 2
  MaxChildItems = 3
  Dimensions = 2
  MaxHeight = 5
  Weight <- FlatWeight
  Scale = 1
  Loads <- MCLoads
  OSMObjects <- MCObjects
  MaxOps = 5
  Features = {"even"}
  QueryPoints <- MCQueryPoints
  QueryBoxes <- MCQueryBoxes
  Radii = {8, 40}
SPECIFICATION Spec
INVARIANTS TypeOK HoldsItems BoundsTight Balanced SearchExact NearestFirst RadiusComplete
CHECK_DEADLOCK FALSE
