----------------------------- MODULE BoundingBox -----------------------------
(***************************************************************************)
(* pkg/geo/geometry.go: the latitude/longitude bounding boxes with which   *)
(* the indexer recognises an OSM object that it has already indexed.       *)
(*                                                                         *)
(* Coordinates are integers: the code only compares them.  A box is the    *)
(* pair of corners the Go struct holds, each a <<latitude, longitude>>     *)
(* pair.  A position list is given as the code gives it, as two sequences  *)
(* of the same length.                                                     *)
(***************************************************************************)
EXTENDS Integers, Sequences, FiniteSetsExt

\* NewBoundingBox: the smallest box around the positions.
NewBoundingBox(lats, lons) ==
  LET values(s) == {s[i] : i \in DOMAIN s}
  IN  [min |-> <<Min(values(lats)), Min(values(lons))>>,
       max |-> <<Max(values(lats)), Max(values(lons))>>]

\* Contains: the position lies in the box, its border included.
BoxContains(bb, lat, lon) ==
  /\ bb.min[1] <= lat /\ lat <= bb.max[1]
  /\ bb.min[2] <= lon /\ lon <= bb.max[2]

\* PointsContains: every position <<lats[i], lons[i]>> lies in the box.
PointsContains(bb, lats, lons) ==
  \A i \in DOMAIN lats : BoxContains(bb, lats[i], lons[i])
==============================================================================
