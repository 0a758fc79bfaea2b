----------------------------- MODULE MCGeofence -----------------------------
(* Instances of Geofence. *)
EXTENDS Geofence

CONSTANTS c1, c2

At(lat, lon) == [lat |-> lat, lon |-> lon]
Circle(key, lat, lon, radius) == [key |-> key, lat |-> lat, lon |-> lon, radius |-> radius]

MCUnknown == -99
FlatWeight == [s \in -250..50 |-> 1]

Add == [op |-> "addGeofence", fence |-> "f"]
Del == [op |-> "deleteGeofence", fence |-> "f"]
Point(circle) == [op |-> "addFencePoint", fence |-> "f", circle |-> circle]
Move(id, p) == [op |-> "setQueryPoint", fence |-> "f", id |-> id, at |-> p]
Find(id, p) == [op |-> "searchFence", fence |-> "f", id |-> id, at |-> p]

\* Four points, one of them in two places; the middle one of three positions in a row
\* is in some of the circles.
Points == {Point(Circle("a", 2, 5, 2)), Point(Circle("b", 4, 4, 1)),
           Point(Circle("d", 7, 6, 1)), Point(Circle("e", 3, 8, 1))}
MCRequests ==
    (c1 :> {Add, Find("v1", At(4, 5))} \cup Points) @@
    (c2 :> {Add, Del, Point(Circle("a", 6, 3, 1)), Find("v2", At(4, 8)), Move("v2", At(4, 1)),
            Move("v2", At(0, 5)), [op |-> "addGeofence", fence |-> "!"]})
=============================================================================
