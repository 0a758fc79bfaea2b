---------------------------- MODULE MCRtreeIndex ----------------------------
(* Instances of RtreeIndex. *)
EXTENDS RtreeIndex

Obj(id, lat, lon) ==
    [id |-> id, lat |-> lat, lon |-> lon, tag |-> {IF id % 2 = 0 THEN "even" ELSE "odd"},
     bound |-> << <<lat - 1, lat + 1>>, <<lon - 1, lon + 1>> >>]

ObjsAt(places) == [i \in DOMAIN places |-> Obj(i, places[i][1], places[i][2])]

\* Eight objects that make a tree of height three, in which every deletion
\* empties a leaf and its parent; and one more.
Places == << <<10, 9>>, <<3, 6>>, <<10, 8>>, <<11, 10>>, <<2, 10>>, <<1, 8>>, <<5, 9>>, <<4, 4>>, <<7, 7>> >>

AllObjects == ObjsAt(Places)
MCObjects == Range(AllObjects)
MCLoads == {<<>>, SubSeq(AllObjects, 1, 8)}
FlatWeight == [s \in -50..100 |-> 1]
MCQueryPoints == {[lat |-> 9, lon |-> 9], [lat |-> 3, lon |-> 5]}
MCQueryBoxes == {<< <<0, 5>>, <<0, 9>> >>, << <<8, 12>>, <<8, 9>> >>}
=============================================================================
