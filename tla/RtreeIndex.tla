----------------------------- MODULE RtreeIndex -----------------------------
(***************************************************************************)
(* An R-tree in use: loaded from a stored list of objects, as the server   *)
(* does, then changed by insertions and deletions, as the geofence and the *)
(* tests do.  The queries are evaluated in every state by the properties.  *)
(***************************************************************************)
EXTENDS Rtree

CONSTANTS Loads,         \* lists of objects a tree may be loaded from
          OSMObjects,    \* objects that may be inserted and deleted
          MaxOps,        \* insertions and deletions after loading
          Features,      \* OSM features to filter by
          QueryPoints, QueryBoxes, Radii

ASSUME IndexAssumption ==
    /\ \A load \in Loads : IsInjective([i \in DOMAIN load |-> load[i].id])
    /\ MaxOps \in Nat

VARIABLES rt,       \* the tree
          present,  \* the objects inserted and not deleted
          ops       \* insertions and deletions so far

vars == <<rt, present, ops>>

Init ==
    \E load \in Loads :
        /\ rt = Deserialize(load)
        /\ present = Range(load)
        /\ ops = 0

\* A tree in which an inner node has two parents is not followed any further:
\* a change of one of its copies would have to change the other.
Usable == rt.panicked = "no" /\ ~rt.shared /\ ops < MaxOps

InsertNew(obj) ==
    /\ Usable
    /\ \A other \in present : other.id # obj.id
    /\ rt' = InsertLeaf(rt, obj, FALSE)
    /\ present' = present \cup {obj}
    /\ ops' = ops + 1

DeleteFound(obj) ==
    /\ Usable
    /\ FindLeaf(obj, rt.root) # <<>>
    /\ rt' = Delete(rt, obj)
    /\ present' = present \ {obj}
    /\ ops' = ops + 1

Next == \E obj \in OSMObjects : InsertNew(obj) \/ DeleteFound(obj)

Spec == Init /\ [][Next]_vars

----------------------------------------------------------------------------
(* Properties *)

\* All nodes of the tree, data nodes excluded, with their levels.
Inner ==
    LET below(n) == {<<item, n[2] + 1>> : item \in Range(n[1].items)}
        nodes == Loop(LAMBDA ns : ns \cup UNION {below(n) : n \in ns}, {<<rt.root, 1>>}, MaxHeight)
    IN  {n \in nodes : ~IsDataNode(n[1])}

\* Nothing went wrong that the properties below single out: no tie dropped an
\* entry, no entry was taken for both seeds, and the root has not become an object.
Sound == rt.lost = {} /\ ~IsDataNode(rt.root) /\ rt.panicked = "no"

TypeOK ==
    /\ rt.size \in Nat /\ rt.height \in Nat
    /\ rt.lost \subseteq OSMObjects \cup UNION {Range(load) : load \in Loads}
    /\ rt.shared \in BOOLEAN /\ rt.astray \in BOOLEAN /\ rt.panicked \in {"no", "choose", "split"}
    /\ present \subseteq OSMObjects \cup UNION {Range(load) : load \in Loads}
    /\ ops \in 0..MaxOps

\* Every object inserted and not deleted is in the tree exactly once, through
\* all splits, condensations and reinsertions, and nothing else is; only what a
\* tie dropped is missing (splitNode, condenseTree, Delete).
HoldsItems ==
    LET held == Objects(rt.root)
    IN  rt.panicked = "no" =>
        /\ Range(held) \subseteq present
        /\ present \ rt.lost \subseteq Range(held)
        /\ rt.lost = {} /\ ~rt.shared => Len(held) = rt.size

\* Every stored bound is exactly the bound of the entries below it: a bound left
\* stale by adjustTree or condenseTree would hide objects from Search and FindLeaf.
BoundsTight ==
    \A n \in Inner : n[1].items # <<>> => n[1].bound = ComputeBB(n[1])

\* The tree is balanced: leaves are exactly the nodes at its height, and every
\* node but the root is within its limits, after re-insertion at noted levels too.
\* (From MinChildItems = 3 on, putting back the leaves may raise the tree, and an inner
\* node noted before then goes astray.)
Balanced ==
    Sound /\ ~rt.shared /\ ~rt.astray =>
        \A n \in Inner :
            /\ n[1].isLeaf <=> n[2] = rt.height
            /\ n[2] > 1 => Len(n[1].items) \in MinChildItems..MaxChildItems

\* A search finds exactly the objects that overlap the box.
SearchExact ==
    Sound => \A box \in QueryBoxes :
        Range(Search(rt.root, box)) = {obj \in present : overlaps(obj.bound, box)}

Ascending(p, s) ==
    \A i, j \in DOMAIN s : i < j => euclidianDistanceEquiRectangularAprox(p, s[i])
                                      <= euclidianDistanceEquiRectangularAprox(p, s[j])

\* The nearest neighbours come nearest first, and none left out is nearer, as
\* long as longitudes weigh the same everywhere (incrementalNearestNeighbor takes an
\* object early only if its own distance is not above the next rank).
NearestFirst ==
    Sound => \A p \in QueryPoints :
        LET nearest == NearestNeighboursPQ(rt, 2, p)
        IN  /\ Ascending(p, nearest)
            /\ Len(nearest) = IF Cardinality(present) < 2 THEN Cardinality(present) ELSE 2
            /\ \A out \in present \ Range(nearest) : \A in \in Range(nearest) :
                  euclidianDistanceEquiRectangularAprox(p, in)
                      <= euclidianDistanceEquiRectangularAprox(p, out)

Within(p, radius, feature) ==
    {obj \in present : feature \in obj.tag /\ HaversineDistance(p, obj) <= radius}

\* "returns the k nearest neighbours (with filtered osm feature) within a given
\* radius in km" (rtree.go:647): with room for all of them, all are returned.
RadiusComplete ==
    Sound => \A p \in QueryPoints, radius \in Radii, feature \in Features :
        Range(NearestNeighboursRadiusFilterOSM(rt, Cardinality(present), 0, p, radius, feature))
            = Within(p, radius, feature)

=============================================================================
