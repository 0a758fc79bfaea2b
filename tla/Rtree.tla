------------------------------- MODULE Rtree -------------------------------
(***************************************************************************)
(* The R-tree of pkg/datastructure/rtree.go and its queue pq_rtree.go.     *)
(*                                                                         *)
(* A node is a record of its entries, the bound stored in it, whether it   *)
(* is a leaf node, and the object of a data node; parent pointers are the  *)
(* nesting of the records.  Coordinates are integers: the code only        *)
(* compares, subtracts and multiplies them.  A box is a sequence of        *)
(* <<low, high>> pairs, one per axis, so the zero box has no axis.         *)
(*                                                                         *)
(* lost, shared, astray and panicked are not in the code: the objects that *)
(* ties dropped, whether an inner node has two parents, whether one was    *)
(* put back at a level that was no longer its own, and the panic, if any.  *)
(***************************************************************************)
EXTENDS Integers, Sequences, FiniteSets, SequencesExt

CONSTANTS MinChildItems, MaxChildItems,  \* bounds on the entries of a node
          Dimensions,                    \* axes linearPickSeeds looks at
          MaxHeight,                     \* bound on the levels a walk goes down
          Weight,                        \* cos^2 of half a sum of latitudes, times Scale
          Scale

ASSUME RtreeAssumption ==
    /\ MinChildItems \in Nat \ {0} /\ MaxChildItems \in Nat /\ MinChildItems < MaxChildItems
    /\ Dimensions \in Nat \ {0} /\ MaxHeight \in Nat \ {0} /\ Scale \in Nat \ {0}

\* A loop or a recursion of at most n rounds; once done, a round changes nothing.
Loop(round(_), start, n) ==
    LET after[k \in 0..n] == IF k = 0 THEN start ELSE round(after[k - 1])
    IN  after[n]

----------------------------------------------------------------------------
(* Boxes *)

boundingBox(b, bb) ==
    [axis \in 1..Len(b) |-> <<IF b[axis][1] <= bb[axis][1] THEN b[axis][1] ELSE bb[axis][1],
                              IF b[axis][2] >= bb[axis][2] THEN b[axis][2] ELSE bb[axis][2]>>]

area(b) ==
    LET upTo[axis \in 0..Len(b)] ==
            IF axis = 0 THEN 1 ELSE upTo[axis - 1] * (b[axis][2] - b[axis][1])
    IN  upTo[Len(b)]

Enlargement(b, bb) == area(boundingBox(b, bb)) - area(b)

overlaps(b, bb) ==
    \A axis \in 1..Len(b) : b[axis][1] < bb[axis][2] /\ bb[axis][1] < b[axis][2]

----------------------------------------------------------------------------
(* Nodes *)

NoObject == [id |-> 0, lat |-> 0, lon |-> 0, tag |-> {}, bound |-> <<>>]

DataNode(obj) == [items |-> <<>>, bound |-> obj.bound, isLeaf |-> FALSE, leaf |-> obj]

NodeOf(items, isLeaf) == [items |-> items, bound |-> <<>>, isLeaf |-> isLeaf, leaf |-> NoObject]

IsDataNode(node) == node.leaf # NoObject

ComputeBB(node) ==
    FoldLeft(LAMBDA b, item : boundingBox(b, item.bound), Head(node.items).bound, Tail(node.items))

Bounded(node) == [node EXCEPT !.bound = ComputeBB(node)]

\* One level further down: every node gives way to what open makes of it.
Opened(open(_), nodes) == FlattenSeq([i \in DOMAIN nodes |-> open(nodes[i])])

\* The objects at or below a node, as a sequence, so that copies are seen.
Objects(node) ==
    LET open(n) == IF IsDataNode(n) THEN <<n>> ELSE n.items
        bottom == Loop(LAMBDA nodes : Opened(open, nodes), <<node>>, MaxHeight)
    IN  [i \in DOMAIN bottom |-> bottom[i].leaf]

\* The nodes on a path of entries: the k-th is k levels below the first.
Along(root, path) ==
    LET at[k \in 0..Len(path)] == IF k = 0 THEN root ELSE at[k - 1].items[path[k]]
    IN  at

NewRtree == [root |-> NodeOf(<<>>, TRUE), size |-> 0, height |-> 1,
             lost |-> {}, shared |-> FALSE, astray |-> FALSE, panicked |-> "no"]

----------------------------------------------------------------------------
(* Splitting a node *)

First(P(_), s) == CHOOSE i \in DOMAIN s : P(i) /\ \A j \in 1..(i - 1) : ~P(j)

FirstMost(of(_), s) == First(LAMBDA i : \A j \in DOMAIN s : of(j) <= of(i), s)

\* h is the entry with the highest low side, l the one with the lowest high side.
Extremes(items, axis) ==
    LET low(i) == items[i].bound[axis][1]
        high(i) == items[i].bound[axis][2]
        between(h, l) == [seeds |-> <<h, l>>, separation |-> low(h) - high(l),
                          width |-> high(FirstMost(high, items))
                                        - low(FirstMost(LAMBDA i : -low(i), items))]
    IN  between(FirstMost(low, items), FirstMost(LAMBDA i : -high(i), items))

\* Fractions are compared by cross-multiplication; 0/0 is greater than nothing.
MostSeparated(along) ==
    LET most == {axis \in DOMAIN along :
                    /\ along[axis].width > 0
                    /\ \A other \in DOMAIN along :
                          along[other].width > 0 =>
                              along[other].separation * along[axis].width
                                  <= along[axis].separation * along[other].width}
    IN  IF most = {} THEN <<1, 2>>
        ELSE along[CHOOSE axis \in most : \A other \in most : axis <= other].seeds

linearPickSeeds(items) == MostSeparated([axis \in 1..Dimensions |-> Extremes(items, axis)])

Abs(x) == IF x < 0 THEN -x ELSE x

\* The bounds of the two groups are those stored before the split: the old
\* bound of the node for the first, the zero box for the second.
pickNext(boundOne, boundTwo, remaining) ==
    FirstMost(LAMBDA i : Abs(Enlargement(boundOne, remaining[i].bound)
                                - Enlargement(boundTwo, remaining[i].bound)), remaining)

LexLess(a, b) == \E i \in DOMAIN a : a[i] < b[i] /\ \A j \in 1..(i - 1) : a[j] = b[j]

CostOf(group, entry) ==
    LET cost(bb) == <<Enlargement(bb, entry.bound), area(boundingBox(bb, entry.bound)), Len(group)>>
    IN  cost(ComputeBB(NodeOf(group, FALSE)))

\* 1 or 2: the group an entry goes to.  One that prefers neither goes to neither, 0.
GroupFor(one, two, left, costOne, costTwo) ==
    IF Len(one) + left <= MinChildItems THEN 1
    ELSE IF Len(two) + left <= MinChildItems THEN 2
    ELSE IF LexLess(costOne, costTwo) THEN 1
    ELSE IF LexLess(costTwo, costOne) THEN 2 ELSE 0

\* The loop that assigns the remaining entries to the two groups.
Distribute(bound, one, two, remaining) ==
    LET assign(g, next, group) ==
            [one |-> IF group = 1 THEN Append(g.one, g.remaining[next]) ELSE g.one,
             two |-> IF group = 2 THEN Append(g.two, g.remaining[next]) ELSE g.two,
             dropped |-> IF group = 0 THEN Append(g.dropped, g.remaining[next]) ELSE g.dropped,
             remaining |-> RemoveAt(g.remaining, next)]
        step(g, next) ==
            assign(g, next, GroupFor(g.one, g.two, Len(g.remaining),
                                     CostOf(g.one, g.remaining[next]),
                                     CostOf(g.two, g.remaining[next])))
    IN  FoldLeft(LAMBDA g, i : step(g, pickNext(bound, <<>>, g.remaining)),
                 [one |-> one, two |-> two, dropped |-> <<>>, remaining |-> remaining], remaining)

\* What a step on a node leaves behind: the node, its new partner if it was
\* split, and the history of the tree.
Unsplit(node) == [node |-> node, partner |-> <<>>, lost |-> {}, shared |-> FALSE, panicked |-> "no"]

splitNode(l) ==
    LET others(seeds) == SetToSortSeq(DOMAIN l.items \ Range(seeds), <)
        groups(seeds, rest) == Distribute(l.bound, <<l.items[seeds[1]]>>, <<l.items[seeds[2]]>>,
                                          [i \in DOMAIN rest |-> l.items[rest[i]]])
        halves(seeds, g) ==
            [node |-> [l EXCEPT !.items = g.one], partner |-> <<NodeOf(g.two, l.isLeaf)>>,
             lost |-> UNION {Range(Objects(entry)) : entry \in Range(g.dropped)},
             shared |-> seeds[1] = seeds[2] /\ ~l.isLeaf, panicked |-> "no"]
        around(seeds) == halves(seeds, groups(seeds, others(seeds)))
    IN  IF Dimensions > Len(Head(l.items).bound)
        THEN [Unsplit(l) EXCEPT !.panicked = "split"]
        ELSE around(linearPickSeeds(l.items))

\* (A mutated form: the wrong one of the two limits.)
SplitAtMinimum(node) == IF Len(node.items) >= MinChildItems THEN splitNode(node) ELSE Unsplit(node)

SplitIfFull(node) == IF Len(node.items) > MaxChildItems THEN splitNode(node) ELSE Unsplit(node)

----------------------------------------------------------------------------
(* Inserting an entry *)

\* The entry that needs least enlargement; on a tie a later entry is taken if
\* its enlarged area is below the present area of the entry held so far.
ChooseSubtree(items, bound) ==
    LET cost(i) == Enlargement(items[i].bound, bound)
        enlarged(i) == area(boundingBox(items[i].bound, bound))
        better(held, i) == \/ cost(i) < cost(held)
                           \/ cost(i) = cost(held) /\ enlarged(i) < area(items[held].bound)
    IN  FoldLeftDomain(LAMBDA held, i : IF better(held, i) THEN i ELSE held, 1, items)

LeafLevel == 0

\* (A mutated form: bounds are refreshed only where a node was split.)
AdjustStale(node, i, below) ==
    IF below.partner = <<>> THEN [below EXCEPT !.node = [node EXCEPT !.items[i] = below.node]]
    ELSE [below EXCEPT !.partner = <<>>, !.node = [node EXCEPT !.items =
            [@ EXCEPT ![i] = Bounded(below.node)] \o <<Bounded(Head(below.partner))>>]]

\* What adjustTree makes of a node whose i-th entry became below.
Adjust(node, i, below) ==
    LET here == [node EXCEPT !.items =
                    [@ EXCEPT ![i] = Bounded(below.node)]
                        \o [k \in DOMAIN below.partner |-> Bounded(below.partner[k])]]
        with(split) == [split EXCEPT !.lost = @ \cup below.lost, !.shared = @ \/ below.shared]
    IN  IF below.panicked # "no"
        THEN [below EXCEPT !.node = [node EXCEPT !.items[i] = below.node], !.partner = <<>>]
        ELSE with(SplitIfFull(here))

\* Where an entry is put: in a leaf, or at the level wanted.
Wanted(d, desired) == (desired = LeafLevel /\ d.node.isLeaf) \/ desired = Len(d.path) + 1

\* chooseLeaf (to LeafLevel) or chooseLevel from the root down.
Choose(root, entry, desired) ==
    LET into(d, i) == [node |-> d.node.items[i], path |-> Append(d.path, i)]
        down(d) == IF Wanted(d, desired) \/ d.node.items = <<>> THEN d
                   ELSE into(d, ChooseSubtree(d.node.items, entry.bound))
    IN  Loop(down, [node |-> root, path |-> <<>>], MaxHeight)

\* The node chosen, the entry added there, and adjustTree on the way back to the root.
Put(root, entry, desired) ==
    LET d == Choose(root, entry, desired)
        along == Along(root, d.path)
        there == IF Wanted(d, desired)
                 THEN SplitIfFull([d.node EXCEPT !.items = Append(@, entry)])
                 ELSE [Unsplit(d.node) EXCEPT !.panicked = "choose"]
        up[k \in 0..Len(d.path)] ==
            IF k = Len(d.path) THEN there ELSE Adjust(along[k], d.path[k + 1], up[k + 1])
    IN  up[0]

\* The rest of InsertLeaf and insertLevel: the root, or a new root over its halves.
Settle(rt, put, more) ==
    LET halves == <<Bounded(put.node), Bounded(Head(put.partner))>>
        after == [rt EXCEPT !.lost = @ \cup put.lost, !.shared = @ \/ put.shared,
                            !.panicked = put.panicked,
                            !.size = IF put.panicked = "choose" THEN @ ELSE @ + more]
    IN  IF put.panicked # "no" THEN [after EXCEPT !.root = put.node]
        ELSE IF put.partner = <<>> THEN [after EXCEPT !.root = Bounded(put.node)]
        ELSE [after EXCEPT !.root = Bounded(NodeOf(halves, FALSE)), !.height = @ + 1]

\* (A mutated form: no insertion counts.)
InsertUncounted(rt, obj, reinsert) ==
    IF rt.panicked # "no" THEN rt ELSE Settle(rt, Put(rt.root, DataNode(obj), LeafLevel), 0)

\* Nothing happens after a panic.
InsertLeaf(rt, obj, reinsert) ==
    IF rt.panicked # "no" THEN rt
    ELSE Settle(rt, Put(rt.root, DataNode(obj), LeafLevel), IF reinsert THEN 0 ELSE 1)

insertLevel(rt, node, level) ==
    IF rt.panicked # "no" THEN rt ELSE Settle(rt, Put(rt.root, node, level), 0)

\* What the program has in memory after reading rtree.dat.
Deserialize(objs) == FoldLeft(LAMBDA rt, obj : InsertLeaf(rt, obj, FALSE), NewRtree, objs)

----------------------------------------------------------------------------
(* Deleting an object *)

\* The nodes FindLeaf looks at, with their paths, in its order: a node comes after
\* those of its subtrees that overlap the object.
Visited(obj, root) ==
    LET into(v, i) == IF overlaps(v.node.items[i].bound, obj.bound)
                      THEN <<[node |-> v.node.items[i], path |-> Append(v.path, i), new |-> TRUE]>>
                      ELSE <<>>
        below(v) == FlattenSeq([i \in DOMAIN v.node.items |-> into(v, i)])
        open(v) == IF v.new /\ ~v.node.isLeaf THEN Append(below(v), [v EXCEPT !.new = FALSE])
                   ELSE <<v>>
    IN  Loop(LAMBDA vs : Opened(open, vs), <<[node |-> root, path |-> <<>>, new |-> TRUE]>>, MaxHeight)

\* The path to the node found, as a sequence of no or one path.  An inner node
\* whose subtrees do not have the object goes on to compare its own entries,
\* whose objects are the zero object.
FindLeaf(obj, root) ==
    LET visited == Visited(obj, root)
        has(node) == \E i \in DOMAIN node.items : node.items[i].leaf.id = obj.id
        found == {i \in DOMAIN visited : has(visited[i].node)}
        first == CHOOSE i \in found : \A j \in found : i <= j
    IN  IF found = {} THEN <<>> ELSE <<visited[first].path>>

\* The last entry takes the place of the one removed.
SwapOut(items, i) == Front([items EXCEPT ![i] = Last(items)])

TheEntry(node, obj) == First(LAMBDA i : node.items[i].leaf.id = obj.id, node.items)

\* Delete's removal and the way up of condenseTree: the node at the end of
\* path loses the object, under-full nodes are queued with their level.
Remove1(root, path, obj) ==
    LET along == Along(root, path)
        taken(node) == [node EXCEPT !.items = SwapOut(@, TheEntry(node, obj))]
        up(node, i, below, level) ==
            IF Len(below.node.items) < MinChildItems
            THEN [node |-> [node EXCEPT !.items = SwapOut(@, i)],
                  queue |-> Append(below.queue, [node |-> below.node, level |-> level])]
            ELSE [node |-> [node EXCEPT !.items[i] = Bounded(below.node)], queue |-> below.queue]
        removed[k \in 0..Len(path)] ==
            IF k = Len(path) THEN [node |-> taken(along[k]), queue |-> <<>>]
            ELSE up(along[k], path[k + 1], removed[k + 1], k + 2)
    IN  removed[0]

\* (A mutated form: inner entries go to the top.)
ReinsertOnTop(rt, orphan) ==
    IF orphan.node.isLeaf
    THEN FoldLeft(LAMBDA t, entry : InsertLeaf(t, entry.leaf, TRUE), rt, orphan.node.items)
    ELSE FoldLeft(LAMBDA t, entry : insertLevel(t, Bounded(entry), 1), rt, orphan.node.items)

Reinsert(rt, orphan) ==
    IF orphan.node.isLeaf
    THEN FoldLeft(LAMBDA t, entry : InsertLeaf(t, entry.leaf, TRUE), rt, orphan.node.items)
    ELSE FoldLeft(LAMBDA t, entry : insertLevel(t, Bounded(entry), orphan.level),
                  rt, orphan.node.items)

\* (A mutated form: only the first of the queued nodes is put back.)
condenseFirst(rt, removed) ==
    IF removed.queue = <<>> THEN [rt EXCEPT !.root = removed.node]
    ELSE Reinsert([rt EXCEPT !.root = Bounded(removed.node)], Head(removed.queue))

condenseTree(rt, removed) ==
    LET root == removed.node
        top == [rt EXCEPT !.root = IF root.items = <<>> THEN root ELSE Bounded(root)]
    IN  FoldLeft(LAMBDA t, orphan : [Reinsert(t, orphan) EXCEPT
                        !.astray = @ \/ (~orphan.node.isLeaf /\ t.height # rt.height)],
                 top, removed.queue)

\* Everything below an inner entry that FindLeaf took for the object is lost too.
LostWith(root, path, obj) ==
    LET node == Along(root, path)[Len(path)]
    IN  Range(Objects(node.items[TheEntry(node, obj)])) \ {obj}

\* A root with one entry gives way to that entry.
ShrinkRoot(rt) ==
    IF Len(rt.root.items) = 1 THEN [rt EXCEPT !.root = Head(@.items), !.height = @ - 1] ELSE rt

\* The tree without the object at the end of path; nothing more after a panic.
Without(rt, path, obj) ==
    condenseTree([rt EXCEPT !.lost = @ \cup LostWith(rt.root, path, obj)], Remove1(rt.root, path, obj))

Smaller(rt) == IF rt.panicked # "no" THEN rt ELSE ShrinkRoot([rt EXCEPT !.size = @ - 1])

Delete(rt, obj) ==
    LET found == FindLeaf(obj, rt.root)
    IN  IF found = <<>> THEN rt ELSE Smaller(Without(rt, Head(found), obj))

----------------------------------------------------------------------------
(* Searching *)

\* (A mutated form: the first subtree that overlaps is the only one searched.)
OneHit(node, bound) ==
    LET all == SelectSeq(node.items, LAMBDA e : overlaps(e.bound, bound))
    IN  IF node.isLeaf \/ all = <<>> THEN all ELSE <<Head(all)>>

Hits(node, bound) == SelectSeq(node.items, LAMBDA e : overlaps(e.bound, bound))

\* A hit of a leaf is a result; one of an inner node is searched in turn.
Search(root, bound) ==
    LET below(node, hits) == [i \in DOMAIN hits |-> [node |-> hits[i], result |-> node.isLeaf]]
        open(v) == IF v.result THEN <<v>> ELSE below(v.node, Hits(v.node, bound))
        found == Loop(LAMBDA vs : Opened(open, vs), <<[node |-> root, result |-> FALSE]>>, MaxHeight)
    IN  [i \in DOMAIN found |-> found[i].node.leaf]

\* The approximated distance, squared: longitudes weigh by the cosine of the
\* mean latitude, in degrees where the function takes radians.
euclidianDistanceEquiRectangularAprox(p, q) ==
    Weight[p.lat + q.lat] * (q.lon - p.lon) * (q.lon - p.lon)
        + Scale * (q.lat - p.lat) * (q.lat - p.lat)

\* Squared too; at this size the earth is flat.
HaversineDistance(p, q) == (q.lon - p.lon) * (q.lon - p.lon) + (q.lat - p.lat) * (q.lat - p.lat)

Clamp(x, edge) == IF x < edge[1] THEN edge[1] ELSE IF x > edge[2] THEN edge[2] ELSE x

minDist(p, r) ==
    euclidianDistanceEquiRectangularAprox(p, [lat |-> Clamp(p.lat, r[1]), lon |-> Clamp(p.lon, r[2])])

(* The binary heap: index 1 is the code's index 0. *)

Swapped(heap, i, j) == [heap EXCEPT ![i] = heap[j], ![j] = heap[i]]

SiftUp(heap, i) ==
    LET up(s) == IF s.at = 1 \/ s.heap[s.at \div 2].rank <= s.heap[s.at].rank THEN s
                 ELSE [heap |-> Swapped(s.heap, s.at, s.at \div 2), at |-> s.at \div 2]
    IN  Loop(up, [heap |-> heap, at |-> i], Len(heap)).heap

Insert(heap, key) == SiftUp(Append(heap, key), Len(heap) + 1)

\* (A mutated form: the right child is never looked at.)
LesserLeft(heap, i) ==
    IF 2 * i <= Len(heap) /\ heap[2 * i].rank <= heap[i].rank THEN 2 * i ELSE i

\* A child is preferred on equal ranks, the right one over the left one.
Lesser(heap, i) ==
    LET of(child, held) ==
            IF child <= Len(heap) /\ heap[child].rank <= heap[held].rank THEN child ELSE held
    IN  of(2 * i + 1, of(2 * i, i))

SiftDown(heap, i) ==
    LET down(s) == [heap |-> Swapped(s.heap, s.at, Lesser(s.heap, s.at)), at |-> Lesser(s.heap, s.at)]
    IN  Loop(down, [heap |-> heap, at |-> i], Len(heap)).heap

\* The heap after its first element was taken.
ExtractMin(heap) ==
    IF Len(heap) = 1 THEN <<>> ELSE SiftDown(Front([heap EXCEPT ![1] = Last(heap)]), 1)

\* One element of the queue: a node gives way to its entries, an object is reported,
\* or put back with its own distance if its box was nearer than the object is.
Visit(p, s) ==
    LET key(parent, item) == [rank |-> minDist(p, item.bound), item |-> item,
                              isData |-> parent.isLeaf, isMBR |-> parent.isLeaf]
        with(node, rest) ==
            LET upTo[n \in 0..Len(node.items)] ==
                    IF n = 0 THEN rest ELSE Insert(upTo[n - 1], key(node, node.items[n]))
            IN  upTo[Len(node.items)]
        next(element, dist, rest) ==
            IF ~element.isData THEN [s EXCEPT !.queue = with(element.item, rest)]
            ELSE IF element.isMBR /\ rest # <<>> /\ dist > Head(rest).rank
            THEN [s EXCEPT !.queue = Insert(rest, [element EXCEPT !.rank = dist, !.isMBR = FALSE])]
            ELSE [queue |-> rest, reported |-> Append(s.reported, element.item.leaf)]
    IN  IF s.queue = <<>> THEN s
        ELSE next(Head(s.queue),
                  euclidianDistanceEquiRectangularAprox(p, Head(s.queue).item.leaf),
                  ExtractMin(s.queue))

\* All objects in the order in which the callback would get them if it never
\* stopped the walk: an object is visited at most twice, and so is a node above it once.
incrementalNearestNeighbor(rt, p) ==
    LET start == [rank |-> 0, item |-> rt.root, isData |-> FALSE, isMBR |-> FALSE]
    IN  Loop(LAMBDA s : Visit(p, s), [queue |-> <<start>>, reported |-> <<>>],
             (MaxHeight + 2) * (Len(Objects(rt.root)) + 1)).reported

Prefix(s, n) == SubSeq(s, 1, IF n < Len(s) THEN n ELSE Len(s))

\* The callback takes an object before it looks at the number wanted.
NearestNeighboursPQ(rt, k, p) ==
    LET wanted == IF rt.size > k THEN k ELSE rt.size
    IN  Prefix(incrementalNearestNeighbor(rt, p), IF wanted < 1 THEN 1 ELSE wanted)

\* (A mutated form: the walk stops at the first object without the feature.)
NearestUntilOther(rt, k, offset, p, maxRadius, osmFeature) ==
    LET fits(obj) == HaversineDistance(p, obj) <= maxRadius /\ osmFeature \in obj.tag
        until(walk) == {i \in DOMAIN walk : \A j \in 1..i : fits(walk[j])}
        nearest(walk) == Prefix(walk, Cardinality(until(walk)))
        from(s) == IF Len(s) > offset THEN SubSeq(s, offset + 1, Len(s)) ELSE s
    IN  Prefix(from(nearest(incrementalNearestNeighbor(rt, p))), k)

\* The walk stops at the first object outside the radius; an offset beyond
\* the results is ignored.
NearestNeighboursRadiusFilterOSM(rt, k, offset, p, maxRadius, osmFeature) ==
    LET inside(obj) == HaversineDistance(p, obj) <= maxRadius
        outside(walk) == {i \in DOMAIN walk : ~inside(walk[i])}
        until(walk) == {i \in DOMAIN walk : \A j \in outside(walk) : i <= j}
        nearest(walk) == SelectSeq(Prefix(walk, Cardinality(until(walk))),
                                   LAMBDA obj : inside(obj) /\ osmFeature \in obj.tag)
        from(s) == IF Len(s) > offset THEN SubSeq(s, offset + 1, Len(s)) ELSE s
    IN  Prefix(from(nearest(incrementalNearestNeighbor(rt, p))), k)

=============================================================================
