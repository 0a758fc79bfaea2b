----------------------------- MODULE RtreeProofs -----------------------------
(***************************************************************************)
(* Facts about the operations of an R-tree whose root is a leaf, the tree  *)
(* of every fence with few points, and of the data node that is left when  *)
(* such a tree of two objects loses one.                                   *)
(*                                                                         *)
(* Insertion, FindLeaf, Delete and the objects come first; then the binary *)
(* heap and the nearest neighbour walk.  The walk queues every entry by    *)
(* its box, puts it back by its object if that may be farther away, and    *)
(* reports it: WalkReportsAll says that it reports each object once.       *)
(***************************************************************************)
EXTENDS Rtree, DataLemmas

\* A loop whose first round changes nothing ends where it starts.
LEMMA RoundsIdle ==
  ASSUME NEW s, NEW n \in Nat, NEW g, g[0] = s, \A k \in 1..n : g[k - 1] = s => g[k] = s
  PROVE  g[n] = s
<1>1. PICK W : W = {s}
  OBVIOUS
<1>2. g[0] \in W
  BY <1>1
<1>3. \A k \in 1..n : g[k - 1] \in W => g[k] \in W
  BY <1>1
<1>4. \A k \in 0..n : g[k] \in W
  BY <1>2, <1>3, RoundsKeep
<1> QED
  BY <1>1, <1>4

\* The way down for a leaf ends at once at a root that is a leaf, or has no entries.
LEMMA ChooseLeafRoot ==
  ASSUME NEW root, NEW entry, root.isLeaf \/ root.items = <<>>
  PROVE  Choose(root, entry, LeafLevel) = [node |-> root, path |-> <<>>]
<1> DEFINE into(d, i) == [node |-> d.node.items[i], path |-> Append(d.path, i)]
           down(d) == IF Wanted(d, LeafLevel) \/ d.node.items = <<>> THEN d
                   ELSE into(d, ChooseSubtree(d.node.items, entry.bound))
           P(s, g) == g = [k \in 0..MaxHeight |-> IF k = 0 THEN s ELSE down(g[k - 1])]
<1>1. PICK s : s = [node |-> root, path |-> <<>>]
  OBVIOUS
<1>2. down(s) = s
  BY <1>1 DEF Wanted, LeafLevel
<1>3. Choose(root, entry, LeafLevel) = (CHOOSE g : P(s, g))[MaxHeight]
  BY <1>1 DEF Choose, Loop
<1> HIDE DEF down
<1>4. P(s, [k \in 0..MaxHeight |-> s])
  BY <1>2, RtreeAssumption
<1>5. PICK g : g = (CHOOSE f : P(s, f))
  OBVIOUS
<1>6. P(s, g)
  BY <1>4, <1>5
<1>7. g = [k \in 0..MaxHeight |-> IF k = 0 THEN s ELSE down(g[k - 1])]
  BY <1>6
<1> HIDE DEF P
<1>8. g[0] = s
  BY <1>7, RtreeAssumption
<1>9. ASSUME NEW k \in 1..MaxHeight, g[k - 1] = s PROVE g[k] = s
  <2>1. g[k] = down(g[k - 1])
    BY <1>7, RtreeAssumption
  <2> QED
    BY <1>2, <2>1, <1>9
<1>10. g[MaxHeight] = s
  <2>1. PICK n \in Nat : n = MaxHeight
    BY RtreeAssumption
  <2>2. \A k \in 1..n : g[k - 1] = s => g[k] = s
    BY <1>9, <2>1
  <2>3. g[n] = s
    BY <1>8, <2>2, RoundsIdle
  <2> QED
    BY <2>1, <2>3
<1> QED
  BY <1>1, <1>3, <1>5, <1>10

\* A loop that changes nothing after its first round ends where that round led.
LEMMA RoundsIdleAfterOne ==
  ASSUME NEW s, NEW n \in Nat \ {0}, NEW g, g[1] = s, \A k \in 2..n : g[k - 1] = s => g[k] = s
  PROVE  g[n] = s
<1> DEFINE h == [k \in 0..(n - 1) |-> g[k + 1]]
<1>1. PICK m \in Nat : m = n - 1
  OBVIOUS
<1>2. h[0] = s
  OBVIOUS
<1>3. ASSUME NEW k \in 1..m, h[k - 1] = s PROVE h[k] = s
  <2>1. k + 1 \in 2..n /\ h[k - 1] = g[(k + 1) - 1] /\ h[k] = g[k + 1]
    BY <1>1
  <2> QED
    BY <2>1, <1>3
<1>4. h[m] = g[n]
  BY <1>1
<1> HIDE DEF h
<1>5. h[m] = s
  BY <1>2, <1>3, RoundsIdle
<1> QED
  BY <1>4, <1>5


\* One sequence in a sequence is that sequence when flattened.
LEMMA FlattenOne ==
  ASSUME NEW V, NEW x \in Seq(V), NEW seqs, seqs = <<x>>
  PROVE  FlattenSeq(seqs) = x
<1>1. seqs \in Seq(Seq(V)) /\ Len(seqs) = 1 /\ seqs[1] = x
  OBVIOUS
<1>2. PICK f : Flattened(seqs, f) /\ FlattenSeq(seqs) = f[Len(seqs)]
  BY <1>1, FlattenIs
<1>3. f[0] = <<>> /\ \A i \in 1 .. Len(seqs) : f[i] = f[i - 1] \o seqs[i]
  BY <1>2 DEF Flattened
<1>4. 1 \in 1 .. Len(seqs) /\ 1 - 1 = 0
  BY <1>1
<1>5. f[1] = <<>> \o x
  BY <1>1, <1>3, <1>4
<1> QED
  BY <1>1, <1>2, <1>5

\* Flattening the entries of a sequence, each on its own, gives it back.
LEMMA FlattenSingles ==
  ASSUME NEW V, NEW s \in Seq(V), NEW seqs, seqs = [i \in DOMAIN s |-> <<s[i]>>]
  PROVE  FlattenSeq(seqs) = s
<1>1. PICK n \in Nat : n = Len(s) /\ DOMAIN s = 1..n /\ Len(seqs) = n /\ \A i \in 1..n : s[i] \in V
  OBVIOUS
<1>2. seqs \in Seq(Seq(V))
  <2>1. seqs = [i \in 1..n |-> seqs[i]] /\ \A i \in 1..n : seqs[i] \in Seq(V)
    BY <1>1
  <2>2. PICK W : W = Seq(V)
    OBVIOUS
  <2>3. seqs \in Seq(W)
    <3>1. \A i \in 1..n : seqs[i] \in W
      BY <2>1, <2>2
    <3> QED
      BY <2>1, <3>1, IsSeq
  <2> QED
    BY <2>2, <2>3
<1>3. PICK f : Flattened(seqs, f) /\ FlattenSeq(seqs) = f[Len(seqs)]
  BY <1>2, FlattenIs
<1>4. f[0] = <<>> /\ \A i \in 1 .. n : f[i] = f[i - 1] \o <<s[i]>>
  BY <1>1, <1>3 DEF Flattened
<1> DEFINE T == {k \in Nat : k <= n => f[k] = SubSeq(s, 1, k)}
<1>5. 0 \in T
  <2>1. f[0] = <<>>
    BY <1>4
  <2>2. SubSeq(s, 1, 0) = <<>>
    BY <1>1
  <2>3. 0 <= n => f[0] = SubSeq(s, 1, 0)
    BY <2>1, <2>2
  <2> QED
    BY <2>3
<1>6. ASSUME NEW k \in Nat, k \in T PROVE k + 1 \in T
  <2>1. CASE k + 1 <= n
    <3>1. k + 1 \in 1..n /\ (k + 1) - 1 = k /\ k <= n
      BY <2>1
    <3>2. f[k + 1] = f[k] \o <<s[k + 1]>>
      BY <1>4, <3>1
    <3>3. f[k] = SubSeq(s, 1, k)
      BY <1>6, <3>1
    <3>4. SubSeq(s, 1, k + 1) = SubSeq(s, 1, k) \o <<s[k + 1]>>
      BY <1>1, <3>1
    <3>5. f[k + 1] = SubSeq(s, 1, k + 1)
      BY <3>2, <3>3, <3>4
    <3> QED
      BY <3>5
  <2>2. CASE ~(k + 1 <= n)
    BY <2>2
  <2> QED
    BY <2>1, <2>2
<1> HIDE DEF T
<1>7. n \in T
  BY <1>5, <1>6, NatInductive
<1>8. f[n] = SubSeq(s, 1, n)
  BY <1>7 DEF T
<1>9. SubSeq(s, 1, n) = s
  BY <1>1
<1> QED
  BY <1>1, <1>3, <1>8, <1>9

------------------------------------------------------------------------------
(* Flat trees: a fence's tree has a leaf for its root, or a data node. *)

PlaneObjects == [id : Nat, lat : Int, lon : Int, tag : {{}}, bound : (Int \X Int) \X (Int \X Int)]

\* The entries of a leaf.
DataNodes == {DataNode(o) : o \in PlaneObjects}

\* A root that is a leaf, with any number of entries.
IsLeafRoot(r) ==
  /\ r = [items |-> r.items, bound |-> r.bound, isLeaf |-> TRUE, leaf |-> NoObject]
  /\ r.items \in Seq(DataNodes)

\* What a data node is: it has an object, no entries, and is not a leaf node.
LEMMA DataNodeParts ==
  ASSUME NEW n \in DataNodes
  PROVE  /\ n = [items |-> <<>>, bound |-> n.bound, isLeaf |-> FALSE, leaf |-> n.leaf]
         /\ n.items = <<>> /\ n.isLeaf = FALSE /\ n.leaf \in PlaneObjects /\ n = DataNode(n.leaf)
         /\ n.leaf # NoObject /\ IsDataNode(n)
<1>1. PICK o \in PlaneObjects : n = DataNode(o)
  BY DEF DataNodes
<1>2. n = [items |-> <<>>, bound |-> o.bound, isLeaf |-> FALSE, leaf |-> o]
  BY <1>1 DEF DataNode
<1>3. o # NoObject
  <2>1. o.bound \in (Int \X Int) \X (Int \X Int)
    BY DEF PlaneObjects
  <2>2. o.bound # <<>>
    BY <2>1
  <2>3. NoObject.bound = <<>>
    BY DEF NoObject
  <2> QED
    BY <2>2, <2>3
<1> QED
  BY <1>1, <1>2, <1>3 DEF DataNode, IsDataNode

\* Data nodes are the bottom: opening them changes nothing.
LEMMA LeafRootOpened ==
  ASSUME NEW items \in Seq(DataNodes)
  PROVE  Opened(LAMBDA n : IF IsDataNode(n) THEN <<n>> ELSE n.items, items) = items
<1>1. PICK seqs : seqs = [i \in DOMAIN items |-> <<items[i]>>]
  OBVIOUS
<1>2. \A i \in DOMAIN items : items[i] \in DataNodes
  BY SeqParts
<1>3. seqs = [i \in DOMAIN items |-> IF IsDataNode(items[i]) THEN <<items[i]>> ELSE items[i].items]
  BY <1>1, <1>2, DataNodeParts
<1>4. FlattenSeq(seqs) = items
  BY <1>1, FlattenSingles
<1> QED
  BY <1>3, <1>4 DEF Opened

\* The objects of a leaf root are those of its entries, in their order.
LEMMA LeafRootObjects ==
  ASSUME NEW r, IsLeafRoot(r)
  PROVE  Objects(r) = [i \in DOMAIN r.items |-> r.items[i].leaf]
<1> DEFINE open(n) == IF IsDataNode(n) THEN <<n>> ELSE n.items
           next(nodes) == Opened(open, nodes)
           P(g) == g = [k \in 0..MaxHeight |-> IF k = 0 THEN <<r>> ELSE next(g[k - 1])]
<1>1. PICK n \in Nat \ {0} : n = MaxHeight
  BY RtreeAssumption
<1>2. PICK s : s = r.items
  OBVIOUS
<1>3. next(<<r>>) = s
  <2>1. ~IsDataNode(r)
    BY DEF IsLeafRoot, IsDataNode
  <2>2. [i \in DOMAIN <<r>> |-> open(<<r>>[i])] = <<s>>
    BY <1>2, <2>1
  <2> QED
    BY <1>2, <2>2, FlattenOne DEF Opened, IsLeafRoot
<1>4. next(s) = s
  BY <1>2, LeafRootOpened DEF IsLeafRoot
<1>6. Objects(r) = [i \in DOMAIN (CHOOSE g : P(g))[MaxHeight] |-> (CHOOSE g : P(g))[MaxHeight][i].leaf]
  BY DEF Objects, Loop
<1> HIDE DEF next
<1>7. P([k \in 0..MaxHeight |-> IF k = 0 THEN <<r>> ELSE s])
  BY <1>1, <1>3, <1>4
<1>8. PICK g : g = (CHOOSE f : P(f))
  OBVIOUS
<1>9. P(g)
  BY <1>7, <1>8
<1>10. g = [k \in 0..n |-> IF k = 0 THEN <<r>> ELSE next(g[k - 1])]
  BY <1>9, <1>1
<1> HIDE DEF P
<1>11. g[1] = s
  <2>1. g[0] = <<r>> /\ g[1] = next(g[0])
    BY <1>10
  <2> QED
    BY <2>1, <1>3
<1>12. ASSUME NEW k \in 2..n, g[k - 1] = s PROVE g[k] = s
  <2>1. g[k] = next(g[k - 1])
    BY <1>10
  <2> QED
    BY <2>1, <1>4, <1>12
<1>13. g[n] = s
  BY <1>11, <1>12, RoundsIdleAfterOne
<1> QED
  BY <1>1, <1>2, <1>6, <1>8, <1>13

\* A data node at the root has the one object.
LEMMA DataRootObjects ==
  ASSUME NEW r \in DataNodes
  PROVE  Objects(r) = <<r.leaf>>
<1> DEFINE open(n) == IF IsDataNode(n) THEN <<n>> ELSE n.items
           next(nodes) == Opened(open, nodes)
           P(g) == g = [k \in 0..MaxHeight |-> IF k = 0 THEN <<r>> ELSE next(g[k - 1])]
<1>1. PICK n \in Nat : n = MaxHeight
  BY RtreeAssumption
<1>2. PICK s : s = <<r>>
  OBVIOUS
<1>3. next(s) = s
  <2>1. s \in Seq(DataNodes)
    BY <1>2
  <2> QED
    BY <2>1, LeafRootOpened
<1>6. Objects(r) = [i \in DOMAIN (CHOOSE g : P(g))[MaxHeight] |-> (CHOOSE g : P(g))[MaxHeight][i].leaf]
  BY DEF Objects, Loop
<1> HIDE DEF next
<1>7. P([k \in 0..MaxHeight |-> s])
  BY <1>1, <1>2, <1>3
<1>8. PICK g : g = (CHOOSE f : P(f))
  OBVIOUS
<1>9. P(g)
  BY <1>7, <1>8
<1>10. g = [k \in 0..n |-> IF k = 0 THEN s ELSE next(g[k - 1])]
  BY <1>9, <1>1, <1>2
<1> HIDE DEF P
<1>11. g[0] = s
  BY <1>10
<1>12. ASSUME NEW k \in 1..n, g[k - 1] = s PROVE g[k] = s
  <2>1. g[k] = next(g[k - 1])
    BY <1>10
  <2> QED
    BY <2>1, <1>3, <1>12
<1>13. g[n] = s
  BY <1>11, <1>12, RoundsIdle
<1>14. Objects(r) = [i \in DOMAIN s |-> s[i].leaf]
  BY <1>1, <1>6, <1>8, <1>13
<1> QED
  BY <1>2, <1>14

\* FindLeaf of a leaf root looks at the root alone.
LEMMA LeafRootVisited ==
  ASSUME NEW obj, NEW root, root.isLeaf
  PROVE  Visited(obj, root) = <<[node |-> root, path |-> <<>>, new |-> TRUE]>>
<1> DEFINE into(v, i) == IF overlaps(v.node.items[i].bound, obj.bound)
                      THEN <<[node |-> v.node.items[i], path |-> Append(v.path, i), new |-> TRUE]>>
                      ELSE <<>>
           below(v) == FlattenSeq([i \in DOMAIN v.node.items |-> into(v, i)])
           open(v) == IF v.new /\ ~v.node.isLeaf THEN Append(below(v), [v EXCEPT !.new = FALSE])
                   ELSE <<v>>
           next(vs) == Opened(open, vs)
           P(s, g) == g = [k \in 0..MaxHeight |-> IF k = 0 THEN s ELSE next(g[k - 1])]
<1>1. PICK n \in Nat : n = MaxHeight
  BY RtreeAssumption
<1>2. PICK v : v = [node |-> root, path |-> <<>>, new |-> TRUE]
  OBVIOUS
<1>3. PICK s : s = <<v>>
  OBVIOUS
<1>4. next(s) = s
  <2>1. open(v) = <<v>>
    BY <1>2
  <2> HIDE DEF open
  <2>2. [i \in DOMAIN s |-> open(s[i])] = <<s>>
    BY <1>3, <2>1
  <2>3. s \in Seq({v})
    BY <1>3
  <2>4. FlattenSeq(<<s>>) = s
    BY <2>3, FlattenOne
  <2> QED
    BY <2>2, <2>4 DEF Opened
<1>5. Visited(obj, root) = (CHOOSE g : P(s, g))[MaxHeight]
  BY <1>2, <1>3 DEF Visited, Loop
<1> HIDE DEF next
<1>6. P(s, [k \in 0..MaxHeight |-> s])
  BY <1>1, <1>4
<1>7. PICK g : g = (CHOOSE f : P(s, f))
  OBVIOUS
<1>8. P(s, g)
  BY <1>6, <1>7
<1>9. g = [k \in 0..n |-> IF k = 0 THEN s ELSE next(g[k - 1])]
  BY <1>8, <1>1
<1> HIDE DEF P
<1>10. g[0] = s
  BY <1>9
<1>11. ASSUME NEW k \in 1..n, g[k - 1] = s PROVE g[k] = s
  <2>1. g[k] = next(g[k - 1])
    BY <1>9
  <2> QED
    BY <2>1, <1>4, <1>11
<1>12. g[n] = s
  BY <1>10, <1>11, RoundsIdle
<1> QED
  BY <1>1, <1>2, <1>3, <1>5, <1>7, <1>12

\* FindLeaf of a data node at the root finds nothing.
LEMMA DataRootVisited ==
  ASSUME NEW obj, NEW root \in DataNodes
  PROVE  Visited(obj, root) = <<[node |-> root, path |-> <<>>, new |-> FALSE]>>
<1> DEFINE into(v, i) == IF overlaps(v.node.items[i].bound, obj.bound)
                      THEN <<[node |-> v.node.items[i], path |-> Append(v.path, i), new |-> TRUE]>>
                      ELSE <<>>
           below(v) == FlattenSeq([i \in DOMAIN v.node.items |-> into(v, i)])
           open(v) == IF v.new /\ ~v.node.isLeaf THEN Append(below(v), [v EXCEPT !.new = FALSE])
                   ELSE <<v>>
           next(vs) == Opened(open, vs)
           P(s, g) == g = [k \in 0..MaxHeight |-> IF k = 0 THEN s ELSE next(g[k - 1])]
<1>1. PICK n \in Nat \ {0} : n = MaxHeight
  BY RtreeAssumption
<1>2. PICK v : v = [node |-> root, path |-> <<>>, new |-> TRUE]
  OBVIOUS
<1>3. PICK w : w = [node |-> root, path |-> <<>>, new |-> FALSE]
  OBVIOUS
<1>4. PICK s : s = <<w>>
  OBVIOUS
<1>5. next(<<v>>) = s
  <2>1. root.items = <<>> /\ root.isLeaf = FALSE
    BY DataNodeParts
  <2>2. below(v) = <<>>
    <3>1. [i \in DOMAIN v.node.items |-> into(v, i)] = <<>>
      BY <1>2, <2>1
    <3>2. FlattenSeq(<<>>) = <<>>
      <4>1. <<>> \in Seq(Seq({}))
        OBVIOUS
      <4>2. PICK f : Flattened(<<>>, f) /\ FlattenSeq(<<>>) = f[Len(<<>>)]
        BY <4>1, FlattenIs
      <4> QED
        BY <4>2 DEF Flattened
    <3> HIDE DEF into
    <3> QED
      BY <3>1, <3>2
  <2> HIDE DEF below
  <2>3. open(v) = s
    <3>1. [v EXCEPT !.new = FALSE] = w
      <4>1. DOMAIN v = DOMAIN w /\ v.node = w.node /\ v.path = w.path /\ w.new = FALSE
        BY <1>2, <1>3
      <4>2. [v EXCEPT !.new = FALSE] = [x \in {"node", "path", "new"} |-> IF x = "new" THEN FALSE ELSE v[x]]
        BY <1>2
      <4> QED
        BY <1>3, <4>1, <4>2
    <3>2. v.new = TRUE /\ ~v.node.isLeaf
      BY <1>2, <2>1
    <3>3. Append(<<>>, w) = s
      BY <1>4
    <3> QED
      BY <2>2, <3>1, <3>2, <3>3
  <2> HIDE DEF open
  <2>4. PICK t : t = <<v>>
    OBVIOUS
  <2>5. [i \in DOMAIN t |-> open(t[i])] = <<s>>
    BY <2>3, <2>4
  <2>6. s \in Seq({w})
    BY <1>4
  <2>7. FlattenSeq(<<s>>) = s
    BY <2>6, FlattenOne
  <2> QED
    BY <2>4, <2>5, <2>7 DEF Opened
<1>6. next(s) = s
  <2>1. open(w) = <<w>>
    BY <1>3
  <2> HIDE DEF open
  <2>2. [i \in DOMAIN s |-> open(s[i])] = <<s>>
    BY <1>4, <2>1
  <2>3. s \in Seq({w})
    BY <1>4
  <2>4. FlattenSeq(<<s>>) = s
    BY <2>3, FlattenOne
  <2> QED
    BY <2>2, <2>4 DEF Opened
<1>7. Visited(obj, root) = (CHOOSE g : P(<<v>>, g))[MaxHeight]
  BY <1>2 DEF Visited, Loop
<1> HIDE DEF next
<1>8. P(<<v>>, [k \in 0..MaxHeight |-> IF k = 0 THEN <<v>> ELSE s])
  BY <1>1, <1>5, <1>6
<1>9. PICK g : g = (CHOOSE f : P(<<v>>, f))
  OBVIOUS
<1>10. P(<<v>>, g)
  BY <1>8, <1>9
<1>11. g = [k \in 0..n |-> IF k = 0 THEN <<v>> ELSE next(g[k - 1])]
  BY <1>10, <1>1
<1> HIDE DEF P
<1>12. g[1] = s
  <2>1. g[0] = <<v>> /\ g[1] = next(g[0])
    BY <1>11
  <2> QED
    BY <2>1, <1>5
<1>13. ASSUME NEW k \in 2..n, g[k - 1] = s PROVE g[k] = s
  <2>1. g[k] = next(g[k - 1])
    BY <1>11
  <2> QED
    BY <2>1, <1>6, <1>13
<1>14. g[n] = s
  BY <1>12, <1>13, RoundsIdleAfterOne
<1> QED
  BY <1>1, <1>3, <1>4, <1>7, <1>9, <1>14

\* The entries of a leaf root that have an object's ID.
Places(items, obj) == {i \in DOMAIN items : items[i].leaf.id = obj.id}

\* FindLeaf in a leaf root: the root itself, if an entry has the ID of the object.
LEMMA LeafRootFind ==
  ASSUME NEW obj, NEW root, IsLeafRoot(root)
  PROVE  FindLeaf(obj, root) = IF Places(root.items, obj) = {} THEN <<>> ELSE << <<>> >>
<1>1. PICK visited : visited = Visited(obj, root)
  OBVIOUS
<1>2. visited = <<[node |-> root, path |-> <<>>, new |-> TRUE]>>
  BY <1>1, LeafRootVisited DEF IsLeafRoot
<1> DEFINE has(node) == \E i \in DOMAIN node.items : node.items[i].leaf.id = obj.id
           found == {i \in DOMAIN visited : has(visited[i].node)}
           first == CHOOSE i \in found : \A j \in found : i <= j
<1>3. FindLeaf(obj, root) = IF found = {} THEN <<>> ELSE <<visited[first].path>>
  BY <1>1 DEF FindLeaf
<1>4. DOMAIN visited = {1} /\ visited[1].node = root /\ visited[1].path = <<>>
  BY <1>2
<1>5. has(root) <=> Places(root.items, obj) # {}
  BY DEF Places
<1> HIDE DEF has
<1>6. CASE Places(root.items, obj) = {}
  <2>1. found = {}
    BY <1>4, <1>5, <1>6
  <2> QED
    BY <1>3, <1>6, <2>1
<1>7. CASE Places(root.items, obj) # {}
  <2>1. found = {1}
    BY <1>4, <1>5, <1>7
  <2>2. first = 1
    BY <2>1
  <2> HIDE DEF first
  <2> QED
    BY <1>3, <1>4, <1>7, <2>1, <2>2
<1> QED
  BY <1>6, <1>7

\* FindLeaf in a tree whose root is a data node: nothing.
LEMMA DataRootFind ==
  ASSUME NEW obj, NEW root \in DataNodes
  PROVE  FindLeaf(obj, root) = <<>>
<1>1. PICK visited : visited = Visited(obj, root)
  OBVIOUS
<1>2. visited = <<[node |-> root, path |-> <<>>, new |-> FALSE]>>
  BY <1>1, DataRootVisited
<1> DEFINE has(node) == \E i \in DOMAIN node.items : node.items[i].leaf.id = obj.id
           found == {i \in DOMAIN visited : has(visited[i].node)}
           first == CHOOSE i \in found : \A j \in found : i <= j
<1>3. FindLeaf(obj, root) = IF found = {} THEN <<>> ELSE <<visited[first].path>>
  BY <1>1 DEF FindLeaf
<1>4. DOMAIN visited = {1} /\ visited[1].node = root
  BY <1>2
<1>5. ~has(root)
  <2>1. root.items = <<>>
    BY DataNodeParts
  <2> QED
    BY <2>1
<1> HIDE DEF has
<1>6. found = {}
  BY <1>4, <1>5
<1> QED
  BY <1>3, <1>6

\* A sequence without one of its entries: the last one takes its place.
SwappedOut(V, s, i, t) ==
  /\ t \in Seq(V) /\ Len(t) = Len(s) - 1
  /\ \A k \in 1..Len(s) - 1 : t[k] = IF k = i THEN s[Len(s)] ELSE s[k]

\* SwapOut takes one entry out and puts the last one in its place.
LEMMA SwapOutParts ==
  ASSUME NEW V, NEW s \in Seq(V), NEW i \in DOMAIN s
  PROVE  SwappedOut(V, s, i, SwapOut(s, i))
<1>n. PICK n \in Nat : n = Len(s) /\ i \in 1..n
  OBVIOUS
<1> DEFINE t == [s EXCEPT ![i] = s[n]]
<1>1. t \in Seq(V) /\ Len(t) = n /\ \A k \in 1..n : t[k] = IF k = i THEN s[n] ELSE s[k]
  <2>1. DOMAIN s = 1..n /\ \A k \in 1..n : s[k] \in V
    BY <1>n
  <2>2. t = [k \in 1..n |-> t[k]] /\ \A k \in 1..n : t[k] = IF k = i THEN s[n] ELSE s[k]
    BY <2>1
  <2>3. \A k \in 1..n : t[k] \in V
    BY <2>1, <2>2
  <2> HIDE DEF t
  <2> QED
    BY <2>2, <2>3, IsSeq
<1>2. SwapOut(s, i) = SubSeq(t, 1, n - 1)
  BY <1>n, <1>1 DEF SwapOut, Front, Last
<1> HIDE DEF t
<1>3. n - 1 \in 0..n
  BY <1>n
<1>4. SubSeq(t, 1, n - 1) \in Seq(V) /\ Len(SubSeq(t, 1, n - 1)) = n - 1
      /\ \A k \in 1..n - 1 : SubSeq(t, 1, n - 1)[k] = t[k]
  BY <1>1, <1>3
<1>5. PICK u : u = SwapOut(s, i)
  OBVIOUS
<1>6. u \in Seq(V) /\ Len(u) = n - 1 /\ \A k \in 1..n - 1 : u[k] = t[k]
  BY <1>2, <1>4, <1>5
<1>7. \A k \in 1..n - 1 : u[k] = IF k = i THEN s[n] ELSE s[k]
  BY <1>1, <1>6
<1> QED
  BY <1>n, <1>5, <1>6, <1>7 DEF SwappedOut

\* What is put in a root that is a leaf goes into the root.
LEMMA PutLeafRoot ==
  ASSUME NEW root, NEW entry, root.isLeaf
  PROVE  Put(root, entry, LeafLevel) = SplitIfFull([root EXCEPT !.items = Append(@, entry)])
<1>1. PICK d : d = Choose(root, entry, LeafLevel)
  OBVIOUS
<1>2. d = [node |-> root, path |-> <<>>]
  BY <1>1, ChooseLeafRoot
<1>3. d.node = root /\ d.path = <<>> /\ Wanted(d, LeafLevel) /\ Len(d.path) = 0
  BY <1>2 DEF Wanted, LeafLevel
<1> DEFINE along == Along(root, d.path)
           there == SplitIfFull([d.node EXCEPT !.items = Append(@, entry)])
           P(up) == up = [k \in 0..Len(d.path) |->
                            IF k = Len(d.path) THEN there ELSE Adjust(along[k], d.path[k + 1], up[k + 1])]
<1>4. Put(root, entry, LeafLevel) = (CHOOSE up : P(up))[0]
  BY <1>1, <1>3 DEF Put
<1> HIDE DEF along, there
<1>5. P([k \in 0..0 |-> there])
  BY <1>3
<1>6. PICK up : up = (CHOOSE f : P(f))
  OBVIOUS
<1>7. P(up)
  BY <1>5, <1>6
<1>8. up[0] = there
  BY <1>3, <1>7
<1> QED
  BY <1>3, <1>4, <1>6, <1>8 DEF there

\* A root without a leaf takes nothing.
LEMMA PutDataRoot ==
  ASSUME NEW root \in DataNodes, NEW entry
  PROVE  Put(root, entry, LeafLevel) = [Unsplit(root) EXCEPT !.panicked = "choose"]
<1>1. PICK d : d = Choose(root, entry, LeafLevel)
  OBVIOUS
<1>2. d = [node |-> root, path |-> <<>>] /\ root.isLeaf = FALSE
  BY <1>1, ChooseLeafRoot, DataNodeParts
<1>3. d.node = root /\ d.path = <<>> /\ ~Wanted(d, LeafLevel) /\ Len(d.path) = 0
  BY <1>2 DEF Wanted, LeafLevel
<1> DEFINE along == Along(root, d.path)
           there == [Unsplit(d.node) EXCEPT !.panicked = "choose"]
           P(up) == up = [k \in 0..Len(d.path) |->
                            IF k = Len(d.path) THEN there ELSE Adjust(along[k], d.path[k + 1], up[k + 1])]
<1>4. Put(root, entry, LeafLevel) = (CHOOSE up : P(up))[0]
  BY <1>1, <1>3 DEF Put
<1> HIDE DEF along, there
<1>5. P([k \in 0..0 |-> there])
  BY <1>3
<1>6. PICK up : up = (CHOOSE f : P(f))
  OBVIOUS
<1>7. P(up)
  BY <1>5, <1>6
<1>8. up[0] = there
  BY <1>3, <1>7
<1> QED
  BY <1>3, <1>4, <1>6, <1>8 DEF there

\* A record with the fields of an R-tree.
RtreeShape(t) ==
  t = [root |-> t.root, size |-> t.size, height |-> t.height, lost |-> t.lost,
       shared |-> t.shared, astray |-> t.astray, panicked |-> t.panicked]

\* A leaf root given field by field.
LEMMA LeafRootFields ==
  ASSUME NEW items \in Seq(DataNodes), NEW bound,
         NEW r, r = [items |-> items, bound |-> bound, isLeaf |-> TRUE, leaf |-> NoObject]
  PROVE  IsLeafRoot(r) /\ r.items = items
BY DEF IsLeafRoot

\* A node with other items, or another bound.
LEMMA NodeExcept ==
  ASSUME NEW items, NEW bound, NEW isLeaf, NEW leaf, NEW x,
         NEW r, r = [items |-> items, bound |-> bound, isLeaf |-> isLeaf, leaf |-> leaf]
  PROVE  /\ [r EXCEPT !.items = x] = [items |-> x, bound |-> bound, isLeaf |-> isLeaf, leaf |-> leaf]
         /\ [r EXCEPT !.bound = x] = [items |-> items, bound |-> x, isLeaf |-> isLeaf, leaf |-> leaf]
OBVIOUS

\* A leaf root keeps its shape when its items or its bound are replaced.
LEMMA LeafRootExcept ==
  ASSUME NEW r, IsLeafRoot(r), NEW items \in Seq(DataNodes), NEW bound
  PROVE  /\ IsLeafRoot([r EXCEPT !.items = items]) /\ [r EXCEPT !.items = items].items = items
         /\ IsLeafRoot([r EXCEPT !.bound = bound]) /\ [r EXCEPT !.bound = bound].items = r.items
<1>1. PICK i, b : i = r.items /\ b = r.bound
  OBVIOUS
<1>2. r = [items |-> i, bound |-> b, isLeaf |-> TRUE, leaf |-> NoObject] /\ i \in Seq(DataNodes)
  BY <1>1 DEF IsLeafRoot
<1>3. PICK r1 : r1 = [r EXCEPT !.items = items]
  OBVIOUS
<1>4. PICK r2 : r2 = [r EXCEPT !.bound = bound]
  OBVIOUS
<1>5. r1 = [items |-> items, bound |-> b, isLeaf |-> TRUE, leaf |-> NoObject]
  BY <1>2, <1>3, NodeExcept
<1>6. r2 = [items |-> i, bound |-> bound, isLeaf |-> TRUE, leaf |-> NoObject]
  BY <1>2, <1>4, NodeExcept
<1>7. IsLeafRoot(r1) /\ r1.items = items
  BY <1>5, LeafRootFields
<1>8. IsLeafRoot(r2) /\ r2.items = i
  BY <1>2, <1>6, LeafRootFields
<1> QED
  BY <1>1, <1>3, <1>4, <1>7, <1>8

\* One more object, the last: u is t with o put in its leaf root.
Inserted(t, o, u) ==
  /\ RtreeShape(u) /\ IsLeafRoot(u.root) /\ u.size = t.size + 1
  /\ u.root.items = Append(t.root.items, DataNode(o))
  /\ u.panicked = IF Len(t.root.items) < MaxChildItems THEN "no" ELSE "split"

\* No node was found to put an object in.
Refused(t, u) == RtreeShape(u) /\ u.root = t.root /\ u.size = t.size /\ u.panicked = "choose"

\* An object inserted into a leaf root is its last entry; one too many panics.
LEMMA InsertLeafRoot ==
  ASSUME Dimensions > 2, NEW t, RtreeShape(t), t.panicked = "no", IsLeafRoot(t.root), NEW o \in PlaneObjects
  PROVE  Inserted(t, o, InsertLeaf(t, o, FALSE))
<1>u. PICK u : u = InsertLeaf(t, o, FALSE)
  OBVIOUS
<1>n. PICK n \in Nat : n = Len(t.root.items)
  <2>1. t.root.items \in Seq(DataNodes)
    BY DEF IsLeafRoot
  <2> QED
    BY <2>1
<1>1. PICK r : r = t.root
  OBVIOUS
<1>2. PICK items : items = Append(r.items, DataNode(o))
  OBVIOUS
<1>3. PICK l : l = [r EXCEPT !.items = items]
  OBVIOUS
<1>4. /\ items \in Seq(DataNodes) /\ Len(items) = n + 1
      /\ \A i \in 1..n + 1 : items[i] \in DataNodes
  <2>1. r.items \in Seq(DataNodes) /\ DataNode(o) \in DataNodes
    BY <1>1 DEF IsLeafRoot, DataNodes
  <2> QED
    BY <1>n, <1>1, <1>2, <2>1
<1>5. IsLeafRoot(l) /\ l.items = items /\ IsLeafRoot(Bounded(l)) /\ Bounded(l).items = items
  <2>1. IsLeafRoot(l) /\ l.items = items
    <3>1. IsLeafRoot(r)
      BY <1>1
    <3>2. IsLeafRoot([r EXCEPT !.items = items]) /\ [r EXCEPT !.items = items].items = items
      BY <1>4, <3>1, LeafRootExcept
    <3> QED
      BY <1>3, <3>2
  <2>2. PICK b : b = ComputeBB(l)
    OBVIOUS
  <2>3. IsLeafRoot([l EXCEPT !.bound = b]) /\ [l EXCEPT !.bound = b].items = items
    BY <1>4, <2>1, LeafRootExcept
  <2> QED
    BY <2>1, <2>2, <2>3 DEF Bounded
<1>6. PICK put : put = SplitIfFull(l)
  OBVIOUS
<1>7. u = Settle(t, put, 1)
  <2>1. Put(r, DataNode(o), LeafLevel) = put
    BY <1>1, <1>2, <1>3, <1>6, PutLeafRoot DEF IsLeafRoot
  <2> QED
    BY <1>u, <1>1, <2>1 DEF InsertLeaf
<1>8. PICK size, height, lost, shared, astray :
        /\ size = t.size + 1 /\ height = t.height /\ lost = t.lost \cup {}
        /\ shared = (t.shared \/ FALSE) /\ astray = t.astray
  OBVIOUS
<1>v. PICK v : v = u
  OBVIOUS
<1>9. CASE n < MaxChildItems
  <2>1. ~(Len(l.items) > MaxChildItems)
    BY <1>4, <1>5, <1>9, RtreeAssumption
  <2>2. put = [node |-> l, partner |-> <<>>, lost |-> {}, shared |-> FALSE, panicked |-> "no"]
    BY <1>6, <2>1 DEF SplitIfFull, Unsplit
  <2>3. PICK root : root = Bounded(l)
    OBVIOUS
  <2>4. v = [root |-> root, size |-> size, height |-> height, lost |-> lost,
             shared |-> shared, astray |-> astray, panicked |-> "no"]
    BY <1>v, <1>7, <1>8, <2>2, <2>3 DEF Settle, RtreeShape
  <2>5. RtreeShape(v) /\ v.root = root /\ v.size = size /\ v.panicked = "no"
    <3>1. v.root = root /\ v.size = size /\ v.panicked = "no"
      BY <2>4
    <3>2. v = [root |-> v.root, size |-> v.size, height |-> v.height, lost |-> v.lost,
               shared |-> v.shared, astray |-> v.astray, panicked |-> v.panicked]
      BY <2>4
    <3>3. RtreeShape(v)
      BY <3>2 DEF RtreeShape
    <3> QED
      BY <3>1, <3>3
  <2> QED
    BY <1>u, <1>n, <1>1, <1>2, <1>5, <1>8, <1>9, <1>v, <2>3, <2>5 DEF Inserted
<1>10. CASE ~(n < MaxChildItems)
  <2>1. Len(l.items) > MaxChildItems
    BY <1>4, <1>5, <1>10, RtreeAssumption
  <2>2. Dimensions > Len(Head(l.items).bound)
    <3>1. Head(l.items) = items[1] /\ items[1] \in DataNodes
      BY <1>4, <1>5
    <3>2. Head(l.items).bound \in (Int \X Int) \X (Int \X Int)
      BY <3>1 DEF DataNodes, DataNode, PlaneObjects
    <3> QED
      BY <3>2
  <2>3. put = [Unsplit(l) EXCEPT !.panicked = "split"]
    BY <1>6, <2>1, <2>2 DEF SplitIfFull, splitNode
  <2>4. put = [node |-> l, partner |-> <<>>, lost |-> {}, shared |-> FALSE, panicked |-> "split"]
    BY <2>3 DEF Unsplit
  <2>5. v = [root |-> l, size |-> size, height |-> height, lost |-> lost,
             shared |-> shared, astray |-> astray, panicked |-> "split"]
    BY <1>v, <1>7, <1>8, <2>4 DEF Settle, RtreeShape
  <2>6. RtreeShape(v) /\ v.root = l /\ v.size = size /\ v.panicked = "split"
    <3>1. v.root = l /\ v.size = size /\ v.panicked = "split"
      BY <2>5
    <3>2. v = [root |-> v.root, size |-> v.size, height |-> v.height, lost |-> v.lost,
               shared |-> v.shared, astray |-> v.astray, panicked |-> v.panicked]
      BY <2>5
    <3>3. RtreeShape(v)
      BY <3>2 DEF RtreeShape
    <3> QED
      BY <3>1, <3>3
  <2> QED
    BY <1>u, <1>n, <1>1, <1>2, <1>5, <1>8, <1>10, <1>v, <2>6 DEF Inserted
<1> QED
  BY <1>9, <1>10

\* An insertion into a tree whose root is a data node finds no leaf: it panics.
LEMMA InsertDataRoot ==
  ASSUME NEW t, RtreeShape(t), t.panicked = "no", t.root \in DataNodes, NEW o
  PROVE  Refused(t, InsertLeaf(t, o, FALSE))
<1>u. PICK u : u = InsertLeaf(t, o, FALSE)
  OBVIOUS
<1>1. PICK put : put = [Unsplit(t.root) EXCEPT !.panicked = "choose"]
  OBVIOUS
<1>2. u = Settle(t, put, 1)
  BY <1>u, <1>1, PutDataRoot DEF InsertLeaf
<1>3. put = [node |-> t.root, partner |-> <<>>, lost |-> {}, shared |-> FALSE, panicked |-> "choose"]
  BY <1>1 DEF Unsplit
<1>4. PICK root, size, height, lost, shared, astray :
        /\ root = t.root /\ size = t.size /\ height = t.height /\ lost = t.lost \cup {}
        /\ shared = (t.shared \/ FALSE) /\ astray = t.astray
  OBVIOUS
<1>v. PICK v : v = u
  OBVIOUS
<1>5. v = [root |-> root, size |-> size, height |-> height, lost |-> lost,
           shared |-> shared, astray |-> astray, panicked |-> "choose"]
  BY <1>v, <1>2, <1>3, <1>4 DEF Settle, RtreeShape
<1>6. RtreeShape(v) /\ v.root = root /\ v.size = size /\ v.panicked = "choose"
  <2>1. v.root = root /\ v.size = size /\ v.panicked = "choose"
    BY <1>5
  <2>2. v = [root |-> v.root, size |-> v.size, height |-> v.height, lost |-> v.lost,
             shared |-> v.shared, astray |-> v.astray, panicked |-> v.panicked]
    BY <1>5
  <2>3. RtreeShape(v)
    BY <2>2 DEF RtreeShape
  <2> QED
    BY <2>1, <2>3
<1> QED
  BY <1>u, <1>4, <1>6, <1>v DEF Refused

\* Nothing queued, nothing put back.
LEMMA CondenseNothing ==
  ASSUME NEW rt, NEW removed, removed.queue = <<>>
  PROVE  condenseTree(rt, removed)
            = [rt EXCEPT !.root = IF removed.node.items = <<>> THEN removed.node ELSE Bounded(removed.node)]
<1> DEFINE root == removed.node
           top == [rt EXCEPT !.root = IF root.items = <<>> THEN root ELSE Bounded(root)]
           back(t, orphan) ==
            [Reinsert(t, orphan) EXCEPT !.astray = @ \/ (~orphan.node.isLeaf /\ t.height # rt.height)]
           P(f) == f = [s \in SUBSET (DOMAIN <<>>) |->
                          IF s = {} THEN top ELSE back(f[s \ {Max(s)}], <<>>[Max(s)])]
<1>1. condenseTree(rt, removed) = (CHOOSE f : P(f))[DOMAIN <<>>]
  BY DEF condenseTree, FoldLeft, MapThenFoldSet
<1> HIDE DEF top, back
<1>2. DOMAIN <<>> = {}
  OBVIOUS
<1>3. P([s \in {{}} |-> top])
  BY <1>2
<1>4. PICK f : f = (CHOOSE g : P(g))
  OBVIOUS
<1>5. P(f)
  BY <1>3, <1>4
<1>6. f[{}] = top
  BY <1>2, <1>5
<1> QED
  BY <1>1, <1>2, <1>4, <1>6 DEF top

\* The entry that Delete takes out is one that has the ID.
LEMMA TheEntryIs ==
  ASSUME NEW node, NEW obj, NEW n \in Nat, DOMAIN node.items = 1..n, Places(node.items, obj) # {}
  PROVE  TheEntry(node, obj) \in Places(node.items, obj)
<1> DEFINE S == Places(node.items, obj)
           P(i) == node.items[i].leaf.id = obj.id
           Q(i) == P(i) /\ \A j \in 1..(i - 1) : ~P(j)
<1>1. PICK i \in S : \A j \in S : i <= j
  <2>1. S \subseteq Nat /\ S # {}
    BY DEF Places
  <2> HIDE DEF S
  <2> QED
    BY <2>1, LeastNumber
<1>2. i \in 1..n /\ P(i)
  BY DEF Places
<1>3. \A j \in 1..(i - 1) : ~P(j)
  BY <1>1, <1>2 DEF Places
<1>4. TheEntry(node, obj) = CHOOSE k \in DOMAIN node.items : Q(k)
  BY DEF TheEntry, First
<1> HIDE DEF P
<1>5. TheEntry(node, obj) \in DOMAIN node.items /\ P(TheEntry(node, obj))
  BY <1>2, <1>3, <1>4
<1> QED
  BY <1>5 DEF P, Places

\* Removing an object from a leaf root: its entry is swapped out, nothing is queued.
LEMMA RemoveLeafRoot ==
  ASSUME NEW root, NEW obj
  PROVE  Remove1(root, <<>>, obj)
            = [node |-> [root EXCEPT !.items = SwapOut(@, TheEntry(root, obj))], queue |-> <<>>]
<1>1. PICK path : path = <<>>
  OBVIOUS
<1>2. Len(path) = 0
  BY <1>1
<1> DEFINE along == Along(root, path)
           taken(node) == [node EXCEPT !.items = SwapOut(@, TheEntry(node, obj))]
           up(node, i, below, level) ==
            IF Len(below.node.items) < MinChildItems
            THEN [node |-> [node EXCEPT !.items = SwapOut(@, i)],
                  queue |-> Append(below.queue, [node |-> below.node, level |-> level])]
            ELSE [node |-> [node EXCEPT !.items[i] = Bounded(below.node)], queue |-> below.queue]
           P(removed) == removed = [k \in 0..Len(path) |->
                IF k = Len(path) THEN [node |-> taken(along[k]), queue |-> <<>>]
                ELSE up(along[k], path[k + 1], removed[k + 1], k + 2)]
<1>3. Remove1(root, path, obj) = (CHOOSE removed : P(removed))[0]
  BY DEF Remove1
<1>4. along[0] = root
  <2> DEFINE A(at) == at = [k \in 0..Len(path) |-> IF k = 0 THEN root ELSE at[k - 1].items[path[k]]]
  <2>1. along = CHOOSE at : A(at)
    BY DEF Along
  <2>2. A([k \in 0..0 |-> root])
    BY <1>2
  <2>3. A(along)
    <3> HIDE DEF along, A
    <3> QED
      BY <2>1, <2>2
  <2> HIDE DEF along
  <2> QED
    BY <1>2, <2>3
<1> HIDE DEF along, up, taken
<1>5. P([k \in 0..0 |-> [node |-> taken(along[0]), queue |-> <<>>]])
  BY <1>2
<1>6. PICK removed : removed = (CHOOSE f : P(f))
  OBVIOUS
<1>7. P(removed)
  BY <1>5, <1>6
<1>8. removed[0] = [node |-> taken(along[0]), queue |-> <<>>]
  BY <1>2, <1>7
<1> QED
  BY <1>1, <1>3, <1>4, <1>6, <1>8 DEF taken

\* One object less, the last one in its place: u is t without the object, from the
\* i-th entry of its leaf root.  A root that held two gives way to the one left.
DeletedAt(t, i, u) ==
  LET n == Len(t.root.items)
      rest == SwapOut(t.root.items, i)
  IN  /\ RtreeShape(u) /\ u.size = t.size - 1 /\ u.panicked = "no"
      /\ rest \in Seq(DataNodes) /\ Len(rest) = n - 1
      /\ n = 2 => u.root \in DataNodes /\ u.root = rest[1]
      /\ n # 2 => IsLeafRoot(u.root) /\ u.root.items = rest

\* Delete of an object that a leaf root has takes out one entry with its ID.
LEMMA DeleteLeafRoot ==
  ASSUME NEW t, RtreeShape(t), t.panicked = "no", IsLeafRoot(t.root), t.size \in Int,
         NEW o, Places(t.root.items, o) # {}
  PROVE  \E i \in Places(t.root.items, o) : DeletedAt(t, i, Delete(t, o))
<1>u. PICK u : u = Delete(t, o)
  OBVIOUS
<1>m. PICK m \in Nat : m = Len(t.root.items)
  <2>1. t.root.items \in Seq(DataNodes)
    BY DEF IsLeafRoot
  <2> QED
    BY <2>1
<1>1. PICK r : r = t.root
  OBVIOUS
<1>2. IsLeafRoot(r) /\ r.items \in Seq(DataNodes) /\ Len(r.items) = m /\ DOMAIN r.items = 1..m
  <2>1. IsLeafRoot(r)
    BY <1>1
  <2>2. r.items \in Seq(DataNodes)
    BY <2>1 DEF IsLeafRoot
  <2> QED
    BY <1>m, <1>1, <2>1, <2>2
<1>3. PICK i : i = TheEntry(r, o)
  OBVIOUS
<1>4. i \in Places(r.items, o) /\ i \in 1..m
  <2>1. Places(r.items, o) # {}
    BY <1>1
  <2>2. i \in Places(r.items, o)
    BY <1>2, <1>3, <2>1, TheEntryIs
  <2> QED
    BY <1>2, <2>2 DEF Places
<1>5. PICK rest : rest = SwapOut(r.items, i)
  OBVIOUS
<1>6. rest \in Seq(DataNodes) /\ Len(rest) = m - 1
  <2>1. SwappedOut(DataNodes, r.items, i, rest)
    BY <1>2, <1>4, <1>5, SwapOutParts
  <2> QED
    BY <1>2, <2>1 DEF SwappedOut
<1>7. PICK removed : removed = Remove1(r, <<>>, o)
  OBVIOUS
<1>8. PICK node : node = [r EXCEPT !.items = rest]
  OBVIOUS
<1>9. removed.node = node /\ removed.queue = <<>>
  <2>1. removed = [node |-> [r EXCEPT !.items = SwapOut(@, TheEntry(r, o))], queue |-> <<>>]
    BY <1>7, RemoveLeafRoot
  <2>2. [r EXCEPT !.items = SwapOut(@, TheEntry(r, o))] = node
    BY <1>3, <1>5, <1>8
  <2> QED
    BY <2>1, <2>2
<1>10. IsLeafRoot(node) /\ node.items = rest
  BY <1>2, <1>6, <1>8, LeafRootExcept
<1>11. PICK lost : lost = t.lost \cup LostWith(r, <<>>, o)
  OBVIOUS
<1>12. PICK s : s = [t EXCEPT !.lost = lost]
  OBVIOUS
<1>13. PICK root : root = IF node.items = <<>> THEN node ELSE Bounded(node)
  OBVIOUS
<1>14. IsLeafRoot(root) /\ root.items = rest
  <2>1. IsLeafRoot(Bounded(node)) /\ Bounded(node).items = rest
    <3>1. PICK b : b = ComputeBB(node)
      OBVIOUS
    <3>2. IsLeafRoot([node EXCEPT !.bound = b]) /\ [node EXCEPT !.bound = b].items = node.items
      BY <1>6, <1>10, LeafRootExcept
    <3> QED
      BY <1>10, <3>1, <3>2 DEF Bounded
  <2> QED
    BY <1>10, <1>13, <2>1
<1>15. PICK after : after = condenseTree(s, removed)
  OBVIOUS
<1>16. after = [s EXCEPT !.root = root]
  BY <1>9, <1>13, <1>15, CondenseNothing
<1>17. PICK size, height, shared, astray :
        size = t.size /\ height = t.height /\ shared = t.shared /\ astray = t.astray
  OBVIOUS
<1>18. t = [root |-> r, size |-> size, height |-> height, lost |-> t.lost,
            shared |-> shared, astray |-> astray, panicked |-> "no"]
  BY <1>1, <1>17 DEF RtreeShape
<1>19. s = [root |-> r, size |-> size, height |-> height, lost |-> lost,
            shared |-> shared, astray |-> astray, panicked |-> "no"]
  BY <1>12, <1>18
<1>20. after = [root |-> root, size |-> size, height |-> height, lost |-> lost,
                shared |-> shared, astray |-> astray, panicked |-> "no"]
  BY <1>16, <1>19
<1>21. PICK w : w = [after EXCEPT !.size = @ - 1]
  OBVIOUS
<1>22. w = [root |-> root, size |-> size - 1, height |-> height, lost |-> lost,
            shared |-> shared, astray |-> astray, panicked |-> "no"]
  BY <1>20, <1>21
<1>v. PICK v : v = u
  OBVIOUS
<1>23. v = ShrinkRoot(w)
  <2>1. FindLeaf(o, r) = << <<>> >>
    <3>1. Places(r.items, o) # {}
      BY <1>4
    <3> QED
      BY <1>2, <3>1, LeafRootFind
  <2>2. FindLeaf(o, r) # <<>> /\ Head(FindLeaf(o, r)) = <<>>
    BY <2>1
  <2>3. u = Smaller(Without(t, <<>>, o))
    BY <1>u, <1>1, <2>2 DEF Delete
  <2>4. [t EXCEPT !.lost = @ \cup LostWith(r, <<>>, o)] = s
    BY <1>11, <1>12
  <2>5. Without(t, <<>>, o) = after
    BY <1>1, <1>7, <1>15, <2>4 DEF Without
  <2>6. after.panicked = "no"
    BY <1>20
  <2> QED
    BY <1>v, <1>21, <2>3, <2>5, <2>6 DEF Smaller
<1>24. CASE m = 2
  <2>1. Len(rest) = 1 /\ Head(rest) = rest[1] /\ rest[1] \in DataNodes
    <3>1. m - 1 = 1
      BY <1>24
    <3>2. Len(rest) = 1
      BY <1>6, <3>1
    <3>3. 1 \in DOMAIN rest /\ Head(rest) = rest[1]
      BY <1>6, <3>2
    <3> QED
      BY <1>6, <3>2, <3>3, SeqParts
  <2>2. PICK one : one = rest[1]
    OBVIOUS
  <2>3. w.root.items = rest
    BY <1>14, <1>22
  <2>4. v = [w EXCEPT !.root = one, !.height = @ - 1]
    BY <1>23, <2>1, <2>2, <2>3 DEF ShrinkRoot
  <2>5. v = [root |-> one, size |-> size - 1, height |-> height - 1, lost |-> lost,
             shared |-> shared, astray |-> astray, panicked |-> "no"]
    BY <1>22, <2>4
  <2>6. v.root = one /\ v.size = size - 1 /\ v.panicked = "no"
    BY <2>5
  <2>7. v = [root |-> v.root, size |-> v.size, height |-> v.height, lost |-> v.lost,
             shared |-> v.shared, astray |-> v.astray, panicked |-> v.panicked]
    BY <2>5
  <2>8. RtreeShape(v)
    BY <2>7 DEF RtreeShape
  <2> QED
    <3>1. DeletedAt(t, i, u)
      BY <1>m, <1>1, <1>5, <1>6, <1>17, <1>v, <1>24, <2>1, <2>2, <2>6, <2>8 DEF DeletedAt
    <3> QED
      BY <1>u, <1>1, <1>4, <3>1
<1>25. CASE m # 2
  <2>1. Len(w.root.items) # 1
    <3>1. w.root.items = rest
      BY <1>14, <1>22
    <3>2. m - 1 # 1
      BY <1>25
    <3> QED
      BY <1>6, <3>1, <3>2
  <2>2. v = w
    BY <1>23, <2>1 DEF ShrinkRoot
  <2>3. v.root = root /\ v.size = size - 1 /\ v.panicked = "no"
    BY <1>22, <2>2
  <2>4. v = [root |-> v.root, size |-> v.size, height |-> v.height, lost |-> v.lost,
             shared |-> v.shared, astray |-> v.astray, panicked |-> v.panicked]
    BY <1>22, <2>2
  <2>5. RtreeShape(v)
    BY <2>4 DEF RtreeShape
  <2> QED
    <3>1. DeletedAt(t, i, u)
      BY <1>m, <1>1, <1>5, <1>6, <1>14, <1>17, <1>v, <1>25, <2>3, <2>5 DEF DeletedAt
    <3> QED
      BY <1>u, <1>1, <1>4, <3>1
<1> QED
  BY <1>24, <1>25

\* The trees there can be in a fence: the root is a leaf, or a data node.
FlatTree(t) ==
  /\ RtreeShape(t) /\ t.panicked = "no" /\ t.size \in Int
  /\ IsLeafRoot(t.root) \/ t.root \in DataNodes

HealthyTree(t) == FlatTree(t) /\ IsLeafRoot(t.root) /\ Len(t.root.items) <= MaxChildItems

\* The object goes from the i-th entry of t to the last one of u.
ReplacedAt(t, i, o, u) ==
  LET n == Len(t.root.items)
      rest == SwapOut(t.root.items, i)
  IN  /\ RtreeShape(u) /\ rest \in Seq(DataNodes) /\ Len(rest) = n - 1
      /\ n = 2 => /\ u.root \in DataNodes /\ u.root = rest[1]
                  /\ u.size = t.size - 1 /\ u.panicked = "choose"
      /\ n # 2 => /\ IsLeafRoot(u.root) /\ u.root.items = Append(rest, DataNode(o))
                  /\ u.size = t.size
                  /\ u.panicked = IF n - 1 < MaxChildItems THEN "no" ELSE "split"

\* The objects of a leaf root, entry by entry.
LEMMA LeafObjects ==
  ASSUME NEW r, IsLeafRoot(r), NEW n \in Nat, n = Len(r.items)
  PROVE  /\ r.items \in Seq(DataNodes) /\ DOMAIN r.items = 1..n
         /\ Objects(r) \in Seq(PlaneObjects) /\ Len(Objects(r)) = n
         /\ \A i \in 1..n : /\ Objects(r)[i] = r.items[i].leaf
                            /\ r.items[i] = DataNode(Objects(r)[i])
<1>m. PICK m \in Nat : m = n
  OBVIOUS
<1>1. PICK items : items = r.items
  OBVIOUS
<1>2. items \in Seq(DataNodes) /\ DOMAIN items = 1..m /\ Len(items) = m
      /\ \A i \in 1..m : items[i] \in DataNodes
  <2>1. items \in Seq(DataNodes)
    BY <1>1 DEF IsLeafRoot
  <2> QED
    BY <1>m, <1>1, <2>1, SeqParts
<1>3. \A i \in 1..m : items[i].leaf \in PlaneObjects /\ items[i] = DataNode(items[i].leaf)
  BY <1>2, DataNodeParts
<1>4. PICK objs : objs = Objects(r)
  OBVIOUS
<1>5. objs = [i \in 1..m |-> items[i].leaf]
  BY <1>1, <1>2, <1>4, LeafRootObjects
<1>6. \A i \in 1..m : objs[i] = items[i].leaf
  BY <1>5
<1>7. objs = [i \in 1..m |-> objs[i]] /\ \A i \in 1..m : objs[i] \in PlaneObjects
  BY <1>3, <1>5, <1>6
<1>8. objs \in Seq(PlaneObjects) /\ Len(objs) = m
  BY <1>7, IsSeq
<1> QED
  BY <1>m, <1>1, <1>2, <1>3, <1>4, <1>6, <1>8

\* Two sequences with the same entries are the same.
LEMMA SameSeq ==
  ASSUME NEW V, NEW n \in Nat, NEW s \in Seq(V), NEW r \in Seq(V), Len(s) = n, Len(r) = n,
         \A k \in 1..n : s[k] = r[k]
  PROVE  s = r
OBVIOUS

\* No ID twice.
Distinct(objs) == \A i, j \in DOMAIN objs : objs[i].id = objs[j].id => i = j

\* The places of an ID are those of the objects.
LEMMA PlacesOfObjects ==
  ASSUME NEW r, IsLeafRoot(r), NEW o
  PROVE  Places(r.items, o) = {i \in DOMAIN Objects(r) : Objects(r)[i].id = o.id}
<1>1. PICK n \in Nat : n = Len(r.items)
  <2>1. r.items \in Seq(DataNodes)
    BY DEF IsLeafRoot
  <2> QED
    BY <2>1
<1>2. /\ DOMAIN r.items = 1..n /\ DOMAIN Objects(r) = 1..n
      /\ \A i \in 1..n : Objects(r)[i] = r.items[i].leaf
  BY <1>1, LeafObjects
<1> QED
  BY <1>2 DEF Places

\* The objects of a tree with one more.
LEMMA InsertedObjects ==
  ASSUME NEW t, IsLeafRoot(t.root), NEW o \in PlaneObjects, NEW u, Inserted(t, o, u)
  PROVE  /\ Objects(t.root) \in Seq(PlaneObjects) /\ Objects(u.root) = Append(Objects(t.root), o)
         /\ Len(t.root.items) = Len(Objects(t.root))
<1>1. PICK items : items = t.root.items
  OBVIOUS
<1>2. PICK n \in Nat : n = Len(items)
  <2>1. t.root.items \in Seq(DataNodes)
    BY DEF IsLeafRoot
  <2> QED
    BY <1>1, <2>1
<1>3. PICK objs : objs = Objects(t.root)
  OBVIOUS
<1>4. /\ items \in Seq(DataNodes) /\ objs \in Seq(PlaneObjects) /\ Len(objs) = n
      /\ \A i \in 1..n : objs[i] = items[i].leaf
  BY <1>1, <1>2, <1>3, LeafObjects
<1>5. PICK new : new = Append(items, DataNode(o))
  OBVIOUS
<1>6. IsLeafRoot(u.root) /\ u.root.items = new
  BY <1>1, <1>5 DEF Inserted
<1>7. /\ new \in Seq(DataNodes) /\ Len(new) = n + 1 /\ new[n + 1] = DataNode(o)
      /\ \A i \in 1..n : new[i] = items[i]
  <2>1. DataNode(o) \in DataNodes
    BY DEF DataNodes
  <2> QED
    BY <1>2, <1>4, <1>5, <2>1
<1>8. PICK m \in Nat : m = n + 1
  OBVIOUS
<1>9. PICK objs2 : objs2 = Objects(u.root)
  OBVIOUS
<1>10. /\ objs2 \in Seq(PlaneObjects) /\ Len(objs2) = m
       /\ \A i \in 1..m : objs2[i] = new[i].leaf
  <2>1. m = Len(u.root.items)
    BY <1>6, <1>7, <1>8
  <2> QED
    BY <1>6, <1>9, <2>1, LeafObjects
<1>11. DataNode(o).leaf = o
  BY DEF DataNode
<1>12. objs2[n + 1] = o /\ \A i \in 1..n : objs2[i] = objs[i]
  <2>1. n + 1 \in 1..m /\ \A i \in 1..n : i \in 1..m
    BY <1>8
  <2>2. objs2[n + 1] = o
    BY <1>7, <1>10, <1>11, <2>1
  <2>3. \A i \in 1..n : objs2[i] = objs[i]
    BY <1>4, <1>7, <1>10, <2>1
  <2> QED
    BY <2>2, <2>3
<1>13. objs2 = Append(objs, o)
  <2>1. Append(objs, o) \in Seq(PlaneObjects) /\ Len(Append(objs, o)) = n + 1
        /\ (\A i \in 1..n : Append(objs, o)[i] = objs[i]) /\ Append(objs, o)[n + 1] = o
    BY <1>4
  <2>2. \A i \in 1..n + 1 : objs2[i] = Append(objs, o)[i]
    BY <1>12, <2>1
  <2> QED
    BY <1>8, <1>10, <2>1, <2>2
<1> QED
  BY <1>1, <1>2, <1>3, <1>4, <1>9, <1>13

\* The objects of a tree in which one was moved to the end.
LEMMA ReplacedObjects ==
  ASSUME NEW t, IsLeafRoot(t.root), NEW o \in PlaneObjects, NEW i \in Places(t.root.items, o),
         NEW u, ReplacedAt(t, i, o, u)
  PROVE  /\ Objects(t.root) \in Seq(PlaneObjects) /\ Len(t.root.items) = Len(Objects(t.root))
         /\ i \in DOMAIN Objects(t.root) /\ SwapOut(Objects(t.root), i) \in Seq(PlaneObjects)
         /\ Len(t.root.items) = 2 => Objects(u.root) = SwapOut(Objects(t.root), i)
         /\ Len(t.root.items) # 2 => Objects(u.root) = Append(SwapOut(Objects(t.root), i), o)
<1>1. PICK items : items = t.root.items
  OBVIOUS
<1>2. PICK n \in Nat : n = Len(items)
  <2>1. t.root.items \in Seq(DataNodes)
    BY DEF IsLeafRoot
  <2> QED
    BY <1>1, <2>1
<1>3. PICK objs : objs = Objects(t.root)
  OBVIOUS
<1>4. /\ items \in Seq(DataNodes) /\ objs \in Seq(PlaneObjects) /\ Len(objs) = n
      /\ DOMAIN items = 1..n /\ DOMAIN objs = 1..n
      /\ \A k \in 1..n : objs[k] = items[k].leaf
  BY <1>1, <1>2, <1>3, LeafObjects
<1>5. i \in 1..n /\ 1 <= n
  <2>1. i \in 1..n
    BY <1>1, <1>4 DEF Places
  <2> QED
    BY <2>1
<1>6. PICK k0 \in Nat : k0 = n - 1
  BY <1>5
<1>7. PICK rest : rest = SwapOut(items, i)
  OBVIOUS
<1>8. rest \in Seq(DataNodes) /\ Len(rest) = k0
      /\ \A k \in 1..k0 : rest[k] = IF k = i THEN items[n] ELSE items[k]
  <2>1. SwappedOut(DataNodes, items, i, rest)
    BY <1>4, <1>5, <1>7, SwapOutParts
  <2> QED
    BY <1>2, <1>6, <2>1 DEF SwappedOut
<1>9. PICK out : out = SwapOut(objs, i)
  OBVIOUS
<1>10. out \in Seq(PlaneObjects) /\ Len(out) = k0
       /\ \A k \in 1..k0 : out[k] = IF k = i THEN objs[n] ELSE objs[k]
  <2>1. SwappedOut(PlaneObjects, objs, i, out)
    BY <1>4, <1>5, <1>9, SwapOutParts
  <2> QED
    BY <1>4, <1>6, <2>1 DEF SwappedOut
<1>11. \A k \in 1..k0 : out[k] = rest[k].leaf
  <2> TAKE k \in 1..k0
  <2>1. k \in 1..n /\ n \in 1..n
    BY <1>5, <1>6
  <2> QED
    BY <1>4, <1>8, <1>10, <2>1
<1>12. ASSUME n = 2 PROVE Objects(u.root) = out
  <2>1. u.root \in DataNodes /\ u.root = rest[1]
    BY <1>1, <1>2, <1>7, <1>12 DEF ReplacedAt
  <2>2. k0 = 1 /\ 1 \in 1..k0
    BY <1>6, <1>12
  <2>3. Objects(u.root) = <<rest[1].leaf>>
    BY <2>1, DataRootObjects
  <2>4. out = <<out[1]>>
    BY <1>10, <2>2
  <2> QED
    BY <1>11, <2>2, <2>3, <2>4
<1>13. ASSUME n # 2 PROVE Objects(u.root) = Append(out, o)
  <2>1. PICK new : new = Append(rest, DataNode(o))
    OBVIOUS
  <2>2. IsLeafRoot(u.root) /\ u.root.items = new
    BY <1>1, <1>2, <1>7, <1>13, <2>1 DEF ReplacedAt
  <2>3. /\ new \in Seq(DataNodes) /\ Len(new) = k0 + 1 /\ new[k0 + 1] = DataNode(o)
        /\ \A k \in 1..k0 : new[k] = rest[k]
    <3>1. DataNode(o) \in DataNodes
      BY DEF DataNodes
    <3> QED
      BY <1>8, <2>1, <3>1
  <2>4. PICK m \in Nat : m = k0 + 1
    OBVIOUS
  <2>5. PICK objs2 : objs2 = Objects(u.root)
    OBVIOUS
  <2>6. /\ objs2 \in Seq(PlaneObjects) /\ Len(objs2) = m
        /\ \A k \in 1..m : objs2[k] = new[k].leaf
    <3>1. m = Len(u.root.items)
      BY <2>2, <2>3, <2>4
    <3> QED
      BY <2>2, <2>5, <3>1, LeafObjects
  <2>7. DataNode(o).leaf = o
    BY DEF DataNode
  <2>8. objs2[k0 + 1] = o /\ \A k \in 1..k0 : objs2[k] = out[k]
    BY <1>11, <2>3, <2>4, <2>6, <2>7
  <2>9. Append(out, o) \in Seq(PlaneObjects) /\ Len(Append(out, o)) = k0 + 1
        /\ (\A k \in 1..k0 : Append(out, o)[k] = out[k]) /\ Append(out, o)[k0 + 1] = o
    BY <1>10
  <2>10. \A k \in 1..k0 + 1 : objs2[k] = Append(out, o)[k]
    BY <2>8, <2>9
  <2>11. objs2 = Append(out, o)
    <3>1. PICK out2 : out2 = Append(out, o)
      OBVIOUS
    <3>2. out2 \in Seq(PlaneObjects) /\ Len(out2) = m /\ \A k \in 1..m : objs2[k] = out2[k]
      BY <2>4, <2>9, <2>10, <3>1
    <3>3. objs2 = out2
      BY <2>6, <3>2, SameSeq
    <3> QED
      BY <3>1, <3>3
  <2> QED
    BY <2>5, <2>11
<1> QED
  BY <1>1, <1>2, <1>3, <1>4, <1>5, <1>9, <1>10, <1>12, <1>13

\* Of a sequence of objects with distinct IDs, one more with a new ID.
LEMMA AppendDistinct ==
  ASSUME NEW objs \in Seq(PlaneObjects), Distinct(objs), NEW o \in PlaneObjects,
         \A k \in DOMAIN objs : objs[k].id # o.id
  PROVE  /\ Append(objs, o) \in Seq(PlaneObjects) /\ Distinct(Append(objs, o))
         /\ Len(Append(objs, o)) = Len(objs) + 1
         /\ Range(Append(objs, o)) = Range(objs) \cup {o}
<1>1. PICK n \in Nat : n = Len(objs) /\ DOMAIN objs = 1..n
  OBVIOUS
<1>2. PICK new : new = Append(objs, o)
  OBVIOUS
<1>3. /\ new \in Seq(PlaneObjects) /\ Len(new) = n + 1 /\ DOMAIN new = 1..n + 1
      /\ new[n + 1] = o /\ \A k \in 1..n : new[k] = objs[k]
  BY <1>1, <1>2
<1>4. Distinct(new)
  <2> SUFFICES ASSUME NEW j \in 1..n + 1, NEW k \in 1..n + 1, new[j].id = new[k].id PROVE j = k
    BY <1>3 DEF Distinct
  <2>1. j \in 1..n \/ j = n + 1
    OBVIOUS
  <2>2. k \in 1..n \/ k = n + 1
    OBVIOUS
  <2> QED
    BY <1>1, <1>3, <2>1, <2>2 DEF Distinct
<1>5. Range(new) = Range(objs) \cup {o}
  <2>1. 1..n + 1 = (1..n) \cup {n + 1}
    OBVIOUS
  <2> QED
    BY <1>1, <1>3, <2>1 DEF Range
<1> QED
  BY <1>1, <1>2, <1>3, <1>4, <1>5

\* A sequence of objects with distinct IDs without its i-th.
LEMMA SwapOutDistinct ==
  ASSUME NEW objs \in Seq(PlaneObjects), Distinct(objs), NEW i \in DOMAIN objs
  PROVE  /\ SwapOut(objs, i) \in Seq(PlaneObjects) /\ Distinct(SwapOut(objs, i))
         /\ Len(SwapOut(objs, i)) = Len(objs) - 1
         /\ Range(SwapOut(objs, i)) = {x \in Range(objs) : x.id # objs[i].id}
<1>1. PICK n \in Nat : n = Len(objs) /\ DOMAIN objs = 1..n
  OBVIOUS
<1>2. i \in 1..n /\ n \in 1..n
  BY <1>1
<1>3. PICK out : out = SwapOut(objs, i)
  OBVIOUS
<1>4. out \in Seq(PlaneObjects) /\ Len(out) = n - 1 /\ DOMAIN out = 1..n - 1
      /\ \A k \in 1..n - 1 : out[k] = IF k = i THEN objs[n] ELSE objs[k]
  <2>1. SwappedOut(PlaneObjects, objs, i, out)
    BY <1>3, SwapOutParts
  <2>2. /\ out \in Seq(PlaneObjects) /\ Len(out) = n - 1
        /\ \A k \in 1..n - 1 : out[k] = IF k = i THEN objs[n] ELSE objs[k]
    BY <1>1, <2>1 DEF SwappedOut
  <2> QED
    BY <2>2
<1> DEFINE from(k) == IF k = i THEN n ELSE k
<1>5. \A k \in 1..n - 1 : out[k] = objs[from(k)] /\ from(k) \in 1..n /\ from(k) # i
  BY <1>2, <1>4
<1>6. \A j, k \in 1..n - 1 : from(j) = from(k) => j = k
  OBVIOUS
<1>7. \A m \in 1..n : m # i => \E k \in 1..n - 1 : from(k) = m
  <2> TAKE m \in 1..n
  <2>1. m # n => m \in 1..n - 1
    OBVIOUS
  <2>2. m = n /\ m # i => i \in 1..n - 1 /\ from(i) = m
    BY <1>2
  <2>3. m # n /\ m # i => m \in 1..n - 1 /\ from(m) = m
    BY <2>1
  <2> QED
    BY <2>2, <2>3
<1> HIDE DEF from
<1>8. Distinct(out)
  <2> SUFFICES ASSUME NEW j \in 1..n - 1, NEW k \in 1..n - 1, out[j].id = out[k].id PROVE j = k
    BY <1>4 DEF Distinct
  <2>1. from(j) = from(k)
    BY <1>1, <1>5 DEF Distinct
  <2> QED
    BY <1>6, <2>1
<1>9. Range(out) = {x \in Range(objs) : x.id # objs[i].id}
  <2>1. ASSUME NEW x \in Range(out) PROVE x \in Range(objs) /\ x.id # objs[i].id
    <3>1. PICK k \in 1..n - 1 : x = out[k]
      BY <1>4 DEF Range
    <3>2. x = objs[from(k)] /\ from(k) \in 1..n /\ from(k) # i
      BY <1>5, <3>1
    <3>3. x \in Range(objs)
      BY <1>1, <3>2 DEF Range
    <3>4. x.id # objs[i].id
      BY <1>1, <1>2, <3>2 DEF Distinct
    <3> QED
      BY <3>3, <3>4
  <2>2. ASSUME NEW x \in Range(objs), x.id # objs[i].id PROVE x \in Range(out)
    <3>1. PICK m \in 1..n : x = objs[m]
      BY <1>1 DEF Range
    <3>2. m # i
      BY <2>2, <3>1
    <3>3. PICK k \in 1..n - 1 : from(k) = m
      BY <1>7, <3>2
    <3>4. x = out[k]
      BY <1>5, <3>1, <3>3
    <3> QED
      BY <1>4, <3>4 DEF Range
  <2> QED
    BY <2>1, <2>2
<1> QED
  BY <1>1, <1>3, <1>4, <1>8, <1>9

------------------------------------------------------------------------------
(* The binary heap: its operations only move elements about.  Ranks may be  *)
(* any values at all: nothing here depends on how they compare.             *)

\* The sequence h has the elements of S, each once.
Lists(S, h) ==
  /\ h \in Seq(S)
  /\ \A i, j \in 1..Len(h) : h[i] = h[j] => i = j
  /\ \A x \in S : \E i \in 1..Len(h) : h[i] = x

\* Exchanging two elements.
LEMMA SwappedLists ==
  ASSUME NEW S, NEW h, Lists(S, h), NEW i \in 1..Len(h), NEW j \in 1..Len(h)
  PROVE  Lists(S, Swapped(h, i, j)) /\ Len(Swapped(h, i, j)) = Len(h)
<1>1. PICK n \in Nat : n = Len(h) /\ h \in Seq(S) /\ DOMAIN h = 1..n
  BY DEF Lists
<1>2. \A k \in 1..n : h[k] \in S
  BY <1>1
<1>3. PICK t : t = Swapped(h, i, j)
  OBVIOUS
<1> DEFINE to(k) == IF k = j THEN i ELSE IF k = i THEN j ELSE k
<1>4. t = [k \in 1..n |-> t[k]] /\ \A k \in 1..n : t[k] = h[to(k)]
  BY <1>1, <1>3 DEF Swapped
<1>5. \A k \in 1..n : to(k) \in 1..n /\ to(to(k)) = k
  BY <1>1
<1> HIDE DEF to
<1>6. t \in Seq(S) /\ Len(t) = n
  <2>1. \A k \in 1..n : t[k] \in S
    BY <1>2, <1>4, <1>5
  <2> QED
    BY <1>4, <2>1, IsSeq
<1>7. ASSUME NEW k \in 1..n, NEW l \in 1..n, t[k] = t[l] PROVE k = l
  <2>1. to(k) = to(l)
    BY <1>1, <1>4, <1>5, <1>7 DEF Lists
  <2> QED
    BY <1>5, <2>1
<1>8. ASSUME NEW x \in S PROVE \E k \in 1..n : t[k] = x
  <2>1. PICK l \in 1..n : h[l] = x
    BY <1>1 DEF Lists
  <2>2. to(l) \in 1..n /\ t[to(l)] = x
    BY <1>4, <1>5, <2>1
  <2> QED
    BY <2>2
<1> QED
  BY <1>1, <1>3, <1>6, <1>7, <1>8 DEF Lists

\* A place in a heap that lists S.
HeapAts(S, n) == {s \in [heap : Seq(S), at : 1..n] : Lists(S, s.heap) /\ Len(s.heap) = n}

\* Moving an element up.
LEMMA SiftUpLists ==
  ASSUME NEW S, NEW h, Lists(S, h), NEW i \in 1..Len(h)
  PROVE  Lists(S, SiftUp(h, i)) /\ Len(SiftUp(h, i)) = Len(h)
<1>1. PICK n \in Nat : n = Len(h)
  BY DEF Lists
<1> DEFINE up(s) == IF s.at = 1 \/ s.heap[s.at \div 2].rank <= s.heap[s.at].rank THEN s
                    ELSE [heap |-> Swapped(s.heap, s.at, s.at \div 2), at |-> s.at \div 2]
           start == [heap |-> h, at |-> i]
           W == HeapAts(S, n)
           F == [s \in W |-> up(s)]
           P(g) == g = [k \in 0..Len(h) |-> IF k = 0 THEN start ELSE up(g[k - 1])]
<1>2. SiftUp(h, i) = (CHOOSE g : P(g))[Len(h)].heap
  BY DEF SiftUp, Loop
<1>3. start \in W
  BY <1>1 DEF HeapAts, Lists
<1>4. ASSUME NEW s \in W PROVE up(s) \in W
  <2>1. CASE s.at = 1 \/ s.heap[s.at \div 2].rank <= s.heap[s.at].rank
    BY <2>1
  <2>2. CASE ~(s.at = 1 \/ s.heap[s.at \div 2].rank <= s.heap[s.at].rank)
    <3>1. PICK a \in 1..n : a = s.at
      BY DEF HeapAts
    <3>2. PICK b \in 1..n : b = s.at \div 2
      BY <1>1, <2>2, <3>1
    <3>3. PICK t : t = s.heap
      OBVIOUS
    <3>4. Lists(S, t) /\ Len(t) = n
      BY <3>3 DEF HeapAts
    <3>5. Lists(S, Swapped(t, a, b)) /\ Len(Swapped(t, a, b)) = n
      BY <3>4, SwappedLists
    <3>6. up(s) = [heap |-> Swapped(t, a, b), at |-> b]
      BY <2>2, <3>1, <3>2, <3>3
    <3>7. PICK u : u = Swapped(t, a, b)
      OBVIOUS
    <3>8. Lists(S, u) /\ Len(u) = n /\ up(s) = [heap |-> u, at |-> b]
      BY <3>5, <3>6, <3>7
    <3> HIDE DEF up
    <3>9. u \in Seq(S)
      BY <3>8 DEF Lists
    <3> QED
      BY <3>8, <3>9 DEF HeapAts
  <2> QED
    BY <2>1, <2>2
<1> HIDE DEF up, start, W
<1>5. PICK g : IsCourse(F, start, n, g) /\ \A k \in 0..n : g[k] \in W
  <2>1. \A s \in W : F[s] \in W
    BY <1>4
  <2> HIDE DEF F
  <2> QED
    BY <1>1, <1>3, <2>1, RoundsExist
<1>6. P(g)
  <2>1. \A k \in 0..n : k # 0 => F[g[k - 1]] = up(g[k - 1])
    BY <1>1, <1>5
  <2> HIDE DEF F
  <2>2. g = [k \in 0..n |-> IF k = 0 THEN start ELSE up(g[k - 1])]
    BY <1>5, <2>1 DEF IsCourse
  <2> QED
    BY <1>1, <2>2
<1>7. PICK f : f = (CHOOSE e : P(e))
  OBVIOUS
<1>8. P(f)
  BY <1>6, <1>7
<1>9. f = [k \in 0..n |-> IF k = 0 THEN start ELSE up(f[k - 1])]
  BY <1>1, <1>8
<1> HIDE DEF P
<1>10. f[0] \in W
  BY <1>1, <1>3, <1>9
<1>11. ASSUME NEW k \in 1..n, f[k - 1] \in W PROVE f[k] \in W
  <2>1. f[k] = up(f[k - 1])
    BY <1>1, <1>9
  <2> QED
    BY <1>4, <1>11, <2>1
<1>12. f[n] \in W
  <2>1. \A k \in 0..n : f[k] \in W
    BY <1>10, <1>11, RoundsKeep
  <2> QED
    BY <1>1, <2>1
<1> QED
  BY <1>1, <1>2, <1>7, <1>12 DEF W, HeapAts

\* The place an element moves down to is one of the heap.
LEMMA LesserPlace ==
  ASSUME NEW h, Len(h) \in Nat, NEW i \in 1..Len(h)
  PROVE  Lesser(h, i) \in 1..Len(h)
<1> DEFINE of(child, held) ==
            IF child <= Len(h) /\ h[child].rank <= h[held].rank THEN child ELSE held
<1>1. \A child \in Nat, held \in 1..Len(h) : child > 0 => of(child, held) \in 1..Len(h)
  OBVIOUS
<1>2. Lesser(h, i) = of(2 * i + 1, of(2 * i, i))
  BY DEF Lesser
<1> HIDE DEF of
<1>3. 2 * i \in Nat /\ 2 * i > 0 /\ 2 * i + 1 \in Nat /\ 2 * i + 1 > 0
  OBVIOUS
<1>4. of(2 * i, i) \in 1..Len(h)
  BY <1>1, <1>3
<1> QED
  BY <1>1, <1>2, <1>3, <1>4

\* Moving an element down.
LEMMA SiftDownLists ==
  ASSUME NEW S, NEW h, Lists(S, h), NEW i \in 1..Len(h)
  PROVE  Lists(S, SiftDown(h, i)) /\ Len(SiftDown(h, i)) = Len(h)
<1>1. PICK n \in Nat : n = Len(h)
  BY DEF Lists
<1> DEFINE down(s) == [heap |-> Swapped(s.heap, s.at, Lesser(s.heap, s.at)),
                       at |-> Lesser(s.heap, s.at)]
           start == [heap |-> h, at |-> i]
           W == HeapAts(S, n)
           F == [s \in W |-> down(s)]
           P(g) == g = [k \in 0..Len(h) |-> IF k = 0 THEN start ELSE down(g[k - 1])]
<1>2. SiftDown(h, i) = (CHOOSE g : P(g))[Len(h)].heap
  BY DEF SiftDown, Loop
<1>3. start \in W
  BY <1>1 DEF HeapAts, Lists
<1>4. ASSUME NEW s \in W PROVE down(s) \in W
  <2>1. PICK t : t = s.heap
    OBVIOUS
  <2>2. Lists(S, t) /\ Len(t) = n
    BY <2>1 DEF HeapAts
  <2>3. PICK a \in 1..n : a = s.at
    BY DEF HeapAts
  <2>4. Lesser(t, a) \in 1..n
    BY <1>1, <2>2, <2>3, LesserPlace
  <2>5. PICK b \in 1..n : b = Lesser(t, a)
    BY <2>4
  <2>6. PICK u : u = Swapped(t, a, b)
    OBVIOUS
  <2>7. Lists(S, u) /\ Len(u) = n
    BY <2>2, <2>6, SwappedLists
  <2>8. down(s) = [heap |-> u, at |-> b]
    BY <2>1, <2>3, <2>5, <2>6
  <2> HIDE DEF down
  <2>9. u \in Seq(S)
    BY <2>7 DEF Lists
  <2> QED
    BY <2>7, <2>8, <2>9 DEF HeapAts
<1> HIDE DEF down, start, W
<1>5. PICK g : IsCourse(F, start, n, g) /\ \A k \in 0..n : g[k] \in W
  <2>1. \A s \in W : F[s] \in W
    BY <1>4
  <2> HIDE DEF F
  <2> QED
    BY <1>1, <1>3, <2>1, RoundsExist
<1>6. P(g)
  <2>1. \A k \in 0..n : k # 0 => F[g[k - 1]] = down(g[k - 1])
    BY <1>1, <1>5
  <2> HIDE DEF F
  <2>2. g = [k \in 0..n |-> IF k = 0 THEN start ELSE down(g[k - 1])]
    BY <1>5, <2>1 DEF IsCourse
  <2> QED
    BY <1>1, <2>2
<1>7. PICK f : f = (CHOOSE e : P(e))
  OBVIOUS
<1>8. P(f)
  BY <1>6, <1>7
<1>9. f = [k \in 0..n |-> IF k = 0 THEN start ELSE down(f[k - 1])]
  BY <1>1, <1>8
<1> HIDE DEF P
<1>10. f[0] \in W
  BY <1>1, <1>3, <1>9
<1>11. ASSUME NEW k \in 1..n, f[k - 1] \in W PROVE f[k] \in W
  <2>1. f[k] = down(f[k - 1])
    BY <1>1, <1>9
  <2> QED
    BY <1>4, <1>11, <2>1
<1>12. f[n] \in W
  <2>1. \A k \in 0..n : f[k] \in W
    BY <1>10, <1>11, RoundsKeep
  <2> QED
    BY <1>1, <2>1
<1> QED
  BY <1>1, <1>2, <1>7, <1>12 DEF W, HeapAts

\* One element more.
LEMMA InsertLists ==
  ASSUME NEW S, NEW h, Lists(S, h), NEW x, x \notin S
  PROVE  Lists(S \cup {x}, Insert(h, x)) /\ Len(Insert(h, x)) = Len(h) + 1
<1>1. PICK T : T = S \cup {x}
  OBVIOUS
<1>2. PICK n \in Nat : n = Len(h)
  BY DEF Lists
<1>3. h \in Seq(T) /\ x \in T
  <2>1. h \in Seq(S) /\ S \subseteq T /\ x \in T
    BY <1>1 DEF Lists
  <2>2. DOMAIN h = 1..n /\ \A k \in 1..n : h[k] \in T
    BY <1>2, <2>1
  <2>3. h = [k \in 1..n |-> h[k]]
    BY <1>2, <2>1
  <2> QED
    BY <1>2, <2>1, <2>2, <2>3, IsSeq
<1>4. PICK t : t = Append(h, x)
  OBVIOUS
<1>5. t \in Seq(T) /\ Len(t) = n + 1 /\ (\A i \in 1..n : t[i] = h[i]) /\ t[n + 1] = x
  BY <1>2, <1>3, <1>4, AppendParts
<1>6. \A i \in 1..n : h[i] \in S
  BY <1>2 DEF Lists
<1>7. ASSUME NEW i \in 1..(n + 1), NEW j \in 1..(n + 1), t[i] = t[j] PROVE i = j
  <2>1. CASE i \in 1..n /\ j \in 1..n
    BY <1>2, <1>5, <1>7, <2>1 DEF Lists
  <2>2. CASE i = n + 1 /\ j = n + 1
    BY <2>2
  <2>3. CASE (i \in 1..n /\ j = n + 1) \/ (i = n + 1 /\ j \in 1..n)
    BY <1>5, <1>6, <1>7, <2>3
  <2> QED
    BY <1>2, <2>1, <2>2, <2>3
<1>8. ASSUME NEW y \in T PROVE \E i \in 1..(n + 1) : t[i] = y
  <2>1. CASE y = x
    <3>1. n + 1 \in 1..(n + 1)
      BY <1>2
    <3> QED
      BY <1>5, <2>1, <3>1
  <2>2. CASE y # x
    <3>1. PICK i \in 1..n : h[i] = y
      BY <1>1, <1>2, <2>2 DEF Lists
    <3>2. i \in 1..(n + 1) /\ t[i] = y
      BY <1>2, <1>5, <3>1
    <3> QED
      BY <3>2
  <2> QED
    BY <2>1, <2>2
<1>9. Lists(T, t) /\ Len(t) = n + 1 /\ n + 1 \in 1..Len(t)
  BY <1>2, <1>5, <1>7, <1>8 DEF Lists
<1>10. PICK m : m = n + 1
  OBVIOUS
<1>11. Lists(T, SiftUp(t, m)) /\ Len(SiftUp(t, m)) = Len(t)
  BY <1>9, <1>10, SiftUpLists
<1> QED
  BY <1>1, <1>2, <1>4, <1>9, <1>10, <1>11 DEF Insert

\* The first element gone.
LEMMA ExtractLists ==
  ASSUME NEW S, NEW h, Lists(S, h), h # <<>>
  PROVE  /\ h[1] \in S /\ Len(h) \in Nat /\ Len(h) >= 1
         /\ Lists(S \ {h[1]}, ExtractMin(h)) /\ Len(ExtractMin(h)) = Len(h) - 1
<1>1. PICK n \in Nat : n = Len(h)
  BY DEF Lists
<1>2. n >= 1 /\ h \in Seq(S) /\ DOMAIN h = 1..n /\ 1 \in DOMAIN h /\ h[1] \in S
  BY <1>1 DEF Lists
<1>3. PICK T : T = S \ {h[1]}
  OBVIOUS
<1>4. \A i \in 1..n : i # 1 => h[i] \in T
  BY <1>1, <1>2, <1>3 DEF Lists
<1>5. \A x \in T : \E i \in 1..n : i # 1 /\ h[i] = x
  BY <1>1, <1>2, <1>3 DEF Lists
<1>6. CASE n = 1
  <2>1. T = {}
    BY <1>5, <1>6
  <2>2. Lists(T, <<>>)
    BY <2>1 DEF Lists
  <2>3. ExtractMin(h) = <<>>
    BY <1>1, <1>6 DEF ExtractMin
  <2> QED
    BY <1>1, <1>2, <1>3, <1>6, <2>2, <2>3
<1>7. CASE n # 1
  <2>1. PICK t : t = SwapOut(h, 1)
    OBVIOUS
  <2>2. SwappedOut(S, h, 1, t)
    BY <1>2, <2>1, SwapOutParts
  <2>3. PICK m \in Nat : m = n - 1 /\ m >= 1
    BY <1>2, <1>7
  <2>4. t \in Seq(S) /\ Len(t) = m /\ DOMAIN t = 1..m
        /\ \A k \in 1..m : t[k] = IF k = 1 THEN h[n] ELSE h[k]
    BY <1>1, <2>2, <2>3 DEF SwappedOut
  <2> DEFINE from(k) == IF k = 1 THEN n ELSE k
  <2>5. /\ \A k \in 1..m : from(k) \in 1..n /\ from(k) # 1 /\ t[k] = h[from(k)]
        /\ \A k, l \in 1..m : from(k) = from(l) => k = l
    BY <2>3, <2>4
  <2>6. \A i \in 1..n : i # 1 => \E k \in 1..m : from(k) = i
    <3>1. ASSUME NEW i \in 1..n, i # 1 PROVE \E k \in 1..m : from(k) = i
      <4>1. CASE i = n
        <5>1. 1 \in 1..m /\ from(1) = i
          BY <2>3, <4>1
        <5> QED
          BY <5>1
      <4>2. CASE i # n
        <5>1. i \in 1..m /\ from(i) = i
          BY <2>3, <3>1, <4>2
        <5> QED
          BY <5>1
      <4> QED
        BY <4>1, <4>2
    <3> QED
      BY <3>1
  <2> HIDE DEF from
  <2>7. \A k \in 1..m : t[k] \in T
    BY <1>4, <2>5
  <2>8. t \in Seq(T)
    <3>1. t = [k \in 1..m |-> t[k]]
      BY <2>4
    <3> QED
      BY <2>7, <3>1, <2>3, IsSeq
  <2>9. ASSUME NEW k \in 1..m, NEW l \in 1..m, t[k] = t[l] PROVE k = l
    <3>1. from(k) = from(l)
      BY <1>1, <2>5, <2>9 DEF Lists
    <3> QED
      BY <2>5, <3>1
  <2>10. ASSUME NEW x \in T PROVE \E k \in 1..m : t[k] = x
    <3>1. PICK i \in 1..n : i # 1 /\ h[i] = x
      BY <1>5
    <3>2. PICK k \in 1..m : from(k) = i
      BY <2>6, <3>1
    <3>3. t[k] = x
      BY <2>5, <3>1, <3>2
    <3> QED
      BY <3>3
  <2>11. Lists(T, t) /\ 1 \in 1..Len(t) /\ Len(t) = m
    BY <2>3, <2>4, <2>8, <2>9, <2>10 DEF Lists
  <2>12. Lists(T, SiftDown(t, 1)) /\ Len(SiftDown(t, 1)) = m
    BY <2>11, SiftDownLists
  <2>13. ExtractMin(h) = SiftDown(t, 1)
    BY <1>1, <1>7, <2>1 DEF ExtractMin, SwapOut
  <2> QED
    BY <1>1, <1>2, <1>3, <2>3, <2>12, <2>13
<1> QED
  BY <1>6, <1>7

------------------------------------------------------------------------------
(* The queue of the nearest neighbour walk of a leaf root: an entry is      *)
(* queued by its box, then, if it is put back, by its object.               *)

\* An entry queued by the distance of its box.
ByBox(items, p, i) == [rank |-> minDist(p, items[i].bound), item |-> items[i],
                       isData |-> TRUE, isMBR |-> TRUE]

\* An entry put back by the distance of its object.
ByObject(items, p, i) == [rank |-> euclidianDistanceEquiRectangularAprox(p, items[i].leaf),
                          item |-> items[i], isData |-> TRUE, isMBR |-> FALSE]

\* The queue's elements: the entries of A by box, those of B by object.
Queued(items, p, A, B) == {ByBox(items, p, i) : i \in A} \cup {ByObject(items, p, i) : i \in B}

\* No two entries are the same.
NoTwins(items) == \A i, j \in 1..Len(items) : items[i] = items[j] => i = j

\* Elements of the queue are told apart.
LEMMA ElementsDiffer ==
  ASSUME NEW items, NoTwins(items), NEW p, NEW i \in 1..Len(items), NEW j \in 1..Len(items)
  PROVE  /\ ByBox(items, p, i) # ByObject(items, p, j)
         /\ ByBox(items, p, i) = ByBox(items, p, j) => i = j
         /\ ByObject(items, p, i) = ByObject(items, p, j) => i = j
<1>1. ByBox(items, p, i).isMBR = TRUE /\ ByObject(items, p, j).isMBR = FALSE
  BY DEF ByBox, ByObject
<1>2. /\ ByBox(items, p, i).item = items[i] /\ ByBox(items, p, j).item = items[j]
      /\ ByObject(items, p, i).item = items[i] /\ ByObject(items, p, j).item = items[j]
  BY DEF ByBox, ByObject
<1> QED
  BY <1>1, <1>2 DEF NoTwins

\* A sequence of some values is one of more values.
LEMMA SeqWider ==
  ASSUME NEW S, NEW T, S \subseteq T, NEW s \in Seq(S)
  PROVE  s \in Seq(T)
<1>1. PICK m \in Nat : m = Len(s) /\ s = [i \in 1..m |-> s[i]] /\ \A i \in 1..m : s[i] \in S
  OBVIOUS
<1>2. \A i \in 1..m : s[i] \in T
  BY <1>1
<1> QED
  BY <1>1, <1>2, IsSeq

\* One by one, the entries of a root come into the queue by their boxes.
LEMMA FillLists ==
  ASSUME NEW items, Len(items) \in Nat, NoTwins(items), NEW p, NEW f, f[0] = <<>>,
         \A k \in 1..Len(items) :
            f[k - 1] \in Seq(Queued(items, p, 1..Len(items), {}))
                => f[k] = Insert(f[k - 1], ByBox(items, p, k))
  PROVE  \A k \in 0..Len(items) : /\ Lists(Queued(items, p, 1..k, {}), f[k])
                                  /\ f[k] \in Seq(Queued(items, p, 1..Len(items), {}))
<1>1. PICK n \in Nat : n = Len(items)
  OBVIOUS
<1> DEFINE E == Queued(items, p, 1..n, {})
           Q(k) == Queued(items, p, 1..k, {})
           T == {k \in Nat : k <= n => Lists(Q(k), f[k])}
<1>2. \A k \in 0..n : Q(k) \subseteq E
  BY <1>1 DEF Queued
<1>3. ASSUME NEW k \in 0..n, Lists(Q(k), f[k]) PROVE f[k] \in Seq(E)
  <2>1. f[k] \in Seq(Q(k)) /\ Q(k) \subseteq E
    BY <1>2, <1>3 DEF Lists
  <2> HIDE DEF Q, E
  <2> QED
    BY <2>1, SeqWider
<1>4. 0 \in T
  <2>1. Q(0) = {}
    BY DEF Queued
  <2>2. Lists({}, <<>>)
    BY DEF Lists
  <2> QED
    BY <2>1, <2>2
<1>5. ASSUME NEW k \in Nat, k \in T PROVE k + 1 \in T
  <2>1. CASE k + 1 <= n
    <3>0. k \in 0..n /\ k + 1 \in 1..n /\ (k + 1) - 1 = k /\ k <= n
      BY <1>1, <2>1
    <3>9. Lists(Q(k), f[k])
      <4> HIDE DEF Q
      <4> QED
        BY <1>5, <3>0
    <3>1. k \in 0..n /\ k + 1 \in 1..n /\ (k + 1) - 1 = k /\ Lists(Q(k), f[k])
      BY <3>0, <3>9
    <3>2. f[k] \in Seq(E)
      BY <1>3, <3>1
    <3>3. f[k + 1] = Insert(f[k], ByBox(items, p, k + 1))
      BY <1>1, <3>1, <3>2
    <3>4. ByBox(items, p, k + 1) \notin Q(k)
      <4>1. ASSUME NEW i \in 1..k PROVE ByBox(items, p, k + 1) # ByBox(items, p, i)
        <5>1. i \in 1..Len(items) /\ k + 1 \in 1..Len(items) /\ i # k + 1
          BY <1>1, <3>1
        <5> QED
          BY <5>1, ElementsDiffer
      <4> QED
        BY <4>1 DEF Queued
    <3>5. Q(k + 1) = Q(k) \cup {ByBox(items, p, k + 1)}
      <4>1. 1..(k + 1) = (1..k) \cup {k + 1}
        OBVIOUS
      <4> QED
        BY <4>1 DEF Queued
    <3> HIDE DEF Q
    <3>6. Lists(Q(k) \cup {ByBox(items, p, k + 1)}, Insert(f[k], ByBox(items, p, k + 1)))
      BY <3>1, <3>4, InsertLists
    <3>7. Lists(Q(k + 1), f[k + 1])
      BY <3>3, <3>5, <3>6
    <3> QED
      BY <3>7
  <2>2. CASE ~(k + 1 <= n)
    BY <2>2
  <2> QED
    BY <2>1, <2>2
<1> HIDE DEF T
<1>6. Nat \subseteq T
  BY <1>4, <1>5, NatInductive
<1>7. ASSUME NEW k \in 0..n PROVE Lists(Q(k), f[k])
  BY <1>1, <1>6 DEF T
<1> QED
  BY <1>1, <1>3, <1>7

\* How the queue is filled when the root is opened.
Filling(items, p, f) ==
  f = [k \in 0..Len(items) |-> IF k = 0 THEN <<>> ELSE Insert(f[k - 1], ByBox(items, p, k))]

\* The queue after the root was opened.
LEMMA RootFilled ==
  ASSUME NEW items, Len(items) \in Nat, NoTwins(items), NEW p,
         NEW h, h = (CHOOSE f : Filling(items, p, f))[Len(items)]
  PROVE  Lists(Queued(items, p, 1..Len(items), {}), h)
<1>1. PICK n \in Nat : n = Len(items)
  OBVIOUS
<1> DEFINE E == Queued(items, p, 1..n, {})
           F == [w \in Seq(E) \X (1..n) |-> Insert(w[1], ByBox(items, p, w[2]))]
           P(f) == Filling(items, p, f)
<1>2. ASSUME NEW s \in Seq(E), NEW k \in 1..n PROVE F[<<s, k>>] = Insert(s, ByBox(items, p, k))
  <2>1. <<s, k>> \in Seq(E) \X (1..n) /\ <<s, k>>[1] = s /\ <<s, k>>[2] = k
    OBVIOUS
  <2> QED
    BY <2>1
<1> HIDE DEF F
<1>3. PICK table : IsFold(F, <<>>, n, table)
  BY FoldExists, <1>1
<1>4. Steps(F, <<>>, n, table)
  BY <1>1, <1>3, FoldSteps
<1> DEFINE g == [k \in 0..n |-> table[1..k]]
<1>5. g[0] = <<>> /\ \A k \in 1..n : g[k] = F[<<g[k - 1], k>>]
  <2>1. table[1..0] = <<>> /\ \A k \in 1..n : table[1..k] = F[<<table[1..k - 1], k>>]
    BY <1>4 DEF Steps
  <2>2. \A k \in 1..n : g[k] = table[1..k] /\ g[k - 1] = table[1..k - 1]
    BY <1>1
  <2> QED
    BY <1>1, <2>1, <2>2
<1> HIDE DEF g
<1>6. ASSUME NEW k \in 1..n, g[k - 1] \in Seq(E) PROVE g[k] = Insert(g[k - 1], ByBox(items, p, k))
  BY <1>2, <1>5, <1>6
<1>7. \A k \in 0..n : g[k] \in Seq(E)
  <2> HIDE DEF E
  <2>1. E = Queued(items, p, 1..Len(items), {})
    BY <1>1 DEF E
  <2> QED
    BY <1>1, <1>5, <1>6, <2>1, FillLists
<1>8. P(g)
  <2>1. \A k \in 0..n : g[k] = IF k = 0 THEN <<>> ELSE Insert(g[k - 1], ByBox(items, p, k))
    BY <1>1, <1>5, <1>6, <1>7
  <2>2. g = [k \in 0..n |-> g[k]]
    BY DEF g
  <2> QED
    BY <1>1, <2>1, <2>2 DEF Filling
<1>9. PICK f : f = (CHOOSE e : P(e))
  OBVIOUS
<1>10. P(f)
  BY <1>8, <1>9
<1>11. f[0] = <<>> /\ \A k \in 1..n : f[k] = Insert(f[k - 1], ByBox(items, p, k))
  BY <1>1, <1>10 DEF Filling
<1> HIDE DEF P
<1>12. Lists(Queued(items, p, 1..n, {}), f[n])
  BY <1>1, <1>11, FillLists
<1>13. h = f[n]
  BY <1>1, <1>9 DEF P
<1> QED
  BY <1>1, <1>12, <1>13

\* The objects of the entries.
Leaves(items) == {items[i].leaf : i \in 1..Len(items)}

\* The walk under way: the entries of A are queued by box, those of B by object, the
\* others were reported.
Walking(items, p, s, A, B) ==
  /\ A \subseteq 1..Len(items) /\ B \subseteq 1..Len(items) /\ A \cap B = {}
  /\ s = [queue |-> s.queue, reported |-> s.reported]
  /\ Lists(Queued(items, p, A, B), s.queue)
  /\ s.reported \in Seq(Leaves(items))
  /\ \A i \in 1..Len(items) :
        i \notin A \cup B => \E j \in 1..Len(s.reported) : s.reported[j] = items[i].leaf
  /\ Len(s.reported) + Cardinality(A) + Cardinality(B) = Len(items)

\* The rounds the queue is good for.
Left(A, B) == 2 * Cardinality(A) + Cardinality(B)

\* Places of entries.
Among(items, A) == A \subseteq 1..Len(items)

\* An entry taken from those queued by box.
LEMMA TakenByBox ==
  ASSUME NEW items, NoTwins(items), NEW p, NEW A, NEW B, Among(items, A), Among(items, B), NEW i \in A
  PROVE  Queued(items, p, A, B) \ {ByBox(items, p, i)} = Queued(items, p, A \ {i}, B)
<1> DEFINE b(k) == ByBox(items, p, k)
           o(k) == ByObject(items, p, k)
<1>1. /\ \A k \in A : b(i) = b(k) => i = k
      /\ \A k \in B : b(i) # o(k)
  <2>1. i \in 1..Len(items) /\ (\A k \in A : k \in 1..Len(items)) /\ \A k \in B : k \in 1..Len(items)
    BY DEF Among
  <2> QED
    BY <2>1, ElementsDiffer
<1>2. \A X, Y : Queued(items, p, X, Y) = {b(k) : k \in X} \cup {o(k) : k \in Y}
  BY DEF Queued
<1> HIDE DEF b, o
<1>3. {b(k) : k \in A} \ {b(i)} = {b(k) : k \in A \ {i}}
  BY <1>1
<1>4. b(i) \notin {o(k) : k \in B}
  BY <1>1
<1> QED
  BY <1>2, <1>3, <1>4 DEF b

\* An entry taken from those queued by object.
LEMMA TakenByObject ==
  ASSUME NEW items, NoTwins(items), NEW p, NEW A, NEW B, Among(items, A), Among(items, B), NEW i \in B
  PROVE  Queued(items, p, A, B) \ {ByObject(items, p, i)} = Queued(items, p, A, B \ {i})
<1> DEFINE b(k) == ByBox(items, p, k)
           o(k) == ByObject(items, p, k)
<1>1. /\ \A k \in B : o(i) = o(k) => i = k
      /\ \A k \in A : b(k) # o(i)
  <2>1. i \in 1..Len(items) /\ (\A k \in A : k \in 1..Len(items)) /\ \A k \in B : k \in 1..Len(items)
    BY DEF Among
  <2> QED
    BY <2>1, ElementsDiffer
<1>2. \A X, Y : Queued(items, p, X, Y) = {b(k) : k \in X} \cup {o(k) : k \in Y}
  BY DEF Queued
<1> HIDE DEF b, o
<1>3. {o(k) : k \in B} \ {o(i)} = {o(k) : k \in B \ {i}}
  BY <1>1
<1>4. o(i) \notin {b(k) : k \in A}
  BY <1>1
<1> QED
  BY <1>2, <1>3, <1>4 DEF o

\* An entry queued by object.
LEMMA PutByObject ==
  ASSUME NEW items, NoTwins(items), NEW p, NEW A, NEW B, Among(items, A), Among(items, B),
         NEW i, i \in 1..Len(items), i \notin B
  PROVE  /\ ByObject(items, p, i) \notin Queued(items, p, A, B)
         /\ Queued(items, p, A, B) \cup {ByObject(items, p, i)} = Queued(items, p, A, B \cup {i})
<1> DEFINE b(k) == ByBox(items, p, k)
           o(k) == ByObject(items, p, k)
<1>1. /\ \A k \in B : o(i) # o(k)
      /\ \A k \in A : b(k) # o(i)
  <2>1. (\A k \in A : k \in 1..Len(items)) /\ \A k \in B : k \in 1..Len(items) /\ k # i
    BY DEF Among
  <2> QED
    BY <2>1, ElementsDiffer
<1>2. \A X, Y : Queued(items, p, X, Y) = {b(k) : k \in X} \cup {o(k) : k \in Y}
  BY DEF Queued
<1> HIDE DEF b, o
<1>3. {o(k) : k \in B} \cup {o(i)} = {o(k) : k \in B \cup {i}}
  OBVIOUS
<1>4. o(i) \notin {b(k) : k \in A} \cup {o(k) : k \in B}
  BY <1>1
<1> QED
  BY <1>2, <1>3, <1>4 DEF o

\* The head e is reported, or queued again with the distance of its object.
Reporting(s, e) == [queue |-> ExtractMin(s.queue), reported |-> Append(s.reported, e.item.leaf)]

Again(p, e) == [e EXCEPT !.rank = euclidianDistanceEquiRectangularAprox(p, e.item.leaf),
                         !.isMBR = FALSE]

PuttingBack(p, s, e) == [s EXCEPT !.queue = Insert(ExtractMin(s.queue), Again(p, e))]

\* These are the two things that can become of an entry at the head of the queue.
LEMMA VisitCases ==
  ASSUME NEW p, NEW s, s.queue # <<>>, NEW e, e = Head(s.queue), e.isData = TRUE
  PROVE  Visit(p, s) = Reporting(s, e) \/ (e.isMBR /\ Visit(p, s) = PuttingBack(p, s, e))
<1> DEFINE rest == ExtractMin(s.queue)
           dist == euclidianDistanceEquiRectangularAprox(p, e.item.leaf)
<1>1. Visit(p, s) = IF e.isMBR /\ rest # <<>> /\ dist > Head(rest).rank
                    THEN PuttingBack(p, s, e) ELSE Reporting(s, e)
  BY DEF Visit, PuttingBack, Reporting, Again
<1> HIDE DEF rest, dist
<1> QED
  BY <1>1

\* e is how one of the entries is queued.
IsQueued(items, p, A, B, e) ==
  \E i \in A \cup B : \/ (i \in A /\ e = ByBox(items, p, i))
                      \/ (i \in B /\ e = ByObject(items, p, i))

\* The head of the queue is one of its elements.
LEMMA HeadQueued ==
  ASSUME NEW items, NEW p, NEW A, NEW B, NEW h, Lists(Queued(items, p, A, B), h), h # <<>>
  PROVE  IsQueued(items, p, A, B, Head(h))
<1>1. Head(h) \in Queued(items, p, A, B)
  BY DEF Lists
<1> QED
  BY <1>1 DEF Queued, IsQueued

\* An empty queue has no elements.
LEMMA EmptyQueue ==
  ASSUME NEW items, NEW p, NEW A, NEW B, Lists(Queued(items, p, A, B), <<>>)
  PROVE  A = {} /\ B = {}
<1>1. Queued(items, p, A, B) = {}
  BY DEF Lists
<1> QED
  BY <1>1 DEF Queued

\* One entry less.
LEMMA OneLess ==
  ASSUME NEW n \in Nat, NEW A \in SUBSET (1..n), NEW i \in A
  PROVE  /\ Cardinality(A) \in Nat /\ Cardinality(A \ {i}) \in Nat
         /\ Cardinality(A \ {i}) = Cardinality(A) - 1
<1>1. IsFiniteSet(A)
  BY FirstCount, FS_Subset
<1> QED
  BY <1>1, FS_RemoveElement, FS_CardinalityType

\* One entry more.
LEMMA OneMore ==
  ASSUME NEW n \in Nat, NEW A \in SUBSET (1..n), NEW i \in (1..n) \ A
  PROVE  Cardinality(A) \in Nat /\ Cardinality(A \cup {i}) = Cardinality(A) + 1
<1>1. IsFiniteSet(A)
  BY FirstCount, FS_Subset
<1> QED
  BY <1>1, FS_AddElement, FS_CardinalityType

\* One more reported, one less to report.
LEMMA SameTotal ==
  ASSUME NEW n \in Nat, NEW m \in Nat, NEW l, l = m + 1, NEW a \in Nat, NEW b \in Nat,
         NEW c \in Nat, NEW d \in Nat, m + a + b = n, (c = a - 1 /\ d = b) \/ (c = a /\ d = b - 1)
  PROVE  l + c + d = n
OBVIOUS

\* An entry is reported.
LEMMA ReportKeeps ==
  ASSUME NEW items, Len(items) \in Nat, NEW p, NEW s, NEW A, NEW B, Walking(items, p, s, A, B),
         NEW i \in A \cup B, NEW rest, Lists(Queued(items, p, A \ {i}, B \ {i}), rest)
  PROVE  /\ Walking(items, p, [queue |-> rest, reported |-> Append(s.reported, items[i].leaf)],
                    A \ {i}, B \ {i})
         /\ Left(A \ {i}, B \ {i}) \in Nat /\ Left(A, B) \in Nat
         /\ Left(A \ {i}, B \ {i}) < Left(A, B)
<1>1. PICK n \in Nat : n = Len(items)
  OBVIOUS
<1>2. A \in SUBSET (1..n) /\ B \in SUBSET (1..n) /\ A \cap B = {} /\ i \in 1..n
  BY <1>1 DEF Walking
<1>3. PICK done : done = s.reported
  OBVIOUS
<1>4. PICK m \in Nat : m = Len(done)
  BY <1>3 DEF Walking
<1>5. /\ Cardinality(A) \in Nat /\ Cardinality(B) \in Nat
      /\ Cardinality(A \ {i}) \in Nat /\ Cardinality(B \ {i}) \in Nat
      /\ \/ /\ Cardinality(A \ {i}) = Cardinality(A) - 1 /\ Cardinality(B \ {i}) = Cardinality(B)
         \/ /\ Cardinality(A \ {i}) = Cardinality(A) /\ Cardinality(B \ {i}) = Cardinality(B) - 1
  <2>1. IsFiniteSet(A) /\ IsFiniteSet(B)
    BY <1>2, FirstCount, FS_Subset
  <2>2. Cardinality(A) \in Nat /\ Cardinality(B) \in Nat
    BY <2>1, FS_CardinalityType
  <2>3. CASE i \in A
    <3>1. B \ {i} = B
      BY <1>2, <2>3
    <3> QED
      BY <1>2, <2>2, <2>3, <3>1, OneLess
  <2>4. CASE i \in B
    <3>1. A \ {i} = A
      BY <1>2, <2>4
    <3> QED
      BY <1>2, <2>2, <2>4, <3>1, OneLess
  <2> QED
    BY <2>3, <2>4
<1>6. PICK new : new = Append(done, items[i].leaf)
  OBVIOUS
<1>7. items[i].leaf \in Leaves(items) /\ done \in Seq(Leaves(items))
  BY <1>1, <1>2, <1>3 DEF Leaves, Walking
<1>8. new \in Seq(Leaves(items)) /\ Len(new) = m + 1
      /\ (\A j \in 1..m : new[j] = done[j]) /\ new[m + 1] = items[i].leaf
  BY <1>4, <1>6, <1>7, AppendParts
<1>9. ASSUME NEW k \in 1..n, k \notin (A \ {i}) \cup (B \ {i})
      PROVE  \E j \in 1..(m + 1) : new[j] = items[k].leaf
  <2>1. CASE k = i
    <3>1. m + 1 \in 1..(m + 1)
      BY <1>4
    <3> QED
      BY <1>8, <2>1, <3>1
  <2>2. CASE k # i
    <3>1. k \notin A \cup B
      BY <1>9, <2>2
    <3>2. PICK j \in 1..m : done[j] = items[k].leaf
      BY <1>1, <1>3, <1>4, <3>1 DEF Walking
    <3>3. j \in 1..(m + 1) /\ new[j] = items[k].leaf
      BY <1>4, <1>8, <3>2
    <3> QED
      BY <3>3
  <2> QED
    BY <2>1, <2>2
<1>10. PICK t : t = [queue |-> rest, reported |-> new]
  OBVIOUS
<1>11. t = [queue |-> t.queue, reported |-> t.reported] /\ t.queue = rest /\ t.reported = new
  BY <1>10
<1>12. A \ {i} \subseteq 1..Len(items) /\ B \ {i} \subseteq 1..Len(items) /\ (A \ {i}) \cap (B \ {i}) = {}
  BY <1>1, <1>2
<1>13. m + Cardinality(A) + Cardinality(B) = n
  BY <1>1, <1>3, <1>4 DEF Walking
<1>14. Len(new) + Cardinality(A \ {i}) + Cardinality(B \ {i}) = n
  BY <1>1, <1>4, <1>5, <1>8, <1>13, SameTotal
<1>15. \A k \in 1..Len(items) : k \notin (A \ {i}) \cup (B \ {i}) =>
          \E j \in 1..Len(t.reported) : t.reported[j] = items[k].leaf
  BY <1>1, <1>8, <1>9, <1>11
<1>16. Walking(items, p, t, A \ {i}, B \ {i})
  BY <1>1, <1>8, <1>11, <1>12, <1>14, <1>15 DEF Walking
<1>17. /\ Left(A \ {i}, B \ {i}) \in Nat /\ Left(A, B) \in Nat
       /\ Left(A \ {i}, B \ {i}) < Left(A, B)
  BY <1>5 DEF Left
<1> QED
  BY <1>3, <1>6, <1>10, <1>16, <1>17

\* An entry is put back with its own distance.
LEMMA PutBackKeeps ==
  ASSUME NEW items, Len(items) \in Nat, NEW p, NEW s, NEW A, NEW B, Walking(items, p, s, A, B),
         NEW i \in A, NEW queue, Lists(Queued(items, p, A \ {i}, B \cup {i}), queue)
  PROVE  /\ Walking(items, p, [s EXCEPT !.queue = queue], A \ {i}, B \cup {i})
         /\ Left(A \ {i}, B \cup {i}) \in Nat /\ Left(A, B) \in Nat
         /\ Left(A \ {i}, B \cup {i}) < Left(A, B)
<1>1. PICK n \in Nat : n = Len(items)
  OBVIOUS
<1>2. A \in SUBSET (1..n) /\ B \in SUBSET (1..n) /\ A \cap B = {} /\ i \in (1..n) \ B
  BY <1>1 DEF Walking
<1>3. PICK done : done = s.reported
  OBVIOUS
<1>4. s = [queue |-> s.queue, reported |-> done] /\ Len(done) \in Nat
  BY <1>3 DEF Walking
<1>5. PICK t : t = [s EXCEPT !.queue = queue]
  OBVIOUS
<1>6. t = [queue |-> queue, reported |-> done]
  BY <1>4, <1>5
<1>7. t = [queue |-> t.queue, reported |-> t.reported] /\ t.queue = queue /\ t.reported = done
  BY <1>6
<1>8. /\ Cardinality(A) \in Nat /\ Cardinality(A \ {i}) = Cardinality(A) - 1
      /\ Cardinality(B) \in Nat /\ Cardinality(B \cup {i}) = Cardinality(B) + 1
      /\ Cardinality(A \ {i}) \in Nat
  BY <1>2, OneLess, OneMore
<1>9. Len(done) + Cardinality(A) + Cardinality(B) = Len(items)
  BY <1>3 DEF Walking
<1>10. Len(done) + Cardinality(A \ {i}) + Cardinality(B \cup {i}) = Len(items)
  BY <1>1, <1>4, <1>8, <1>9
<1>11. A \ {i} \subseteq 1..Len(items) /\ B \cup {i} \subseteq 1..Len(items)
       /\ (A \ {i}) \cap (B \cup {i}) = {}
  BY <1>1, <1>2
<1>12. (A \ {i}) \cup (B \cup {i}) = A \cup B
  OBVIOUS
<1>13. \A k \in 1..Len(items) : k \notin (A \ {i}) \cup (B \cup {i}) =>
          \E j \in 1..Len(t.reported) : t.reported[j] = items[k].leaf
  BY <1>3, <1>7, <1>12 DEF Walking
<1>14. t.reported \in Seq(Leaves(items))
  BY <1>3, <1>7 DEF Walking
<1>15. Walking(items, p, t, A \ {i}, B \cup {i})
  BY <1>7, <1>10, <1>11, <1>13, <1>14 DEF Walking
<1>16. /\ Left(A \ {i}, B \cup {i}) \in Nat /\ Left(A, B) \in Nat
       /\ Left(A \ {i}, B \cup {i}) < Left(A, B)
  BY <1>8 DEF Left
<1> QED
  BY <1>5, <1>15, <1>16

\* s is somewhere on the walk, with rounds left for at most r visits.
OnWalk(items, p, s, r) ==
  \E A, B \in SUBSET (1..Len(items)) :
    Walking(items, p, s, A, B) /\ Left(A, B) \in Nat /\ Left(A, B) <= r

\* One more round of the walk: fewer visits are left.
LEMMA VisitKeeps ==
  ASSUME NEW items, Len(items) \in Nat, NoTwins(items), NEW p, NEW s, NEW r \in Nat,
         OnWalk(items, p, s, r)
  PROVE  OnWalk(items, p, Visit(p, s), IF r = 0 THEN 0 ELSE r - 1)
<1>1. PICK A, B \in SUBSET (1..Len(items)) :
         Walking(items, p, s, A, B) /\ Left(A, B) \in Nat /\ Left(A, B) <= r
  BY DEF OnWalk
<1>2. A \subseteq 1..Len(items) /\ B \subseteq 1..Len(items) /\ A \cap B = {}
      /\ Lists(Queued(items, p, A, B), s.queue) /\ s = [queue |-> s.queue, reported |-> s.reported]
  BY <1>1 DEF Walking
<1>3. CASE s.queue = <<>>
  <2>1. A = {} /\ B = {}
    <3>1. Lists(Queued(items, p, A, B), <<>>)
      BY <1>2, <1>3
    <3> QED
      BY <3>1, EmptyQueue
  <2>2. Left(A, B) = 0
    BY <2>1, FS_EmptySet DEF Left
  <2>3. Visit(p, s) = s
    BY <1>3 DEF Visit
  <2>4. 0 <= (IF r = 0 THEN 0 ELSE r - 1)
    OBVIOUS
  <2> QED
    BY <1>1, <2>2, <2>3, <2>4 DEF OnWalk
<1>4. CASE s.queue # <<>>
  <2>0. Among(items, A) /\ Among(items, B)
    BY <1>2 DEF Among
  <2>1. PICK h : h = s.queue
    OBVIOUS
  <2>2. Lists(Queued(items, p, A, B), h) /\ h # <<>>
    BY <1>2, <1>4, <2>1
  <2>3. PICK e : e = Head(s.queue)
    OBVIOUS
  <2>4. PICK rest : rest = ExtractMin(h)
    OBVIOUS
  <2>5. PICK i \in A \cup B : (i \in A /\ e = ByBox(items, p, i)) \/ (i \in B /\ e = ByObject(items, p, i))
    <3>1. IsQueued(items, p, A, B, Head(h))
      BY <2>2, HeadQueued
    <3> QED
      BY <2>1, <2>3, <3>1 DEF IsQueued
  <2>6. i \in 1..Len(items) /\ e.isData = TRUE /\ e.item = items[i]
    BY <1>2, <2>5 DEF ByBox, ByObject
  <2>7. Lists(Queued(items, p, A \ {i}, B \ {i}), rest)
    <3>1. h[1] = e
      BY <2>1, <2>3
    <3>2. Lists(Queued(items, p, A, B) \ {e}, rest)
      BY <2>2, <2>4, <3>1, ExtractLists
    <3>3. Queued(items, p, A, B) \ {e} = Queued(items, p, A \ {i}, B \ {i})
      <4>1. CASE i \in A /\ e = ByBox(items, p, i)
        <5>1. B \ {i} = B
          BY <1>2, <4>1
        <5>2. i \in A
          BY <4>1
        <5>3. Queued(items, p, A, B) \ {ByBox(items, p, i)} = Queued(items, p, A \ {i}, B)
          BY <2>0, <5>2, TakenByBox
        <5> QED
          BY <4>1, <5>1, <5>3
      <4>2. CASE i \in B /\ e = ByObject(items, p, i)
        <5>1. A \ {i} = A
          BY <1>2, <4>2
        <5>2. i \in B
          BY <4>2
        <5>3. Queued(items, p, A, B) \ {ByObject(items, p, i)} = Queued(items, p, A, B \ {i})
          BY <2>0, <5>2, TakenByObject
        <5> QED
          BY <4>2, <5>1, <5>3
      <4> QED
        BY <2>5, <4>1, <4>2
    <3> QED
      BY <3>2, <3>3
  <2>8. CASE Visit(p, s) = Reporting(s, e)
    <3>1. Visit(p, s) = [queue |-> rest, reported |-> Append(s.reported, items[i].leaf)]
      BY <2>1, <2>4, <2>6, <2>8 DEF Reporting
    <3>2. /\ Walking(items, p, Visit(p, s), A \ {i}, B \ {i})
          /\ Left(A \ {i}, B \ {i}) \in Nat /\ Left(A \ {i}, B \ {i}) < Left(A, B)
      <4>1. i \in A \cup B /\ Walking(items, p, s, A, B)
        BY <1>1, <2>5
      <4>2. PICK t : t = [queue |-> rest, reported |-> Append(s.reported, items[i].leaf)]
        OBVIOUS
      <4>3. /\ Walking(items, p, t, A \ {i}, B \ {i})
            /\ Left(A \ {i}, B \ {i}) \in Nat /\ Left(A \ {i}, B \ {i}) < Left(A, B)
        BY <2>7, <4>1, <4>2, ReportKeeps
      <4> QED
        BY <3>1, <4>2, <4>3
    <3>3. Left(A \ {i}, B \ {i}) <= (IF r = 0 THEN 0 ELSE r - 1)
      BY <1>1, <3>2
    <3>4. A \ {i} \in SUBSET (1..Len(items)) /\ B \ {i} \in SUBSET (1..Len(items))
      BY <1>2
    <3> QED
      BY <3>2, <3>3, <3>4 DEF OnWalk
  <2>9. CASE e.isMBR /\ Visit(p, s) = PuttingBack(p, s, e)
    <3>1. i \in A /\ i \notin B /\ e = ByBox(items, p, i)
      BY <1>2, <2>5, <2>9 DEF ByObject
    <3>2. Again(p, e) = ByObject(items, p, i)
      <4>1. PICK d : d = euclidianDistanceEquiRectangularAprox(p, e.item.leaf)
        OBVIOUS
      <4>2. PICK x, y : x = minDist(p, items[i].bound) /\ y = items[i]
        OBVIOUS
      <4>3. e = [rank |-> x, item |-> y, isData |-> TRUE, isMBR |-> TRUE]
        BY <3>1, <4>2 DEF ByBox
      <4>4. Again(p, e) = [e EXCEPT !.rank = d, !.isMBR = FALSE]
        BY <4>1 DEF Again
      <4>5. Again(p, e) = [rank |-> d, item |-> y, isData |-> TRUE, isMBR |-> FALSE]
        BY <4>3, <4>4
      <4>6. d = euclidianDistanceEquiRectangularAprox(p, items[i].leaf)
        BY <2>6, <4>1
      <4> QED
        BY <4>2, <4>5, <4>6 DEF ByObject
    <3>3. PICK queue : queue = Insert(rest, Again(p, e))
      OBVIOUS
    <3>4. Lists(Queued(items, p, A \ {i}, B \cup {i}), queue)
      <4>1. B \ {i} = B
        BY <3>1
      <4>2. PICK C : C = A \ {i}
        OBVIOUS
      <4>3. Among(items, C)
        BY <1>2, <4>2 DEF Among
      <4>4. /\ ByObject(items, p, i) \notin Queued(items, p, C, B)
            /\ Queued(items, p, C, B) \cup {ByObject(items, p, i)} = Queued(items, p, C, B \cup {i})
        BY <2>0, <2>6, <3>1, <4>3, PutByObject
      <4>5. Lists(Queued(items, p, C, B), rest)
        BY <2>7, <4>1, <4>2
      <4>6. Lists(Queued(items, p, C, B) \cup {ByObject(items, p, i)}, Insert(rest, ByObject(items, p, i)))
        BY <4>4, <4>5, InsertLists
      <4> QED
        BY <3>2, <3>3, <4>2, <4>4, <4>6
    <3>5. /\ Walking(items, p, [s EXCEPT !.queue = queue], A \ {i}, B \cup {i})
          /\ Left(A \ {i}, B \cup {i}) \in Nat /\ Left(A \ {i}, B \cup {i}) < Left(A, B)
      BY <1>1, <3>1, <3>4, PutBackKeeps
    <3>6. Left(A \ {i}, B \cup {i}) <= (IF r = 0 THEN 0 ELSE r - 1)
      BY <1>1, <3>5
    <3>7. A \ {i} \in SUBSET (1..Len(items)) /\ B \cup {i} \in SUBSET (1..Len(items))
      BY <1>2, <2>6
    <3>8. Visit(p, s) = [s EXCEPT !.queue = queue]
      BY <2>1, <2>4, <2>9, <3>3 DEF PuttingBack
    <3> QED
      BY <3>5, <3>6, <3>7, <3>8 DEF OnWalk
  <2> QED
    <3>1. Visit(p, s) = Reporting(s, e) \/ (e.isMBR /\ Visit(p, s) = PuttingBack(p, s, e))
      BY <1>4, <2>3, <2>6, VisitCases
    <3> QED
      BY <2>8, <2>9, <3>1
<1> QED
  BY <1>3, <1>4

\* The queue the walk starts with: the root.
WalkStart(root) == [queue |-> <<[rank |-> 0, item |-> root, isData |-> FALSE, isMBR |-> FALSE]>>,
                    reported |-> <<>>]

\* The first visit opens the root: every entry is queued by its box.
LEMMA FirstVisit ==
  ASSUME NEW root, IsLeafRoot(root), NoTwins(root.items), NEW p
  PROVE  OnWalk(root.items, p, Visit(p, WalkStart(root)), 2 * Len(root.items))
<1>1. PICK items : items = root.items
  OBVIOUS
<1>2. PICK n \in Nat : n = Len(items)
  BY <1>1 DEF IsLeafRoot
<1>3. PICK e : e = [rank |-> 0, item |-> root, isData |-> FALSE, isMBR |-> FALSE]
  OBVIOUS
<1>4. PICK s : s = WalkStart(root)
  OBVIOUS
<1>5. s = [queue |-> <<e>>, reported |-> <<>>]
  BY <1>3, <1>4 DEF WalkStart
<1>6. s.queue = <<e>> /\ s.queue # <<>> /\ Head(s.queue) = e /\ ExtractMin(s.queue) = <<>>
  BY <1>5 DEF ExtractMin
<1>7. e.isData = FALSE /\ e.item = root /\ root.isLeaf = TRUE
  BY <1>3 DEF IsLeafRoot
<1> DEFINE key(parent, item) == [rank |-> minDist(p, item.bound), item |-> item,
                                 isData |-> parent.isLeaf, isMBR |-> parent.isLeaf]
           P(f) == f = [k \in 0..Len(root.items) |->
                          IF k = 0 THEN <<>> ELSE Insert(f[k - 1], key(root, root.items[k]))]
<1>8. Visit(p, s) = [s EXCEPT !.queue = (CHOOSE f : P(f))[Len(root.items)]]
  BY <1>6, <1>7 DEF Visit
<1>9. ASSUME NEW f PROVE P(f) <=> Filling(items, p, f)
  <2>1. \A k : key(root, root.items[k]) = ByBox(items, p, k)
    BY <1>1, <1>7 DEF ByBox
  <2> HIDE DEF key
  <2> QED
    BY <1>1, <2>1 DEF Filling
<1> HIDE DEF P
<1>10. (CHOOSE f : P(f)) = (CHOOSE f : Filling(items, p, f))
  BY <1>9
<1>11. PICK h : h = (CHOOSE f : Filling(items, p, f))[Len(items)]
  OBVIOUS
<1>12. Lists(Queued(items, p, 1..n, {}), h)
  BY <1>1, <1>2, <1>11, RootFilled
<1>13. Visit(p, s) = [queue |-> h, reported |-> <<>>]
  BY <1>1, <1>5, <1>8, <1>10, <1>11
<1>14. Cardinality(1..n) = n /\ Cardinality({}) = 0
  BY <1>2, FirstCount, FS_EmptySet
<1>15. PICK t : t = Visit(p, s)
  OBVIOUS
<1>16. t = [queue |-> t.queue, reported |-> t.reported] /\ t.queue = h /\ t.reported = <<>>
  BY <1>13, <1>15
<1>17. Len(t.reported) + Cardinality(1..n) + Cardinality({}) = n
  BY <1>2, <1>14, <1>16
<1>18. Walking(items, p, t, 1..n, {})
  BY <1>2, <1>12, <1>16, <1>17 DEF Walking
<1>19. Left(1..n, {}) = 2 * n
  BY <1>2, <1>14 DEF Left
<1>20. OnWalk(items, p, t, 2 * n)
  <2>1. 1..n \in SUBSET (1..Len(items)) /\ {} \in SUBSET (1..Len(items))
    BY <1>2
  <2> QED
    BY <1>2, <1>18, <1>19, <2>1 DEF OnWalk
<1> QED
  BY <1>1, <1>2, <1>4, <1>15, <1>20

\* The walk has more rounds than the queue is good for.
LEMMA RoundsEnough ==
  ASSUME NEW h \in Nat \ {0}, NEW n \in Nat
  PROVE  (h + 2) * (n + 1) \in Nat /\ (h + 2) * (n + 1) > 2 * n
<1>1. PICK m \in Nat : m = n + 1
  OBVIOUS
<1>2. h * m \in Nat
  OBVIOUS
<1>3. (h + 2) * m = h * m + 2 * m
  OBVIOUS
<1> QED
  BY <1>1, <1>2, <1>3

\* The states of the walk of a leaf root.
WalkStates(root, p) ==
  {s \in [queue : Seq({WalkStart(root).queue[1]}
                        \cup Queued(root.items, p, 1..Len(root.items), 1..Len(root.items))),
          reported : Seq(Leaves(root.items))] :
     s = WalkStart(root) \/ \E r \in Nat : OnWalk(root.items, p, s, r)}

\* What is on the walk is one of its states.
LEMMA OnWalkState ==
  ASSUME NEW root, NEW p, NEW s, NEW r \in Nat, OnWalk(root.items, p, s, r)
  PROVE  s \in WalkStates(root, p)
<1>1. PICK items : items = root.items
  OBVIOUS
<1>2. PICK A, B \in SUBSET (1..Len(items)) : Walking(items, p, s, A, B)
  BY <1>1 DEF OnWalk
<1>3. PICK E : E = {WalkStart(root).queue[1]} \cup Queued(items, p, 1..Len(items), 1..Len(items))
  OBVIOUS
<1>4. Queued(items, p, A, B) \subseteq E
  BY <1>3 DEF Queued
<1>5. s.queue \in Seq(Queued(items, p, A, B)) /\ s.reported \in Seq(Leaves(items))
      /\ s = [queue |-> s.queue, reported |-> s.reported]
  BY <1>2 DEF Walking, Lists
<1>6. s.queue \in Seq(E)
  BY <1>4, <1>5, SeqWider
<1>7. s \in [queue : Seq(E), reported : Seq(Leaves(items))]
  BY <1>5, <1>6
<1> QED
  BY <1>1, <1>3, <1>7 DEF WalkStates

\* The walk stays among its states.
LEMMA VisitStates ==
  ASSUME NEW root, IsLeafRoot(root), NoTwins(root.items), NEW p, NEW s \in WalkStates(root, p)
  PROVE  Visit(p, s) \in WalkStates(root, p)
<1>1. Len(root.items) \in Nat /\ 2 * Len(root.items) \in Nat
  BY DEF IsLeafRoot
<1>2. CASE s = WalkStart(root)
  <2>1. OnWalk(root.items, p, Visit(p, s), 2 * Len(root.items))
    BY <1>2, FirstVisit
  <2> QED
    BY <1>1, <2>1, OnWalkState
<1>3. CASE \E r \in Nat : OnWalk(root.items, p, s, r)
  <2>1. PICK r \in Nat : OnWalk(root.items, p, s, r)
    BY <1>3
  <2>2. PICK q \in Nat : q = IF r = 0 THEN 0 ELSE r - 1
    OBVIOUS
  <2>3. OnWalk(root.items, p, Visit(p, s), q)
    BY <1>1, <2>1, <2>2, VisitKeeps
  <2> QED
    BY <2>3, OnWalkState
<1> QED
  BY <1>2, <1>3 DEF WalkStates

\* The walk begins in one of its states.
LEMMA StartState ==
  ASSUME NEW root, NEW p
  PROVE  WalkStart(root) \in WalkStates(root, p)
<1>1. PICK e : e = [rank |-> 0, item |-> root, isData |-> FALSE, isMBR |-> FALSE]
  OBVIOUS
<1>2. PICK s : s = WalkStart(root)
  OBVIOUS
<1>3. s = [queue |-> <<e>>, reported |-> <<>>] /\ s.queue[1] = e
  BY <1>1, <1>2 DEF WalkStart
<1>4. PICK E : E = {e} \cup Queued(root.items, p, 1..Len(root.items), 1..Len(root.items))
  OBVIOUS
<1>5. s \in [queue : Seq(E), reported : Seq(Leaves(root.items))]
  <2>1. <<e>> \in Seq(E)
    BY <1>4
  <2>2. <<>> \in Seq(Leaves(root.items))
    OBVIOUS
  <2> QED
    BY <1>3, <2>1, <2>2
<1> QED
  BY <1>2, <1>3, <1>4, <1>5 DEF WalkStates

\* The rounds left after k rounds of the walk.
RoundsLeft(n, k) == IF k > 2 * n THEN 0 ELSE 2 * n + 1 - k

\* One less after a round, if there was one.
LEMMA RoundsLess ==
  ASSUME NEW n \in Nat, NEW k \in Nat
  PROVE  /\ RoundsLeft(n, k) \in Nat
         /\ RoundsLeft(n, k + 1) = IF RoundsLeft(n, k) = 0 THEN 0 ELSE RoundsLeft(n, k) - 1
<1>1. PICK d \in Nat : d = 2 * n
  OBVIOUS
<1>2. CASE k > d
  BY <1>1, <1>2 DEF RoundsLeft
<1>3. CASE k = d
  BY <1>1, <1>3 DEF RoundsLeft
<1>4. CASE k < d
  <2>1. RoundsLeft(n, k) = d + 1 - k /\ RoundsLeft(n, k + 1) = d + 1 - (k + 1)
    BY <1>1, <1>4 DEF RoundsLeft
  <2>2. d + 1 - k \in Nat /\ d + 1 - k # 0 /\ d + 1 - (k + 1) = (d + 1 - k) - 1
    BY <1>4
  <2> QED
    BY <2>1, <2>2
<1> QED
  BY <1>1, <1>2, <1>3, <1>4

\* After the first round, every round brings the end nearer.
LEMMA WalkOn ==
  ASSUME NEW root, IsLeafRoot(root), NoTwins(root.items), NEW p, NEW m \in Nat, NEW f,
         f[0] = WalkStart(root), \A k \in 1..m : f[k] = Visit(p, f[k - 1])
  PROVE  \A k \in 1..m : OnWalk(root.items, p, f[k], RoundsLeft(Len(root.items), k))
<1>1. PICK n \in Nat : n = Len(root.items)
  BY DEF IsLeafRoot
<1> DEFINE T == {k \in Nat : k + 1 <= m => OnWalk(root.items, p, f[k + 1], RoundsLeft(n, k + 1))}
<1>2. 0 \in T
  <2>1. CASE 1 <= m
    <3>1. f[1] = Visit(p, WalkStart(root))
      <4>1. 1 \in 1..m /\ 1 - 1 = 0
        BY <2>1
      <4> QED
        BY <4>1
    <3>2. RoundsLeft(n, 1) = 2 * n
      BY <1>1 DEF RoundsLeft
    <3> QED
      BY <1>1, <3>1, <3>2, FirstVisit
  <2> QED
    BY <2>1
<1>3. ASSUME NEW k \in Nat, k \in T PROVE k + 1 \in T
  <2>1. CASE (k + 1) + 1 <= m
    <3>1. k + 1 <= m /\ (k + 1) + 1 \in 1..m /\ ((k + 1) + 1) - 1 = k + 1
      BY <2>1
    <3>2. OnWalk(root.items, p, f[k + 1], RoundsLeft(n, k + 1))
      BY <1>3, <3>1
    <3>3. f[(k + 1) + 1] = Visit(p, f[k + 1])
      BY <3>1
    <3>9. PICK j \in Nat : j = k + 1
      OBVIOUS
    <3>4. PICK r \in Nat : r = RoundsLeft(n, k + 1)
      <4>1. RoundsLeft(n, j) \in Nat
        BY <1>1, RoundsLess
      <4> QED
        BY <3>9, <4>1
    <3>5. RoundsLeft(n, (k + 1) + 1) = IF r = 0 THEN 0 ELSE r - 1
      <4>1. RoundsLeft(n, j + 1) = IF RoundsLeft(n, j) = 0 THEN 0 ELSE RoundsLeft(n, j) - 1
        BY <1>1, RoundsLess
      <4> QED
        BY <3>4, <3>9, <4>1
    <3>6. OnWalk(root.items, p, Visit(p, f[k + 1]), IF r = 0 THEN 0 ELSE r - 1)
      BY <1>1, <3>2, <3>4, VisitKeeps
    <3> QED
      BY <3>3, <3>5, <3>6
  <2>2. CASE ~((k + 1) + 1 <= m)
    BY <2>2
  <2> QED
    BY <2>1, <2>2
<1> HIDE DEF T
<1>4. Nat \subseteq T
  BY <1>2, <1>3, NatInductive
<1>5. ASSUME NEW k \in 1..m PROVE OnWalk(root.items, p, f[k], RoundsLeft(n, k))
  <2>1. k - 1 \in Nat /\ (k - 1) + 1 = k /\ k <= m
    OBVIOUS
  <2>2. k - 1 \in T
    BY <1>4, <2>1
  <2> QED
    BY <2>1, <2>2 DEF T
<1> QED
  BY <1>1, <1>5

\* When no visit is left, all the objects were reported.
LEMMA WalkOver ==
  ASSUME NEW items, Len(items) \in Nat, NEW p, NEW s, OnWalk(items, p, s, 0)
  PROVE  /\ s.reported \in Seq(Leaves(items)) /\ Len(s.reported) = Len(items)
         /\ \A i \in 1..Len(items) : \E j \in 1..Len(s.reported) : s.reported[j] = items[i].leaf
<1>1. PICK A, B \in SUBSET (1..Len(items)) :
         Walking(items, p, s, A, B) /\ Left(A, B) \in Nat /\ Left(A, B) <= 0
  BY DEF OnWalk
<1>2. IsFiniteSet(A) /\ IsFiniteSet(B)
  BY FirstCount, FS_Subset
<1>3. PICK a \in Nat, b \in Nat : a = Cardinality(A) /\ b = Cardinality(B)
  BY <1>2, FS_CardinalityType
<1>4. a = 0 /\ b = 0
  BY <1>1, <1>3 DEF Left
<1>5. A = {} /\ B = {}
  BY <1>2, <1>3, <1>4, FS_EmptySet
<1>6. s.reported \in Seq(Leaves(items)) /\ Len(s.reported) + a + b = Len(items)
  BY <1>1, <1>3 DEF Walking
<1>7. \A i \in 1..Len(items) : \E j \in 1..Len(s.reported) : s.reported[j] = items[i].leaf
  BY <1>1, <1>5 DEF Walking
<1>8. Len(s.reported) \in Nat
  BY <1>6
<1> QED
  BY <1>4, <1>6, <1>7, <1>8

\* The nearest neighbour walk of a leaf root reports every object, in some order.
THEOREM WalkReportsAll ==
  ASSUME NEW rt, IsLeafRoot(rt.root), NoTwins(rt.root.items), NEW p,
         NEW w, w = incrementalNearestNeighbor(rt, p)
  PROVE  /\ w \in Seq(Leaves(rt.root.items)) /\ Len(w) = Len(rt.root.items)
         /\ \A i \in 1..Len(rt.root.items) : \E j \in 1..Len(w) : w[j] = rt.root.items[i].leaf
<1>1. PICK root : root = rt.root
  OBVIOUS
<1>2. PICK n \in Nat : n = Len(root.items) /\ DOMAIN root.items = 1..n
  BY <1>1 DEF IsLeafRoot
<1>3. Len(Objects(root)) = n
  BY <1>1, <1>2, LeafRootObjects
<1>4. PICK m \in Nat : m = (MaxHeight + 2) * (n + 1) /\ m > 2 * n
  BY <1>2, RtreeAssumption, RoundsEnough
<1> DEFINE P(f) == f = [k \in 0..m |-> IF k = 0 THEN WalkStart(root) ELSE Visit(p, f[k - 1])]
           W == WalkStates(root, p)
           F == [s \in W |-> Visit(p, s)]
<1>5. w = (CHOOSE f : P(f))[m].reported
  BY <1>1, <1>3, <1>4 DEF incrementalNearestNeighbor, Loop, WalkStart
<1>6. \A s \in W : F[s] \in W
  BY <1>1, VisitStates
<1>7. WalkStart(root) \in W
  BY StartState
<1> HIDE DEF W
<1>8. \A s \in W : F[s] = Visit(p, s)
  OBVIOUS
<1> HIDE DEF F
<1>9. PICK g : IsCourse(F, WalkStart(root), m, g) /\ \A k \in 0..m : g[k] \in W
  BY <1>4, <1>6, <1>7, RoundsExist
<1>10. P(g)
  <2>1. \A k \in 0..m : k # 0 => F[g[k - 1]] = Visit(p, g[k - 1])
    BY <1>4, <1>8, <1>9
  <2>2. g = [k \in 0..m |-> IF k = 0 THEN WalkStart(root) ELSE Visit(p, g[k - 1])]
    BY <1>9, <2>1 DEF IsCourse
  <2> QED
    BY <2>2
<1>11. PICK f : f = (CHOOSE e : P(e))
  OBVIOUS
<1>12. P(f)
  BY <1>10, <1>11
<1>13. f[0] = WalkStart(root) /\ \A k \in 1..m : f[k] = Visit(p, f[k - 1])
  BY <1>4, <1>12
<1> HIDE DEF P
<1>14. m \in 1..m /\ RoundsLeft(n, m) = 0
  BY <1>2, <1>4 DEF RoundsLeft
<1>15. OnWalk(root.items, p, f[m], 0)
  <2>1. \A k \in 1..m : OnWalk(root.items, p, f[k], RoundsLeft(Len(root.items), k))
    BY <1>1, <1>4, <1>13, WalkOn
  <2> QED
    BY <1>2, <1>14, <2>1
<1>16. PICK items, s : items = root.items /\ s = f[m]
  OBVIOUS
<1>17. Len(items) \in Nat /\ OnWalk(items, p, s, 0)
  BY <1>2, <1>15, <1>16
<1>18. /\ s.reported \in Seq(Leaves(items)) /\ Len(s.reported) = Len(items)
       /\ \A i \in 1..Len(items) : \E j \in 1..Len(s.reported) : s.reported[j] = items[i].leaf
  BY <1>17, WalkOver
<1>19. w = s.reported /\ rt.root.items = items
  BY <1>1, <1>5, <1>11, <1>16
<1> QED
  BY <1>18, <1>19

==============================================================================
