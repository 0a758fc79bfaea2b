--------------------------- MODULE GeofenceProofs ---------------------------
(***************************************************************************)
(* Proofs about Geofence.                                                  *)
(*                                                                         *)
(* A fence that was reached by one addition at a time, none of which       *)
(* panicked, keeps all its points in one leaf, the root: the 26th point of *)
(* a fence splits the root and panics there.  The inductive invariant IInv *)
(* says what such a tree, the circles and the calls under way have to do   *)
(* with each other.                                                        *)
(***************************************************************************)
EXTENDS Geofence, RtreeProofs

------------------------------------------------------------------------------
(* Add to a tree, by the operations of the R-tree. *)

\* Add to a tree that is a data node panics.
LEMMA AddToDataRoot ==
  ASSUME NEW t, RtreeShape(t), t.panicked = "no", t.root \in DataNodes, NEW o
  PROVE  Refused(t, AddToTree(t, o))
<1>1. AddToTree(t, o) = InsertLeaf(t, o, FALSE)
  BY DataRootFind DEF AddToTree
<1> QED
  BY <1>1, InsertDataRoot

\* Add of a point whose ID the tree does not have: its object is the last entry.
LEMMA AddNewPoint ==
  ASSUME NEW t, RtreeShape(t), t.panicked = "no", IsLeafRoot(t.root),
         NEW o \in PlaneObjects, Places(t.root.items, o) = {}
  PROVE  Inserted(t, o, AddToTree(t, o))
<1>1. AddToTree(t, o) = InsertLeaf(t, o, FALSE)
  BY LeafRootFind DEF AddToTree
<1> QED
  BY <1>1, InsertLeafRoot, GeofenceAssumption

\* Add of a point whose ID the tree has: the entry goes and the object is the last one.
LEMMA AddKnownPoint ==
  ASSUME NEW t, RtreeShape(t), t.panicked = "no", IsLeafRoot(t.root), t.size \in Int,
         NEW o \in PlaneObjects, Places(t.root.items, o) # {}
  PROVE  \E i \in Places(t.root.items, o) : ReplacedAt(t, i, o, AddToTree(t, o))
<1>1. PICK d : d = Delete(t, o)
  OBVIOUS
<1>2. PICK i \in Places(t.root.items, o) : DeletedAt(t, i, d)
  BY <1>1, DeleteLeafRoot
<1>3. PICK n, rest : n = Len(t.root.items) /\ rest = SwapOut(t.root.items, i)
  OBVIOUS
<1>4. /\ RtreeShape(d) /\ d.size = t.size - 1 /\ d.panicked = "no"
      /\ rest \in Seq(DataNodes) /\ Len(rest) = n - 1
      /\ n = 2 => d.root \in DataNodes /\ d.root = rest[1]
      /\ n # 2 => IsLeafRoot(d.root) /\ d.root.items = rest
  BY <1>2, <1>3 DEF DeletedAt
<1>5. AddToTree(t, o) = InsertLeaf(d, o, FALSE)
  <2>1. FindLeaf(o, t.root) = << <<>> >>
    BY LeafRootFind
  <2>2. << <<>> >> # <<>>
    OBVIOUS
  <2> QED
    BY <1>1, <2>1, <2>2 DEF AddToTree
<1>6. PICK u : u = AddToTree(t, o)
  OBVIOUS
<1>7. CASE n = 2
  <2>1. Refused(d, u)
    BY <1>4, <1>5, <1>6, <1>7, InsertDataRoot
  <2>2. ReplacedAt(t, i, o, u)
    BY <1>3, <1>4, <1>7, <2>1 DEF ReplacedAt, Refused
  <2> QED
    BY <1>6, <2>2
<1>8. CASE n # 2
  <2>1. Inserted(d, o, u)
    BY <1>4, <1>5, <1>6, <1>8, InsertLeafRoot, GeofenceAssumption
  <2>2. /\ RtreeShape(u) /\ IsLeafRoot(u.root) /\ u.size = d.size + 1
        /\ u.root.items = Append(rest, DataNode(o))
        /\ u.panicked = IF n - 1 < MaxChildItems THEN "no" ELSE "split"
    BY <1>4, <1>8, <2>1 DEF Inserted
  <2>3. u.size = t.size
    BY <1>4, <2>2
  <2>4. ReplacedAt(t, i, o, u)
    BY <1>3, <1>4, <1>8, <2>2, <2>3 DEF ReplacedAt
  <2> QED
    BY <1>6, <2>4
<1> QED
  BY <1>7, <1>8

------------------------------------------------------------------------------
(* The invariant. *)

\* Circles as requests give them.
CircleFits(circle) == circle.lat \in Int /\ circle.lon \in Int /\ circle.radius \in Nat

\* The keys of fence points that requests give.
Keys == {req.circle.key : req \in {r \in AllRequests : r.op = "addFencePoint"}}

\* A key has one ID.
NoRepeat(ids) == \A i, j \in DOMAIN ids : ids[i] = ids[j] => i = j

\* Every object of the tree has an ID that was given out.
Known(t, ids) == \A x \in Range(Objects(t.root)) : x.id < Len(ids)

\* The tree has the objects of the circles, each once.
HoldsAll(t, ids, circles) ==
  LET objs == Objects(t.root)
  IN  /\ t.size = Len(objs) /\ Len(objs) = Cardinality(DOMAIN circles) /\ Distinct(objs)
      /\ Range(objs) = {ObjectOf(circle, ids) : circle \in Range(circles)}

\* Circles by their keys, as Add records them.
CirclesFit(circles, ids) ==
  /\ circles = [key \in DOMAIN circles |-> circles[key]] /\ IsFiniteSet(DOMAIN circles)
  /\ DOMAIN circles \subseteq Range(ids)
  /\ \A key \in DOMAIN circles : CircleFits(circles[key]) /\ circles[key].key = key

\* The IDs of a fence: the keys in the order in which they got one.
IDsFit(ids) == ids \in Seq(Keys) /\ NoRepeat(ids)

\* A tree that a fence with these IDs can have.
TreeFits(t, ids, broken) ==
  FlatTree(t) /\ Known(t, ids) /\ (~broken => HealthyTree(t))

FenceFits(f) ==
  /\ f = [rtree |-> f.rtree, fenceIDMap |-> f.fenceIDMap, fence |-> f.fence,
          acked |-> f.acked, raced |-> f.raced, broken |-> f.broken]
  /\ f.raced \in BOOLEAN /\ f.broken \in BOOLEAN
  /\ IDsFit(f.fenceIDMap) /\ f.fence = f.acked /\ CirclesFit(f.acked, f.fenceIDMap)
  /\ TreeFits(f.rtree, f.fenceIDMap, f.broken)

\* The steps of a request that hold nothing but the request.
EarlySteps == {<<"addGeofence", "addFence">>, <<"addGeofence", "addFence2">>,
               <<"deleteGeofence", "deleteFence">>, <<"setQueryPoint", "updateFencePoint">>,
               <<"setQueryPoint", "updateFencePoint2">>, <<"searchFence", "search">>,
               <<"addFencePoint", "addFencePoint">>, <<"addFencePoint", "addFencePoint2">>}

\* The steps inside Add of a fence object.
InAdd == {"add", "add2"}

\* A request under way: a is what call has of client c, hp the heap.
CallFits(c, a, hp) ==
  \/ a = Idle
  \/ /\ <<a.req.op, a.at>> \in EarlySteps /\ a.req \in Requests[c]
     /\ a = [at |-> a.at, req |-> a.req]
  \/ /\ a.at = "search2" /\ a.req \in Requests[c] /\ a.req.op = "searchFence"
     /\ a = [at |-> a.at, req |-> a.req, ref |-> a.ref] /\ a.ref \in DOMAIN hp
  \/ /\ a.at \in {"search3", "search4"} /\ a.req \in Requests[c] /\ a.req.op = "searchFence"
     /\ a = [at |-> a.at, req |-> a.req, ref |-> a.ref, old |-> a.old] /\ a.ref \in DOMAIN hp
  \/ /\ a.at = "add" /\ a.req \in Requests[c] /\ a.req.op = "addFencePoint"
     /\ a = [at |-> a.at, req |-> a.req, ref |-> a.ref, rtree |-> a.rtree] /\ a.ref \in DOMAIN hp
     /\ a.req.circle.key \in Range(hp[a.ref].fenceIDMap)
     /\ TreeFits(a.rtree, hp[a.ref].fenceIDMap, hp[a.ref].broken)
  \/ /\ a.at = "add2" /\ a.req \in Requests[c] /\ a.req.op = "addFencePoint"
     /\ a = [at |-> a.at, req |-> a.req, ref |-> a.ref] /\ a.ref \in DOMAIN hp
     /\ a.req.circle.key \in Range(hp[a.ref].fenceIDMap)

\* The circles with one more, as Add records it.
With(circles, circle) == [key \in DOMAIN circles \cup {circle.key} |->
                             IF key = circle.key THEN circle ELSE circles[key]]

\* A call at a step of Add of the fence with this reference.
At(a, step, ref) == a.at = step /\ a.ref = ref

\* What the fence with this reference holds, of which the calls in cl know.
Kept(f, ref, cl) ==
  ~f.raced /\ ~f.broken =>
    /\ (\A c \in Clients : ~At(cl[c], "add2", ref)) => HoldsAll(f.rtree, f.fenceIDMap, f.acked)
    /\ \A c \in Clients :
          /\ At(cl[c], "add", ref) => cl[c].rtree = f.rtree
          /\ At(cl[c], "add2", ref) =>
                HoldsAll(f.rtree, f.fenceIDMap, With(f.acked, cl[c].req.circle))

\* Two calls in Add of one fence, and the fence is known to be raced.
AddsAlone(f, ref, cl) ==
  ~f.raced => \A c, d \in Clients :
    cl[c].at \in InAdd /\ cl[d].at \in InAdd /\ cl[c].ref = ref /\ cl[d].ref = ref => c = d

\* Every fence object fits.
FencesInv == \A ref \in DOMAIN heap : FenceFits(heap[ref])

\* Every call under way fits.
CallsInv == call = [c \in Clients |-> call[c]] /\ \A c \in Clients : CallFits(c, call[c], heap)

\* Every fence object holds the points that were acknowledged.
KeptInv == \A ref \in DOMAIN heap : Kept(heap[ref], ref, call) /\ AddsAlone(heap[ref], ref, call)

\* The store, and the shape of the heap, of the map of fences and of the answers.
StoreInv ==
  /\ Len(heap) \in Nat /\ DOMAIN heap = 1..Len(heap) /\ heap = [ref \in DOMAIN heap |-> heap[ref]]
  /\ fences \in [FenceNames -> {NoFence} \cup DOMAIN heap]
  /\ queryPoint \in [QueryPointIDs -> Positions]
  /\ reply = [c \in Clients |-> reply[c]] /\ \A c \in Clients : reply[c].code \in {0, 200, 400, 500}
  /\ requests \in 0..MaxRequests /\ faults \in 0..MaxFaults /\ restarts \in 0..MaxRestarts

IInv == StoreInv /\ FencesInv /\ CallsInv /\ KeptInv

------------------------------------------------------------------------------
(* What Add makes of a tree that fits. *)

\* The tree a panic leaves behind, once it is recovered.
LEMMA RecoveredTree ==
  ASSUME NEW u, RtreeShape(u)
  PROVE  /\ RtreeShape([u EXCEPT !.panicked = "no"]) /\ [u EXCEPT !.panicked = "no"].panicked = "no"
         /\ [u EXCEPT !.panicked = "no"].root = u.root /\ [u EXCEPT !.panicked = "no"].size = u.size
<1>1. PICK root, size, height, lost, shared, astray, panicked :
        /\ root = u.root /\ size = u.size /\ height = u.height /\ lost = u.lost
        /\ shared = u.shared /\ astray = u.astray /\ panicked = u.panicked
  OBVIOUS
<1>2. u = [root |-> root, size |-> size, height |-> height, lost |-> lost,
           shared |-> shared, astray |-> astray, panicked |-> panicked]
  BY <1>1 DEF RtreeShape
<1>3. PICK v : v = [u EXCEPT !.panicked = "no"]
  OBVIOUS
<1>4. v = [root |-> root, size |-> size, height |-> height, lost |-> lost,
           shared |-> shared, astray |-> astray, panicked |-> "no"]
  BY <1>2, <1>3
<1>5. v.root = root /\ v.size = size /\ v.panicked = "no"
  BY <1>4
<1>6. v = [root |-> v.root, size |-> v.size, height |-> v.height, lost |-> v.lost,
           shared |-> v.shared, astray |-> v.astray, panicked |-> v.panicked]
  BY <1>4
<1>7. RtreeShape(v)
  BY <1>6 DEF RtreeShape
<1> QED
  BY <1>1, <1>3, <1>5, <1>7

\* The three things that Add can do to a tree.
LEMMA AddCases ==
  ASSUME NEW t, FlatTree(t), NEW o \in PlaneObjects, NEW u, u = AddToTree(t, o)
  PROVE  \/ t.root \in DataNodes /\ Refused(t, u)
         \/ IsLeafRoot(t.root) /\ Places(t.root.items, o) = {} /\ Inserted(t, o, u)
         \/ IsLeafRoot(t.root) /\ \E i \in Places(t.root.items, o) : ReplacedAt(t, i, o, u)
<1>1. RtreeShape(t) /\ t.panicked = "no" /\ t.size \in Int /\ (IsLeafRoot(t.root) \/ t.root \in DataNodes)
  BY DEF FlatTree
<1>2. CASE t.root \in DataNodes
  BY <1>1, <1>2, AddToDataRoot
<1>3. CASE IsLeafRoot(t.root) /\ Places(t.root.items, o) = {}
  BY <1>1, <1>3, AddNewPoint
<1>4. CASE IsLeafRoot(t.root) /\ Places(t.root.items, o) # {}
  <2>1. \E i \in Places(t.root.items, o) : ReplacedAt(t, i, o, AddToTree(t, o))
    BY <1>1, <1>4, AddKnownPoint
  <2> QED
    BY <1>4, <2>1
<1> QED
  BY <1>1, <1>2, <1>3, <1>4

\* Of a sequence of objects without one, and with another: no new object but that one.
LEMMA FewObjects ==
  ASSUME NEW objs \in Seq(PlaneObjects), NEW i \in DOMAIN objs, NEW o \in PlaneObjects
  PROVE  /\ Range(SwapOut(objs, i)) \subseteq Range(objs)
         /\ Range(Append(SwapOut(objs, i), o)) \subseteq Range(objs) \cup {o}
         /\ Range(Append(objs, o)) \subseteq Range(objs) \cup {o}
<1>0. PICK n \in Nat : n = Len(objs) /\ DOMAIN objs = 1..n /\ i \in 1..n
  OBVIOUS
<1>1. PICK out : out = SwapOut(objs, i)
  OBVIOUS
<1>2. SwappedOut(PlaneObjects, objs, i, out)
  BY <1>1, SwapOutParts
<1>3. out \in Seq(PlaneObjects) /\ DOMAIN out = 1..n - 1
      /\ \A k \in 1..n - 1 : out[k] = IF k = i THEN objs[n] ELSE objs[k]
  <2>1. out \in Seq(PlaneObjects) /\ Len(out) = n - 1
    BY <1>0, <1>2 DEF SwappedOut
  <2>2. DOMAIN out = 1..n - 1
    BY <2>1
  <2>3. \A k \in 1..n - 1 : out[k] = IF k = i THEN objs[n] ELSE objs[k]
    BY <1>0, <1>2 DEF SwappedOut
  <2> QED
    BY <2>1, <2>2, <2>3
<1>4. Range(out) \subseteq Range(objs)
  BY <1>0, <1>3 DEF Range
<1>5. \A s \in Seq(PlaneObjects) : Range(Append(s, o)) \subseteq Range(s) \cup {o}
  <2> TAKE s \in Seq(PlaneObjects)
  <2>1. PICK m \in Nat : m = Len(s) /\ DOMAIN s = 1..m
    OBVIOUS
  <2>2. PICK r : r = Append(s, o)
    OBVIOUS
  <2>3. DOMAIN r = 1..m + 1 /\ r[m + 1] = o /\ \A k \in 1..m : r[k] = s[k]
    BY <2>1, <2>2
  <2>4. \A k \in 1..m + 1 : k \in 1..m \/ k = m + 1
    OBVIOUS
  <2> QED
    BY <2>1, <2>2, <2>3, <2>4 DEF Range
<1> QED
  BY <1>1, <1>3, <1>4, <1>5

\* The objects after Add are objects from before and the one added.
LEMMA AddedObjects ==
  ASSUME NEW t, FlatTree(t), NEW o \in PlaneObjects, NEW u, u = AddToTree(t, o)
  PROVE  Range(Objects(u.root)) \subseteq Range(Objects(t.root)) \cup {o}
<1>1. CASE t.root \in DataNodes /\ Refused(t, u)
  BY <1>1 DEF Refused
<1>2. CASE IsLeafRoot(t.root) /\ Inserted(t, o, u)
  <2>1. Objects(t.root) \in Seq(PlaneObjects) /\ Objects(u.root) = Append(Objects(t.root), o)
    BY <1>2, InsertedObjects
  <2>2. CASE DOMAIN Objects(t.root) = {}
    <3>1. Objects(t.root) = <<>>
      BY <2>1, <2>2
    <3>2. Objects(u.root) = <<o>>
      BY <2>1, <3>1
    <3>3. Range(<<o>>) = {o}
      BY DEF Range
    <3> QED
      BY <3>2, <3>3
  <2>3. ASSUME NEW i \in DOMAIN Objects(t.root)
        PROVE  Range(Objects(u.root)) \subseteq Range(Objects(t.root)) \cup {o}
    BY <2>1, FewObjects
  <2> QED
    BY <2>2, <2>3
<1>3. CASE IsLeafRoot(t.root) /\ \E i \in Places(t.root.items, o) : ReplacedAt(t, i, o, u)
  <2>1. PICK i \in Places(t.root.items, o) : ReplacedAt(t, i, o, u)
    BY <1>3
  <2>2. /\ Objects(t.root) \in Seq(PlaneObjects) /\ i \in DOMAIN Objects(t.root)
        /\ \/ Objects(u.root) = SwapOut(Objects(t.root), i)
           \/ Objects(u.root) = Append(SwapOut(Objects(t.root), i), o)
    BY <1>3, <2>1, ReplacedObjects
  <2>3. /\ Range(SwapOut(Objects(t.root), i)) \subseteq Range(Objects(t.root))
        /\ Range(Append(SwapOut(Objects(t.root), i), o)) \subseteq Range(Objects(t.root)) \cup {o}
    BY <2>2, FewObjects
  <2> QED
    BY <2>2, <2>3
<1> QED
  BY <1>1, <1>2, <1>3, AddCases

\* Add leaves a tree that fits, and a healthy one unless it panics.
LEMMA AddedFits ==
  ASSUME NEW t, NEW ids, NEW broken, TreeFits(t, ids, broken),
         NEW o \in PlaneObjects, o.id < Len(ids), NEW u, u = AddToTree(t, o)
  PROVE  TreeFits([u EXCEPT !.panicked = "no"], ids, broken \/ u.panicked # "no")
<1>1. FlatTree(t) /\ Known(t, ids) /\ (~broken => HealthyTree(t))
  BY DEF TreeFits
<1>2. RtreeShape(t) /\ t.size \in Int
  BY <1>1 DEF FlatTree
<1>3. /\ RtreeShape(u) /\ u.size \in Int /\ (IsLeafRoot(u.root) \/ u.root \in DataNodes)
      /\ HealthyTree(t) /\ u.panicked = "no" => IsLeafRoot(u.root) /\ Len(u.root.items) <= MaxChildItems
  <2>1. CASE t.root \in DataNodes /\ Refused(t, u)
    BY <1>2, <2>1 DEF Refused
  <2>2. CASE IsLeafRoot(t.root) /\ Inserted(t, o, u)
    <3>1. PICK n \in Nat : n = Len(t.root.items) /\ Len(Append(t.root.items, DataNode(o))) = n + 1
      <4>1. t.root.items \in Seq(DataNodes) /\ DataNode(o) \in DataNodes
        BY <2>2 DEF IsLeafRoot, DataNodes
      <4> QED
        BY <4>1
    <3>2. u.panicked = "no" => n < MaxChildItems
      BY <2>2, <3>1 DEF Inserted
    <3>3. RtreeShape(u) /\ IsLeafRoot(u.root) /\ u.size = t.size + 1 /\ Len(u.root.items) = n + 1
      BY <2>2, <3>1 DEF Inserted
    <3>4. u.panicked = "no" => Len(u.root.items) <= MaxChildItems
      BY <3>2, <3>3, RtreeAssumption
    <3> QED
      BY <1>2, <3>3, <3>4
  <2>3. CASE IsLeafRoot(t.root) /\ \E i \in Places(t.root.items, o) : ReplacedAt(t, i, o, u)
    <3>1. PICK i \in Places(t.root.items, o) : ReplacedAt(t, i, o, u)
      BY <2>3
    <3>2. PICK n \in Nat : n = Len(t.root.items)
      <4>1. t.root.items \in Seq(DataNodes)
        BY <2>3 DEF IsLeafRoot
      <4> QED
        BY <4>1
    <3>3. PICK rest : rest = SwapOut(t.root.items, i)
      OBVIOUS
    <3>4. RtreeShape(u) /\ rest \in Seq(DataNodes) /\ Len(rest) = n - 1
      BY <3>1, <3>2, <3>3 DEF ReplacedAt
    <3>5. CASE n = 2
      <4>1. u.root \in DataNodes /\ u.size = t.size - 1 /\ u.panicked = "choose"
        BY <3>1, <3>2, <3>5 DEF ReplacedAt
      <4> QED
        BY <1>2, <3>4, <4>1
    <3>6. CASE n # 2
      <4>1. /\ IsLeafRoot(u.root) /\ u.root.items = Append(rest, DataNode(o)) /\ u.size = t.size
            /\ u.panicked = IF n - 1 < MaxChildItems THEN "no" ELSE "split"
        BY <3>1, <3>2, <3>3, <3>6 DEF ReplacedAt
      <4>2. Len(Append(rest, DataNode(o))) = n
        <5>1. DataNode(o) \in DataNodes
          BY DEF DataNodes
        <5> QED
          BY <3>4, <5>1
      <4>3. u.panicked = "no" => n <= MaxChildItems
        <5>1. n - 1 < MaxChildItems => n <= MaxChildItems
          BY RtreeAssumption
        <5> QED
          BY <4>1, <5>1
      <4> QED
        BY <1>2, <3>4, <4>1, <4>2, <4>3
    <3> QED
      BY <3>5, <3>6
  <2> QED
    BY <1>1, <2>1, <2>2, <2>3, AddCases
<1>4. PICK v : v = [u EXCEPT !.panicked = "no"]
  OBVIOUS
<1>5. RtreeShape(v) /\ v.panicked = "no" /\ v.root = u.root /\ v.size = u.size
  BY <1>3, <1>4, RecoveredTree
<1>6. FlatTree(v)
  BY <1>3, <1>5 DEF FlatTree
<1>7. Known(v, ids)
  <2>1. Range(Objects(u.root)) \subseteq Range(Objects(t.root)) \cup {o}
    BY <1>1, AddedObjects
  <2> QED
    BY <1>1, <1>5, <2>1 DEF Known
<1>8. ~(broken \/ u.panicked # "no") => HealthyTree(v)
  BY <1>1, <1>3, <1>5, <1>6 DEF HealthyTree
<1> QED
  BY <1>4, <1>6, <1>7, <1>8 DEF TreeFits

\* Add to a healthy tree panics at the limits only.
LEMMA AddPanics ==
  ASSUME NEW t, HealthyTree(t), NEW o \in PlaneObjects, AddToTree(t, o).panicked # "no"
  PROVE  \/ Len(Objects(t.root)) >= MaxChildItems
         \/ Len(Objects(t.root)) = 2 /\ FindLeaf(o, t.root) # <<>>
<1>1. PICK u : u = AddToTree(t, o)
  OBVIOUS
<1>2. FlatTree(t) /\ IsLeafRoot(t.root) /\ Len(t.root.items) <= MaxChildItems /\ u.panicked # "no"
  BY <1>1 DEF HealthyTree
<1>3. PICK n \in Nat : n = Len(t.root.items) /\ Len(Objects(t.root)) = n
  <2>1. t.root.items \in Seq(DataNodes)
    BY <1>2 DEF IsLeafRoot
  <2>2. PICK m \in Nat : m = Len(t.root.items)
    BY <2>1
  <2> QED
    BY <1>2, <2>2, LeafObjects
<1>4. CASE t.root \in DataNodes /\ Refused(t, u)
  <2>1. t.root.isLeaf = FALSE
    BY <1>4, DataNodeParts
  <2>2. t.root.isLeaf = TRUE
    BY <1>2 DEF IsLeafRoot
  <2> QED
    BY <2>1, <2>2
<1>5. CASE Inserted(t, o, u)
  <2>1. ~(n < MaxChildItems)
    BY <1>2, <1>3, <1>5 DEF Inserted
  <2> QED
    BY <1>3, <2>1, RtreeAssumption
<1>6. CASE \E i \in Places(t.root.items, o) : ReplacedAt(t, i, o, u)
  <2>1. PICK i \in Places(t.root.items, o) : ReplacedAt(t, i, o, u)
    BY <1>6
  <2>2. n # 2 => ~(n - 1 < MaxChildItems)
    BY <1>2, <1>3, <2>1 DEF ReplacedAt
  <2>3. n <= MaxChildItems
    BY <1>2, <1>3
  <2>4. FindLeaf(o, t.root) # <<>>
    BY <1>2, <2>1, LeafRootFind
  <2> QED
    BY <1>3, <2>2, <2>3, <2>4, RtreeAssumption
<1> QED
  BY <1>1, <1>2, <1>4, <1>5, <1>6, AddCases

\* Without a panic, a healthy tree with distinct IDs has the object added in the place
\* of the one with its ID, and the others.
Added(objs, o, new) ==
  /\ Distinct(new) /\ Range(new) = {x \in Range(objs) : x.id # o.id} \cup {o}
  /\ Len(objs) \in Nat
  /\ Len(new) = IF \E x \in Range(objs) : x.id = o.id THEN Len(objs) ELSE Len(objs) + 1

\* Adding an object to a tree that is as it should be gives the objects that Added tells.
LEMMA AddedExactly ==
  ASSUME NEW t, HealthyTree(t), Distinct(Objects(t.root)), NEW o \in PlaneObjects,
         NEW u, u = AddToTree(t, o), u.panicked = "no", t.size = Len(Objects(t.root))
  PROVE  Added(Objects(t.root), o, Objects(u.root)) /\ u.size = Len(Objects(u.root))
<1>1. FlatTree(t) /\ IsLeafRoot(t.root)
  BY DEF HealthyTree
<1>2. PICK objs : objs = Objects(t.root)
  OBVIOUS
<1>3. PICK new : new = Objects(u.root)
  OBVIOUS
<1>4. Places(t.root.items, o) = {k \in DOMAIN objs : objs[k].id = o.id}
  <2>1. Places(t.root.items, o) = {k \in DOMAIN Objects(t.root) : Objects(t.root)[k].id = o.id}
    BY <1>1, PlacesOfObjects
  <2> QED
    BY <1>2, <2>1
<1>5. CASE t.root \in DataNodes /\ Refused(t, u)
  BY <1>5 DEF Refused
<1>6. CASE Places(t.root.items, o) = {} /\ Inserted(t, o, u)
  <2>1. objs \in Seq(PlaneObjects) /\ new = Append(objs, o)
    BY <1>1, <1>2, <1>3, <1>6, InsertedObjects
  <2>2. \A k \in DOMAIN objs : objs[k].id # o.id
    BY <1>4, <1>6
  <2>3. Distinct(new) /\ Len(new) = Len(objs) + 1 /\ Range(new) = Range(objs) \cup {o}
    BY <1>2, <2>1, <2>2, AppendDistinct
  <2>4. \A x \in Range(objs) : x.id # o.id
    BY <2>2 DEF Range
  <2>5. Range(new) = {x \in Range(objs) : x.id # o.id} \cup {o}
    BY <2>3, <2>4
  <2>6. u.size = t.size + 1
    BY <1>6 DEF Inserted
  <2>7. Len(objs) \in Nat
    BY <2>1
  <2> QED
    BY <1>2, <1>3, <2>3, <2>4, <2>5, <2>6, <2>7 DEF Added
<1>7. CASE \E i \in Places(t.root.items, o) : ReplacedAt(t, i, o, u)
  <2>1. PICK i \in Places(t.root.items, o) : ReplacedAt(t, i, o, u)
    BY <1>7
  <2>2. PICK out : out = SwapOut(objs, i)
    OBVIOUS
  <2>3. Len(t.root.items) # 2
    BY <2>1 DEF ReplacedAt
  <2>4. objs \in Seq(PlaneObjects) /\ i \in DOMAIN objs /\ new = Append(out, o)
    BY <1>1, <1>2, <1>3, <2>1, <2>2, <2>3, ReplacedObjects
  <2>5. objs[i].id = o.id
    BY <1>4, <2>1
  <2>6. /\ out \in Seq(PlaneObjects) /\ Distinct(out) /\ Len(out) = Len(objs) - 1
        /\ Range(out) = {x \in Range(objs) : x.id # o.id}
    BY <1>2, <2>2, <2>4, <2>5, SwapOutDistinct
  <2>7. \A k \in DOMAIN out : out[k].id # o.id
    BY <2>6 DEF Range
  <2>8. Distinct(new) /\ Len(new) = Len(out) + 1 /\ Range(new) = Range(out) \cup {o}
    BY <2>4, <2>6, <2>7, AppendDistinct
  <2>9. \E x \in Range(objs) : x.id = o.id
    BY <2>4, <2>5 DEF Range
  <2>10. u.size = t.size
    BY <2>1, <2>3 DEF ReplacedAt
  <2>11. Len(objs) \in Nat /\ Len(new) = Len(objs)
    BY <2>4, <2>6, <2>8
  <2> QED
    BY <1>2, <1>3, <2>6, <2>8, <2>9, <2>10, <2>11 DEF Added
<1> QED
  BY <1>1, <1>5, <1>6, <1>7, AddCases

------------------------------------------------------------------------------
(* The IDs of points. *)

\* The ID of a key is its place, from zero.
LEMMA IdOfKey ==
  ASSUME NEW ids, IDsFit(ids), NEW key \in Range(ids)
  PROVE  /\ IdOf(ids, key) \in Nat /\ IdOf(ids, key) < Len(ids)
         /\ IdOf(ids, key) + 1 \in DOMAIN ids /\ ids[IdOf(ids, key) + 1] = key
<1>1. ids \in Seq(Keys)
  BY DEF IDsFit
<1>2. PICK n \in Nat : n = Len(ids) /\ DOMAIN ids = 1..n
  BY <1>1
<1>3. PICK i : i = CHOOSE j \in DOMAIN ids : ids[j] = key
  OBVIOUS
<1>4. i \in 1..n /\ ids[i] = key
  <2>1. \E j \in DOMAIN ids : ids[j] = key
    BY DEF Range
  <2> QED
    BY <1>2, <1>3, <2>1
<1>5. IdOf(ids, key) = i - 1
  BY <1>3 DEF IdOf
<1> QED
  BY <1>2, <1>4, <1>5

\* Different keys have different IDs.
LEMMA IdOfKeys ==
  ASSUME NEW ids, IDsFit(ids), NEW k1 \in Range(ids), NEW k2 \in Range(ids),
         IdOf(ids, k1) = IdOf(ids, k2)
  PROVE  k1 = k2
BY IdOfKey

\* An ID does not change when another is given out.
LEMMA GetIDKeeps ==
  ASSUME NEW ids, IDsFit(ids), NEW key \in Keys
  PROVE  /\ IDsFit(GetID(ids, key)) /\ key \in Range(GetID(ids, key))
         /\ Range(ids) \subseteq Range(GetID(ids, key))
         /\ Len(ids) \in Nat /\ Len(GetID(ids, key)) \in Nat /\ Len(ids) <= Len(GetID(ids, key))
         /\ \A k \in Range(ids) : IdOf(GetID(ids, key), k) = IdOf(ids, k)
<1>1. ids \in Seq(Keys) /\ NoRepeat(ids)
  BY DEF IDsFit
<1>2. PICK n \in Nat : n = Len(ids) /\ DOMAIN ids = 1..n
  BY <1>1
<1>3. CASE key \in Range(ids)
  <2>1. GetID(ids, key) = ids
    BY <1>3 DEF GetID
  <2> QED
    BY <1>2, <1>3, <2>1
<1>4. CASE key \notin Range(ids)
  <2>1. PICK new : new = Append(ids, key)
    OBVIOUS
  <2>2. GetID(ids, key) = new
    BY <1>4, <2>1 DEF GetID
  <2>3. /\ new \in Seq(Keys) /\ Len(new) = n + 1 /\ DOMAIN new = 1..n + 1
        /\ new[n + 1] = key /\ \A k \in 1..n : new[k] = ids[k]
    BY <1>1, <1>2, <2>1
  <2>4. \A k \in 1..n : ids[k] # key
    BY <1>2, <1>4 DEF Range
  <2>5. NoRepeat(new)
    <3> SUFFICES ASSUME NEW j \in 1..n + 1, NEW k \in 1..n + 1, new[j] = new[k] PROVE j = k
      BY <2>3 DEF NoRepeat
    <3>1. j \in 1..n \/ j = n + 1
      OBVIOUS
    <3>2. k \in 1..n \/ k = n + 1
      OBVIOUS
    <3> QED
      BY <1>1, <1>2, <2>3, <2>4, <3>1, <3>2 DEF NoRepeat
  <2>6. IDsFit(new)
    BY <2>3, <2>5 DEF IDsFit
  <2>7. key \in Range(new)
    <3>1. n + 1 \in DOMAIN new
      BY <2>3
    <3> QED
      BY <2>3, <3>1 DEF Range
  <2>8. \A k \in 1..n : k \in 1..n + 1
    OBVIOUS
  <2>9. Range(ids) \subseteq Range(new)
    BY <1>2, <2>3, <2>8 DEF Range
  <2>10. ASSUME NEW k \in Range(ids) PROVE IdOf(new, k) = IdOf(ids, k)
    <3>1. PICK i \in 1..n : i = IdOf(ids, k) + 1 /\ ids[i] = k
      BY <1>2, IdOfKey
    <3>2. PICK j \in 1..n + 1 : j = IdOf(new, k) + 1 /\ new[j] = k
      BY <2>3, <2>6, <2>9, IdOfKey
    <3>3. new[i] = k /\ i \in 1..n + 1
      BY <2>3, <2>8, <3>1
    <3>4. i = j
      BY <2>3, <2>5, <3>2, <3>3 DEF NoRepeat
    <3>5. IdOf(ids, k) \in Nat /\ IdOf(new, k) \in Nat
      BY <2>6, <2>9, IdOfKey
    <3> QED
      BY <3>1, <3>2, <3>4, <3>5
  <2> QED
    BY <1>2, <2>2, <2>3, <2>6, <2>7, <2>9, <2>10
<1> QED
  BY <1>3, <1>4

\* The object of a circle.
LEMMA ObjectFits ==
  ASSUME NEW circle, CircleFits(circle), NEW ids, IDsFit(ids), circle.key \in Range(ids)
  PROVE  /\ ObjectOf(circle, ids) \in PlaneObjects /\ ObjectOf(circle, ids).id < Len(ids)
         /\ ObjectOf(circle, ids).id = IdOf(ids, circle.key)
<1>1. IdOf(ids, circle.key) \in Nat /\ IdOf(ids, circle.key) < Len(ids)
  BY IdOfKey
<1>2. PICK id, lat, lon, bound :
        /\ id = IdOf(ids, circle.key) /\ lat = circle.lat /\ lon = circle.lon
        /\ bound = << <<circle.lat - circle.radius, circle.lat + circle.radius>>,
                      <<circle.lon - circle.radius, circle.lon + circle.radius>> >>
  OBVIOUS
<1>3. PICK o : o = ObjectOf(circle, ids)
  OBVIOUS
<1>4. o = [id |-> id, lat |-> lat, lon |-> lon, tag |-> {}, bound |-> bound]
  BY <1>2, <1>3 DEF ObjectOf
<1>5. id \in Nat /\ lat \in Int /\ lon \in Int /\ bound \in (Int \X Int) \X (Int \X Int)
  BY <1>1, <1>2 DEF CircleFits
<1>6. o \in PlaneObjects
  BY <1>4, <1>5 DEF PlaneObjects
<1>7. o.id = id
  BY <1>4
<1> QED
  BY <1>1, <1>2, <1>3, <1>6, <1>7

\* The circles with one more, or with another of the same key.
LEMMA WithFits ==
  ASSUME NEW circles, NEW ids, CirclesFit(circles, ids), NEW circle, CircleFits(circle),
         circle.key \in Range(ids)
  PROVE  CirclesFit(With(circles, circle), ids)
<1>1. PICK w : w = With(circles, circle)
  OBVIOUS
<1>2. /\ DOMAIN w = DOMAIN circles \cup {circle.key} /\ w = [key \in DOMAIN w |-> w[key]]
      /\ w[circle.key] = circle
      /\ \A key \in DOMAIN circles : key # circle.key => w[key] = circles[key]
  BY <1>1 DEF With
<1>3. IsFiniteSet(DOMAIN w)
  <2>1. IsFiniteSet(DOMAIN circles)
    BY DEF CirclesFit
  <2> QED
    BY <1>2, <2>1, FS_AddElement
<1>4. DOMAIN w \subseteq Range(ids)
  BY <1>2 DEF CirclesFit
<1>5. ASSUME NEW key \in DOMAIN w PROVE CircleFits(w[key]) /\ w[key].key = key
  <2>1. CASE key = circle.key
    BY <1>2, <2>1
  <2>2. CASE key # circle.key
    BY <1>2, <2>2 DEF CirclesFit
  <2> QED
    BY <2>1, <2>2
<1> QED
  BY <1>1, <1>2, <1>3, <1>4, <1>5 DEF CirclesFit

\* The objects of circles: one for each key, with the ID of the key.
LEMMA ObjectsOfCircles ==
  ASSUME NEW circles, NEW ids, CirclesFit(circles, ids), IDsFit(ids)
  PROVE  /\ {ObjectOf(circle, ids) : circle \in Range(circles)}
              = {ObjectOf(circles[key], ids) : key \in DOMAIN circles}
         /\ \A key \in DOMAIN circles : ObjectOf(circles[key], ids).id = IdOf(ids, key)
<1>1. Range(circles) = {circles[key] : key \in DOMAIN circles}
  BY DEF Range
<1>2. ASSUME NEW key \in DOMAIN circles PROVE ObjectOf(circles[key], ids).id = IdOf(ids, key)
  <2>1. CircleFits(circles[key]) /\ circles[key].key = key /\ key \in Range(ids)
    BY DEF CirclesFit
  <2>2. PICK circle : circle = circles[key]
    OBVIOUS
  <2>3. ObjectOf(circle, ids).id = IdOf(ids, circle.key)
    BY <2>1, <2>2, ObjectFits
  <2> QED
    BY <2>1, <2>2, <2>3
<1> QED
  BY <1>1, <1>2

\* An addition that does not panic: the tree holds the circles with the one added.
LEMMA HoldsAdded ==
  ASSUME NEW t, NEW ids, NEW circles, HealthyTree(t), HoldsAll(t, ids, circles),
         CirclesFit(circles, ids), IDsFit(ids), NEW circle, CircleFits(circle),
         circle.key \in Range(ids), AddToTree(t, ObjectOf(circle, ids)).panicked = "no"
  PROVE  HoldsAll([AddToTree(t, ObjectOf(circle, ids)) EXCEPT !.panicked = "no"], ids,
                  With(circles, circle))
<1>1. PICK o \in PlaneObjects : o = ObjectOf(circle, ids) /\ o.id = IdOf(ids, circle.key)
  BY ObjectFits
<1>2. PICK u : u = AddToTree(t, o)
  OBVIOUS
<1>3. PICK objs : objs = Objects(t.root)
  OBVIOUS
<1>4. PICK new : new = Objects(u.root)
  OBVIOUS
<1>5. /\ t.size = Len(objs) /\ Len(objs) = Cardinality(DOMAIN circles) /\ Distinct(objs)
      /\ Range(objs) = {ObjectOf(x, ids) : x \in Range(circles)}
  BY <1>3 DEF HoldsAll
<1>6. Added(objs, o, new) /\ u.size = Len(new)
  <2>1. u.panicked = "no" /\ Distinct(Objects(t.root)) /\ t.size = Len(Objects(t.root))
    BY <1>1, <1>2, <1>3, <1>5
  <2> QED
    BY <1>2, <1>3, <1>4, <2>1, AddedExactly
<1>7. PICK w : w = With(circles, circle)
  OBVIOUS
<1>8. /\ DOMAIN w = DOMAIN circles \cup {circle.key} /\ w[circle.key] = circle
      /\ \A key \in DOMAIN circles : key # circle.key => w[key] = circles[key]
  BY <1>7 DEF With
<1>9. /\ Range(objs) = {ObjectOf(circles[key], ids) : key \in DOMAIN circles}
      /\ \A key \in DOMAIN circles : ObjectOf(circles[key], ids).id = IdOf(ids, key)
  BY <1>5, ObjectsOfCircles
<1>10. \A key \in DOMAIN circles : ObjectOf(circles[key], ids).id = o.id <=> key = circle.key
  <2> TAKE key \in DOMAIN circles
  <2>1. key \in Range(ids)
    BY DEF CirclesFit
  <2>2. IdOf(ids, key) = IdOf(ids, circle.key) => key = circle.key
    BY <2>1, IdOfKeys
  <2> QED
    BY <1>1, <1>9, <2>2
<1>11. Range(new) = {ObjectOf(x, ids) : x \in Range(w)}
  <2>1. CirclesFit(w, ids)
    BY <1>7, WithFits
  <2>2. {ObjectOf(x, ids) : x \in Range(w)} = {ObjectOf(w[key], ids) : key \in DOMAIN w}
    BY <2>1, ObjectsOfCircles
  <2>3. Range(new) = {x \in Range(objs) : x.id # o.id} \cup {o}
    BY <1>6 DEF Added
  <2>4. ASSUME NEW x \in Range(new) PROVE \E key \in DOMAIN w : x = ObjectOf(w[key], ids)
    <3>1. CASE x = o
      BY <1>1, <1>8, <3>1
    <3>2. CASE x \in Range(objs) /\ x.id # o.id
      <4>1. PICK key \in DOMAIN circles : x = ObjectOf(circles[key], ids)
        BY <1>9, <3>2
      <4>2. key # circle.key
        BY <1>10, <3>2, <4>1
      <4> QED
        BY <1>8, <4>1, <4>2
    <3> QED
      BY <2>3, <3>1, <3>2
  <2>5. ASSUME NEW key \in DOMAIN w PROVE ObjectOf(w[key], ids) \in Range(new)
    <3>1. CASE key = circle.key
      BY <1>1, <1>8, <2>3, <3>1
    <3>2. CASE key # circle.key
      <4>1. key \in DOMAIN circles /\ w[key] = circles[key]
        BY <1>8, <3>2
      <4>2. ObjectOf(circles[key], ids) \in Range(objs) /\ ObjectOf(circles[key], ids).id # o.id
        BY <1>9, <1>10, <3>2, <4>1
      <4> QED
        BY <2>3, <4>1, <4>2
    <3> QED
      BY <3>1, <3>2
  <2> QED
    BY <2>2, <2>4, <2>5
<1>12. Len(new) = Cardinality(DOMAIN w)
  <2>1. IsFiniteSet(DOMAIN circles)
    BY DEF CirclesFit
  <2>2. Len(objs) \in Nat /\ Len(new) = IF \E x \in Range(objs) : x.id = o.id THEN Len(objs) ELSE Len(objs) + 1
    BY <1>6 DEF Added
  <2>3. CASE circle.key \in DOMAIN circles
    <3>1. DOMAIN w = DOMAIN circles
      BY <1>8, <2>3
    <3>2. \E x \in Range(objs) : x.id = o.id
      BY <1>9, <1>10, <2>3
    <3> QED
      BY <1>5, <2>2, <3>1, <3>2
  <2>4. CASE circle.key \notin DOMAIN circles
    <3>1. \A x \in Range(objs) : x.id # o.id
      BY <1>9, <1>10, <2>4
    <3>2. Cardinality(DOMAIN w) = Cardinality(DOMAIN circles) + 1
      BY <1>8, <2>1, <2>4, FS_AddElement
    <3> QED
      BY <1>5, <2>2, <3>1, <3>2
  <2> QED
    BY <2>3, <2>4
<1>13. PICK v : v = [u EXCEPT !.panicked = "no"]
  OBVIOUS
<1>14. v.root = u.root /\ v.size = u.size
  <2>1. FlatTree(t)
    BY DEF HealthyTree
  <2>2. RtreeShape(u)
    BY <1>2, <2>1, AddCases DEF Refused, Inserted, ReplacedAt
  <2> QED
    BY <1>13, <2>2, RecoveredTree
<1>15. Distinct(new)
  BY <1>6 DEF Added
<1>16. HoldsAll(v, ids, w)
  BY <1>4, <1>6, <1>11, <1>12, <1>14, <1>15 DEF HoldsAll
<1> QED
  BY <1>1, <1>2, <1>7, <1>13, <1>16

\* Giving out an ID changes nothing in what fits and what is held.
LEMMA GetIDFits ==
  ASSUME NEW t, NEW ids, NEW circles, NEW broken, NEW key \in Keys, IDsFit(ids),
         CirclesFit(circles, ids), TreeFits(t, ids, broken)
  PROVE  /\ CirclesFit(circles, GetID(ids, key)) /\ TreeFits(t, GetID(ids, key), broken)
         /\ HoldsAll(t, ids, circles) => HoldsAll(t, GetID(ids, key), circles)
<1>1. PICK new : new = GetID(ids, key)
  OBVIOUS
<1>2. /\ IDsFit(new) /\ Range(ids) \subseteq Range(new)
      /\ Len(ids) \in Nat /\ Len(new) \in Nat /\ Len(ids) <= Len(new)
      /\ \A k \in Range(ids) : IdOf(new, k) = IdOf(ids, k)
  BY <1>1, GetIDKeeps
<1>3. CirclesFit(circles, new)
  BY <1>2 DEF CirclesFit
<1>4. TreeFits(t, new, broken)
  <2>1. FlatTree(t) /\ Known(t, ids) /\ (~broken => HealthyTree(t))
    BY DEF TreeFits
  <2>2. Known(t, new)
    <3> SUFFICES ASSUME NEW x \in Range(Objects(t.root)) PROVE x.id < Len(new)
      BY DEF Known
    <3>1. x.id < Len(ids)
      BY <2>1 DEF Known
    <3>2. x.id \in Int
      <4>1. CASE IsLeafRoot(t.root)
        <5>1. t.root.items \in Seq(DataNodes)
          BY <4>1 DEF IsLeafRoot
        <5>2. PICK n \in Nat : n = Len(t.root.items)
          BY <5>1
        <5>3. Objects(t.root) \in Seq(PlaneObjects)
          BY <4>1, <5>2, LeafObjects
        <5>4. x \in PlaneObjects
          BY <5>3, SeqParts
        <5> QED
          BY <5>4 DEF PlaneObjects
      <4>2. CASE t.root \in DataNodes
        <5>1. Objects(t.root) = <<t.root.leaf>> /\ t.root.leaf \in PlaneObjects
          BY <4>2, DataRootObjects, DataNodeParts
        <5>2. x = t.root.leaf
          BY <5>1 DEF Range
        <5> QED
          BY <5>1, <5>2 DEF PlaneObjects
      <4> QED
        BY <2>1, <4>1, <4>2 DEF FlatTree
    <3> QED
      BY <1>2, <3>1, <3>2
  <2> QED
    BY <2>1, <2>2 DEF TreeFits
<1>5. ASSUME HoldsAll(t, ids, circles) PROVE HoldsAll(t, new, circles)
  <2>1. \A circle \in Range(circles) : ObjectOf(circle, new) = ObjectOf(circle, ids)
    <3> TAKE circle \in Range(circles)
    <3>1. circle.key \in Range(ids)
      BY DEF CirclesFit, Range
    <3>2. IdOf(new, circle.key) = IdOf(ids, circle.key)
      BY <1>2, <3>1
    <3> QED
      BY <3>2 DEF ObjectOf
  <2>2. {ObjectOf(circle, ids) : circle \in Range(circles)}
          = {ObjectOf(circle, new) : circle \in Range(circles)}
    BY <2>1
  <2> QED
    BY <1>5, <2>2 DEF HoldsAll
<1> QED
  BY <1>1, <1>3, <1>4, <1>5

------------------------------------------------------------------------------
(* Calls, step by step. *)

\* A call at an early step.
LEMMA EarlyCall ==
  ASSUME NEW c, NEW a, NEW hp, CallFits(c, a, hp),
         a.at \in {"addFence", "addFence2", "deleteFence", "updateFencePoint", "updateFencePoint2",
                   "search", "addFencePoint", "addFencePoint2"}
  PROVE  /\ a = [at |-> a.at, req |-> a.req] /\ a.req \in Requests[c]
         /\ <<a.req.op, a.at>> \in EarlySteps
<1>1. a # Idle
  BY DEF Idle
<1> QED
  BY <1>1 DEF CallFits

\* The operation is known from the step.
LEMMA EarlyOp ==
  ASSUME NEW op, NEW at, <<op, at>> \in EarlySteps
  PROVE  /\ at \in {"addFence", "addFence2"} <=> op = "addGeofence"
         /\ at = "deleteFence" <=> op = "deleteGeofence"
         /\ at \in {"updateFencePoint", "updateFencePoint2"} <=> op = "setQueryPoint"
         /\ at = "search" <=> op = "searchFence"
         /\ at \in {"addFencePoint", "addFencePoint2"} <=> op = "addFencePoint"
         /\ at \notin InAdd
BY DEF EarlySteps, InAdd

\* What is known of a search that has its fence.
LEMMA SearchCall ==
  ASSUME NEW c, NEW a, NEW hp, CallFits(c, a, hp), a.at \in {"search2", "search3", "search4"}
  PROVE  /\ a.req \in Requests[c] /\ a.req.op = "searchFence" /\ a.ref \in DOMAIN hp
         /\ a.at = "search2" => a = [at |-> a.at, req |-> a.req, ref |-> a.ref]
         /\ a.at # "search2" => a = [at |-> a.at, req |-> a.req, ref |-> a.ref, old |-> a.old]
<1>1. a # Idle
  BY DEF Idle
<1>2. ~ (<<a.req.op, a.at>> \in EarlySteps)
  BY DEF EarlySteps
<1> QED
  BY <1>1, <1>2 DEF CallFits

\* What is known of an addition that has its fence.
LEMMA AddCall ==
  ASSUME NEW c, NEW a, NEW hp, CallFits(c, a, hp), a.at \in InAdd
  PROVE  /\ a.req \in Requests[c] /\ a.req.op = "addFencePoint" /\ a.ref \in DOMAIN hp
         /\ a.req.circle.key \in Range(hp[a.ref].fenceIDMap)
         /\ a.at = "add" => /\ a = [at |-> a.at, req |-> a.req, ref |-> a.ref, rtree |-> a.rtree]
                            /\ TreeFits(a.rtree, hp[a.ref].fenceIDMap, hp[a.ref].broken)
         /\ a.at = "add2" => a = [at |-> a.at, req |-> a.req, ref |-> a.ref]
<1>1. a # Idle
  BY DEF Idle, InAdd
<1>2. ~ (<<a.req.op, a.at>> \in EarlySteps)
  BY DEF EarlySteps, InAdd
<1> QED
  BY <1>1, <1>2 DEF CallFits, InAdd

\* What the requests give.
LEMMA RequestFits ==
  ASSUME NEW c \in Clients, NEW req \in Requests[c]
  PROVE  /\ req.fence \in FenceNames /\ req \in AllRequests
         /\ req.op \in {"setQueryPoint", "searchFence"} => req.id \in QueryPointIDs /\ req.at \in Positions
         /\ req.op = "addFencePoint" => CircleFits(req.circle) /\ req.circle.key \in Keys
<1>1. req \in AllRequests
  BY DEF AllRequests
<1>2. req.fence \in FenceNames
  BY GeofenceAssumption
<1>3. ASSUME req.op \in {"setQueryPoint", "searchFence"} PROVE req.id \in QueryPointIDs /\ req.at \in Positions
  <2>1. "at" \in DOMAIN req /\ req.id \in QueryPointIDs
    BY <1>3, GeofenceAssumption
  <2> QED
    BY <1>1, <2>1 DEF Positions
<1>4. ASSUME req.op = "addFencePoint" PROVE CircleFits(req.circle) /\ req.circle.key \in Keys
  <2>1. CircleFits(req.circle)
    BY <1>4, GeofenceAssumption DEF CircleFits
  <2>2. req \in {r \in AllRequests : r.op = "addFencePoint"}
    BY <1>1, <1>4
  <2> QED
    BY <2>1, <2>2 DEF Keys
<1> QED
  BY <1>1, <1>2, <1>3, <1>4

\* A call that is not in Add of a fence, before and after, says nothing about it.
LEMMA KeptApart ==
  ASSUME NEW f, NEW ref, NEW cl, NEW c \in Clients, NEW b, NEW cl2,
         cl = [d \in Clients |-> cl[d]], cl2 = [cl EXCEPT ![c] = b],
         ~(cl[c].at \in InAdd /\ cl[c].ref = ref), ~(b.at \in InAdd /\ b.ref = ref),
         Kept(f, ref, cl), AddsAlone(f, ref, cl)
  PROVE  Kept(f, ref, cl2) /\ AddsAlone(f, ref, cl2)
<1>1. cl2[c] = b /\ \A d \in Clients : d # c => cl2[d] = cl[d]
  OBVIOUS
<1>2. \A d \in Clients : \A step \in InAdd :
         At(cl2[d], step, ref) <=> At(cl[d], step, ref)
  BY <1>1 DEF At
<1>3. \A d \in Clients : \A step \in InAdd : At(cl2[d], step, ref) => cl2[d] = cl[d]
  BY <1>1 DEF At
<1>4. "add" \in InAdd /\ "add2" \in InAdd
  BY DEF InAdd
<1>5. Kept(f, ref, cl2)
  <2> SUFFICES ASSUME ~f.raced, ~f.broken
               PROVE  /\ (\A d \in Clients : ~At(cl2[d], "add2", ref)) => HoldsAll(f.rtree, f.fenceIDMap, f.acked)
                      /\ \A d \in Clients :
                            /\ At(cl2[d], "add", ref) => cl2[d].rtree = f.rtree
                            /\ At(cl2[d], "add2", ref) =>
                                  HoldsAll(f.rtree, f.fenceIDMap, With(f.acked, cl2[d].req.circle))
    BY DEF Kept
  <2>1. /\ (\A d \in Clients : ~At(cl[d], "add2", ref)) => HoldsAll(f.rtree, f.fenceIDMap, f.acked)
        /\ \A d \in Clients :
              /\ At(cl[d], "add", ref) => cl[d].rtree = f.rtree
              /\ At(cl[d], "add2", ref) =>
                    HoldsAll(f.rtree, f.fenceIDMap, With(f.acked, cl[d].req.circle))
    BY DEF Kept
  <2>2. (\A d \in Clients : ~At(cl2[d], "add2", ref)) => HoldsAll(f.rtree, f.fenceIDMap, f.acked)
    BY <1>2, <1>4, <2>1
  <2>3. ASSUME NEW d \in Clients
        PROVE  /\ At(cl2[d], "add", ref) => cl2[d].rtree = f.rtree
               /\ At(cl2[d], "add2", ref) =>
                     HoldsAll(f.rtree, f.fenceIDMap, With(f.acked, cl2[d].req.circle))
    <3>1. ASSUME At(cl2[d], "add", ref) PROVE cl2[d].rtree = f.rtree
      <4>1. cl2[d] = cl[d] /\ At(cl[d], "add", ref)
        BY <1>2, <1>3, <1>4, <3>1
      <4> QED
        BY <2>1, <4>1
    <3>2. ASSUME At(cl2[d], "add2", ref)
          PROVE  HoldsAll(f.rtree, f.fenceIDMap, With(f.acked, cl2[d].req.circle))
      <4>1. cl2[d] = cl[d] /\ At(cl[d], "add2", ref)
        BY <1>2, <1>3, <1>4, <3>2
      <4> QED
        BY <2>1, <4>1
    <3> QED
      BY <3>1, <3>2
  <2> QED
    BY <2>2, <2>3
<1>6. AddsAlone(f, ref, cl2)
  <2> SUFFICES ASSUME ~f.raced, NEW d \in Clients, NEW e \in Clients,
                      cl2[d].at \in InAdd, cl2[e].at \in InAdd, cl2[d].ref = ref, cl2[e].ref = ref
               PROVE  d = e
    BY DEF AddsAlone
  <2>1. cl2[d] = cl[d] /\ cl2[e] = cl[e]
    BY <1>1
  <2> QED
    BY <2>1 DEF AddsAlone
<1> QED
  BY <1>5, <1>6

------------------------------------------------------------------------------
(* What a step changes: the state of one call, and at most one fence. *)

\* The invariant holds of a server that was just started.
LEMMA InitFits == Init => IInv
<1> SUFFICES ASSUME Init PROVE IInv
  OBVIOUS
<1>1. heap = <<>> /\ DOMAIN heap = {} /\ Len(heap) = 0 /\ heap = [ref \in DOMAIN heap |-> heap[ref]]
  BY DEF Init
<1>2. FencesInv /\ KeptInv
  BY <1>1 DEF FencesInv, KeptInv
<1>3. CallsInv
  <2>1. call = [c \in Clients |-> Idle]
    BY DEF Init
  <2>2. call = [c \in Clients |-> call[c]] /\ \A c \in Clients : call[c] = Idle
    BY <2>1
  <2> QED
    BY <2>2 DEF CallsInv, CallFits
<1>4. StoreInv
  <2>1. /\ Len(heap) \in Nat /\ DOMAIN heap = 1..Len(heap)
        /\ heap = [ref \in DOMAIN heap |-> heap[ref]]
    BY <1>1
  <2>2. fences \in [FenceNames -> {NoFence} \cup DOMAIN heap]
    BY DEF Init
  <2>3. queryPoint \in [QueryPointIDs -> Positions]
    BY DEF Init, Positions
  <2>4. reply = [c \in Clients |-> reply[c]] /\ \A c \in Clients : reply[c].code \in {0, 200, 400, 500}
    <3>1. reply = [c \in Clients |-> [code |-> 0]]
      BY DEF Init
    <3> QED
      BY <3>1
  <2>5. requests \in 0..MaxRequests /\ faults \in 0..MaxFaults /\ restarts \in 0..MaxRestarts
    BY GeofenceAssumption DEF Init
  <2> QED
    BY <2>1, <2>2, <2>3, <2>4, <2>5 DEF StoreInv
<1> QED
  BY <1>2, <1>3, <1>4 DEF IInv

\* What fits the fence f fits the fence g as well.
Wider(f, g) ==
  /\ Range(f.fenceIDMap) \subseteq Range(g.fenceIDMap)
  /\ \A t : TreeFits(t, f.fenceIDMap, f.broken) => TreeFits(t, g.fenceIDMap, g.broken)

\* A call that fits a heap fits a wider one.
LEMMA CallFitsWider ==
  ASSUME NEW c, NEW a, NEW hp, NEW hp2, CallFits(c, a, hp), DOMAIN hp \subseteq DOMAIN hp2,
         \A ref \in DOMAIN hp : Wider(hp[ref], hp2[ref])
  PROVE  CallFits(c, a, hp2)
<1>1. CASE a = Idle
  BY <1>1 DEF CallFits
<1>2. CASE a # Idle /\ <<a.req.op, a.at>> \in EarlySteps
  <2>1. a.req \in Requests[c] /\ a = [at |-> a.at, req |-> a.req]
    <3>1. a.at \notin {"search2", "search3", "search4", "add", "add2"}
      BY <1>2 DEF EarlySteps
    <3> QED
      BY <1>2, <3>1 DEF CallFits
  <2> QED
    BY <1>2, <2>1 DEF CallFits
<1>3. CASE a.at \in {"search2", "search3", "search4"}
  BY <1>3, SearchCall DEF CallFits
<1>4. CASE a.at \in InAdd
  <2>1. /\ a.req \in Requests[c] /\ a.req.op = "addFencePoint" /\ a.ref \in DOMAIN hp
        /\ a.req.circle.key \in Range(hp[a.ref].fenceIDMap)
        /\ a.at = "add" => /\ a = [at |-> a.at, req |-> a.req, ref |-> a.ref, rtree |-> a.rtree]
                           /\ TreeFits(a.rtree, hp[a.ref].fenceIDMap, hp[a.ref].broken)
        /\ a.at = "add2" => a = [at |-> a.at, req |-> a.req, ref |-> a.ref]
    BY <1>4, AddCall
  <2>2. a.req.circle.key \in Range(hp2[a.ref].fenceIDMap) /\ a.ref \in DOMAIN hp2
    BY <2>1 DEF Wider
  <2>3. a.at = "add" => TreeFits(a.rtree, hp2[a.ref].fenceIDMap, hp2[a.ref].broken)
    BY <2>1 DEF Wider
  <2> QED
    BY <1>4, <2>1, <2>2, <2>3 DEF CallFits, InAdd
<1> QED
  BY <1>1, <1>2, <1>3, <1>4 DEF CallFits, InAdd

\* A fence is as wide as itself.
LEMMA SameWidth == ASSUME NEW f PROVE Wider(f, f)
BY DEF Wider

\* A step outside Add that leaves the fences as they are.
LEMMA QuietStep ==
  ASSUME IInv, heap' = heap, NEW c \in Clients, NEW b, call' = [call EXCEPT ![c] = b],
         CallFits(c, b, heap), call[c].at \notin InAdd, b.at \notin InAdd
  PROVE  FencesInv' /\ CallsInv' /\ KeptInv'
<1>1. FencesInv /\ CallsInv /\ KeptInv
  BY DEF IInv
<1>2. FencesInv'
  BY <1>1 DEF FencesInv
<1>3. call = [d \in Clients |-> call[d]]
  BY <1>1 DEF CallsInv
<1>4. CallsInv'
  <2>1. call' = [d \in Clients |-> call'[d]]
    BY <1>3
  <2>2. \A d \in Clients : CallFits(d, call'[d], heap)
    BY <1>1, <1>3 DEF CallsInv
  <2> QED
    BY <2>1, <2>2 DEF CallsInv
<1>5. KeptInv'
  <2> SUFFICES ASSUME NEW ref \in DOMAIN heap
               PROVE  Kept(heap[ref], ref, call') /\ AddsAlone(heap[ref], ref, call')
    BY DEF KeptInv
  <2>1. Kept(heap[ref], ref, call) /\ AddsAlone(heap[ref], ref, call)
    BY <1>1 DEF KeptInv
  <2> QED
    BY <1>3, <2>1, KeptApart
<1> QED
  BY <1>2, <1>4, <1>5

\* A step of c that changes one fence, the one it is in Add of if it is in Add.
ChangesFence(ref, g, c, b) ==
  /\ heap' = [heap EXCEPT ![ref] = g] /\ call' = [call EXCEPT ![c] = b] /\ CallFits(c, b, heap')
  /\ FenceFits(g) /\ Wider(heap[ref], g) /\ Kept(g, ref, call') /\ AddsAlone(g, ref, call')
  /\ call[c].at \in InAdd => call[c].ref = ref
  /\ b.at \in InAdd => b.ref = ref

\* Such a step keeps what there is to say of the fences and the calls.
LEMMA FenceStep ==
  ASSUME IInv, NEW ref \in DOMAIN heap, NEW c \in Clients, \E g, b : ChangesFence(ref, g, c, b)
  PROVE  FencesInv' /\ CallsInv' /\ KeptInv'
<1>0. PICK g, b : ChangesFence(ref, g, c, b)
  OBVIOUS
<1>a. /\ heap' = [heap EXCEPT ![ref] = g] /\ call' = [call EXCEPT ![c] = b]
      /\ CallFits(c, b, heap') /\ FenceFits(g) /\ Kept(g, ref, call') /\ AddsAlone(g, ref, call')
  BY <1>0 DEF ChangesFence
<1>b. /\ Wider(heap[ref], g)
      /\ call[c].at \in InAdd => call[c].ref = ref
      /\ b.at \in InAdd => b.ref = ref
  BY <1>0 DEF ChangesFence
<1>1. FencesInv /\ CallsInv /\ KeptInv
  BY DEF IInv
<1>2. DOMAIN heap' = DOMAIN heap /\ heap'[ref] = g
      /\ \A r \in DOMAIN heap : r # ref => heap'[r] = heap[r]
  BY <1>a
<1>3. FencesInv'
  <2> SUFFICES ASSUME NEW r \in DOMAIN heap PROVE FenceFits(heap'[r])
    BY <1>2 DEF FencesInv
  <2>1. CASE r = ref
    BY <1>2, <1>a, <2>1
  <2>2. CASE r # ref
    BY <1>1, <1>2, <2>2 DEF FencesInv
  <2> QED
    BY <2>1, <2>2
<1>4. call = [d \in Clients |-> call[d]]
  BY <1>1 DEF CallsInv
<1>5. CallsInv'
  <2>1. call' = [d \in Clients |-> call'[d]]
    BY <1>4, <1>a
  <2>2. ASSUME NEW d \in Clients PROVE CallFits(d, call'[d], heap')
    <3>1. CASE d = c
      BY <1>4, <1>a, <3>1
    <3>2. CASE d # c
      <4>1. call'[d] = call[d] /\ CallFits(d, call[d], heap)
        BY <1>1, <1>4, <1>a, <3>2 DEF CallsInv
      <4>2. \A r \in DOMAIN heap : Wider(heap[r], heap'[r])
        BY <1>2, <1>b, SameWidth
      <4>3. PICK hp2 : hp2 = heap'
        OBVIOUS
      <4>4. CallFits(d, call[d], hp2)
        BY <1>2, <4>1, <4>2, <4>3, CallFitsWider
      <4> QED
        BY <4>1, <4>3, <4>4
    <3> QED
      BY <3>1, <3>2
  <2> QED
    BY <2>1, <2>2 DEF CallsInv
<1>6. KeptInv'
  <2> SUFFICES ASSUME NEW r \in DOMAIN heap
               PROVE  Kept(heap'[r], r, call') /\ AddsAlone(heap'[r], r, call')
    BY <1>2 DEF KeptInv
  <2>1. CASE r = ref
    BY <1>2, <1>a, <2>1
  <2>2. CASE r # ref
    <3>1. Kept(heap[r], r, call) /\ AddsAlone(heap[r], r, call)
      BY <1>1 DEF KeptInv
    <3>2. ~(call[c].at \in InAdd /\ call[c].ref = r) /\ ~(b.at \in InAdd /\ b.ref = r)
      BY <1>b, <2>2
    <3>3. Kept(heap[r], r, call') /\ AddsAlone(heap[r], r, call')
      BY <1>4, <1>a, <3>1, <3>2, KeptApart
    <3> QED
      BY <1>2, <2>2, <3>3
  <2> QED
    BY <2>1, <2>2
<1> QED
  BY <1>3, <1>5, <1>6

\* A client without a request can be in no fence's way.
LEMMA IdleFits ==
  ASSUME NEW c, NEW hp
  PROVE  CallFits(c, Idle, hp) /\ Idle.at \notin InAdd
BY DEF CallFits, Idle, InAdd

\* An answer, and the absence of one.
LEMMA ReplyFits ==
  ASSUME StoreInv, NEW c \in Clients,
         \/ reply' = reply
         \/ \E r : reply' = [reply EXCEPT ![c] = r] /\ r.code \in {0, 200, 400, 500}
  PROVE  reply' = [d \in Clients |-> reply'[d]] /\ \A d \in Clients : reply'[d].code \in {0, 200, 400, 500}
<1>1. reply = [d \in Clients |-> reply[d]] /\ \A d \in Clients : reply[d].code \in {0, 200, 400, 500}
  BY DEF StoreInv
<1>2. CASE reply' = reply
  BY <1>1, <1>2
<1>3. CASE \E r : reply' = [reply EXCEPT ![c] = r] /\ r.code \in {0, 200, 400, 500}
  <2>1. PICK r : reply' = [reply EXCEPT ![c] = r] /\ r.code \in {0, 200, 400, 500}
    BY <1>3
  <2> QED
    BY <1>1, <2>1
<1> QED
  BY <1>2, <1>3

------------------------------------------------------------------------------
(* Every step keeps the invariant. *)

\* A request that is refused, or begins.
LEMMA ReceiveKeeps ==
  ASSUME IInv, NEW c \in Clients, NEW req \in Requests[c], NEW valid, NEW step,
         <<req.op, step>> \in EarlySteps, Receive(c, req, valid, step)
  PROVE  IInv'
<1>1. /\ StoreInv /\ CallsInv /\ call[c] = Idle /\ requests < MaxRequests /\ requests' = requests + 1
      /\ UNCHANGED <<fences, heap, queryPoint, faults, restarts>>
  BY DEF IInv, Receive
<1>2. PICK new : new = [at |-> step, req |-> req]
  OBVIOUS
<1>3. CallFits(c, new, heap) /\ new.at \notin InAdd
  <2>1. new.at = step /\ new.req = req /\ new = [at |-> new.at, req |-> new.req]
    BY <1>2
  <2>2. step \notin InAdd
    BY EarlyOp
  <2> QED
    BY <2>1, <2>2 DEF CallFits
<1>4. PICK b : b \in {new, Idle} /\ call' = [call EXCEPT ![c] = b]
  BY <1>2 DEF Receive, Answer
<1>5. CallFits(c, b, heap) /\ b.at \notin InAdd /\ call[c].at \notin InAdd
  BY <1>1, <1>3, <1>4, IdleFits
<1>6. FencesInv' /\ CallsInv' /\ KeptInv'
  BY <1>1, <1>4, <1>5, QuietStep
<1>7. \E r : reply' = [reply EXCEPT ![c] = r] /\ r.code \in {0, 200, 400, 500}
  <2>0. PICK r0, r4 : r0 = [code |-> 0] /\ r4 = [code |-> 400]
    OBVIOUS
  <2>1. r0.code = 0 /\ r4.code = 400
    BY <2>0
  <2>2. reply' = [reply EXCEPT ![c] = r0] \/ reply' = [reply EXCEPT ![c] = r4]
    BY <2>0 DEF Receive, Answer
  <2> QED
    BY <2>1, <2>2
<1>8. reply' = [d \in Clients |-> reply'[d]] /\ \A d \in Clients : reply'[d].code \in {0, 200, 400, 500}
  BY <1>1, <1>7, ReplyFits
<1>9. requests' \in 0..MaxRequests
  BY <1>1, GeofenceAssumption DEF StoreInv
<1>10. StoreInv'
  BY <1>1, <1>8, <1>9 DEF StoreInv
<1> QED
  BY <1>6, <1>10 DEF IInv

\* Outside Add, a call that ends or goes on with the fences as they are.
LEMMA StepKeeps ==
  ASSUME IInv, heap' = heap, NEW c \in Clients, NEW b, call' = [call EXCEPT ![c] = b],
         CallFits(c, b, heap), call[c].at \notin InAdd, b.at \notin InAdd,
         \/ reply' = reply
         \/ \E r : reply' = [reply EXCEPT ![c] = r] /\ r.code \in {0, 200, 400, 500},
         fences' \in [FenceNames -> {NoFence} \cup DOMAIN heap],
         queryPoint' \in [QueryPointIDs -> Positions],
         faults' \in 0..MaxFaults, UNCHANGED <<requests, restarts>>
  PROVE  IInv'
<1>1. StoreInv
  BY DEF IInv
<1>2. FencesInv' /\ CallsInv' /\ KeptInv'
  BY QuietStep
<1>3. reply' = [d \in Clients |-> reply'[d]] /\ \A d \in Clients : reply'[d].code \in {0, 200, 400, 500}
  BY <1>1, ReplyFits
<1>4. StoreInv'
  BY <1>1, <1>3 DEF StoreInv
<1> QED
  BY <1>2, <1>4 DEF IInv

\* What the invariant says of the variables a handler reads.
LEMMA StoreFits ==
  ASSUME IInv
  PROVE  /\ fences \in [FenceNames -> {NoFence} \cup DOMAIN heap] /\ faults \in 0..MaxFaults
         /\ queryPoint \in [QueryPointIDs -> Positions]
         /\ call = [c \in Clients |-> call[c]]
         /\ \A c \in Clients : CallFits(c, call[c], heap)
         /\ \A ref \in DOMAIN heap : /\ FenceFits(heap[ref]) /\ Kept(heap[ref], ref, call)
                                     /\ AddsAlone(heap[ref], ref, call)
BY DEF IInv, StoreInv, CallsInv, FencesInv, KeptInv

\* An answer without a body.
LEMMA AnswerParts ==
  ASSUME NEW c \in Clients, NEW code \in {200, 400, 500}, Answer(c, code)
  PROVE  /\ call' = [call EXCEPT ![c] = Idle]
         /\ \E r : reply' = [reply EXCEPT ![c] = r] /\ r.code \in {0, 200, 400, 500}
<1>1. [code |-> code].code = code
  OBVIOUS
<1> QED
  BY <1>1 DEF Answer

\* The next step of a request that is in no fence.
LEMMA NextEarly ==
  ASSUME IInv, NEW c \in Clients, NEW step, Goto(c, step),
         call[c].at \in {"addFence", "addFence2", "deleteFence", "updateFencePoint", "updateFencePoint2",
                   "search", "addFencePoint", "addFencePoint2"},
         <<call[c].req.op, step>> \in EarlySteps
  PROVE  \E b : call' = [call EXCEPT ![c] = b] /\ CallFits(c, b, heap) /\ b.at \notin InAdd
<1>1. CallFits(c, call[c], heap) /\ call = [d \in Clients |-> call[d]]
  BY StoreFits
<1>2. PICK a : a = call[c]
  OBVIOUS
<1>3. a = [at |-> a.at, req |-> a.req] /\ a.req \in Requests[c]
  BY <1>1, <1>2, EarlyCall
<1>4. PICK b : b = [at |-> step, req |-> a.req]
  OBVIOUS
<1>5. call' = [call EXCEPT ![c] = b]
  <2>1. call' = [call EXCEPT ![c].at = step]
    BY DEF Goto
  <2>2. call' = [call EXCEPT ![c] = [a EXCEPT !.at = step]]
    BY <1>1, <1>2, <2>1
  <2>3. PICK req : req = a.req
    OBVIOUS
  <2>4. [a EXCEPT !.at = step] = [at |-> step, req |-> req]
    BY <1>3, <2>3
  <2> QED
    BY <1>4, <2>2, <2>3, <2>4
<1>6. b.at = step /\ b.req = a.req /\ b = [at |-> b.at, req |-> b.req]
  BY <1>4
<1>7. CallFits(c, b, heap) /\ b.at \notin InAdd
  <2>1. b.at \notin InAdd
    BY <1>2, <1>6, EarlyOp
  <2> QED
    BY <1>2, <1>3, <1>6, <2>1 DEF CallFits
<1> QED
  BY <1>5, <1>7

\* The steps that look a fence up and go on, or answer 400.
LEMMA LookUpKeeps ==
  ASSUME IInv, NEW c \in Clients, NEW step,
         call[c].at \in {"addFence", "addFence2", "deleteFence", "updateFencePoint", "updateFencePoint2",
                   "search", "addFencePoint", "addFencePoint2"},
         <<call[c].req.op, step>> \in EarlySteps,
         Answer(c, 400) \/ (Goto(c, step) /\ UNCHANGED reply),
         UNCHANGED <<fences, heap, queryPoint, requests, faults, restarts>>
  PROVE  IInv'
<1>1. call[c].at \notin InAdd
  BY DEF InAdd
<1>2. /\ fences' \in [FenceNames -> {NoFence} \cup DOMAIN heap] /\ faults' \in 0..MaxFaults
      /\ queryPoint' \in [QueryPointIDs -> Positions]
  BY StoreFits
<1>3. CASE Answer(c, 400)
  <2>1. /\ call' = [call EXCEPT ![c] = Idle]
        /\ \E r : reply' = [reply EXCEPT ![c] = r] /\ r.code \in {0, 200, 400, 500}
    BY <1>3, AnswerParts
  <2>2. CallFits(c, Idle, heap) /\ Idle.at \notin InAdd
    BY IdleFits
  <2> QED
    BY <1>1, <1>2, <2>1, <2>2, StepKeeps
<1>4. CASE Goto(c, step) /\ UNCHANGED reply
  <2>1. PICK b : call' = [call EXCEPT ![c] = b] /\ CallFits(c, b, heap) /\ b.at \notin InAdd
    BY <1>4, NextEarly
  <2> QED
    BY <1>1, <1>2, <1>4, <2>1, StepKeeps
<1> QED
  BY <1>3, <1>4

\* The operation of a request is known from its step.
LEMMA StepOp ==
  ASSUME IInv, NEW c \in Clients
  PROVE  /\ call[c].req \in Requests[c] \/ call[c] = Idle
         /\ call[c].at \in {"addFence", "addFence2"} => call[c].req.op = "addGeofence"
         /\ call[c].at = "deleteFence" => call[c].req.op = "deleteGeofence"
         /\ call[c].at \in {"updateFencePoint", "updateFencePoint2"} => call[c].req.op = "setQueryPoint"
         /\ call[c].at \in {"search", "search2", "search3", "search4"} => call[c].req.op = "searchFence"
         /\ call[c].at \in {"addFencePoint", "addFencePoint2"} \cup InAdd => call[c].req.op = "addFencePoint"
<1>1. CallFits(c, call[c], heap)
  BY StoreFits
<1>2. PICK a : a = call[c]
  OBVIOUS
<1>3. CASE a = Idle
  BY <1>2, <1>3 DEF Idle, InAdd
<1>4. CASE <<a.req.op, a.at>> \in EarlySteps /\ a.req \in Requests[c]
  <2>1. a.at \notin {"search2", "search3", "search4"} \cup InAdd
    BY <1>4 DEF EarlySteps, InAdd
  <2> QED
    BY <1>2, <1>4, <2>1, EarlyOp
<1>5. CASE a.at \in {"search2", "search3", "search4"} /\ a.req \in Requests[c] /\ a.req.op = "searchFence"
  BY <1>2, <1>5 DEF InAdd
<1>6. CASE a.at \in InAdd /\ a.req \in Requests[c] /\ a.req.op = "addFencePoint"
  BY <1>2, <1>6 DEF InAdd
<1> QED
  BY <1>1, <1>2, <1>3, <1>4, <1>5, <1>6 DEF CallFits, InAdd

\* The handlers that decode a request and begin.
LEMMA HandlersKeep ==
  ASSUME IInv, NEW c \in Clients, NEW req \in Requests[c],
         \/ addGeofence(c, req) \/ deleteGeofence(c, req)
         \/ setQueryPoint(c, req) \/ searchFence(c, req) \/ addFencePoint(c, req)
  PROVE  IInv'
<1>1. CASE addGeofence(c, req)
  <2>1. PICK valid : Receive(c, req, valid, "addFence") /\ req.op = "addGeofence"
    BY <1>1 DEF addGeofence
  <2>2. <<req.op, "addFence">> \in EarlySteps
    BY <2>1 DEF EarlySteps
  <2> QED
    BY <2>1, <2>2, ReceiveKeeps
<1>2. CASE deleteGeofence(c, req)
  <2>1. PICK valid : Receive(c, req, valid, "deleteFence") /\ req.op = "deleteGeofence"
    BY <1>2 DEF deleteGeofence
  <2>2. <<req.op, "deleteFence">> \in EarlySteps
    BY <2>1 DEF EarlySteps
  <2> QED
    BY <2>1, <2>2, ReceiveKeeps
<1>3. CASE setQueryPoint(c, req)
  <2>1. PICK valid : Receive(c, req, valid, "updateFencePoint") /\ req.op = "setQueryPoint"
    BY <1>3 DEF setQueryPoint
  <2>2. <<req.op, "updateFencePoint">> \in EarlySteps
    BY <2>1 DEF EarlySteps
  <2> QED
    BY <2>1, <2>2, ReceiveKeeps
<1>4. CASE searchFence(c, req)
  <2>1. PICK valid : Receive(c, req, valid, "search") /\ req.op = "searchFence"
    BY <1>4 DEF searchFence
  <2>2. <<req.op, "search">> \in EarlySteps
    BY <2>1 DEF EarlySteps
  <2> QED
    BY <2>1, <2>2, ReceiveKeeps
<1>5. CASE addFencePoint(c, req)
  <2>1. PICK valid : Receive(c, req, valid, "addFencePoint") /\ req.op = "addFencePoint"
    BY <1>5 DEF addFencePoint
  <2>2. <<req.op, "addFencePoint">> \in EarlySteps
    BY <2>1 DEF EarlySteps
  <2> QED
    BY <2>1, <2>2, ReceiveKeeps
<1> QED
  BY <1>1, <1>2, <1>3, <1>4, <1>5

\* Registering a fence begins, at a name that has none.
LEMMA AddFence1Keeps ==
  ASSUME IInv, NEW c \in Clients, AddFence1(c)
  PROVE  IInv'
<1>1. call[c].at = "addFence" /\ call[c].req.op = "addGeofence"
  BY StepOp DEF AddFence1, Step
<1>2. <<call[c].req.op, "addFence2">> \in EarlySteps
  BY <1>1 DEF EarlySteps
<1>3. Answer(c, 400) \/ (Goto(c, "addFence2") /\ UNCHANGED reply)
  BY DEF AddFence1
<1>4. UNCHANGED <<fences, heap, queryPoint, requests, faults, restarts>>
  BY DEF AddFence1
<1> QED
  BY <1>1, <1>2, <1>3, <1>4, LookUpKeeps

\* A query point is moved without a search: the fence is looked up first.
LEMMA UpdateFencePoint1Keeps ==
  ASSUME IInv, NEW c \in Clients, UpdateFencePoint1(c)
  PROVE  IInv'
<1>1. call[c].at = "updateFencePoint" /\ call[c].req.op = "setQueryPoint"
  BY StepOp DEF UpdateFencePoint1, Step
<1>2. <<call[c].req.op, "updateFencePoint2">> \in EarlySteps
  BY <1>1 DEF EarlySteps
<1>3. Answer(c, 400) \/ (Goto(c, "updateFencePoint2") /\ UNCHANGED reply)
  BY DEF UpdateFencePoint1
<1>4. UNCHANGED <<fences, heap, queryPoint, requests, faults, restarts>>
  BY DEF UpdateFencePoint1
<1> QED
  BY <1>1, <1>2, <1>3, <1>4, LookUpKeeps

\* A point is added: the fence is looked up first.
LEMMA AddFencePoint1Keeps ==
  ASSUME IInv, NEW c \in Clients, AddFencePoint1(c)
  PROVE  IInv'
<1>1. call[c].at = "addFencePoint" /\ call[c].req.op = "addFencePoint"
  BY StepOp DEF AddFencePoint1, Step
<1>2. <<call[c].req.op, "addFencePoint2">> \in EarlySteps
  BY <1>1 DEF EarlySteps
<1>3. Answer(c, 400) \/ (Goto(c, "addFencePoint2") /\ UNCHANGED reply)
  BY DEF AddFencePoint1
<1>4. UNCHANGED <<fences, heap, queryPoint, requests, faults, restarts>>
  BY DEF AddFencePoint1
<1> QED
  BY <1>1, <1>2, <1>3, <1>4, LookUpKeeps

\* The name of a request is one there may be, and its query point too.
LEMMA RequestOf ==
  ASSUME IInv, NEW c \in Clients, call[c].at # "idle"
  PROVE  /\ call[c].req \in Requests[c] /\ call[c].req.fence \in FenceNames
         /\ fences[call[c].req.fence] \in {NoFence} \cup DOMAIN heap
         /\ call[c].req.op \in {"setQueryPoint", "searchFence"} =>
               call[c].req.id \in QueryPointIDs /\ call[c].req.at \in Positions
<1>1. call[c].req \in Requests[c]
  BY StepOp DEF Idle
<1>2. /\ call[c].req.fence \in FenceNames
      /\ call[c].req.op \in {"setQueryPoint", "searchFence"} =>
            call[c].req.id \in QueryPointIDs /\ call[c].req.at \in Positions
  BY <1>1, RequestFits
<1>3. fences[call[c].req.fence] \in {NoFence} \cup DOMAIN heap
  BY <1>2, StoreFits
<1> QED
  BY <1>1, <1>2, <1>3

\* A fence that is not there any more can still be in use.
LEMMA DeleteFenceKeeps ==
  ASSUME IInv, NEW c \in Clients, DeleteFence(c)
  PROVE  IInv'
<1>1. /\ call[c].at = "deleteFence" /\ Answer(c, 200)
      /\ fences' = [fences EXCEPT ![call[c].req.fence] = NoFence]
      /\ UNCHANGED <<heap, queryPoint, requests, faults, restarts>>
  BY DEF DeleteFence, Step
<1>2. fences' \in [FenceNames -> {NoFence} \cup DOMAIN heap] /\ faults' \in 0..MaxFaults
      /\ queryPoint' \in [QueryPointIDs -> Positions]
  <2>1. fences \in [FenceNames -> {NoFence} \cup DOMAIN heap]
    BY StoreFits
  <2>2. fences' \in [FenceNames -> {NoFence} \cup DOMAIN heap]
    BY <1>1, <2>1
  <2> QED
    BY <1>1, <2>2, StoreFits
<1>3. /\ call' = [call EXCEPT ![c] = Idle]
      /\ \E r : reply' = [reply EXCEPT ![c] = r] /\ r.code \in {0, 200, 400, 500}
  BY <1>1, AnswerParts
<1>4. CallFits(c, Idle, heap) /\ Idle.at \notin InAdd /\ call[c].at \notin InAdd
  BY <1>1, IdleFits DEF InAdd
<1> QED
  BY <1>1, <1>2, <1>3, <1>4, StepKeeps

\* A position is stored.
LEMMA PutFits ==
  ASSUME IInv, NEW id \in QueryPointIDs, NEW p \in Positions, PutQueryPoint(id, p)
  PROVE  queryPoint' \in [QueryPointIDs -> Positions]
BY StoreFits DEF PutQueryPoint

\* The position of a query point is stored, and the request answered.
LEMMA UpdateFencePoint2Keeps ==
  ASSUME IInv, NEW c \in Clients, UpdateFencePoint2(c)
  PROVE  IInv'
<1>1. /\ call[c].at = "updateFencePoint2" /\ Answer(c, 200)
      /\ PutQueryPoint(call[c].req.id, call[c].req.at)
      /\ UNCHANGED <<fences, heap, requests, faults, restarts>>
  BY DEF UpdateFencePoint2, Step
<1>2. call[c].req.id \in QueryPointIDs /\ call[c].req.at \in Positions
  <2>1. call[c].req.op = "setQueryPoint"
    BY <1>1, StepOp
  <2> QED
    BY <1>1, <2>1, RequestOf
<1>3. queryPoint' \in [QueryPointIDs -> Positions]
  BY <1>1, <1>2, PutFits
<1>4. fences' \in [FenceNames -> {NoFence} \cup DOMAIN heap] /\ faults' \in 0..MaxFaults
  BY <1>1, StoreFits
<1>5. /\ call' = [call EXCEPT ![c] = Idle]
      /\ \E r : reply' = [reply EXCEPT ![c] = r] /\ r.code \in {0, 200, 400, 500}
  BY <1>1, AnswerParts
<1>6. CallFits(c, Idle, heap) /\ Idle.at \notin InAdd /\ call[c].at \notin InAdd
  BY <1>1, IdleFits DEF InAdd
<1> QED
  BY <1>1, <1>3, <1>4, <1>5, <1>6, StepKeeps

\* A transaction that fails stores nothing.
LEMMA PutFailsKeeps ==
  ASSUME IInv, NEW c \in Clients, PutFails(c)
  PROVE  IInv'
<1>1. /\ call[c].at \in {"updateFencePoint2", "search3"} /\ Answer(c, 500)
      /\ faults < MaxFaults /\ faults' = faults + 1
      /\ UNCHANGED <<fences, heap, queryPoint, requests, restarts>>
  BY DEF PutFails, Step
<1>2. faults' \in 0..MaxFaults
  BY <1>1, StoreFits, GeofenceAssumption
<1>3. /\ fences' \in [FenceNames -> {NoFence} \cup DOMAIN heap]
      /\ queryPoint' \in [QueryPointIDs -> Positions]
  BY <1>1, StoreFits
<1>4. /\ call' = [call EXCEPT ![c] = Idle]
      /\ \E r : reply' = [reply EXCEPT ![c] = r] /\ r.code \in {0, 200, 400, 500}
  BY <1>1, AnswerParts
<1>5. CallFits(c, Idle, heap) /\ Idle.at \notin InAdd /\ call[c].at \notin InAdd
  BY <1>1, IdleFits DEF InAdd
<1> QED
  BY <1>1, <1>2, <1>3, <1>4, <1>5, StepKeeps

\* A search finds its fence, and keeps it.
LEMMA Search1Keeps ==
  ASSUME IInv, NEW c \in Clients, Search1(c)
  PROVE  IInv'
<1>1. /\ call[c].at = "search"
      /\ UNCHANGED <<fences, heap, queryPoint, requests, faults, restarts>>
  BY DEF Search1, Step
<1>2. /\ fences' \in [FenceNames -> {NoFence} \cup DOMAIN heap] /\ faults' \in 0..MaxFaults
      /\ queryPoint' \in [QueryPointIDs -> Positions]
  BY <1>1, StoreFits
<1>3. PICK a : a = call[c]
  OBVIOUS
<1>4. call[c].at \notin InAdd
  BY <1>1 DEF InAdd
<1>5. CASE Answer(c, 400)
  <2>1. /\ call' = [call EXCEPT ![c] = Idle]
        /\ \E r : reply' = [reply EXCEPT ![c] = r] /\ r.code \in {0, 200, 400, 500}
    BY <1>5, AnswerParts
  <2>2. CallFits(c, Idle, heap) /\ Idle.at \notin InAdd
    BY IdleFits
  <2> QED
    BY <1>1, <1>2, <1>4, <2>1, <2>2, StepKeeps
<1>6. CASE ~Answer(c, 400)
  <2>1. PICK ref, req : ref = fences[a.req.fence] /\ req = a.req
    OBVIOUS
  <2>2. ref # NoFence /\ UNCHANGED reply
    BY <1>3, <1>6, <2>1 DEF Search1
  <2>3. req \in Requests[c] /\ req.op = "searchFence" /\ ref \in {NoFence} \cup DOMAIN heap
    BY <1>1, <1>3, <2>1, RequestOf, StepOp DEF Idle
  <2>4. call = [d \in Clients |-> call[d]]
    BY StoreFits
  <2>5. PICK b : b = [at |-> "search2", req |-> req, ref |-> ref]
    OBVIOUS
  <2>6. call' = [call EXCEPT ![c] = b]
    BY <1>3, <1>6, <2>1, <2>2, <2>4, <2>5 DEF Search1
  <2>7. b.at = "search2" /\ b.req = req /\ b.ref = ref /\ b = [at |-> b.at, req |-> b.req, ref |-> b.ref]
    BY <2>5
  <2>8. CallFits(c, b, heap) /\ b.at \notin InAdd
    BY <2>2, <2>3, <2>7 DEF CallFits, InAdd
  <2> QED
    BY <1>1, <1>2, <1>4, <2>2, <2>6, <2>8, StepKeeps
<1> QED
  BY <1>5, <1>6

\* The parts of a call that is in a search.
LEMMA SearchParts ==
  ASSUME IInv, NEW c \in Clients, call[c].at \in {"search2", "search3", "search4"}
  PROVE  /\ call[c].req \in Requests[c] /\ call[c].req.op = "searchFence" /\ call[c].ref \in DOMAIN heap
         /\ call[c].req.id \in QueryPointIDs /\ call[c].req.at \in Positions /\ call[c].at \notin InAdd
<1>1. CallFits(c, call[c], heap)
  BY StoreFits
<1>2. call[c].req \in Requests[c] /\ call[c].req.op = "searchFence" /\ call[c].ref \in DOMAIN heap
  BY <1>1, SearchCall
<1>3. call[c].req.id \in QueryPointIDs /\ call[c].req.at \in Positions
  BY <1>2, RequestFits
<1> QED
  BY <1>2, <1>3 DEF InAdd

\* The position before is read.
LEMMA Search2Keeps ==
  ASSUME IInv, NEW c \in Clients, Search2(c)
  PROVE  IInv'
<1>1. /\ call[c].at = "search2"
      /\ UNCHANGED <<fences, heap, queryPoint, reply, requests, faults, restarts>>
  BY DEF Search2, Step
<1>2. /\ fences' \in [FenceNames -> {NoFence} \cup DOMAIN heap] /\ faults' \in 0..MaxFaults
      /\ queryPoint' \in [QueryPointIDs -> Positions]
      /\ call = [d \in Clients |-> call[d]]
  BY <1>1, StoreFits
<1>3. PICK a : a = call[c]
  OBVIOUS
<1>4. PICK req, ref, old : req = a.req /\ ref = a.ref /\ old = queryPoint[a.req.id]
  OBVIOUS
<1>5. req \in Requests[c] /\ req.op = "searchFence" /\ ref \in DOMAIN heap /\ call[c].at \notin InAdd
  BY <1>1, <1>3, <1>4, SearchParts
<1>6. PICK b : b = [at |-> "search3", req |-> req, ref |-> ref, old |-> old]
  OBVIOUS
<1>7. call' = [call EXCEPT ![c] = b]
  BY <1>2, <1>3, <1>4, <1>6 DEF Search2
<1>8. /\ b.at = "search3" /\ b.req = req /\ b.ref = ref
      /\ b = [at |-> b.at, req |-> b.req, ref |-> b.ref, old |-> b.old]
  BY <1>6
<1>9. CallFits(c, b, heap) /\ b.at \notin InAdd
  BY <1>5, <1>8 DEF CallFits, InAdd
<1> QED
  BY <1>1, <1>2, <1>5, <1>7, <1>9, StepKeeps

\* The position is stored.
LEMMA Search3Keeps ==
  ASSUME IInv, NEW c \in Clients, Search3(c)
  PROVE  IInv'
<1>1. /\ call[c].at = "search3" /\ call' = [call EXCEPT ![c].at = "search4"]
      /\ PutQueryPoint(call[c].req.id, call[c].req.at)
      /\ UNCHANGED <<fences, heap, reply, requests, faults, restarts>>
  BY DEF Search3, Step, Goto
<1>2. /\ fences' \in [FenceNames -> {NoFence} \cup DOMAIN heap] /\ faults' \in 0..MaxFaults
      /\ call = [d \in Clients |-> call[d]] /\ CallFits(c, call[c], heap)
  BY <1>1, StoreFits
<1>3. queryPoint' \in [QueryPointIDs -> Positions]
  BY <1>1, SearchParts, PutFits
<1>4. PICK a : a = call[c]
  OBVIOUS
<1>5. PICK req, ref, old : req = a.req /\ ref = a.ref /\ old = a.old
  OBVIOUS
<1>6. req \in Requests[c] /\ req.op = "searchFence" /\ ref \in DOMAIN heap /\ call[c].at \notin InAdd
  BY <1>1, <1>4, <1>5, SearchParts
<1>7. a = [at |-> "search3", req |-> req, ref |-> ref, old |-> old]
  BY <1>1, <1>2, <1>4, <1>5, SearchCall
<1>8. PICK b : b = [at |-> "search4", req |-> req, ref |-> ref, old |-> old]
  OBVIOUS
<1>9. call' = [call EXCEPT ![c] = b]
  <2>1. call' = [call EXCEPT ![c] = [a EXCEPT !.at = "search4"]]
    BY <1>1, <1>2, <1>4
  <2>2. [a EXCEPT !.at = "search4"] = b
    BY <1>7, <1>8
  <2> QED
    BY <2>1, <2>2
<1>10. /\ b.at = "search4" /\ b.req = req /\ b.ref = ref
       /\ b = [at |-> b.at, req |-> b.req, ref |-> b.ref, old |-> b.old]
  BY <1>8
<1>11. CallFits(c, b, heap) /\ b.at \notin InAdd
  BY <1>6, <1>10 DEF CallFits, InAdd
<1> QED
  BY <1>1, <1>2, <1>3, <1>6, <1>9, <1>11, StepKeeps

\* The fence is searched, and the request answered.
LEMMA Search4Keeps ==
  ASSUME IInv, NEW c \in Clients, Search4(c)
  PROVE  IInv'
<1>1. /\ call[c].at = "search4" /\ call' = [call EXCEPT ![c] = Idle]
      /\ UNCHANGED <<fences, heap, queryPoint, requests, faults, restarts>>
  BY DEF Search4, Step
<1>2. /\ fences' \in [FenceNames -> {NoFence} \cup DOMAIN heap] /\ faults' \in 0..MaxFaults
      /\ queryPoint' \in [QueryPointIDs -> Positions]
  BY <1>1, StoreFits
<1>3. \E r : reply' = [reply EXCEPT ![c] = r] /\ r.code \in {0, 200, 400, 500}
  <2>1. PICK req, old, told : reply' = [reply EXCEPT ![c] = [code |-> 200, req |-> req, old |-> old, fences |-> told]]
    BY DEF Search4
  <2>2. PICK r : r = [code |-> 200, req |-> req, old |-> old, fences |-> told]
    OBVIOUS
  <2>3. r.code = 200
    BY <2>2
  <2>4. reply' = [reply EXCEPT ![c] = r]
    BY <2>1, <2>2
  <2>5. r.code \in {0, 200, 400, 500}
    BY <2>3
  <2> QED
    BY <2>4, <2>5, Zenon
<1>4. CallFits(c, Idle, heap) /\ Idle.at \notin InAdd /\ call[c].at \notin InAdd
  BY <1>1, IdleFits DEF InAdd
<1> QED
  BY <1>1, <1>2, <1>3, <1>4, StepKeeps

\* A new fence has nothing, which is what it should hold.
LEMMA NewFenceFits ==
  ASSUME NEW ref, NEW cl, NEW f, f = NewRtreeFence,
         \A c \in Clients : ~(cl[c].at \in InAdd /\ cl[c].ref = ref)
  PROVE  FenceFits(f) /\ Kept(f, ref, cl) /\ AddsAlone(f, ref, cl)
<1>1. PICK t : t = NewRtree
  OBVIOUS
<1>2. PICK root : root = t.root
  OBVIOUS
<1>3. /\ t.panicked = "no" /\ t.size = 0 /\ RtreeShape(t)
      /\ root = [items |-> <<>>, bound |-> root.bound, isLeaf |-> TRUE, leaf |-> NoObject]
  <2>1. PICK bound : root = [items |-> <<>>, bound |-> bound, isLeaf |-> TRUE, leaf |-> NoObject]
    BY <1>1, <1>2 DEF NewRtree, NodeOf
  <2>2. t.panicked = "no" /\ t.size = 0 /\ RtreeShape(t)
    BY <1>1 DEF NewRtree, RtreeShape
  <2> QED
    BY <2>1, <2>2
<1>4. IsLeafRoot(root) /\ Len(root.items) = 0
  <2>1. root.items = <<>>
    BY <1>3
  <2>2. <<>> \in Seq(DataNodes) /\ Len(<<>>) = 0
    OBVIOUS
  <2> QED
    BY <1>3, <2>1, <2>2 DEF IsLeafRoot
<1>5. PICK objs : objs = Objects(root)
  OBVIOUS
<1>6. objs = <<>> /\ Len(objs) = 0 /\ DOMAIN objs = {} /\ Range(objs) = {}
  <2>1. objs \in Seq(PlaneObjects) /\ Len(objs) = 0
    <3>1. PICK n \in Nat : n = Len(root.items)
      BY <1>4
    <3> QED
      BY <1>4, <1>5, <3>1, LeafObjects
  <2> QED
    BY <2>1 DEF Range
<1>7. HealthyTree(t) /\ FlatTree(t)
  <2>1. Len(root.items) <= MaxChildItems
    BY <1>4, RtreeAssumption
  <2> QED
    BY <1>2, <1>3, <1>4, <2>1 DEF HealthyTree, FlatTree
<1>8. PICK none : none = <<>>
  OBVIOUS
<1>9. f = [rtree |-> t, fenceIDMap |-> none, fence |-> none, acked |-> none, raced |-> FALSE, broken |-> FALSE]
  BY <1>1, <1>8 DEF NewRtreeFence
<1>10. /\ f.rtree = t /\ f.fenceIDMap = none /\ f.fence = none /\ f.acked = none
       /\ f.raced = FALSE /\ f.broken = FALSE
  BY <1>9
<1>11. none \in Seq(Keys) /\ DOMAIN none = {} /\ none = [key \in DOMAIN none |-> none[key]]
  BY <1>8
<1>12. CirclesFit(none, none)
  <2>1. IsFiniteSet({})
    BY FS_EmptySet
  <2> QED
    BY <1>11, <2>1 DEF CirclesFit
<1>13. FenceFits(f)
  <2>1. IDsFit(none)
    BY <1>11 DEF IDsFit, NoRepeat
  <2>2. TreeFits(t, none, FALSE)
    BY <1>2, <1>5, <1>6, <1>7 DEF TreeFits, Known
  <2> QED
    BY <1>9, <1>10, <1>12, <2>1, <2>2 DEF FenceFits
<1>14. HoldsAll(t, none, none)
  <2>1. Distinct(objs)
    BY <1>6 DEF Distinct
  <2>2. Cardinality({}) = 0
    BY FS_EmptySet
  <2>3. Range(none) = {}
    BY <1>11 DEF Range
  <2> QED
    BY <1>2, <1>3, <1>5, <1>6, <1>11, <2>1, <2>2, <2>3 DEF HoldsAll
<1>15. Kept(f, ref, cl) /\ AddsAlone(f, ref, cl)
  <2>1. \A c \in Clients : ~At(cl[c], "add", ref) /\ ~At(cl[c], "add2", ref)
    BY DEF At, InAdd
  <2> QED
    BY <1>10, <1>14, <2>1 DEF Kept, AddsAlone
<1> QED
  BY <1>13, <1>15

\* A fence comes with nothing in it, and no call knows it yet.
LEMMA AddFence2Keeps ==
  ASSUME IInv, NEW c \in Clients, AddFence2(c)
  PROVE  IInv'
<1>1. /\ call[c].at = "addFence2" /\ Answer(c, 200) /\ heap' = Append(heap, NewRtreeFence)
      /\ fences' = [fences EXCEPT ![call[c].req.fence] = Len(heap) + 1]
      /\ UNCHANGED <<queryPoint, requests, faults, restarts>>
  BY DEF AddFence2, Step
<1>2. StoreInv /\ FencesInv /\ CallsInv /\ KeptInv
  BY DEF IInv
<1>3. PICK n \in Nat : n = Len(heap) /\ DOMAIN heap = 1..n
  BY <1>2 DEF StoreInv
<1>4. PICK new : new = NewRtreeFence
  OBVIOUS
<1>5. /\ DOMAIN heap' = 1..n + 1 /\ Len(heap') = n + 1 /\ heap'[n + 1] = new
      /\ heap' = [ref \in DOMAIN heap' |-> heap'[ref]]
      /\ \A ref \in 1..n : heap'[ref] = heap[ref]
  <2>1. PICK V : V = {heap[ref] : ref \in 1..n} \cup {new}
    OBVIOUS
  <2>2. heap \in Seq(V)
    <3>1. heap = [ref \in 1..n |-> heap[ref]]
      BY <1>2, <1>3 DEF StoreInv
    <3>2. \A ref \in 1..n : heap[ref] \in V
      BY <2>1
    <3>3. heap \in [1..n -> V]
      BY <3>1, <3>2
    <3> QED
      BY <3>3
  <2>3. new \in V
    BY <2>1
  <2>4. PICK longer : longer = heap'
    OBVIOUS
  <2>5. longer = Append(heap, new)
    BY <1>1, <1>4, <2>4
  <2>6. longer \in Seq(V) /\ Len(longer) = n + 1 /\ longer[n + 1] = new /\ \A ref \in 1..n : longer[ref] = heap[ref]
    BY <1>3, <2>2, <2>3, <2>5
  <2>7. DOMAIN longer = 1..n + 1 /\ longer = [ref \in DOMAIN longer |-> longer[ref]]
    BY <2>6
  <2> QED
    BY <2>4, <2>6, <2>7
<1>6. /\ call' = [call EXCEPT ![c] = Idle] /\ call = [d \in Clients |-> call[d]]
      /\ \E r : reply' = [reply EXCEPT ![c] = r] /\ r.code \in {0, 200, 400, 500}
  BY <1>1, AnswerParts, StoreFits
<1>7. Idle.at \notin InAdd /\ call[c].at \notin InAdd
  BY <1>1, IdleFits DEF InAdd
<1>8. \A d \in Clients : CallFits(d, call[d], heap)
  BY <1>2 DEF CallsInv
<1>9. ASSUME NEW d \in Clients, call'[d].at \in InAdd PROVE call'[d].ref \in 1..n
  <2>1. call'[d] = call[d]
    BY <1>6, <1>7, <1>9
  <2>2. call[d].ref \in DOMAIN heap
    BY <1>8, <1>9, <2>1, AddCall
  <2> QED
    BY <1>3, <2>1, <2>2
<1>10. FenceFits(new) /\ Kept(new, n + 1, call') /\ AddsAlone(new, n + 1, call')
  <2>1. \A d \in Clients : ~(call'[d].at \in InAdd /\ call'[d].ref = n + 1)
    BY <1>9
  <2> QED
    BY <1>4, <2>1, NewFenceFits
<1>11. FencesInv'
  <2> SUFFICES ASSUME NEW ref \in 1..n + 1 PROVE FenceFits(heap'[ref])
    BY <1>5 DEF FencesInv
  <2>1. CASE ref \in 1..n
    <3>1. FenceFits(heap[ref])
      BY <1>2, <1>3, <2>1 DEF FencesInv
    <3> QED
      BY <1>5, <2>1, <3>1
  <2>2. CASE ref = n + 1
    BY <1>5, <1>10, <2>2
  <2> QED
    BY <2>1, <2>2
<1>12. CallsInv'
  <2>1. call' = [d \in Clients |-> call'[d]]
    BY <1>6
  <2>2. ASSUME NEW d \in Clients PROVE CallFits(d, call'[d], heap')
    <3>1. CASE call'[d] = Idle
      BY <3>1, IdleFits
    <3>2. CASE call'[d] # Idle
      <4>1. call'[d] = call[d] /\ CallFits(d, call[d], heap)
        BY <1>6, <1>8, <3>2
      <4>2. PICK hp2 : hp2 = heap'
        OBVIOUS
      <4>3. DOMAIN heap \subseteq DOMAIN hp2 /\ \A ref \in DOMAIN heap : Wider(heap[ref], hp2[ref])
        <5>1. DOMAIN heap \subseteq DOMAIN hp2
          BY <1>3, <1>5, <4>2
        <5> QED
          BY <1>3, <1>5, <4>2, <5>1, SameWidth
      <4>4. CallFits(d, call[d], hp2)
        BY <4>1, <4>3, CallFitsWider
      <4> QED
        BY <4>1, <4>2, <4>4
    <3> QED
      BY <3>1, <3>2
  <2> QED
    BY <2>1, <2>2 DEF CallsInv
<1>13. KeptInv'
  <2> SUFFICES ASSUME NEW ref \in 1..n + 1
               PROVE  Kept(heap'[ref], ref, call') /\ AddsAlone(heap'[ref], ref, call')
    BY <1>5 DEF KeptInv
  <2>1. CASE ref \in 1..n
    <3>1. Kept(heap[ref], ref, call) /\ AddsAlone(heap[ref], ref, call)
      BY <1>2, <1>3, <2>1 DEF KeptInv
    <3>2. Kept(heap[ref], ref, call') /\ AddsAlone(heap[ref], ref, call')
      BY <1>6, <1>7, <3>1, KeptApart
    <3> QED
      BY <1>5, <2>1, <3>2
  <2>2. CASE ref = n + 1
    BY <1>5, <1>10, <2>2
  <2> QED
    BY <2>1, <2>2
<1>14. StoreInv'
  <2>1. fences' \in [FenceNames -> {NoFence} \cup DOMAIN heap']
    <3>1. fences \in [FenceNames -> {NoFence} \cup 1..n]
      BY <1>3, StoreFits
    <3>2. n + 1 \in 1..n + 1 /\ {NoFence} \cup 1..n \subseteq {NoFence} \cup 1..n + 1
      OBVIOUS
    <3> QED
      BY <1>1, <1>3, <1>5, <3>1, <3>2
  <2>2. reply' = [d \in Clients |-> reply'[d]] /\ \A d \in Clients : reply'[d].code \in {0, 200, 400, 500}
    <3>1. StoreInv /\ \E r : reply' = [reply EXCEPT ![c] = r] /\ r.code \in {0, 200, 400, 500}
      BY <1>2, <1>6
    <3> QED
      BY <3>1, ReplyFits
  <2>3. /\ Len(heap') \in Nat /\ DOMAIN heap' = 1..Len(heap')
        /\ heap' = [ref \in DOMAIN heap' |-> heap'[ref]]
    BY <1>5
  <2> QED
    BY <1>1, <1>2, <2>1, <2>2, <2>3 DEF StoreInv
<1> QED
  BY <1>11, <1>12, <1>13, <1>14 DEF IInv

\* A server that is started again has no fence and no call; the store stays.
LEMMA RestartKeeps ==
  ASSUME IInv, Restart
  PROVE  IInv'
<1>1. /\ restarts < MaxRestarts /\ restarts' = restarts + 1 /\ heap' = <<>>
      /\ fences' = [name \in FenceNames |-> NoFence] /\ call' = [c \in Clients |-> Idle]
      /\ reply' = [c \in Clients |-> [code |-> 0]]
      /\ UNCHANGED <<queryPoint, requests, faults>>
  BY DEF Restart
<1>2. StoreInv
  BY DEF IInv
<1>3. /\ Len(heap') = 0 /\ DOMAIN heap' = {} /\ DOMAIN heap' = 1..Len(heap')
      /\ heap' = [ref \in DOMAIN heap' |-> heap'[ref]]
  BY <1>1
<1>4. FencesInv' /\ KeptInv'
  BY <1>3 DEF FencesInv, KeptInv
<1>5. CallsInv'
  <2>1. call' = [c \in Clients |-> call'[c]] /\ \A c \in Clients : call'[c] = Idle
    BY <1>1
  <2> QED
    BY <2>1 DEF CallsInv, CallFits
<1>6. StoreInv'
  <2>1. reply' = [c \in Clients |-> reply'[c]] /\ \A c \in Clients : reply'[c].code \in {0, 200, 400, 500}
    BY <1>1
  <2>2. restarts' \in 0..MaxRestarts
    BY <1>1, <1>2, GeofenceAssumption DEF StoreInv
  <2>3. fences' \in [FenceNames -> {NoFence} \cup DOMAIN heap']
    BY <1>1
  <2> QED
    BY <1>1, <1>2, <1>3, <2>1, <2>2, <2>3 DEF StoreInv
<1> QED
  BY <1>4, <1>5, <1>6 DEF IInv

\* The record of a fence.
Fence(t, ids, fence, acked, raced, broken) ==
  [rtree |-> t, fenceIDMap |-> ids, fence |-> fence, acked |-> acked, raced |-> raced, broken |-> broken]

\* The fields of a fence.
LEMMA FenceFields ==
  ASSUME NEW t, NEW ids, NEW fence, NEW acked, NEW raced, NEW broken,
         NEW g, g = Fence(t, ids, fence, acked, raced, broken)
  PROVE  /\ g.rtree = t /\ g.fenceIDMap = ids /\ g.fence = fence /\ g.acked = acked
         /\ g.raced = raced /\ g.broken = broken
         /\ g = Fence(g.rtree, g.fenceIDMap, g.fence, g.acked, g.raced, g.broken)
BY DEF Fence

\* A fence with other IDs, which may be raced.
LEMMA IDsExcept ==
  ASSUME NEW f, FenceFits(f), NEW x, NEW y
  PROVE  [f EXCEPT !.fenceIDMap = x, !.raced = y] = Fence(f.rtree, x, f.fence, f.acked, y, f.broken)
<1>1. PICK t, ids, fence, acked, raced, broken :
         /\ t = f.rtree /\ ids = f.fenceIDMap /\ fence = f.fence /\ acked = f.acked
         /\ raced = f.raced /\ broken = f.broken
  OBVIOUS
<1>2. f = [rtree |-> t, fenceIDMap |-> ids, fence |-> fence, acked |-> acked, raced |-> raced, broken |-> broken]
  BY <1>1 DEF FenceFits
<1>3. PICK h : h = [f EXCEPT !.fenceIDMap = x]
  OBVIOUS
<1>4. h = [rtree |-> t, fenceIDMap |-> x, fence |-> fence, acked |-> acked, raced |-> raced, broken |-> broken]
  BY <1>2, <1>3
<1>5. [h EXCEPT !.raced = y] = [rtree |-> t, fenceIDMap |-> x, fence |-> fence, acked |-> acked, raced |-> y, broken |-> broken]
  BY <1>4
<1>6. [f EXCEPT !.fenceIDMap = x, !.raced = y] = [h EXCEPT !.raced = y]
  BY <1>3
<1> QED
  BY <1>1, <1>5, <1>6 DEF Fence

\* A fence with another tree, which may be broken.
LEMMA TreeExcept ==
  ASSUME NEW f, FenceFits(f), NEW x, NEW y
  PROVE  [f EXCEPT !.rtree = x, !.broken = y] = Fence(x, f.fenceIDMap, f.fence, f.acked, f.raced, y)
<1>1. PICK t, ids, fence, acked, raced, broken :
         /\ t = f.rtree /\ ids = f.fenceIDMap /\ fence = f.fence /\ acked = f.acked
         /\ raced = f.raced /\ broken = f.broken
  OBVIOUS
<1>2. f = [rtree |-> t, fenceIDMap |-> ids, fence |-> fence, acked |-> acked, raced |-> raced, broken |-> broken]
  BY <1>1 DEF FenceFits
<1>3. PICK h : h = [f EXCEPT !.rtree = x]
  OBVIOUS
<1>4. h = [rtree |-> x, fenceIDMap |-> ids, fence |-> fence, acked |-> acked, raced |-> raced, broken |-> broken]
  BY <1>2, <1>3
<1>5. [h EXCEPT !.broken = y] = [rtree |-> x, fenceIDMap |-> ids, fence |-> fence, acked |-> acked, raced |-> raced, broken |-> y]
  BY <1>4
<1>6. [f EXCEPT !.rtree = x, !.broken = y] = [h EXCEPT !.broken = y]
  BY <1>3
<1> QED
  BY <1>1, <1>5, <1>6 DEF Fence

\* A fence with other circles.
LEMMA CirclesExcept ==
  ASSUME NEW f, FenceFits(f), NEW x, NEW y
  PROVE  [f EXCEPT !.fence = x, !.acked = y] = Fence(f.rtree, f.fenceIDMap, x, y, f.raced, f.broken)
<1>1. PICK t, ids, fence, acked, raced, broken :
         /\ t = f.rtree /\ ids = f.fenceIDMap /\ fence = f.fence /\ acked = f.acked
         /\ raced = f.raced /\ broken = f.broken
  OBVIOUS
<1>2. f = [rtree |-> t, fenceIDMap |-> ids, fence |-> fence, acked |-> acked, raced |-> raced, broken |-> broken]
  BY <1>1 DEF FenceFits
<1>3. PICK h : h = [f EXCEPT !.fence = x]
  OBVIOUS
<1>4. h = [rtree |-> t, fenceIDMap |-> ids, fence |-> x, acked |-> acked, raced |-> raced, broken |-> broken]
  BY <1>2, <1>3
<1>5. [h EXCEPT !.acked = y] = [rtree |-> t, fenceIDMap |-> ids, fence |-> x, acked |-> y, raced |-> raced, broken |-> broken]
  BY <1>4
<1>6. [f EXCEPT !.fence = x, !.acked = y] = [h EXCEPT !.acked = y]
  BY <1>3
<1> QED
  BY <1>1, <1>5, <1>6 DEF Fence

\* A step of a call that changes one fence and keeps what the variables should be.
LEMMA FenceStepKeeps ==
  ASSUME IInv, NEW ref \in DOMAIN heap, NEW c \in Clients, \E g, b : ChangesFence(ref, g, c, b),
         \/ reply' = reply
         \/ \E r : reply' = [reply EXCEPT ![c] = r] /\ r.code \in {0, 200, 400, 500},
         UNCHANGED <<fences, queryPoint, requests, faults, restarts>>
  PROVE  IInv'
<1>0. PICK g : heap' = [heap EXCEPT ![ref] = g]
  BY DEF ChangesFence
<1>1. StoreInv
  BY DEF IInv
<1>2. FencesInv' /\ CallsInv' /\ KeptInv'
  BY FenceStep
<1>3. reply' = [d \in Clients |-> reply'[d]] /\ \A d \in Clients : reply'[d].code \in {0, 200, 400, 500}
  BY <1>1, ReplyFits
<1>4. PICK n \in Nat : n = Len(heap) /\ DOMAIN heap = 1..n /\ heap = [r \in 1..n |-> heap[r]]
  BY <1>1 DEF StoreInv
<1>5. Len(heap') = n /\ DOMAIN heap' = 1..n /\ heap' = [r \in DOMAIN heap' |-> heap'[r]]
  <2>1. PICK V : V = {heap[r] : r \in 1..n} \cup {g}
    OBVIOUS
  <2>2. heap \in [1..n -> V]
    <3>1. \A r \in 1..n : heap[r] \in V
      BY <2>1
    <3> QED
      BY <1>4, <3>1
  <2>3. ref \in 1..n /\ g \in V
    BY <1>4, <2>1
  <2>4. PICK new : new = [heap EXCEPT ![ref] = g]
    OBVIOUS
  <2>7. heap' = new
    BY <1>0, <2>4
  <2>5. new \in [1..n -> V]
    BY <2>2, <2>3, <2>4
  <2>6. Len(new) = n /\ DOMAIN new = 1..n /\ new = [r \in DOMAIN new |-> new[r]]
    BY <2>5
  <2> QED
    BY <2>6, <2>7
<1>6. StoreInv'
  BY <1>1, <1>3, <1>4, <1>5 DEF StoreInv
<1> QED
  BY <1>2, <1>6 DEF IInv

\* The point gets its ID, and the tree is read: the call is now in Add of the fence.
LEMMA AddFencePoint2Keeps ==
  ASSUME IInv, NEW c \in Clients, AddFencePoint2(c)
  PROVE  IInv'
<1>1. call[c].at = "addFencePoint2" /\ UNCHANGED <<fences, queryPoint, requests, faults, restarts>>
  BY DEF AddFencePoint2, Step
<1>2. PICK a : a = call[c]
  OBVIOUS
<1>3. PICK req, ref : req = a.req /\ ref = fences[a.req.fence]
  OBVIOUS
<1>4. req \in Requests[c] /\ req.op = "addFencePoint" /\ ref \in {NoFence} \cup DOMAIN heap
  BY <1>1, <1>2, <1>3, RequestOf, StepOp
<1>5. call[c].at \notin InAdd /\ call = [d \in Clients |-> call[d]]
  BY <1>1, StoreFits DEF InAdd
<1>6. CASE ref = NoFence
  <2>1. Answer(c, 500) /\ heap' = heap
    BY <1>2, <1>3, <1>6 DEF AddFencePoint2
  <2>2. /\ call' = [call EXCEPT ![c] = Idle]
        /\ \E r : reply' = [reply EXCEPT ![c] = r] /\ r.code \in {0, 200, 400, 500}
    BY <2>1, AnswerParts
  <2>3. CallFits(c, Idle, heap) /\ Idle.at \notin InAdd
    BY IdleFits
  <2>4. /\ fences' \in [FenceNames -> {NoFence} \cup DOMAIN heap] /\ faults' \in 0..MaxFaults
        /\ queryPoint' \in [QueryPointIDs -> Positions]
    BY <1>1, StoreFits
  <2> QED
    BY <1>1, <1>5, <2>1, <2>2, <2>3, <2>4, StepKeeps
<1>7. CASE ref # NoFence
  <2>1. ref \in DOMAIN heap
    BY <1>4, <1>7
  <2>2. PICK f : f = heap[ref]
    OBVIOUS
  <2>3. FenceFits(f) /\ Kept(f, ref, call) /\ AddsAlone(f, ref, call)
    BY <2>1, <2>2, StoreFits
  <2>4. PICK ids, raced : ids = GetID(f.fenceIDMap, req.circle.key) /\ raced = (f.raced \/ Adding(ref) # {})
    OBVIOUS
  <2>5. PICK g : g = [f EXCEPT !.fenceIDMap = ids, !.raced = raced]
    OBVIOUS
  <2>6. heap' = [heap EXCEPT ![ref] = g]
    <3>1. heap' = [heap EXCEPT ![ref].fenceIDMap = GetID(@, call[c].req.circle.key),
                               ![ref].raced = @ \/ Adding(ref) # {}]
      BY <1>2, <1>3, <1>7 DEF AddFencePoint2
    <3>2. heap = [r \in DOMAIN heap |-> heap[r]]
      BY DEF IInv, StoreInv
    <3>3. heap' = [heap EXCEPT ![ref] = [f EXCEPT !.fenceIDMap = GetID(@, req.circle.key),
                                                  !.raced = @ \/ Adding(ref) # {}]]
      BY <1>2, <1>3, <2>1, <2>2, <3>1, <3>2
    <3>4. [f EXCEPT !.fenceIDMap = GetID(@, req.circle.key), !.raced = @ \/ Adding(ref) # {}] = g
      BY <2>3, <2>4, <2>5 DEF FenceFits
    <3> QED
      BY <3>3, <3>4
  <2>7. /\ g.rtree = f.rtree /\ g.fenceIDMap = ids /\ g.fence = f.fence /\ g.acked = f.acked
        /\ g.raced = raced /\ g.broken = f.broken
        /\ g = Fence(g.rtree, g.fenceIDMap, g.fence, g.acked, g.raced, g.broken)
    <3>1. g = Fence(f.rtree, ids, f.fence, f.acked, raced, f.broken)
      BY <2>3, <2>5, IDsExcept
    <3> QED
      BY <3>1, FenceFields
  <2>8. req.circle.key \in Keys
    BY <1>4, RequestFits
  <2>9. /\ IDsFit(f.fenceIDMap) /\ f.fence = f.acked /\ CirclesFit(f.acked, f.fenceIDMap)
        /\ TreeFits(f.rtree, f.fenceIDMap, f.broken) /\ f.broken \in BOOLEAN
    BY <2>3 DEF FenceFits
  <2>10. /\ IDsFit(ids) /\ req.circle.key \in Range(ids) /\ Range(f.fenceIDMap) \subseteq Range(ids)
    BY <2>4, <2>8, <2>9, GetIDKeeps
  <2>11. CirclesFit(f.acked, ids) /\ (HoldsAll(f.rtree, f.fenceIDMap, f.acked) => HoldsAll(f.rtree, ids, f.acked))
    BY <2>4, <2>8, <2>9, GetIDFits
  <2>12. ASSUME NEW t, TreeFits(t, f.fenceIDMap, f.broken) PROVE TreeFits(t, ids, f.broken)
    BY <2>4, <2>8, <2>9, <2>12, GetIDFits
  <2>13. FenceFits(g)
    <3>1. raced \in BOOLEAN
      BY <2>4
    <3> QED
      BY <2>7, <2>9, <2>10, <2>11, <2>12, <3>1 DEF FenceFits, Fence
  <2>14. Wider(f, g)
    BY <2>7, <2>10, <2>12 DEF Wider
  <2>15. PICK t : t = f.rtree
    OBVIOUS
  <2>16. PICK b : b = [at |-> "add", req |-> req, ref |-> ref, rtree |-> t]
    OBVIOUS
  <2>17. /\ b.at = "add" /\ b.req = req /\ b.ref = ref /\ b.rtree = t
         /\ b = [at |-> b.at, req |-> b.req, ref |-> b.ref, rtree |-> b.rtree]
    BY <2>16
  <2>18. call' = [call EXCEPT ![c] = b] /\ reply' = reply
    BY <1>2, <1>3, <1>5, <1>7, <2>2, <2>15, <2>16 DEF AddFencePoint2
  <2>19. CallFits(c, b, heap')
    <3>1. heap'[ref] = g /\ ref \in DOMAIN heap'
      BY <2>1, <2>6
    <3>2. b.req.circle.key \in Range(heap'[b.ref].fenceIDMap)
      BY <2>7, <2>10, <2>17, <3>1
    <3>3. TreeFits(b.rtree, heap'[b.ref].fenceIDMap, heap'[b.ref].broken)
      BY <2>7, <2>9, <2>12, <2>15, <2>17, <3>1
    <3> QED
      BY <1>4, <2>17, <3>1, <3>2, <3>3 DEF CallFits
  <2>20. Kept(g, ref, call') /\ AddsAlone(g, ref, call')
    <3>1. CASE g.raced
      BY <3>1 DEF Kept, AddsAlone
    <3>2. CASE ~g.raced
      <4>1. ~f.raced /\ Adding(ref) = {}
        BY <2>4, <2>7, <3>2
      <4>2. \A d \in Clients : ~(call[d].at \in InAdd /\ call[d].ref = ref)
        BY <4>1 DEF Adding, InAdd
      <4>3. \A d \in Clients : d # c => ~(call'[d].at \in InAdd /\ call'[d].ref = ref)
        BY <1>5, <2>18, <4>2
      <4>4. call'[c] = b
        BY <1>5, <2>18
      <4>5. AddsAlone(g, ref, call')
        BY <4>3 DEF AddsAlone
      <4>6. ~f.broken => HoldsAll(f.rtree, ids, f.acked)
        BY <2>3, <2>11, <4>1, <4>2 DEF Kept, At, InAdd
      <4>7. \A d \in Clients : ~At(call'[d], "add2", ref) /\ (At(call'[d], "add", ref) => d = c)
        BY <2>17, <4>3, <4>4 DEF At, InAdd
      <4>8. Kept(g, ref, call')
        BY <2>7, <2>15, <2>17, <4>4, <4>6, <4>7 DEF Kept
      <4> QED
        BY <4>5, <4>8
    <3> QED
      BY <3>1, <3>2
  <2>21. call[c].at \in InAdd => call[c].ref = ref
    BY <1>5
  <2>22. ChangesFence(ref, g, c, b)
    BY <2>2, <2>6, <2>13, <2>14, <2>17, <2>18, <2>19, <2>20, <2>21 DEF ChangesFence
  <2> QED
    BY <1>1, <2>1, <2>18, <2>22, FenceStepKeeps
<1> QED
  BY <1>6, <1>7

\* A call in Add, its request and its fence.
LEMMA AddParts ==
  ASSUME IInv, NEW c \in Clients, call[c].at \in InAdd
  PROVE  /\ call[c].ref \in DOMAIN heap /\ call[c].req \in Requests[c] /\ call[c].req.op = "addFencePoint"
         /\ CircleFits(call[c].req.circle)
         /\ call[c].req.circle.key \in Range(heap[call[c].ref].fenceIDMap)
<1>1. CallFits(c, call[c], heap)
  BY StoreFits
<1>2. /\ call[c].ref \in DOMAIN heap /\ call[c].req \in Requests[c] /\ call[c].req.op = "addFencePoint"
      /\ call[c].req.circle.key \in Range(heap[call[c].ref].fenceIDMap)
  BY <1>1, AddCall
<1>3. CircleFits(call[c].req.circle)
  BY <1>2, RequestFits
<1> QED
  BY <1>2, <1>3

\* In a fence that is not raced, a call in Add is the only one.
LEMMA OnlyOne ==
  ASSUME IInv, NEW c \in Clients, call[c].at \in InAdd, ~heap[call[c].ref].raced,
         NEW d \in Clients, call[d].at \in InAdd, call[d].ref = call[c].ref
  PROVE  d = c
<1>1. call[c].ref \in DOMAIN heap
  BY AddParts
<1>2. PICK ref : ref = call[c].ref
  OBVIOUS
<1>3. AddsAlone(heap[ref], ref, call)
  BY <1>1, <1>2, StoreFits
<1> QED
  BY <1>2, <1>3 DEF AddsAlone

\* The new tree is in its fence, and the circle not yet; a panic is answered with 500.
LEMMA Add1Keeps ==
  ASSUME IInv, NEW c \in Clients, Add1(c)
  PROVE  IInv'
<1>1. call[c].at = "add" /\ UNCHANGED <<fences, queryPoint, requests, faults, restarts>>
  BY DEF Add1, Step
<1>2. PICK a : a = call[c]
  OBVIOUS
<1>3. PICK req, ref, t : req = a.req /\ ref = a.ref /\ t = a.rtree
  OBVIOUS
<1>4. PICK f : f = heap[ref]
  OBVIOUS
<1>5. PICK ids : ids = f.fenceIDMap
  OBVIOUS
<1>6. /\ call[c].at \in InAdd /\ ref \in DOMAIN heap /\ req \in Requests[c] /\ req.op = "addFencePoint"
      /\ CircleFits(req.circle) /\ req.circle.key \in Range(ids)
  <2>1. call[c].at \in InAdd
    BY <1>1 DEF InAdd
  <2> QED
    BY <1>2, <1>3, <1>4, <1>5, <2>1, AddParts
<1>7. /\ call = [d \in Clients |-> call[d]] /\ CallFits(c, call[c], heap)
      /\ FenceFits(f) /\ Kept(f, ref, call) /\ AddsAlone(f, ref, call)
  BY <1>4, <1>6, StoreFits
<1>8. TreeFits(t, ids, f.broken)
  BY <1>1, <1>2, <1>3, <1>4, <1>5, <1>6, <1>7, AddCall
<1>9. PICK o : o = ObjectOf(req.circle, ids)
  OBVIOUS
<1>10. PICK u : u = AddToTree(t, o)
  OBVIOUS
<1>11. PICK v : v = [u EXCEPT !.panicked = "no"]
  OBVIOUS
<1>12. PICK broken : broken = (f.broken \/ u.panicked # "no")
  OBVIOUS
<1>13. /\ IDsFit(ids) /\ f.fence = f.acked /\ CirclesFit(f.acked, ids) /\ f.broken \in BOOLEAN
       /\ f.raced \in BOOLEAN
  BY <1>5, <1>7 DEF FenceFits
<1>14. o \in PlaneObjects /\ o.id < Len(ids)
  BY <1>6, <1>9, <1>13, ObjectFits
<1>15. TreeFits(v, ids, broken)
  <2>1. TreeFits([u EXCEPT !.panicked = "no"], ids, f.broken \/ u.panicked # "no")
    BY <1>8, <1>10, <1>14, AddedFits
  <2> QED
    BY <1>11, <1>12, <2>1
<1>16. PICK g : g = [f EXCEPT !.rtree = v, !.broken = broken]
  OBVIOUS
<1>17. /\ g.rtree = v /\ g.fenceIDMap = ids /\ g.fence = f.fence /\ g.acked = f.acked
       /\ g.raced = f.raced /\ g.broken = broken
       /\ g = Fence(g.rtree, g.fenceIDMap, g.fence, g.acked, g.raced, g.broken)
  <2>0. FenceFits(f)
    BY <1>7
  <2>a. [f EXCEPT !.rtree = v, !.broken = broken]
           = Fence(v, f.fenceIDMap, f.fence, f.acked, f.raced, broken)
    BY <2>0, TreeExcept
  <2>1. g = Fence(v, ids, f.fence, f.acked, f.raced, broken)
    BY <1>5, <1>16, <2>a
  <2> QED
    BY <2>1, FenceFields
<1>18. FenceFits(g)
  <2>1. broken \in BOOLEAN
    BY <1>12
  <2> QED
    BY <1>13, <1>15, <1>17, <2>1 DEF FenceFits, Fence
<1>19. Wider(f, g)
  <2>1. \A x : TreeFits(x, ids, f.broken) => TreeFits(x, ids, broken)
    BY <1>12 DEF TreeFits
  <2> QED
    BY <1>5, <1>17, <2>1 DEF Wider
<1>20. heap' = [heap EXCEPT ![ref] = g]
  <2>1. heap' = [heap EXCEPT ![ref].rtree = v, ![ref].broken = @ \/ u.panicked # "no"]
    BY <1>2, <1>3, <1>4, <1>5, <1>9, <1>10, <1>11 DEF Add1
  <2>2. heap = [r \in DOMAIN heap |-> heap[r]]
    BY DEF IInv, StoreInv
  <2>3. heap' = [heap EXCEPT ![ref] = [f EXCEPT !.rtree = v, !.broken = @ \/ u.panicked # "no"]]
    BY <1>4, <1>6, <2>1, <2>2
  <2>4. [f EXCEPT !.rtree = v, !.broken = @ \/ u.panicked # "no"] = g
    BY <1>7, <1>12, <1>16 DEF FenceFits
  <2> QED
    BY <2>3, <2>4
<1>21. heap'[ref] = g /\ ref \in DOMAIN heap'
  BY <1>6, <1>20
<1>22. PICK b : b = IF u.panicked # "no" THEN Idle ELSE [at |-> "add2", req |-> req, ref |-> ref]
  OBVIOUS
<1>23. call' = [call EXCEPT ![c] = b]
  <2>1. CASE u.panicked # "no"
    BY <1>2, <1>3, <1>4, <1>5, <1>9, <1>10, <1>22, <2>1 DEF Add1, Answer
  <2>2. CASE u.panicked = "no"
    <3>1. call' = [call EXCEPT ![c] = [at |-> "add2", req |-> @.req, ref |-> call[c].ref]]
      BY <1>2, <1>3, <1>4, <1>5, <1>9, <1>10, <2>2 DEF Add1
    <3> QED
      BY <1>2, <1>3, <1>7, <1>22, <2>2, <3>1
  <2> QED
    BY <2>1, <2>2
<1>24. reply' = reply \/ \E r : reply' = [reply EXCEPT ![c] = r] /\ r.code \in {0, 200, 400, 500}
  <2>1. CASE u.panicked # "no"
    <3>1. Answer(c, 500)
      BY <1>2, <1>3, <1>4, <1>5, <1>9, <1>10, <2>1 DEF Add1
    <3> QED
      BY <3>1, AnswerParts
  <2>2. CASE u.panicked = "no"
    BY <1>2, <1>3, <1>4, <1>5, <1>9, <1>10, <2>2 DEF Add1
  <2> QED
    BY <2>1, <2>2
<1>25. u.panicked = "no" => b.at = "add2" /\ b.req = req /\ b.ref = ref /\ b = [at |-> b.at, req |-> b.req, ref |-> b.ref]
  BY <1>22
<1>26. CallFits(c, b, heap') /\ (b.at \in InAdd => b.ref = ref)
  <2>1. CASE u.panicked # "no"
    BY <1>22, <2>1, IdleFits
  <2>2. CASE u.panicked = "no"
    <3>1. b.req.circle.key \in Range(heap'[b.ref].fenceIDMap)
      BY <1>6, <1>17, <1>21, <1>25, <2>2
    <3> QED
      BY <1>6, <1>21, <1>25, <2>2, <3>1 DEF CallFits
  <2> QED
    BY <2>1, <2>2
<1>27. ASSUME ~f.raced
       PROVE  \A d \in Clients : d # c => ~(call'[d].at \in InAdd /\ call'[d].ref = ref)
  <2>1. \A d \in Clients : d # c => ~(call[d].at \in InAdd /\ call[d].ref = ref)
    BY <1>2, <1>3, <1>4, <1>6, <1>27, OnlyOne
  <2> QED
    BY <1>7, <1>23, <2>1
<1>28. AddsAlone(g, ref, call')
  BY <1>17, <1>27 DEF AddsAlone
<1>29. call'[c] = b
  BY <1>7, <1>23
<1>30. Kept(g, ref, call')
  <2> SUFFICES ASSUME ~g.raced, ~g.broken
               PROVE  /\ ~\A d \in Clients : ~At(call'[d], "add2", ref)
                      /\ \A d \in Clients :
                            /\ ~At(call'[d], "add", ref)
                            /\ At(call'[d], "add2", ref) =>
                                  HoldsAll(g.rtree, g.fenceIDMap, With(g.acked, call'[d].req.circle))
    BY DEF Kept
  <2>1. ~f.raced /\ ~f.broken /\ u.panicked = "no"
    BY <1>12, <1>17
  <2>2. \A d \in Clients : d # c => ~At(call'[d], "add", ref) /\ ~At(call'[d], "add2", ref)
    BY <1>27, <2>1 DEF At, InAdd
  <2>3. call'[c].at = "add2" /\ call'[c].ref = ref /\ call'[c].req = req
    BY <1>25, <1>29, <2>1
  <2>4. At(call'[c], "add2", ref) /\ ~At(call'[c], "add", ref)
    BY <2>3 DEF At
  <2>5. t = f.rtree /\ HoldsAll(f.rtree, ids, f.acked)
    <3>1. At(call[c], "add", ref)
      BY <1>1, <1>2, <1>3 DEF At
    <3>2. \A d \in Clients : ~At(call[d], "add2", ref)
      <4> TAKE d \in Clients
      <4>1. CASE d = c
        BY <1>1, <4>1 DEF At
      <4>2. CASE d # c
        <5>1. ~(call[d].at \in InAdd /\ call[d].ref = call[c].ref)
          BY <1>2, <1>3, <1>4, <1>6, <2>1, <4>2, OnlyOne
        <5> QED
          BY <1>2, <1>3, <5>1 DEF At, InAdd
      <4> QED
        BY <4>1, <4>2
    <3> QED
      BY <1>2, <1>3, <1>5, <1>7, <2>1, <3>1, <3>2 DEF Kept
  <2>6. HoldsAll(v, ids, With(f.acked, req.circle))
    <3>1. HealthyTree(t)
      BY <1>8, <2>1 DEF TreeFits
    <3>2. AddToTree(t, ObjectOf(req.circle, ids)).panicked = "no"
      BY <1>9, <1>10, <2>1
    <3>3. HoldsAll([AddToTree(t, ObjectOf(req.circle, ids)) EXCEPT !.panicked = "no"], ids,
                   With(f.acked, req.circle))
      BY <1>6, <1>13, <2>5, <3>1, <3>2, HoldsAdded
    <3> QED
      BY <1>9, <1>10, <1>11, <3>3
  <2>7. HoldsAll(g.rtree, g.fenceIDMap, With(g.acked, call'[c].req.circle))
    BY <1>17, <2>3, <2>6
  <2> QED
    BY <2>2, <2>4, <2>7
<1>31. call[c].at \in InAdd => call[c].ref = ref
  BY <1>2, <1>3
<1>32. ChangesFence(ref, g, c, b)
  BY <1>4, <1>18, <1>19, <1>20, <1>23, <1>26, <1>28, <1>30, <1>31 DEF ChangesFence
<1> QED
  BY <1>1, <1>6, <1>24, <1>32, FenceStepKeeps

\* The circle is in its fence too, and the addition is answered.
LEMMA Add2Keeps ==
  ASSUME IInv, NEW c \in Clients, Add2(c)
  PROVE  IInv'
<1>1. call[c].at = "add2" /\ Answer(c, 200) /\ UNCHANGED <<fences, queryPoint, requests, faults, restarts>>
  BY DEF Add2, Step
<1>2. PICK a : a = call[c]
  OBVIOUS
<1>3. PICK circle, ref : circle = a.req.circle /\ ref = a.ref
  OBVIOUS
<1>4. PICK f : f = heap[ref]
  OBVIOUS
<1>5. PICK ids : ids = f.fenceIDMap
  OBVIOUS
<1>6. call[c].at \in InAdd /\ ref \in DOMAIN heap /\ CircleFits(circle) /\ circle.key \in Range(ids)
  <2>1. call[c].at \in InAdd
    BY <1>1 DEF InAdd
  <2> QED
    BY <1>2, <1>3, <1>4, <1>5, <2>1, AddParts
<1>7. /\ call = [d \in Clients |-> call[d]]
      /\ FenceFits(f) /\ Kept(f, ref, call) /\ AddsAlone(f, ref, call)
  BY <1>4, <1>6, StoreFits
<1>8. /\ IDsFit(ids) /\ f.fence = f.acked /\ CirclesFit(f.acked, ids) /\ f.broken \in BOOLEAN
      /\ f.raced \in BOOLEAN /\ TreeFits(f.rtree, ids, f.broken)
  BY <1>5, <1>7 DEF FenceFits
<1>9. PICK w : w = With(f.acked, circle)
  OBVIOUS
<1>10. CirclesFit(w, ids)
  BY <1>6, <1>8, <1>9, WithFits
<1>11. PICK g : g = [f EXCEPT !.fence = w, !.acked = w]
  OBVIOUS
<1>12. /\ g.rtree = f.rtree /\ g.fenceIDMap = ids /\ g.fence = w /\ g.acked = w
       /\ g.raced = f.raced /\ g.broken = f.broken
       /\ g = Fence(g.rtree, g.fenceIDMap, g.fence, g.acked, g.raced, g.broken)
  <2>1. g = Fence(f.rtree, ids, w, w, f.raced, f.broken)
    BY <1>5, <1>7, <1>11, CirclesExcept
  <2> QED
    BY <2>1, FenceFields
<1>13. FenceFits(g)
  BY <1>8, <1>10, <1>12 DEF FenceFits, Fence
<1>14. Wider(f, g)
  BY <1>5, <1>12 DEF Wider
<1>15. heap' = [heap EXCEPT ![ref] = g]
  <2>1. heap' = [heap EXCEPT ![ref].fence = With(@, circle), ![ref].acked = With(@, circle)]
    BY <1>2, <1>3 DEF Add2, With
  <2>2. heap = [r \in DOMAIN heap |-> heap[r]]
    BY DEF IInv, StoreInv
  <2>3. heap' = [heap EXCEPT ![ref] = [f EXCEPT !.fence = With(@, circle), !.acked = With(@, circle)]]
    BY <1>4, <1>6, <2>1, <2>2
  <2>4. [f EXCEPT !.fence = With(@, circle), !.acked = With(@, circle)] = g
    BY <1>7, <1>8, <1>9, <1>11 DEF FenceFits
  <2> QED
    BY <2>3, <2>4
<1>16. /\ call' = [call EXCEPT ![c] = Idle]
       /\ \E r : reply' = [reply EXCEPT ![c] = r] /\ r.code \in {0, 200, 400, 500}
  BY <1>1, AnswerParts
<1>17. CallFits(c, Idle, heap') /\ Idle.at \notin InAdd
  BY IdleFits
<1>18. ASSUME ~f.raced
       PROVE  \A d \in Clients : ~(call'[d].at \in InAdd /\ call'[d].ref = ref)
  <2>1. \A d \in Clients : d # c => ~(call[d].at \in InAdd /\ call[d].ref = ref)
    BY <1>2, <1>3, <1>4, <1>6, <1>18, OnlyOne
  <2> QED
    BY <1>7, <1>16, <1>17, <2>1
<1>19. AddsAlone(g, ref, call')
  BY <1>12, <1>18 DEF AddsAlone
<1>20. Kept(g, ref, call')
  <2> SUFFICES ASSUME ~g.raced, ~g.broken
               PROVE  /\ HoldsAll(g.rtree, g.fenceIDMap, g.acked)
                      /\ \A d \in Clients : ~At(call'[d], "add", ref) /\ ~At(call'[d], "add2", ref)
    BY DEF Kept
  <2>1. ~f.raced /\ ~f.broken
    BY <1>12
  <2>2. At(call[c], "add2", ref)
    BY <1>1, <1>2, <1>3 DEF At
  <2>3. HoldsAll(f.rtree, ids, With(f.acked, circle))
    BY <1>2, <1>3, <1>5, <1>7, <2>1, <2>2 DEF Kept
  <2>4. \A d \in Clients : ~At(call'[d], "add", ref) /\ ~At(call'[d], "add2", ref)
    BY <1>18, <2>1 DEF At, InAdd
  <2> QED
    BY <1>9, <1>12, <2>3, <2>4
<1>21. call[c].at \in InAdd => call[c].ref = ref
  BY <1>2, <1>3
<1>22. ChangesFence(ref, g, c, Idle)
  BY <1>4, <1>13, <1>14, <1>15, <1>16, <1>17, <1>19, <1>20, <1>21 DEF ChangesFence
<1> QED
  BY <1>1, <1>6, <1>16, <1>22, FenceStepKeeps

\* Every step keeps the invariant.
LEMMA NextKeeps == IInv /\ [Next]_vars => IInv'
<1> SUFFICES ASSUME IInv, [Next]_vars PROVE IInv'
  OBVIOUS
<1>1. CASE UNCHANGED vars
  BY <1>1 DEF vars, IInv, StoreInv, FencesInv, CallsInv, KeptInv
<1>2. ASSUME NEW c \in Clients, NEW req \in Requests[c],
             \/ addGeofence(c, req) \/ deleteGeofence(c, req)
             \/ setQueryPoint(c, req) \/ searchFence(c, req) \/ addFencePoint(c, req)
      PROVE  IInv'
  BY <1>2, HandlersKeep
<1>3. ASSUME NEW c \in Clients, Handle(c)
      PROVE  IInv'
  <2>1. CASE AddFence1(c)
    BY <2>1, AddFence1Keeps
  <2>2. CASE AddFence2(c)
    BY <2>2, AddFence2Keeps
  <2>3. CASE DeleteFence(c)
    BY <2>3, DeleteFenceKeeps
  <2>4. CASE UpdateFencePoint1(c)
    BY <2>4, UpdateFencePoint1Keeps
  <2>5. CASE UpdateFencePoint2(c)
    BY <2>5, UpdateFencePoint2Keeps
  <2>6. CASE Search1(c)
    BY <2>6, Search1Keeps
  <2>7. CASE Search2(c)
    BY <2>7, Search2Keeps
  <2>8. CASE Search3(c)
    BY <2>8, Search3Keeps
  <2>9. CASE Search4(c)
    BY <2>9, Search4Keeps
  <2>10. CASE AddFencePoint1(c)
    BY <2>10, AddFencePoint1Keeps
  <2>11. CASE AddFencePoint2(c)
    BY <2>11, AddFencePoint2Keeps
  <2>12. CASE Add1(c)
    BY <2>12, Add1Keeps
  <2>13. CASE Add2(c)
    BY <2>13, Add2Keeps
  <2> QED
    BY <1>3, <2>1, <2>2, <2>3, <2>4, <2>5, <2>6, <2>7, <2>8, <2>9, <2>10, <2>11, <2>12, <2>13 DEF Handle
<1>4. ASSUME NEW c \in Clients, PutFails(c)
      PROVE  IInv'
  BY <1>4, PutFailsKeeps
<1>5. CASE Restart
  BY <1>5, RestartKeeps
<1> QED
  BY <1>1, <1>2, <1>3, <1>4, <1>5 DEF Next

\* The inductive invariant holds in every state there can be.
THEOREM Inductive == Spec => []IInv
BY InitFits, NextKeeps, PTL DEF Spec

\* Positions, circles, calls and references are ones that the requests can have made,
\* of every number of clients, requests, faults and restarts.
THEOREM TypesCorrect == Spec => []TypeOK
<1>1. IInv => TypeOK
  <2> SUFFICES ASSUME IInv PROVE TypeOK
    OBVIOUS
  <2>1. StoreInv
    BY DEF IInv
  <2>2. ASSUME NEW c \in Clients
        PROVE  /\ "req" \in DOMAIN call[c] => call[c].req \in Requests[c]
               /\ "ref" \in DOMAIN call[c] => call[c].ref \in DOMAIN heap
               /\ reply[c].code \in {0, 200, 400, 500}
    <3>1. CallFits(c, call[c], heap)
      BY StoreFits
    <3>2. PICK a : a = call[c]
      OBVIOUS
    <3>3. CASE a = Idle
      <4>1. "req" \notin DOMAIN a /\ "ref" \notin DOMAIN a
        BY <3>3 DEF Idle
      <4> QED
        BY <2>1, <3>2, <4>1 DEF StoreInv
    <3>4. CASE a # Idle
      <4>1. a.req \in Requests[c]
        BY <3>1, <3>2, <3>4 DEF CallFits
      <4>2. CASE a.ref \in DOMAIN heap
        BY <2>1, <3>2, <4>1, <4>2 DEF StoreInv
      <4>3. CASE a = [at |-> a.at, req |-> a.req]
        <5>1. PICK at, req : at = a.at /\ req = a.req
          OBVIOUS
        <5>2. a = [at |-> at, req |-> req]
          BY <4>3, <5>1
        <5>3. "ref" \notin DOMAIN a
          BY <5>2
        <5> QED
          BY <2>1, <3>2, <4>1, <5>3 DEF StoreInv
      <4> QED
        BY <3>1, <3>2, <3>4, <4>2, <4>3 DEF CallFits
    <3> QED
      BY <3>3, <3>4
  <2>3. ASSUME NEW ref \in DOMAIN heap
        PROVE  /\ DOMAIN heap[ref].fence \subseteq Range(heap[ref].fenceIDMap)
               /\ \A obj \in Range(Objects(heap[ref].rtree.root)) :
                     obj.id < Len(heap[ref].fenceIDMap)
    <3>1. FenceFits(heap[ref])
      BY StoreFits
    <3> QED
      BY <3>1 DEF FenceFits, CirclesFit, TreeFits, Known
  <2> QED
    BY <2>1, <2>2, <2>3 DEF TypeOK, StoreInv
<1> QED
  BY <1>1, Inductive, PTL

\* A fence point whose addition was answered stays in its fence, in the map and once
\* in the tree, whatever other requests, failures of the store and deletions of the
\* fence come in between, unless two additions overlapped or one panicked.
THEOREM PointsKept == Spec => []AckedPointsKept
<1>1. IInv => AckedPointsKept
  <2> SUFFICES ASSUME IInv, NEW ref \in Settled
               PROVE  /\ heap[ref].fence = heap[ref].acked
                      /\ Len(Objects(heap[ref].rtree.root)) = Cardinality(DOMAIN heap[ref].acked)
                      /\ Range(Objects(heap[ref].rtree.root))
                            = {ObjectOf(circle, heap[ref].fenceIDMap) : circle \in Range(heap[ref].acked)}
                      /\ heap[ref].rtree.root.isLeaf
    BY DEF AckedPointsKept
  <2>1. PICK f : f = heap[ref]
    OBVIOUS
  <2>2. ref \in DOMAIN heap /\ ~f.raced /\ ~f.broken /\ Adding(ref) = {}
    BY <2>1 DEF Settled
  <2>3. FenceFits(f) /\ Kept(f, ref, call)
    BY <2>1, <2>2, StoreFits
  <2>4. f.fence = f.acked /\ f.rtree.root.isLeaf
    BY <2>2, <2>3 DEF FenceFits, TreeFits, HealthyTree, IsLeafRoot
  <2>5. \A c \in Clients : ~At(call[c], "add2", ref)
    BY <2>2 DEF Adding, At
  <2>6. HoldsAll(f.rtree, f.fenceIDMap, f.acked)
    BY <2>2, <2>3, <2>5 DEF Kept
  <2> QED
    BY <2>1, <2>4, <2>6 DEF HoldsAll
<1> QED
  BY <1>1, Inductive, PTL

------------------------------------------------------------------------------
(* Answers of 500. *)

\* A step of a handler answers its own client only.
LEMMA OthersUntold ==
  ASSUME IInv, NEW c \in Clients, NEW d \in Clients, c # d,
         Handle(d) \/ PutFails(d) \/ \E req \in Requests[d] :
            \/ addGeofence(d, req) \/ deleteGeofence(d, req)
            \/ setQueryPoint(d, req) \/ searchFence(d, req) \/ addFencePoint(d, req)
  PROVE  reply'[c] = reply[c]
<1>1. reply = [e \in Clients |-> reply[e]]
  BY DEF IInv, StoreInv
<1>2. reply' = reply \/ \E r : reply' = [reply EXCEPT ![d] = r]
  <2>1. CASE \E req \in Requests[d] :
            \/ addGeofence(d, req) \/ deleteGeofence(d, req)
            \/ setQueryPoint(d, req) \/ searchFence(d, req) \/ addFencePoint(d, req)
    <3>1. \E req, valid, step : Receive(d, req, valid, step)
      BY <2>1 DEF addGeofence, deleteGeofence, setQueryPoint, searchFence, addFencePoint
    <3> QED
      BY <3>1 DEF Receive, Answer
  <2>2. CASE PutFails(d)
    BY <2>2 DEF PutFails, Answer
  <2>3. CASE AddFence1(d) \/ AddFence2(d) \/ DeleteFence(d) \/ UpdateFencePoint1(d) \/ UpdateFencePoint2(d)
    BY <2>3 DEF AddFence1, AddFence2, DeleteFence, UpdateFencePoint1, UpdateFencePoint2, Answer
  <2>4. CASE Search1(d) \/ Search2(d) \/ Search3(d)
    BY <2>4 DEF Search1, Search2, Search3, Answer
  <2>5. CASE Search4(d)
    <3>1. PICK r : reply' = [reply EXCEPT ![d] = r]
      BY <2>5 DEF Search4
    <3> QED
      BY <3>1
  <2>6. CASE AddFencePoint1(d)
    BY <2>6 DEF AddFencePoint1, Answer
  <2>7. CASE AddFencePoint2(d)
    BY <2>7 DEF AddFencePoint2, Answer
  <2>8. CASE Add1(d)
    BY <2>8 DEF Add1, Answer
  <2>9. CASE Add2(d)
    BY <2>9 DEF Add2, Answer
  <2> QED
    BY <2>1, <2>2, <2>3, <2>4, <2>5, <2>6, <2>7, <2>8, <2>9 DEF Handle
<1> QED
  BY <1>1, <1>2

\* An answer's code.
LEMMA AnswerCode ==
  ASSUME IInv, NEW c \in Clients, NEW code, Answer(c, code)
  PROVE  reply'[c].code = code
<1>1. reply = [e \in Clients |-> reply[e]]
  BY DEF IInv, StoreInv
<1>2. PICK r : r = [code |-> code]
  OBVIOUS
<1>3. reply' = [reply EXCEPT ![c] = r] /\ r.code = code
  BY <1>2 DEF Answer
<1> QED
  BY <1>1, <1>3

\* Why a client is answered with 500, in a step.
Explained(c) ==
  reply'[c].code = 500 /\ reply[c].code # 500 =>
      \/ faults' > faults
      \/ fences[call[c].req.fence] = NoFence
      \/ Step(c, "add") /\ LET n == Len(Objects(call[c].rtree.root))
                        IN \/ n >= MaxChildItems
                           \/ n = 2 /\ MovesPoint(c)
                           \/ heap[call[c].ref].broken

\* An addition that panics has a tree at its limits, or a broken one.
LEMMA Add1Explained ==
  ASSUME IInv, NEW c \in Clients, Add1(c)
  PROVE  Explained(c)
<1>1. PICK a : a = call[c]
  OBVIOUS
<1>2. PICK t, ref : t = a.rtree /\ ref = a.ref
  OBVIOUS
<1>3. PICK ids : ids = heap[ref].fenceIDMap
  OBVIOUS
<1>4. PICK o : o = ObjectOf(a.req.circle, ids)
  OBVIOUS
<1>5. PICK u : u = AddToTree(t, o)
  OBVIOUS
<1>6. a.at = "add" /\ call[c].at \in InAdd
  BY <1>1 DEF Add1, Step, InAdd
<1>7. ref \in DOMAIN heap /\ CircleFits(a.req.circle) /\ a.req.circle.key \in Range(ids)
  BY <1>1, <1>2, <1>3, <1>6, AddParts
<1>8. IDsFit(ids)
  <2>1. FenceFits(heap[ref])
    BY <1>7, StoreFits
  <2> QED
    BY <1>3, <2>1 DEF FenceFits
<1>9. o \in PlaneObjects
  BY <1>4, <1>7, <1>8, ObjectFits
<1>10. TreeFits(t, ids, heap[ref].broken)
  <2>1. CallFits(c, a, heap)
    BY <1>1, StoreFits
  <2> QED
    BY <1>2, <1>3, <1>6, <1>1, <2>1, AddCall
<1>11. CASE u.panicked = "no"
  <2>1. reply' = reply
    BY <1>1, <1>2, <1>3, <1>4, <1>5, <1>11 DEF Add1
  <2> QED
    BY <2>1 DEF Explained
<1>12. CASE u.panicked # "no" /\ heap[ref].broken
  BY <1>1, <1>2, <1>6, <1>12 DEF Explained, Step
<1>13. CASE u.panicked # "no" /\ ~heap[ref].broken
  <2>1. HealthyTree(t)
    BY <1>10, <1>13 DEF TreeFits
  <2>2. \/ Len(Objects(t.root)) >= MaxChildItems
        \/ Len(Objects(t.root)) = 2 /\ FindLeaf(o, t.root) # <<>>
    BY <1>5, <1>9, <1>13, <2>1, AddPanics
  <2>3. FindLeaf(o, t.root) # <<>> => MovesPoint(c)
    BY <1>1, <1>2, <1>3, <1>4 DEF MovesPoint
  <2> QED
    BY <1>1, <1>2, <1>6, <2>2, <2>3 DEF Explained, Step
<1> QED
  BY <1>11, <1>12, <1>13

\* The other steps of a handler, for its own client.
LEMMA HandlerExplained ==
  ASSUME IInv, NEW c \in Clients, Handle(c)
  PROVE  Explained(c)
<1>1. CASE reply' = reply
  BY <1>1 DEF Explained
<1>2. CASE \E code \in {200, 400} : Answer(c, code)
  <2>1. PICK code \in {200, 400} : Answer(c, code)
    BY <1>2
  <2>2. reply'[c].code = code
    BY <2>1, AnswerCode
  <2> QED
    BY <2>2 DEF Explained
<1>3. CASE Search4(c)
  <2>1. reply = [e \in Clients |-> reply[e]]
    BY DEF IInv, StoreInv
  <2>2. PICK req, old, told : reply' = [reply EXCEPT ![c] = [code |-> 200, req |-> req, old |-> old, fences |-> told]]
    BY <1>3 DEF Search4
  <2>3. PICK r : r = [code |-> 200, req |-> req, old |-> old, fences |-> told]
    OBVIOUS
  <2>4. reply' = [reply EXCEPT ![c] = r] /\ r.code = 200
    BY <2>2, <2>3
  <2>5. reply'[c].code = 200
    BY <2>1, <2>4
  <2> QED
    BY <2>5 DEF Explained
<1>4. CASE AddFencePoint2(c)
  <2>1. fences[call[c].req.fence] = NoFence \/ reply' = reply
    BY <1>4 DEF AddFencePoint2
  <2> QED
    BY <2>1 DEF Explained
<1>5. CASE Add1(c)
  BY <1>5, Add1Explained
<1>6. CASE AddFence1(c) \/ AddFence2(c) \/ DeleteFence(c) \/ UpdateFencePoint1(c) \/ UpdateFencePoint2(c)
  BY <1>1, <1>2, <1>6 DEF AddFence1, AddFence2, DeleteFence, UpdateFencePoint1, UpdateFencePoint2
<1>7. CASE Search1(c) \/ Search2(c) \/ Search3(c) \/ AddFencePoint1(c) \/ Add2(c)
  BY <1>1, <1>2, <1>7 DEF Search1, Search2, Search3, AddFencePoint1, Add2
<1> QED
  BY <1>3, <1>4, <1>5, <1>6, <1>7 DEF Handle

\* A request is answered with 500 only when the store failed, when the fence was
\* deleted under an addition, or at the limits of the fence's tree (recoverPanic).
THEOREM ErrorsExplained == Spec => ServerErrorsExplained
<1>1. IInv /\ [Next]_vars => [\A c \in Clients : Explained(c)]_vars
  <2> SUFFICES ASSUME IInv, Next, NEW c \in Clients PROVE Explained(c)
    OBVIOUS
  <2>1. CASE Restart
    <3>1. reply'[c].code = 0
      BY <2>1 DEF Restart
    <3> QED
      BY <3>1 DEF Explained
  <2>2. ASSUME NEW d \in Clients,
               Handle(d) \/ PutFails(d) \/ \E req \in Requests[d] :
                  \/ addGeofence(d, req) \/ deleteGeofence(d, req)
                  \/ setQueryPoint(d, req) \/ searchFence(d, req) \/ addFencePoint(d, req)
        PROVE  Explained(c)
    <3>1. CASE c # d
      <4>1. reply'[c] = reply[c]
        BY <2>2, <3>1, OthersUntold
      <4> QED
        BY <4>1 DEF Explained
    <3>2. CASE c = d /\ Handle(d)
      BY <3>2, HandlerExplained
    <3>3. CASE c = d /\ PutFails(d)
      <4>1. faults' > faults
        <5>1. faults \in Nat /\ faults' = faults + 1
          BY <3>3, StoreFits, GeofenceAssumption DEF PutFails
        <5> QED
          BY <5>1
      <4> QED
        BY <4>1 DEF Explained
    <3>4. CASE c = d /\ ~Handle(d) /\ ~PutFails(d)
      <4>1. PICK req, valid, step : Receive(c, req, valid, step)
        BY <2>2, <3>4 DEF addGeofence, deleteGeofence, setQueryPoint, searchFence, addFencePoint
      <4>2. Answer(c, 400) \/ Answer(c, 0) \/ reply' = [reply EXCEPT ![c] = [code |-> 0]]
        BY <4>1 DEF Receive
      <4>3. reply'[c].code \in {0, 400}
        <5>1. reply = [e \in Clients |-> reply[e]]
          BY DEF IInv, StoreInv
        <5>2. PICK r : r = [code |-> 0]
          OBVIOUS
        <5>3. r.code = 0
          BY <5>2
        <5>4. CASE reply' = [reply EXCEPT ![c] = r]
          BY <5>1, <5>3, <5>4
        <5>5. CASE Answer(c, 400) \/ Answer(c, 0)
          BY <5>5, AnswerCode
        <5> QED
          BY <4>2, <5>2, <5>4, <5>5
      <4> QED
        BY <4>3 DEF Explained
    <3> QED
      BY <2>2, <3>1, <3>2, <3>3, <3>4
  <2> QED
    BY <2>1, <2>2 DEF Next
<1>2. [\A c \in Clients : Explained(c)]_vars <=>
      [\A c \in Clients :
        reply'[c].code = 500 /\ reply[c].code # 500 =>
            \/ faults' > faults
            \/ fences[call[c].req.fence] = NoFence
            \/ Step(c, "add") /\ LET n == Len(Objects(call[c].rtree.root))
                              IN \/ n >= MaxChildItems
                                 \/ n = 2 /\ MovesPoint(c)
                                 \/ heap[call[c].ref].broken]_vars
  BY DEF Explained
<1> QED
  BY <1>1, <1>2, Inductive, PTL DEF Spec, ServerErrorsExplained

------------------------------------------------------------------------------
(* The line of a move and a circle: alpha, beta and gamma are those of      *)
(* IsLineCircleIntersect.                                                   *)

\* Signs of products.
LEMMA SignsOfProducts ==
  ASSUME NEW a \in Int, NEW b \in Int
  PROVE  /\ a * b \in Int /\ (a > 0 /\ b > 0 => a * b > 0)
         /\ a * a \in Nat /\ (-a) * (-a) = a * a /\ (a # 0 => a * a > 0)
OBVIOUS

\* A square of a sum.
LEMMA SquareOfSum ==
  ASSUME NEW a \in Int, NEW b \in Int
  PROVE  (a + b) * (a + b) = a * a + 2 * (a * b) + b * b
OBVIOUS

\* What solving the quadratic says for a line with both ends outside of the circle.
LEMMA RootsOnSegment ==
  ASSUME NEW alpha \in Int, NEW beta \in Int, NEW gamma \in Int,
         alpha >= 0, gamma > 0, gamma + 2 * beta + alpha > 0,
         NEW d \in Int, d = beta * beta - alpha * gamma
  PROVE  (/\ d >= 0
          /\ alpha # 0
          /\ \/ RootAtLeast(d, beta) /\ RootAtMost(d, alpha + beta)
             \/ RootAtMost(d, -beta) /\ RootAtLeast(d, -beta - alpha))
         <=> (0 < -beta /\ -beta < alpha /\ d >= 0)
<1>1. PICK bb \in Nat : bb = beta * beta /\ (-beta) * (-beta) = bb /\ (beta # 0 => bb > 0)
  BY SignsOfProducts
<1>2. PICK ag \in Int : ag = alpha * gamma /\ (alpha > 0 => ag > 0)
  BY SignsOfProducts
<1>3. PICK s \in Int : s = alpha + beta
  OBVIOUS
<1>4. PICK ss \in Nat : ss = s * s /\ (-s) * (-s) = ss /\ (s # 0 => ss > 0)
  BY SignsOfProducts
<1>5. d = bb - ag
  BY <1>1, <1>2
<1>6. alpha > 0 => ss > d
  <2>1. PICK q \in Int : q = gamma + 2 * beta + alpha /\ q > 0
    OBVIOUS
  <2>2. PICK aq \in Int : aq = alpha * q /\ (alpha > 0 => aq > 0)
    BY <2>1, SignsOfProducts
  <2>3. ss = alpha * alpha + 2 * (alpha * beta) + beta * beta
    BY <1>3, <1>4, SquareOfSum
  <2>4. aq = alpha * gamma + 2 * (alpha * beta) + alpha * alpha
    BY <2>1, <2>2
  <2>5. ss = d + aq
    BY <1>1, <1>2, <1>5, <2>2, <2>3, <2>4
  <2> QED
    BY <2>2, <2>5
<1>7. /\ RootAtLeast(d, beta) <=> (beta <= 0 \/ d >= bb)
      /\ RootAtMost(d, alpha + beta) <=> (s >= 0 /\ d <= ss)
      /\ RootAtMost(d, -beta) <=> (-beta >= 0 /\ d <= bb)
      /\ RootAtLeast(d, -beta - alpha) <=> (-s <= 0 \/ d >= ss)
  <2>1. -beta - alpha = -s
    BY <1>3
  <2> QED
    BY <1>1, <1>3, <1>4, <2>1 DEF RootAtLeast, RootAtMost
<1>8. s = 0 => ss = 0
  BY <1>4
<1>9. beta = 0 => bb = 0
  BY <1>1
<1> QED
  BY <1>1, <1>2, <1>3, <1>4, <1>5, <1>6, <1>7, <1>8, <1>9

\* Positions that requests and the store have.
PositionFits(p) == p.lat \in Int /\ p.lon \in Int

\* The code's quadratic and the distance of the centre from the segment agree on a
\* move that begins and ends outside of the circle.
LEMMA LineTells ==
  ASSUME NEW circle, CircleFits(circle), NEW a, PositionFits(a), NEW b, PositionFits(b),
         ~CircleContains(circle, a), ~CircleContains(circle, b)
  PROVE  IsLineCircleIntersect(circle, a, b) <=> Passes(circle, a, b)
<1>1. PICK vLat \in Int, vLon \in Int, uLat \in Int, uLon \in Int, r \in Int :
         /\ vLat = a.lat - circle.lat /\ vLon = a.lon - circle.lon
         /\ uLat = b.lat - a.lat /\ uLon = b.lon - a.lon /\ r = circle.radius
  <2>1. /\ a.lat - circle.lat \in Int /\ a.lon - circle.lon \in Int
        /\ b.lat - a.lat \in Int /\ b.lon - a.lon \in Int /\ circle.radius \in Int
    BY DEF CircleFits, PositionFits
  <2> QED
    BY <2>1, Zenon
<1>2. PICK vv \in Int, uu \in Int, uv \in Int, rr \in Int :
         /\ vv = vLat * vLat + vLon * vLon /\ uu = uLat * uLat + uLon * uLon
         /\ uv = uLat * vLat + uLon * vLon /\ rr = r * r
  OBVIOUS
<1>3. uu >= 0
  BY <1>2, SignsOfProducts
<1>4. PICK d \in Int : d = uv * uv - uu * (vv - rr)
  OBVIOUS
<1>5. /\ circle.lat - a.lat = -vLat /\ circle.lon - a.lon = -vLon
      /\ b.lat - circle.lat = uLat + vLat /\ b.lon - circle.lon = uLon + vLon
  BY <1>1 DEF CircleFits, PositionFits
<1>6. vv - rr > 0
  <2>1. ~(vLon * vLon + vLat * vLat <= rr)
    BY <1>1, <1>2 DEF CircleContains, HaversineDistance
  <2> QED
    BY <1>2, <2>1
<1>7. (vv - rr) + 2 * uv + uu > 0
  <2>1. ~((uLon + vLon) * (uLon + vLon) + (uLat + vLat) * (uLat + vLat) <= rr)
    BY <1>1, <1>2, <1>5 DEF CircleContains, HaversineDistance
  <2>2. /\ (uLon + vLon) * (uLon + vLon) = uLon * uLon + 2 * (uLon * vLon) + vLon * vLon
        /\ (uLat + vLat) * (uLat + vLat) = uLat * uLat + 2 * (uLat * vLat) + vLat * vLat
    BY SquareOfSum
  <2> QED
    BY <1>2, <2>1, <2>2
<1>8. IsLineCircleIntersect(circle, a, b)
         <=> (/\ d >= 0
              /\ uu # 0
              /\ \/ RootAtLeast(d, uv) /\ RootAtMost(d, uu + uv)
                 \/ RootAtMost(d, -uv) /\ RootAtLeast(d, -uv - uu))
  <2>1. /\ uu = (b.lat - a.lat) * (b.lat - a.lat) + (b.lon - a.lon) * (b.lon - a.lon)
        /\ uv = (b.lat - a.lat) * (a.lat - circle.lat) + (b.lon - a.lon) * (a.lon - circle.lon)
        /\ vv = (a.lat - circle.lat) * (a.lat - circle.lat) + (a.lon - circle.lon) * (a.lon - circle.lon)
        /\ rr = circle.radius * circle.radius
    BY <1>1, <1>2
  <2>2. d = uv * uv - uu * ((a.lat - circle.lat) * (a.lat - circle.lat)
                              + (a.lon - circle.lon) * (a.lon - circle.lon)
                              - circle.radius * circle.radius)
    <3>1. vv - rr = (a.lat - circle.lat) * (a.lat - circle.lat)
                      + (a.lon - circle.lon) * (a.lon - circle.lon)
                      - circle.radius * circle.radius
      BY <1>1, <1>2
    <3> QED
      BY <1>4, <3>1, Zenon
  <2> QED
    BY <2>1, <2>2, Zenon DEF IsLineCircleIntersect
<1>9. Passes(circle, a, b) <=> (0 < -uv /\ -uv < uu /\ d >= 0)
  <2>1. uLat * (-vLat) + uLon * (-vLon) = -uv
    BY <1>2
  <2>2. (-vLat) * (-vLat) + (-vLon) * (-vLon) = vv
    BY <1>2
  <2>3. Passes(circle, a, b) <=> /\ 0 < -uv /\ -uv < uu
                                 /\ vv * uu - (-uv) * (-uv) <= rr * uu
    <3>1. /\ uLat * (circle.lat - a.lat) + uLon * (circle.lon - a.lon) = -uv
          /\ (circle.lat - a.lat) * (circle.lat - a.lat)
               + (circle.lon - a.lon) * (circle.lon - a.lon) = vv
      BY <1>5, <2>1, <2>2
    <3>2. /\ (b.lat - a.lat) * (circle.lat - a.lat) + (b.lon - a.lon) * (circle.lon - a.lon) = -uv
          /\ (b.lat - a.lat) * (b.lat - a.lat) + (b.lon - a.lon) * (b.lon - a.lon) = uu
          /\ circle.radius * circle.radius = rr
      BY <1>1, <1>2, <3>1
    <3> QED
      BY <3>1, <3>2 DEF Passes
  <2>4. vv * uu - (-uv) * (-uv) <= rr * uu <=> d >= 0
    <3>1. PICK x \in Int, y \in Int, z \in Int : x = vv * uu /\ y = uv * uv /\ z = rr * uu
      OBVIOUS
    <3>2. (-uv) * (-uv) = y
      BY <3>1, SignsOfProducts
    <3>3. uu * (vv - rr) = x - z
      BY <3>1
    <3> QED
      BY <1>4, <3>1, <3>2, <3>3
  <2> QED
    BY <2>3, <2>4
<1>10. (/\ d >= 0
        /\ uu # 0
        /\ \/ RootAtLeast(d, uv) /\ RootAtMost(d, uu + uv)
           \/ RootAtMost(d, -uv) /\ RootAtLeast(d, -uv - uu))
       <=> (0 < -uv /\ -uv < uu /\ d >= 0)
  <2>1. PICK gamma \in Int : gamma = vv - rr
    OBVIOUS
  <2>2. gamma > 0 /\ gamma + 2 * uv + uu > 0 /\ d = uv * uv - uu * gamma
    BY <1>4, <1>6, <1>7, <2>1
  <2> QED
    BY <1>3, <2>2, RootsOnSegment
<1> QED
  BY <1>8, <1>9, <1>10

\* Four sets together.
LEMMA UnionOfFour ==
  ASSUME NEW A, NEW B, NEW C, NEW D
  PROVE  UNION {A, B, C, D} = (A \cup B) \cup (C \cup D)
OBVIOUS

\* Elements of short sequences.
LEMMA ShortRanges ==
  ASSUME NEW x, NEW y
  PROVE  Range(<<x>>) = {x} /\ Range(<<x, y>>) = {x, y}
<1>1. DOMAIN <<x>> = {1} /\ DOMAIN <<x, y>> = {1, 2}
  OBVIOUS
<1>2. Range(<<x>>) = {x}
  BY <1>1 DEF Range
<1>3. Range(<<x, y>>) = {x, y}
  BY <1>1 DEF Range
<1> QED
  BY <1>2, <1>3

\* Where a position is: inside of a circle or outside.
StatusOf(circle, p) == IF CircleContains(circle, p) THEN "INSIDE" ELSE "OUTSIDE"

\* The statuses of a fence point are the ones a move means.
LEMMA StatusesTold ==
  ASSUME NEW circle, CircleFits(circle), NEW old, PositionFits(old), NEW p, PositionFits(p)
  PROVE  Range(appendNewFenceStatus(circle, StatusOf(circle, old), old, StatusOf(circle, p), p))
            = ExpectedStatuses(circle, old, p)
<1> DEFINE was == CircleContains(circle, old)
           is == CircleContains(circle, p)
           told == appendNewFenceStatus(circle, StatusOf(circle, old), old, StatusOf(circle, p), p)
<1>1. ExpectedStatuses(circle, old, p)
         = ((IF is THEN {"INSIDE"} ELSE {}) \cup (IF is /\ ~was THEN {"ENTER"} ELSE {}))
           \cup ((IF was /\ ~is THEN {"EXIT", "OUTSIDE"} ELSE {})
                 \cup (IF ~was /\ ~is
                       THEN {IF Passes(circle, old, p) THEN "CROSS" ELSE "OUTSIDE"} ELSE {}))
  BY UnionOfFour, Zenon DEF ExpectedStatuses
<1>2. CASE was /\ is
  <2>1. StatusOf(circle, old) = "INSIDE" /\ StatusOf(circle, p) = "INSIDE"
    BY <1>2 DEF StatusOf
  <2>2. told = <<"INSIDE">>
    BY <2>1 DEF appendNewFenceStatus
  <2> HIDE DEF was, is, told
  <2>3. ExpectedStatuses(circle, old, p) = {"INSIDE"}
    BY <1>1, <1>2
  <2> QED
    BY <2>2, <2>3, ShortRanges DEF told
<1>3. CASE was /\ ~is
  <2>1. StatusOf(circle, old) = "INSIDE" /\ StatusOf(circle, p) = "OUTSIDE"
    BY <1>3 DEF StatusOf
  <2>2. told = <<"EXIT", "OUTSIDE">>
    BY <2>1 DEF appendNewFenceStatus
  <2> HIDE DEF was, is, told
  <2>3. ExpectedStatuses(circle, old, p) = {"EXIT", "OUTSIDE"}
    BY <1>1, <1>3
  <2> QED
    BY <2>2, <2>3, ShortRanges DEF told
<1>4. CASE ~was /\ is
  <2>1. StatusOf(circle, old) = "OUTSIDE" /\ StatusOf(circle, p) = "INSIDE"
    BY <1>4 DEF StatusOf
  <2>2. told = <<"ENTER", "INSIDE">>
    BY <2>1 DEF appendNewFenceStatus
  <2> HIDE DEF was, is, told
  <2>3. ExpectedStatuses(circle, old, p) = {"ENTER", "INSIDE"}
    BY <1>1, <1>4
  <2> QED
    BY <2>2, <2>3, ShortRanges DEF told
<1>5. CASE ~was /\ ~is
  <2>1. StatusOf(circle, old) = "OUTSIDE" /\ StatusOf(circle, p) = "OUTSIDE"
    BY <1>5 DEF StatusOf
  <2>2. told = IF IsLineCircleIntersect(circle, old, p) THEN <<"CROSS">> ELSE <<"OUTSIDE">>
    BY <2>1 DEF appendNewFenceStatus
  <2>3. IsLineCircleIntersect(circle, old, p) <=> Passes(circle, old, p)
    BY <1>5, LineTells
  <2> HIDE DEF was, is, told
  <2>4. ExpectedStatuses(circle, old, p) = {IF Passes(circle, old, p) THEN "CROSS" ELSE "OUTSIDE"}
    BY <1>1, <1>5
  <2> QED
    BY <2>2, <2>3, <2>4, ShortRanges DEF told
<1> QED
  BY <1>2, <1>3, <1>4, <1>5

\* The circle of an object is the one it was made from.
LEMMA CircleFound ==
  ASSUME NEW f, IDsFit(f.fenceIDMap), f.fence = f.acked, CirclesFit(f.acked, f.fenceIDMap),
         NEW circle \in Range(f.acked)
  PROVE  CircleOf(f, ObjectOf(circle, f.fenceIDMap)) = circle /\ CircleFits(circle)
<1>1. PICK key \in DOMAIN f.acked : circle = f.acked[key]
  BY DEF Range
<1>2. circle.key = key /\ CircleFits(circle) /\ key \in Range(f.fenceIDMap)
  BY <1>1 DEF CirclesFit
<1>3. PICK ids : ids = f.fenceIDMap
  OBVIOUS
<1>4. ids[IdOf(ids, key) + 1] = key
  BY <1>2, <1>3, IdOfKey DEF IDsFit
<1>5. ObjectOf(circle, ids).id = IdOf(ids, key)
  BY <1>2 DEF ObjectOf
<1>6. CircleOf(f, ObjectOf(circle, ids)) = f.fence[key]
  BY <1>1, <1>3, <1>4, <1>5 DEF CircleOf
<1> QED
  BY <1>1, <1>2, <1>3, <1>6

\* A prefix as long as the sequence is the sequence.
LEMMA WholePrefix ==
  ASSUME NEW V, NEW w \in Seq(V), NEW k \in Nat, Len(w) <= k
  PROVE  Prefix(w, k) = w
<1>1. PICK n \in Nat : n = Len(w)
  OBVIOUS
<1>2. Prefix(w, k) = SubSeq(w, 1, n)
  <2>1. (IF k < Len(w) THEN k ELSE Len(w)) = n
    BY <1>1
  <2> QED
    BY <2>1 DEF Prefix
<1> QED
  BY <1>1, <1>2

\* A search of a fence with few points looks at all of its objects, each once.
LEMMA AllNearby ==
  ASSUME NEW t, HealthyTree(t), Distinct(Objects(t.root)), t.size = Len(Objects(t.root)),
         Len(Objects(t.root)) <= Nearby, NEW p, NEW w, w = NearestNeighboursPQ(t, Nearby, p)
  PROVE  /\ Len(w) = Len(Objects(t.root)) /\ Len(w) \in Nat /\ DOMAIN w = 1..Len(w)
         /\ Range(w) = Range(Objects(t.root))
<1>1. PICK items : items = t.root.items
  OBVIOUS
<1>2. PICK n \in Nat : n = Len(items) /\ DOMAIN items = 1..n
  BY <1>1 DEF HealthyTree, IsLeafRoot
<1>3. PICK objs : objs = Objects(t.root)
  OBVIOUS
<1>4. objs = [i \in 1..n |-> items[i].leaf]
  BY <1>1, <1>2, <1>3, LeafRootObjects DEF HealthyTree
<1>5. Len(objs) = n /\ DOMAIN objs = 1..n /\ \A i \in 1..n : objs[i] = items[i].leaf
  BY <1>2, <1>4
<1>6. NoTwins(items)
  <2>1. ASSUME NEW i \in 1..n, NEW j \in 1..n, items[i] = items[j] PROVE i = j
    <3>1. objs[i].id = objs[j].id
      BY <1>5, <2>1
    <3> QED
      BY <1>3, <1>5, <3>1 DEF Distinct
  <2> QED
    BY <1>2, <2>1 DEF NoTwins
<1>7. PICK v : v = incrementalNearestNeighbor(t, p)
  OBVIOUS
<1>8. /\ v \in Seq(Leaves(items)) /\ Len(v) = n
      /\ \A i \in 1..n : \E j \in 1..n : v[j] = items[i].leaf
  <2>1. IsLeafRoot(t.root)
    BY DEF HealthyTree
  <2>2. NoTwins(t.root.items)
    BY <1>1, <1>6
  <2>3. /\ v \in Seq(Leaves(t.root.items)) /\ Len(v) = Len(t.root.items)
        /\ \A i \in 1..Len(t.root.items) : \E j \in 1..Len(v) : v[j] = t.root.items[i].leaf
    BY <1>7, <2>1, <2>2, WalkReportsAll
  <2> QED
    BY <1>1, <1>2, <2>3
<1>9. w = v
  <2>1. PICK k \in Nat : k = (IF t.size > Nearby THEN Nearby ELSE t.size) /\ k = n
    BY <1>3, <1>5, GeofenceAssumption
  <2>2. PICK l \in Nat : l = (IF k < 1 THEN 1 ELSE k) /\ n <= l
    BY <2>1
  <2>3. w = Prefix(v, l)
    BY <1>7, <2>1, <2>2 DEF NearestNeighboursPQ
  <2> QED
    BY <1>8, <2>2, <2>3, WholePrefix
<1>10. Range(v) = Range(objs)
  <2>1. DOMAIN v = 1..n /\ \A j \in 1..n : v[j] \in Leaves(items)
    BY <1>2, <1>8
  <2>2. Range(objs) = {items[i].leaf : i \in 1..n}
    BY <1>5 DEF Range
  <2>3. Range(v) = {v[j] : j \in 1..n}
    BY <2>1 DEF Range
  <2>4. \A j \in 1..n : \E i \in 1..n : v[j] = items[i].leaf
    BY <1>2, <2>1 DEF Leaves
  <2>5. ASSUME NEW x \in Range(v) PROVE x \in Range(objs)
    <3>1. PICK j \in 1..n : x = v[j]
      BY <2>3, <2>5
    <3>2. PICK i \in 1..n : v[j] = items[i].leaf
      BY <2>4
    <3> QED
      BY <2>2, <3>1, <3>2
  <2>6. ASSUME NEW x \in Range(objs) PROVE x \in Range(v)
    <3>1. PICK i \in 1..n : x = items[i].leaf
      BY <2>2, <2>6
    <3>2. PICK j \in 1..n : v[j] = items[i].leaf
      BY <1>8
    <3> QED
      BY <2>3, <3>1, <3>2
  <2> QED
    BY <2>5, <2>6
<1>11. DOMAIN v = 1..n
  BY <1>8
<1> QED
  BY <1>2, <1>3, <1>5, <1>8, <1>9, <1>10, <1>11

\* What a search tells about an object.
AnswerOf(f, obj, old, p) ==
  [circle |-> CircleOf(f, obj),
   statuses |-> appendNewFenceStatus(CircleOf(f, obj), StatusOf(CircleOf(f, obj), old), old,
                                     StatusOf(CircleOf(f, obj), p), p)]

\* A search answers for every object that is nearby, in the order of the walk.
LEMMA GetAnswers ==
  ASSUME NEW f, NEW old, old.lat # Unknown, NEW p,
         NEW w, w = NearestNeighboursPQ(f.rtree, Nearby, p)
  PROVE  Get(f, p, old) = [i \in DOMAIN w |-> AnswerOf(f, w[i], old, p)]
<1> DEFINE oldOf(circle) == IF old.lat # Unknown /\ CircleContains(circle, old) THEN "INSIDE" ELSE "OUTSIDE"
           newOf(circle) == IF CircleContains(circle, p) THEN "INSIDE" ELSE "OUTSIDE"
           answer(circle) == [circle |-> circle,
                              statuses |-> appendNewFenceStatus(circle, oldOf(circle), old, newOf(circle), p)]
<1>1. Get(f, p, old) = [i \in DOMAIN w |-> answer(CircleOf(f, w[i]))]
  BY DEF Get
<1>2. \A circle : oldOf(circle) = StatusOf(circle, old) /\ newOf(circle) = StatusOf(circle, p)
  BY DEF StatusOf
<1> HIDE DEF oldOf, newOf
<1>3. \A obj : answer(CircleOf(f, obj)) = AnswerOf(f, obj, old, p)
  BY <1>2 DEF AnswerOf
<1> HIDE DEF answer
<1> QED
  BY <1>1, <1>3

\* A position other than Nowhere is one that a request gave.
LEMMA PositionsFit ==
  ASSUME NEW p \in Positions \ {Nowhere}
  PROVE  PositionFits(p) /\ p.lat # Unknown
<1>1. PICK req \in AllRequests : "at" \in DOMAIN req /\ req.at = p
  BY DEF Positions
<1>2. PICK c \in Clients : req \in Requests[c]
  BY DEF AllRequests
<1>3. req.at.lat \in Int \ {Unknown} /\ req.at.lon \in Int
  BY <1>1, <1>2, GeofenceAssumption
<1> QED
  BY <1>1, <1>3 DEF PositionFits

\* The objects a search of a fence with all of its points looks at.
LEMMA AllObjects ==
  ASSUME NEW f, FenceFits(f), ~f.broken, HoldsAll(f.rtree, f.fenceIDMap, f.acked),
         NEW n, n = Cardinality(DOMAIN f.acked), n <= Nearby, NEW p,
         NEW w, w = NearestNeighboursPQ(f.rtree, Nearby, p)
  PROVE  /\ n \in Nat /\ DOMAIN w = 1..n
         /\ Range(w) = {ObjectOf(circle, f.fenceIDMap) : circle \in Range(f.acked)}
<1>1. PICK t : t = f.rtree
  OBVIOUS
<1>2. HealthyTree(t)
  BY <1>1 DEF FenceFits, TreeFits
<1>3. /\ t.size = Len(Objects(t.root)) /\ Len(Objects(t.root)) = n /\ Distinct(Objects(t.root))
      /\ Range(Objects(t.root)) = {ObjectOf(circle, f.fenceIDMap) : circle \in Range(f.acked)}
  BY <1>1 DEF HoldsAll
<1>4. Len(Objects(t.root)) <= Nearby
  BY <1>3
<1>5. w = NearestNeighboursPQ(t, Nearby, p)
  BY <1>1
<1>6. /\ Len(w) = Len(Objects(t.root)) /\ Len(w) \in Nat /\ DOMAIN w = 1..Len(w)
      /\ Range(w) = Range(Objects(t.root))
  BY <1>2, <1>3, <1>4, <1>5, AllNearby
<1> QED
  BY <1>3, <1>6

\* What a search tells is the answer for each object it looks at.
LEMMA AnswersTold ==
  ASSUME NEW f, NEW old, old.lat # Unknown, NEW p,
         NEW w, w = NearestNeighboursPQ(f.rtree, Nearby, p), NEW n \in Nat, DOMAIN w = 1..n
  PROVE  /\ Len(Get(f, p, old)) = n
         /\ Range(Get(f, p, old)) = {AnswerOf(f, obj, old, p) : obj \in Range(w)}
<1>1. PICK told : told = Get(f, p, old)
  OBVIOUS
<1>2. told = [i \in 1..n |-> AnswerOf(f, w[i], old, p)]
  BY <1>1, GetAnswers
<1>3. Len(told) = n
  BY <1>2
<1>4. DOMAIN told = 1..n /\ \A i \in 1..n : told[i] = AnswerOf(f, w[i], old, p)
  BY <1>2
<1>5. Range(told) = {told[i] : i \in 1..n}
  BY <1>4 DEF Range
<1>6. Range(w) = {w[i] : i \in 1..n}
  BY DEF Range
<1>7. Range(told) = {AnswerOf(f, obj, old, p) : obj \in Range(w)}
  BY <1>4, <1>5, <1>6
<1> QED
  BY <1>1, <1>3, <1>7

\* The answer for the object of a circle is about that circle, and true of it.
LEMMA AnswerTrue ==
  ASSUME NEW f, FenceFits(f), NEW circle \in Range(f.acked), NEW old, PositionFits(old),
         NEW p, PositionFits(p)
  PROVE  LET answer == AnswerOf(f, ObjectOf(circle, f.fenceIDMap), old, p)
         IN  answer.circle = circle /\ Range(answer.statuses) = ExpectedStatuses(circle, old, p)
<1>1. CircleOf(f, ObjectOf(circle, f.fenceIDMap)) = circle /\ CircleFits(circle)
  BY CircleFound DEF FenceFits
<1>2. PICK told : told = appendNewFenceStatus(circle, StatusOf(circle, old), old, StatusOf(circle, p), p)
  OBVIOUS
<1>3. Range(told) = ExpectedStatuses(circle, old, p)
  BY <1>1, <1>2, StatusesTold
<1>4. AnswerOf(f, ObjectOf(circle, f.fenceIDMap), old, p) = [circle |-> circle, statuses |-> told]
  BY <1>1, <1>2 DEF AnswerOf
<1> QED
  BY <1>3, <1>4

\* A search of a fence with no more points than it looks at tells about each of them,
\* once, what the move from one position to another means: the points entered and left,
\* those inside, and those the line between two positions outside crosses.
THEOREM SearchesTellAll == Spec => []SearchTellsAll
<1>1. IInv => SearchTellsAll
  <2> SUFFICES ASSUME IInv, NEW ref \in Settled, Cardinality(DOMAIN heap[ref].acked) <= Nearby,
                      NEW old \in Positions \ {Nowhere}, NEW p \in Positions \ {Nowhere}
               PROVE  LET told == Get(heap[ref], p, old)
                      IN  /\ Len(told) = Cardinality(DOMAIN heap[ref].acked)
                          /\ {answer.circle : answer \in Range(told)} = Range(heap[ref].acked)
                          /\ \A answer \in Range(told) :
                                Range(answer.statuses) = ExpectedStatuses(answer.circle, old, p)
    BY DEF SearchTellsAll
  <2>1. PICK f : f = heap[ref]
    OBVIOUS
  <2>2. ref \in DOMAIN heap /\ ~f.raced /\ ~f.broken /\ Adding(ref) = {}
    BY <2>1 DEF Settled
  <2>3. FenceFits(f) /\ Kept(f, ref, call)
    BY <2>1, <2>2, StoreFits
  <2>4. \A c \in Clients : ~At(call[c], "add2", ref)
    BY <2>2 DEF Adding, At
  <2>5. HoldsAll(f.rtree, f.fenceIDMap, f.acked)
    BY <2>2, <2>3, <2>4 DEF Kept
  <2>6. PositionFits(old) /\ PositionFits(p) /\ old.lat # Unknown
    BY PositionsFit
  <2>7. PICK n : n = Cardinality(DOMAIN f.acked)
    OBVIOUS
  <2>8. PICK w : w = NearestNeighboursPQ(f.rtree, Nearby, p)
    OBVIOUS
  <2>9. n <= Nearby
    BY <2>1, <2>7
  <2>10. /\ n \in Nat /\ DOMAIN w = 1..n
         /\ Range(w) = {ObjectOf(circle, f.fenceIDMap) : circle \in Range(f.acked)}
    BY <2>2, <2>3, <2>5, <2>7, <2>8, <2>9, AllObjects
  <2>11. PICK told : told = Get(f, p, old)
    OBVIOUS
  <2>12. Len(told) = n /\ Range(told) = {AnswerOf(f, obj, old, p) : obj \in Range(w)}
    BY <2>6, <2>8, <2>10, <2>11, AnswersTold
  <2>13. Range(told) = {AnswerOf(f, ObjectOf(circle, f.fenceIDMap), old, p) : circle \in Range(f.acked)}
    BY <2>10, <2>12
  <2> DEFINE answer(circle) == AnswerOf(f, ObjectOf(circle, f.fenceIDMap), old, p)
  <2>14. ASSUME NEW circle \in Range(f.acked)
         PROVE  /\ answer(circle).circle = circle
                /\ Range(answer(circle).statuses) = ExpectedStatuses(circle, old, p)
    BY <2>3, <2>6, AnswerTrue
  <2>15. Range(told) = {answer(circle) : circle \in Range(f.acked)}
    BY <2>13
  <2> HIDE DEF answer
  <2>16. {a.circle : a \in Range(told)} = Range(f.acked)
    BY <2>14, <2>15
  <2>17. \A a \in Range(told) : Range(a.statuses) = ExpectedStatuses(a.circle, old, p)
    BY <2>14, <2>15
  <2> QED
    BY <2>1, <2>7, <2>11, <2>12, <2>16, <2>17
<1> QED
  BY <1>1, Inductive, PTL

=============================================================================
