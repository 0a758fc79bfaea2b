------------------------------ MODULE Geofence ------------------------------
(***************************************************************************)
(* The geofences of the server: pkg/geofence, the query points kept in     *)
(* pkg/kvdb, and the HTTP handlers in front of them.                       *)
(*                                                                         *)
(* Handlers run concurrently, one request per client at a time, and share  *)
(* the map of fences without a lock.  A request is a few steps; between    *)
(* two of them other requests run.  Unsynchronised writes of the tree and  *)
(* the map of a fence are a read followed by a write, so that one of two   *)
(* concurrent updates may be lost.  The server may be killed and restarted *)
(* at any time: fences are in memory, query points in the store.           *)
(*                                                                         *)
(* A fence object is reached by reference, as its index in heap, because a *)
(* request may still use a fence that another one has deleted.             *)
(***************************************************************************)
EXTENDS Rtree

CONSTANTS Clients, FenceNames, QueryPointIDs,
          Requests,     \* Requests[c]: the requests that client c may send
          ValidNames,   \* names that match regexFenceName
          Nearby,       \* fence points looked at by a search (3 in the code)
          Unknown,      \* stands for -999
          MaxRequests, MaxFaults, MaxRestarts   \* bounds

\* A request names a fence and a query point there may be, and a position that the
\* validation lets pass: not the latitude -999.  Boxes have two axes, and NewRtreeFence
\* calls NewRtree(2, 25, 50), so that it is 50 axes that a split looks at.
ASSUME GeofenceAssumption ==
    /\ \A c \in Clients : \A req \in Requests[c] :
          /\ req.fence \in FenceNames
          /\ req.op \in {"setQueryPoint", "searchFence"} =>
                "at" \in DOMAIN req /\ req.id \in QueryPointIDs
          /\ "at" \in DOMAIN req => req.at.lat \in Int \ {Unknown} /\ req.at.lon \in Int
          /\ req.op = "addFencePoint" =>
                req.circle.lat \in Int /\ req.circle.lon \in Int /\ req.circle.radius \in Nat
    /\ Dimensions > 2 /\ Nearby \in Nat /\ Unknown \in Int
    /\ MaxRequests \in Nat /\ MaxFaults \in Nat /\ MaxRestarts \in Nat

VARIABLES fences,      \* FenceIndex.fences: name to reference, NoFence if absent
          heap,        \* the fence objects
          queryPoint,  \* the geofence bucket: ID to position
          call,        \* the request each client has under way
          reply,       \* the last answer of each client
          requests, faults, restarts

vars == <<fences, heap, queryPoint, call, reply, requests, faults, restarts>>

NoFence == 0
Nowhere == [lat |-> Unknown, lon |-> Unknown]
ZeroCircle == [key |-> "", lat |-> 0, lon |-> 0, radius |-> 0]
Idle == [at |-> "idle"]

\* NewRtreeFence.  acked, raced and broken are not in the code: the circles whose
\* addition was answered with 200, whether two additions overlapped, and whether
\* an addition panicked.
NewRtreeFence == [rtree |-> NewRtree, fenceIDMap |-> <<>>, fence |-> <<>>,
                  acked |-> <<>>, raced |-> FALSE, broken |-> FALSE]

Init ==
    /\ fences = [name \in FenceNames |-> NoFence]
    /\ heap = <<>>
    /\ queryPoint = [id \in QueryPointIDs |-> Nowhere]
    /\ call = [c \in Clients |-> Idle]
    /\ reply = [c \in Clients |-> [code |-> 0]]
    /\ requests = 0 /\ faults = 0 /\ restarts = 0

----------------------------------------------------------------------------
(* Circles *)

CircleContains(circle, p) == HaversineDistance(circle, p) <= circle.radius * circle.radius

\* sqrt(d) >= x and sqrt(d) <= x, without the root.
RootAtLeast(d, x) == x <= 0 \/ d >= x * x
RootAtMost(d, x) == x >= 0 /\ d <= x * x

\* (A mutated form: the line is not cut off at its ends.)
IsUnboundedLineCircleIntersect(circle, a, b) ==
    LET vLat == a.lat - circle.lat
        vLon == a.lon - circle.lon
        uLat == b.lat - a.lat
        uLon == b.lon - a.lon
        alpha == uLat * uLat + uLon * uLon
        beta == uLat * vLat + uLon * vLon
    IN  alpha # 0 /\ beta * beta >= alpha * (vLat * vLat + vLon * vLon - circle.radius * circle.radius)

\* The quadratic in t for the point a + t (b - a) on the circle; 0/0 is in no interval.
IsLineCircleIntersect(circle, a, b) ==
    LET vLat == a.lat - circle.lat
        vLon == a.lon - circle.lon
        uLat == b.lat - a.lat
        uLon == b.lon - a.lon
        alpha == uLat * uLat + uLon * uLon
        beta == uLat * vLat + uLon * vLon
        gamma == vLat * vLat + vLon * vLon - circle.radius * circle.radius
        discriminant == beta * beta - alpha * gamma
    IN  /\ discriminant >= 0
        /\ alpha # 0
        /\ \/ RootAtLeast(discriminant, beta) /\ RootAtMost(discriminant, alpha + beta)
           \/ RootAtMost(discriminant, -beta) /\ RootAtLeast(discriminant, -beta - alpha)

----------------------------------------------------------------------------
(* A fence *)

IdOf(ids, key) == (CHOOSE i \in DOMAIN ids : ids[i] = key) - 1

GetID(ids, key) == IF key \in Range(ids) THEN ids ELSE Append(ids, key)

ObjectOf(circle, ids) ==
    [id |-> IdOf(ids, circle.key), lat |-> circle.lat, lon |-> circle.lon, tag |-> {},
     bound |-> << <<circle.lat - circle.radius, circle.lat + circle.radius>>,
                  <<circle.lon - circle.radius, circle.lon + circle.radius>> >>]

\* (A mutated form: a known point is not deleted first.)
AddToTreeAgain(rtree, obj) == InsertLeaf(rtree, obj, FALSE)

\* What Add makes of the tree: a known point is deleted and inserted again.
AddToTree(rtree, obj) ==
    InsertLeaf(IF FindLeaf(obj, rtree.root) = <<>> THEN rtree ELSE Delete(rtree, obj), obj, FALSE)

appendNewFenceStatus(circle, oldStatus, oldPoint, currentStatus, p) ==
    CASE oldStatus = "INSIDE" /\ currentStatus = "INSIDE" -> <<"INSIDE">>
      [] oldStatus = "INSIDE" /\ currentStatus = "OUTSIDE" -> <<"EXIT", "OUTSIDE">>
      [] oldStatus = "OUTSIDE" /\ currentStatus = "INSIDE" -> <<"ENTER", "INSIDE">>
      [] OTHER -> IF IsLineCircleIntersect(circle, oldPoint, p) THEN <<"CROSS">> ELSE <<"OUTSIDE">>

\* A point whose addition panicked has an ID and no circle.
CircleOf(f, obj) ==
    LET key == f.fenceIDMap[obj.id + 1]
    IN  IF key \in DOMAIN f.fence THEN f.fence[key] ELSE ZeroCircle

Get(f, p, oldQueryPoint) ==
    LET nearbyFences == NearestNeighboursPQ(f.rtree, Nearby, p)
        old(circle) == IF oldQueryPoint.lat # Unknown /\ CircleContains(circle, oldQueryPoint)
                       THEN "INSIDE" ELSE "OUTSIDE"
        current(circle) == IF CircleContains(circle, p) THEN "INSIDE" ELSE "OUTSIDE"
        answer(circle) == [circle |-> circle,
                           statuses |-> appendNewFenceStatus(circle, old(circle), oldQueryPoint,
                                                             current(circle), p)]
    IN  [i \in DOMAIN nearbyFences |-> answer(CircleOf(f, nearbyFences[i]))]

----------------------------------------------------------------------------
(* Handlers: decode, validate, or answer 400 *)

Answer(c, code) ==
    /\ reply' = [reply EXCEPT ![c] = [code |-> code]]
    /\ call' = [call EXCEPT ![c] = Idle]

Goto(c, step) == call' = [call EXCEPT ![c].at = step]

\* "required" makes a latitude or a longitude of zero a missing one.
ValidPosition(p) == p.lat # 0 /\ p.lon # 0

Receive(c, req, valid, step) ==
    /\ call[c] = Idle
    /\ requests < MaxRequests
    /\ requests' = requests + 1
    /\ IF valid
       THEN /\ call' = [call EXCEPT ![c] = [at |-> step, req |-> req]]
            /\ reply' = [reply EXCEPT ![c] = [code |-> 0]]
       ELSE Answer(c, 400)
    /\ UNCHANGED <<fences, heap, queryPoint, faults, restarts>>

addGeofence(c, req) ==
    req.op = "addGeofence" /\ Receive(c, req, req.fence \in ValidNames, "addFence")

deleteGeofence(c, req) ==
    req.op = "deleteGeofence" /\ Receive(c, req, req.fence \in ValidNames, "deleteFence")

setQueryPoint(c, req) ==
    /\ req.op = "setQueryPoint"
    /\ Receive(c, req, req.fence \in ValidNames /\ ValidPosition(req.at), "updateFencePoint")

searchFence(c, req) ==
    /\ req.op = "searchFence"
    /\ Receive(c, req, req.fence \in ValidNames /\ ValidPosition(req.at), "search")

addFencePoint(c, req) ==
    /\ req.op = "addFencePoint"
    /\ Receive(c, req, /\ {req.fence, req.circle.key} \subseteq ValidNames
                       /\ ValidPosition(req.circle), "addFencePoint")

----------------------------------------------------------------------------
(* FenceIndex *)

Step(c, at) == call[c].at = at

\* The map is read here and written in AddFence2: another request may add the
\* same fence in between.
AddFence1(c) ==
    /\ Step(c, "addFence")
    /\ IF fences[call[c].req.fence] # NoFence
       THEN Answer(c, 400)
       ELSE Goto(c, "addFence2") /\ UNCHANGED reply
    /\ UNCHANGED <<fences, heap, queryPoint, requests, faults, restarts>>

\* (A mutated form: the name is registered before there is an object.)
AddFence2Early(c) ==
    /\ Step(c, "addFence2")
    /\ fences' = [fences EXCEPT ![call[c].req.fence] = Len(heap) + 1]
    /\ Goto(c, "addFence3")
    /\ UNCHANGED <<heap, queryPoint, reply, requests, faults, restarts>>

AddFence2(c) ==
    /\ Step(c, "addFence2")
    /\ heap' = Append(heap, NewRtreeFence)
    /\ fences' = [fences EXCEPT ![call[c].req.fence] = Len(heap) + 1]
    /\ Answer(c, 200)
    /\ UNCHANGED <<queryPoint, requests, faults, restarts>>

DeleteFence(c) ==
    /\ Step(c, "deleteFence")
    /\ fences' = [fences EXCEPT ![call[c].req.fence] = NoFence]
    /\ Answer(c, 200)
    /\ UNCHANGED <<heap, queryPoint, requests, faults, restarts>>

PutQueryPoint(id, p) == queryPoint' = [queryPoint EXCEPT ![id] = p]

\* A transaction of the store that fails is answered with 500.
PutFails(c) ==
    /\ Step(c, "updateFencePoint2") \/ Step(c, "search3")
    /\ faults < MaxFaults
    /\ faults' = faults + 1
    /\ Answer(c, 500)
    /\ UNCHANGED <<fences, heap, queryPoint, requests, restarts>>

UpdateFencePoint1(c) ==
    /\ Step(c, "updateFencePoint")
    /\ IF fences[call[c].req.fence] = NoFence
       THEN Answer(c, 400)
       ELSE Goto(c, "updateFencePoint2") /\ UNCHANGED reply
    /\ UNCHANGED <<fences, heap, queryPoint, requests, faults, restarts>>

UpdateFencePoint2(c) ==
    /\ Step(c, "updateFencePoint2")
    /\ PutQueryPoint(call[c].req.id, call[c].req.at)
    /\ Answer(c, 200)
    /\ UNCHANGED <<fences, heap, requests, faults, restarts>>

\* A search keeps the fence it found, whatever happens to the map.
Search1(c) ==
    /\ Step(c, "search")
    /\ LET ref == fences[call[c].req.fence]
       IN  IF ref = NoFence THEN Answer(c, 400)
           ELSE /\ call' = [call EXCEPT ![c] = [at |-> "search2", req |-> @.req, ref |-> ref]]
                /\ UNCHANGED reply
    /\ UNCHANGED <<fences, heap, queryPoint, requests, faults, restarts>>

Search2(c) ==
    /\ Step(c, "search2")
    /\ call' = [call EXCEPT ![c] = [at |-> "search3", req |-> @.req, ref |-> @.ref,
                                    old |-> queryPoint[@.req.id]]]
    /\ UNCHANGED <<fences, heap, queryPoint, reply, requests, faults, restarts>>

Search3(c) ==
    /\ Step(c, "search3")
    /\ PutQueryPoint(call[c].req.id, call[c].req.at)
    /\ Goto(c, "search4")
    /\ UNCHANGED <<fences, heap, reply, requests, faults, restarts>>

Search4(c) ==
    /\ Step(c, "search4")
    /\ reply' = [reply EXCEPT ![c] =
            [code |-> 200, req |-> call[c].req, old |-> call[c].old,
             fences |-> Get(heap[call[c].ref], call[c].req.at, call[c].old)]]
    /\ call' = [call EXCEPT ![c] = Idle]
    /\ UNCHANGED <<fences, heap, queryPoint, requests, faults, restarts>>

AddFencePoint1(c) ==
    /\ Step(c, "addFencePoint")
    /\ IF fences[call[c].req.fence] = NoFence
       THEN Answer(c, 400)
       ELSE Goto(c, "addFencePoint2") /\ UNCHANGED reply
    /\ UNCHANGED <<fences, heap, queryPoint, requests, faults, restarts>>

\* Calls that are inside Add of a fence object.
Adding(ref) == {c \in Clients : call[c].at \in {"add", "add2"} /\ call[c].ref = ref}

\* The map is read again: a fence deleted meanwhile is a nil interface, and calling
\* it panics.  Then Add begins: the ID of the point, and the tree it starts from.
AddFencePoint2(c) ==
    LET ref == fences[call[c].req.fence]
    IN  /\ Step(c, "addFencePoint2")
        /\ IF ref = NoFence
           THEN Answer(c, 500) /\ UNCHANGED heap
           ELSE /\ heap' = [heap EXCEPT ![ref].fenceIDMap = GetID(@, call[c].req.circle.key),
                                        ![ref].raced = @ \/ Adding(ref) # {}]
                /\ call' = [call EXCEPT ![c] = [at |-> "add", req |-> @.req, ref |-> ref,
                                                rtree |-> heap[ref].rtree]]
                /\ UNCHANGED reply
        /\ UNCHANGED <<fences, queryPoint, requests, faults, restarts>>

\* recoverPanic answers 500; what the panic left in the tree stays.
Add1(c) ==
    LET ref == call[c].ref
        after == AddToTree(call[c].rtree, ObjectOf(call[c].req.circle, heap[ref].fenceIDMap))
    IN  /\ Step(c, "add")
        /\ heap' = [heap EXCEPT ![ref].rtree = [after EXCEPT !.panicked = "no"],
                                ![ref].broken = @ \/ after.panicked # "no"]
        /\ IF after.panicked # "no"
           THEN Answer(c, 500)
           ELSE /\ call' = [call EXCEPT ![c] = [at |-> "add2", req |-> @.req, ref |-> ref]]
                /\ UNCHANGED reply
        /\ UNCHANGED <<fences, queryPoint, requests, faults, restarts>>

Add2(c) ==
    LET with(circles, circle) == [key \in DOMAIN circles \cup {circle.key} |->
                                      IF key = circle.key THEN circle ELSE circles[key]]
    IN  /\ Step(c, "add2")
        /\ heap' = [heap EXCEPT ![call[c].ref].fence = with(@, call[c].req.circle),
                                ![call[c].ref].acked = with(@, call[c].req.circle)]
        /\ Answer(c, 200)
        /\ UNCHANGED <<fences, queryPoint, requests, faults, restarts>>

\* The process ends, or is killed by the Go runtime for concurrent map writes, and
\* is started again.
Restart ==
    /\ restarts < MaxRestarts
    /\ restarts' = restarts + 1
    /\ fences' = [name \in FenceNames |-> NoFence]
    /\ heap' = <<>>
    /\ call' = [c \in Clients |-> Idle]
    /\ reply' = [c \in Clients |-> [code |-> 0]]
    /\ UNCHANGED <<queryPoint, requests, faults>>

Handle(c) ==
    \/ AddFence1(c) \/ AddFence2(c) \/ DeleteFence(c)
    \/ UpdateFencePoint1(c) \/ UpdateFencePoint2(c)
    \/ Search1(c) \/ Search2(c) \/ Search3(c) \/ Search4(c)
    \/ AddFencePoint1(c) \/ AddFencePoint2(c) \/ Add1(c) \/ Add2(c)

Next ==
    \/ \E c \in Clients : \E req \in Requests[c] :
        \/ addGeofence(c, req) \/ deleteGeofence(c, req)
        \/ setQueryPoint(c, req) \/ searchFence(c, req) \/ addFencePoint(c, req)
    \/ \E c \in Clients : Handle(c) \/ PutFails(c)
    \/ Restart

Spec == Init /\ [][Next]_vars

----------------------------------------------------------------------------
(* Properties *)

AllRequests == UNION {Requests[c] : c \in Clients}
Positions == {Nowhere} \cup {req.at : req \in {r \in AllRequests : "at" \in DOMAIN r}}

\* Every recorded position, circle and reference is one the requests can have made.
TypeOK ==
    /\ fences \in [FenceNames -> {NoFence} \cup DOMAIN heap]
    /\ queryPoint \in [QueryPointIDs -> Positions]
    /\ \A c \in Clients : /\ "req" \in DOMAIN call[c] => call[c].req \in Requests[c]
                          /\ "ref" \in DOMAIN call[c] => call[c].ref \in DOMAIN heap
                          /\ reply[c].code \in {0, 200, 400, 500}
    /\ \A ref \in DOMAIN heap :
          /\ DOMAIN heap[ref].fence \subseteq Range(heap[ref].fenceIDMap)
          /\ \A obj \in Range(Objects(heap[ref].rtree.root)) :
                obj.id < Len(heap[ref].fenceIDMap)
    /\ requests \in 0..MaxRequests /\ faults \in 0..MaxFaults /\ restarts \in 0..MaxRestarts

\* The fences whose points nothing has spoiled and nobody is changing.
Settled == {ref \in DOMAIN heap : ~heap[ref].raced /\ ~heap[ref].broken /\ Adding(ref) = {}}

\* A fence point whose addition was answered with 200 stays in its fence, as it was
\* last added: in the map, and exactly once in the tree, at the centre of its circle.
\* Moving a point (delete and insert) and adding others must not lose it, as long as
\* no two additions overlapped and none panicked (Add, AddFencePoint).
AckedPointsKept ==
    \A ref \in Settled :
        LET f == heap[ref]
            objs == Objects(f.rtree.root)
        IN  /\ f.fence = f.acked
            /\ Len(objs) = Cardinality(DOMAIN f.acked)
            /\ Range(objs) = {ObjectOf(circle, f.fenceIDMap) : circle \in Range(f.acked)}
            /\ f.rtree.root.isLeaf

\* The segment from a to b comes within the radius of the centre: by the distance
\* of the centre from the segment, not by the quadratic the code solves.
Passes(circle, a, b) ==
    LET dot(p, q, r) == (q.lat - p.lat) * (r.lat - p.lat) + (q.lon - p.lon) * (r.lon - p.lon)
        along == dot(a, b, circle)
        length == dot(a, b, b)
    IN  /\ 0 < along /\ along < length
        /\ dot(a, circle, circle) * length - along * along <= circle.radius * circle.radius * length

ExpectedStatuses(circle, old, p) ==
    LET was == CircleContains(circle, old)
        is == CircleContains(circle, p)
    IN  UNION {IF is THEN {"INSIDE"} ELSE {},
               IF is /\ ~was THEN {"ENTER"} ELSE {},
               IF was /\ ~is THEN {"EXIT", "OUTSIDE"} ELSE {},
               IF ~was /\ ~is THEN {IF Passes(circle, old, p) THEN "CROSS" ELSE "OUTSIDE"} ELSE {}}

\* A search of a fence with few points tells about each of them, once, what the move
\* from the old position to the new one means: entered, left, crossed.  With more
\* points the others are silent, and the first position of a query point is compared
\* with a line from Unknown (Get, IsLineCircleIntersect, NearestNeighboursPQ).
SearchTellsAll ==
    \A ref \in Settled :
        Cardinality(DOMAIN heap[ref].acked) <= Nearby =>
            \A old, p \in Positions \ {Nowhere} :
                LET told == Get(heap[ref], p, old)
                IN  /\ Len(told) = Cardinality(DOMAIN heap[ref].acked)
                    /\ {answer.circle : answer \in Range(told)} = Range(heap[ref].acked)
                    /\ \A answer \in Range(told) :
                          Range(answer.statuses) = ExpectedStatuses(answer.circle, old, p)

\* The addition of a circle finds the point in the tree it starts from.
MovesPoint(c) ==
    FindLeaf(ObjectOf(call[c].req.circle, heap[call[c].ref].fenceIDMap), call[c].rtree.root) # <<>>

\* A request is answered with 500 only when the store failed, when the fence was
\* deleted under an addition, or at the limits of the fence's tree: a point more than
\* a node holds, or a point moved where there were exactly two, or after either.
ServerErrorsExplained ==
    [][\A c \in Clients :
        reply'[c].code = 500 /\ reply[c].code # 500 =>
            \/ faults' > faults
            \/ fences[call[c].req.fence] = NoFence
            \/ Step(c, "add") /\ LET n == Len(Objects(call[c].rtree.root))
                              IN \/ n >= MaxChildItems
                                 \/ n = 2 /\ MovesPoint(c)
                                 \/ heap[call[c].ref].broken]_vars

=============================================================================
