------------------------------ MODULE IndexBuild ------------------------------
(***************************************************************************)
(* What the construction of the index promises its caller, whatever the    *)
(* goroutines, blocks and merges behind it: documents are accepted one by  *)
(* one under consecutive IDs; the build ends once, either with an error or *)
(* with an index in which exactly the accepted documents are listed and    *)
(* each of them is found by all its words.  After the caller has given up, *)
(* or a write was lost, a successful end promises the list alone.          *)
(*                                                                         *)
(* Stands for the doc comment and the results of SpimiBatchIndex           *)
(* (pkg/index/indexer.go).                                                 *)
(***************************************************************************)
EXTENDS Integers, FiniteSets

CONSTANTS
  Objects,   \* what may be indexed
  Whole      \* whether a batch of documents is never split over several blocks

VARIABLES
  status,      \* "building", "done" or "failed"
  accepted,    \* the documents that have an ID
  listed,      \* the documents the caller is handed
  findable,    \* the documents the index finds by all their words
  impaired     \* whether the caller has given up or a write was lost

vars == <<status, accepted, listed, findable, impaired>>

Init ==
  /\ status = "building"
  /\ accepted = {}
  /\ listed = {}
  /\ findable = {}
  /\ impaired = FALSE

\* A document is accepted.  Work begun before an error may outlive it.
Accept(o) ==
  /\ status # "done"
  /\ accepted' = accepted \cup {[id |-> Cardinality(accepted), obj |-> o]}
  /\ UNCHANGED <<status, listed, findable, impaired>>

\* The build succeeds; its last write may be a lost one.
Publish ==
  /\ status = "building"
  /\ status' = "done"
  /\ listed' = accepted
  /\ findable' \in SUBSET accepted
  /\ impaired' \in {impaired, TRUE}
  /\ Whole /\ ~impaired' => findable' = accepted
  /\ UNCHANGED accepted

Fail ==
  /\ status = "building"
  /\ status' = "failed"
  /\ UNCHANGED <<accepted, listed, findable, impaired>>

Impair ==
  /\ ~impaired
  /\ impaired' = TRUE
  /\ UNCHANGED <<status, accepted, listed, findable>>

Next == (\E o \in Objects : Accept(o)) \/ Publish \/ Fail \/ Impair

Spec == Init /\ [][Next]_vars
==============================================================================
