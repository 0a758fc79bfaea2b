--------------------------- MODULE SpimiBatchIndex ---------------------------
(***************************************************************************)
(* DynamicIndex.SpimiBatchIndex of pkg/index/indexer.go: the concurrent    *)
(* construction of the inverted indexes.                                   *)
(*                                                                         *)
(* The OSM ways and the OSM nodes are cut into batches of BatchSize.  One  *)
(* goroutine (a "worker") walks each batch: it drops unnamed objects and   *)
(* duplicates, gives every other object the next document ID and, once     *)
(* the batch is read, starts one SpimiInvert goroutine per field, waits    *)
(* for both, saves the documents in the key-value store and appends them   *)
(* to the list of all documents.  A collector per side waits for its       *)
(* workers and reports to the main goroutine, which merges the block       *)
(* files of each field once both sides have succeeded.                     *)
(*                                                                         *)
(* A critical section of batchingLock is one action.  What runs outside    *)
(* the lock and touches only the goroutine's own variables is part of the  *)
(* action before or after it.                                              *)
(***************************************************************************)
EXTENDS BoundingBox, FiniteSets

CONSTANTS
  Objects,      \* the OSM objects of the input
  Ways, Nodes,  \* IndexedData.Ways and IndexedData.Nodes: sequences of objects
  Names,        \* the lower-cased names
  NoName,       \* the name of an object the indexer drops: unnamed, or a chalet
  NameOf,       \* object -> its name
  LatsOf,       \* object -> the sorted latitudes of its positions
  LonsOf,       \* object -> the sorted longitudes of its positions
  WordsOf,      \* object -> field -> how many words Tokenize makes of the field
  BatchSize,    \* BATCH_SIZE
  MaxPosting,   \* maxDynamicPostingListSize
  MaxFaults,    \* bound: how many I/O operations may fail
  Cancellable   \* whether the caller may cancel the context

Fields == {"name", "address"}
Sides == {"ways", "nodes"}
Input(side) == IF side = "ways" THEN Ways ELSE Nodes
DocIDs == 0 .. Len(Ways) + Len(Nodes) - 1
Documents == [id : Nat, obj : Objects]
IndexIDs == [field : Fields, block : Nat]
Tokens == Nat \X Nat    \* <<d, k>>: the k-th word of document d
BlockFiles == [id : IndexIDs, tokens : SUBSET Tokens, lens : [DocIDs -> Nat]]

\* An object is one element of the ways or nodes of IndexedData: a way is no node
\* and occurs once.
ASSUME InputAssumption ==
  /\ Ways \in Seq(Objects)
  /\ Nodes \in Seq(Objects)
  /\ IsInjective(Ways)
  /\ Range(Ways) \cap Range(Nodes) = {}
  /\ NoName \notin Names
  /\ NameOf \in [Objects -> Names \cup {NoName}]
  /\ LatsOf \in [Objects -> Seq(Int) \ {<<>>}]
  /\ LonsOf \in [Objects -> Seq(Int) \ {<<>>}]
  /\ WordsOf \in [Objects -> [Fields -> Nat]]

ASSUME BoundAssumption ==
  /\ BatchSize \in Nat \ {0}
  /\ MaxPosting \in Nat \ {0}
  /\ MaxFaults \in Nat
  /\ Cancellable \in BOOLEAN

(***************************************************************************)
(* A worker is the goroutine of one batch, named by its side and by the    *)
(* offset at which its batch starts.                                       *)
(***************************************************************************)
Workers == UNION {{side} \X {s \in 0 .. Len(Input(side)) - 1 : s % BatchSize = 0}
                    : side \in Sides}

\* The slice [start : min(start + BATCH_SIZE, len)] of the input.
Batch(w) ==
  SubSeq(Input(w[1]), w[2] + 1,
         IF w[2] + BatchSize > Len(Input(w[1])) THEN Len(Input(w[1])) ELSE w[2] + BatchSize)

\* The SpimiInvert goroutines: one per worker and field.
Calls == Workers \X Fields

BoxOf(o) == NewBoundingBox(LatsOf[o], LonsOf[o])
Boxes == {BoxOf(o) : o \in Objects}

VARIABLES
  nodeIDX,              \* the next document ID
  block,                \* the next block number
  nodeBoundingBox,      \* name -> the boxes registered for it: {} or one box
  osmData,              \* the R-tree items, in the order of their insertion
  intermediateIndices,  \* the IDs of the block files to merge; Merge sorts, so a set
  docWordCount,         \* document ID -> number of words of both fields
  allSearchNodes,       \* the documents returned to the caller
  docStore,             \* the documents in the key-value store
  blockFiles,           \* the complete block files on disk
  pc, pos, searchNodes, \* of a worker: control, next object, accepted documents
  ipc, parsed, left, blockOf, failed,  \* of a SpimiInvert call
  collector,            \* side -> result of its collector: "collect", "nil", "err"
  errChan,              \* the buffered channel from the collectors to main
  mainPc,               \* control of SpimiBatchIndex itself
  docsCount,            \* Idx.docsCount
  merged,               \* field -> the block files merged into its index
  cancelled,            \* whether the context is done
  faults,               \* how many I/O operations have failed
  dropped               \* how many of them left an error that nobody looks at

shared     == <<nodeIDX, block, nodeBoundingBox, osmData, intermediateIndices, docWordCount>>
stores     == <<allSearchNodes, docStore, blockFiles>>
workerVars == <<pc, pos, searchNodes>>
invertVars == <<ipc, parsed, left, blockOf, failed>>
mainVars   == <<collector, errChan, mainPc, docsCount, merged>>
envVars    == <<cancelled, faults, dropped>>
vars == <<shared, stores, workerVars, invertVars, mainVars, envVars>>

Init ==
  /\ nodeIDX = 0
  /\ block = 0
  /\ nodeBoundingBox = [n \in Names |-> {}]
  /\ osmData = <<>>
  /\ intermediateIndices = {}
  /\ docWordCount = [d \in DocIDs |-> 0]
  /\ allSearchNodes = <<>>
  /\ docStore = {}
  /\ blockFiles = {}
  /\ pc = [w \in Workers |-> "next"]
  /\ pos = [w \in Workers |-> 1]
  /\ searchNodes = [w \in Workers |-> <<>>]
  /\ ipc = [c \in Calls |-> "idle"]
  /\ parsed = [c \in Calls |-> 0]
  /\ left = [c \in Calls |-> 0]
  /\ blockOf = [c \in Calls |-> 0]
  /\ failed = [c \in Calls |-> FALSE]
  /\ collector = [s \in Sides |-> "collect"]
  /\ errChan = <<>>
  /\ mainPc = "collect"
  /\ docsCount = 0
  /\ merged = [f \in Fields |-> {}]
  /\ cancelled = FALSE
  /\ faults = 0
  /\ dropped = 0

\* An I/O operation fails: at most MaxFaults times in a behaviour.
Fault ==
  /\ faults < MaxFaults
  /\ faults' = faults + 1
  /\ UNCHANGED <<cancelled, dropped>>

\* One fails whose error the code does not look at.
DroppedFault ==
  /\ faults < MaxFaults
  /\ faults' = faults + 1
  /\ dropped' = dropped + 1
  /\ UNCHANGED cancelled

\* The caller cancels the context it passed.
Cancel ==
  /\ Cancellable
  /\ ~cancelled
  /\ cancelled' = TRUE
  /\ UNCHANGED <<shared, stores, workerVars, invertVars, mainVars, faults, dropped>>


------------------------------------------------------------------------------
(***************************************************************************)
(* The workers: processOSMWaysBatch and processOSMNodesBatch.              *)
(***************************************************************************)
Current(w) == Batch(w)[pos[w]]
MoreObjects(w) == pc[w] = "next" /\ pos[w] <= Len(Batch(w))

\* The boxes registered for the object's name.
PreviousBoxes(o) == nodeBoundingBox[NameOf[o]]

\* (Mutated forms: the name is enough; so is one position in the box.)
NamedAsPrevious(o) == PreviousBoxes(o) # {}

TouchesPrevious(o) ==
  \E bb \in PreviousBoxes(o) : \E i \in DOMAIN LatsOf[o] : BoxContains(bb, LatsOf[o][i], LonsOf[o][i])

\* prevBB.PointsContains(lats, lons): the previous box holds the object.
InPrevious(o) ==
  \E bb \in PreviousBoxes(o) : PointsContains(bb, LatsOf[o], LonsOf[o])

\* currWayBB.PointsContains(prevBB.GetMin(), prevBB.GetMax()): the corners of
\* the previous box are handed over as if they were latitudes and longitudes.
AroundPrevious(o) ==
  \E bb \in PreviousBoxes(o) : PointsContains(BoxOf(o), bb.min, bb.max)

\* The context is done when the worker takes its next object.
WorkerCancelled(w) ==
  /\ MoreObjects(w)
  /\ cancelled
  /\ pc' = [pc EXCEPT ![w] = "error"]
  /\ UNCHANGED <<pos, searchNodes, shared, stores, invertVars, mainVars, envVars>>

\* An unnamed object is passed over.
SkipUnnamed(w) ==
  /\ MoreObjects(w)
  /\ ~cancelled
  /\ NameOf[Current(w)] = NoName
  /\ pos' = [pos EXCEPT ![w] = @ + 1]
  /\ UNCHANGED <<pc, searchNodes, shared, stores, invertVars, mainVars, envVars>>

\* IsWayDuplicateCheck: one critical section, left before the caller acts on
\* its result.  A box that does not hold the way is replaced by the way's own.
CheckWay(w) ==
  LET o == Current(w) IN
  /\ MoreObjects(w)
  /\ ~cancelled
  /\ w[1] = "ways"
  /\ NameOf[o] # NoName
  /\ nodeBoundingBox' =
       IF PreviousBoxes(o) = {} \/ InPrevious(o)
         THEN nodeBoundingBox
         ELSE [nodeBoundingBox EXCEPT ![NameOf[o]] = {BoxOf(o)}]
  /\ IF InPrevious(o) \/ AroundPrevious(o)
       THEN pos' = [pos EXCEPT ![w] = @ + 1] /\ UNCHANGED pc
       ELSE pc' = [pc EXCEPT ![w] = "add"] /\ UNCHANGED pos
  /\ UNCHANGED <<nodeIDX, block, osmData, intermediateIndices, docWordCount,
                 searchNodes, stores, invertVars, mainVars, envVars>>

\* IsNodeDuplicateCheck.
CheckNode(w) ==
  LET o == Current(w) IN
  /\ MoreObjects(w)
  /\ ~cancelled
  /\ w[1] = "nodes"
  /\ NameOf[o] # NoName
  /\ IF InPrevious(o)
       THEN pos' = [pos EXCEPT ![w] = @ + 1] /\ UNCHANGED pc
       ELSE pc' = [pc EXCEPT ![w] = "add"] /\ UNCHANGED pos
  /\ UNCHANGED <<searchNodes, shared, stores, invertVars, mainVars, envVars>>

\* (A mutated form: the update of the counter is lost.)
DocIDAgain == nodeIDX

\* The counter after one more document.
NextDocID == nodeIDX + 1

\* The second critical section of an object: it becomes document nodeIDX.
\* Only a way registers its box.
AddDocument(w) ==
  LET o == Current(w)
      doc == [id |-> nodeIDX, obj |-> o]
  IN
  /\ pc[w] = "add"
  /\ nodeBoundingBox' =
       IF w[1] = "ways" THEN [nodeBoundingBox EXCEPT ![NameOf[o]] = {BoxOf(o)}]
                        ELSE nodeBoundingBox
  /\ searchNodes' = [searchNodes EXCEPT ![w] = Append(@, doc)]
  /\ osmData' = Append(osmData, doc)
  /\ nodeIDX' = NextDocID
  /\ pos' = [pos EXCEPT ![w] = @ + 1]
  /\ pc' = [pc EXCEPT ![w] = IF Len(searchNodes'[w]) = BatchSize THEN "invert" ELSE "next"]
  /\ UNCHANGED <<block, intermediateIndices, docWordCount, stores, invertVars, mainVars, envVars>>

BatchRead(w) == pc[w] = "next" /\ pos[w] > Len(Batch(w))

\* (A mutated form: only full lists of documents are inverted.)
NothingLeftOver(w) == FALSE

LeftOver(w) == searchNodes[w] # <<>>

\* The accepted documents are inverted by two new goroutines: as soon as there
\* are BATCH_SIZE of them, or when the batch is read.
StartInvert(w) ==
  /\ \/ pc[w] = "invert"
     \/ BatchRead(w) /\ LeftOver(w)
  /\ pc' = [pc EXCEPT ![w] = "wait"]
  /\ ipc' = [c \in Calls |-> IF c[1] = w THEN "parse" ELSE ipc[c]]
  /\ parsed' = [c \in Calls |-> IF c[1] = w THEN 0 ELSE parsed[c]]
  /\ left' = [c \in Calls |-> IF c[1] = w THEN 0 ELSE left[c]]
  /\ UNCHANGED <<pos, searchNodes, blockOf, failed, shared, stores, mainVars, envVars>>

\* The batch is read and nothing is left to invert: wg.Done().
FinishBatch(w) ==
  /\ BatchRead(w)
  /\ ~LeftOver(w)
  /\ pc' = [pc EXCEPT ![w] = "done"]
  /\ UNCHANGED <<pos, searchNodes, shared, stores, invertVars, mainVars, envVars>>

\* (Mutated forms: the result of the call is not looked at; the documents are
\* not saved.)
AfterInvertUnchecked(w, f) ==
  IF \A g \in Fields \ {f} : ipc[<<w, g>>] = "sent" THEN "save" ELSE "wait"

AfterInvertUnsaved(w, f) ==
  CASE failed[<<w, f>>] -> "error"
    [] ~failed[<<w, f>>] /\ (\A g \in Fields \ {f} : ipc[<<w, g>>] = "sent") -> "append"
    [] OTHER -> "wait"

\* What follows the result for field f: an error ends the worker, the second
\* success lets it save its documents.
AfterInvert(w, f) ==
  CASE failed[<<w, f>>] -> "error"
    [] ~failed[<<w, f>>] /\ (\A g \in Fields \ {f} : ipc[<<w, g>>] = "sent") -> "save"
    [] OTHER -> "wait"

\* The worker receives the result of one of its SpimiInvert goroutines over
\* their unbuffered channel.  After an error it does not receive the other.
ReceiveInvert(w, f) ==
  /\ pc[w] = "wait"
  /\ ipc[<<w, f>>] = "send"
  /\ ipc' = [ipc EXCEPT ![<<w, f>>] = "sent"]
  /\ pc' = [pc EXCEPT ![w] = AfterInvert(w, f)]
  /\ UNCHANGED <<pos, searchNodes, parsed, left, blockOf, failed, shared, stores, mainVars, envVars>>

\* KVDB.SaveDocs: one transaction that puts every document under its ID.
SaveDocs(w) ==
  LET docs == Range(searchNodes[w]) IN
  /\ pc[w] = "save"
  /\ \/ /\ docStore' = {d \in docStore : \A e \in docs : d.id # e.id} \cup docs
        /\ pc' = [pc EXCEPT ![w] = "append"]
        /\ UNCHANGED envVars
     \/ /\ Fault
        /\ pc' = [pc EXCEPT ![w] = "error"]
        /\ UNCHANGED docStore
  /\ UNCHANGED <<pos, searchNodes, allSearchNodes, blockFiles, shared, invertVars, mainVars>>

\* (A mutated form: an append outside the lock loses those of another worker.)
OnlySaved(w) == searchNodes[w]

ListedWithSaved(w) == allSearchNodes \o searchNodes[w]

\* The saved documents join the result, and the worker starts a new list.
AppendNodes(w) ==
  /\ pc[w] = "append"
  /\ allSearchNodes' = ListedWithSaved(w)
  /\ searchNodes' = [searchNodes EXCEPT ![w] = <<>>]
  /\ pc' = [pc EXCEPT ![w] = "next"]
  /\ UNCHANGED <<pos, docStore, blockFiles, shared, invertVars, mainVars, envVars>>

------------------------------------------------------------------------------
(***************************************************************************)
(* SpimiInvert, call c = <<worker, field>>.                                *)
(***************************************************************************)
InputOf(c) == searchNodes[c[1]]
WordsIn(doc, f) == WordsOf[doc.obj][f]

\* (A mutated form: the count of the other field is overwritten.)
OverwriteCount(count, words) == words

WordCount(count, words) == count + words

\* SpimiParseOSMNode for the next document; the last one ends the parsing.
ParseNode(c) ==
  LET doc == InputOf(c)[parsed[c] + 1]
      words == WordsIn(doc, c[2])
  IN
  /\ ipc[c] = "parse"
  /\ ~cancelled
  /\ docWordCount' = [docWordCount EXCEPT ![doc.id] = WordCount(@, words)]
  /\ left' = [left EXCEPT ![c] = @ + words]
  /\ parsed' = [parsed EXCEPT ![c] = @ + 1]
  /\ ipc' = [ipc EXCEPT ![c] = IF parsed[c] + 1 = Len(InputOf(c)) THEN "stream" ELSE "parse"]
  /\ UNCHANGED <<blockOf, failed, nodeIDX, block, nodeBoundingBox, osmData,
                 intermediateIndices, stores, workerVars, mainVars, envVars>>

\* SpimiParseOSMNodes looks at ctx before every document and returns, without
\* an error, the tokens it has.
ParseCancelled(c) ==
  /\ ipc[c] = "parse"
  /\ cancelled
  /\ ipc' = [ipc EXCEPT ![c] = "stream"]
  /\ UNCHANGED <<parsed, left, blockOf, failed, shared, stores, workerVars, mainVars, envVars>>

\* The loop over the token stream looks at ctx before every token.
StreamCancelled(c) ==
  /\ ipc[c] = "stream"
  /\ left[c] > 0
  /\ cancelled
  /\ failed' = [failed EXCEPT ![c] = TRUE]
  /\ ipc' = [ipc EXCEPT ![c] = "send"]
  /\ UNCHANGED <<parsed, left, blockOf, shared, stores, workerVars, mainVars, envVars>>

\* (Mutated forms: the update of the block number is lost; a block is charged
\* in full even when it is the last.)
BlockAgain == block
LeftCharged(n) == n - MaxPosting

NextBlock == block + 1
LeftAfterBlock(n) == IF n >= MaxPosting THEN n - MaxPosting ELSE 0

\* maxDynamicPostingListSize tokens, or all that are left, fill the posting
\* map; the call then takes a block number under the lock.
TakeBlock(c) ==
  /\ ipc[c] = "stream"
  /\ left[c] > 0 => ~cancelled
  /\ blockOf' = [blockOf EXCEPT ![c] = block]
  /\ block' = NextBlock
  /\ ipc' = [ipc EXCEPT ![c] = IF left[c] >= MaxPosting THEN "flush" ELSE "finalFlush"]
  /\ left' = [left EXCEPT ![c] = LeftAfterBlock(@)]
  /\ UNCHANGED <<parsed, failed, nodeIDX, nodeBoundingBox, osmData, intermediateIndices,
                 docWordCount, stores, workerVars, mainVars, envVars>>

IndexID(c) == [field |-> c[2], block |-> blockOf[c]]

\* OpenWriter, then the block file is registered for the merge.
RegisterBlock(c) ==
  /\ ipc[c] \in {"flush", "finalFlush"}
  /\ \/ /\ intermediateIndices' = intermediateIndices \cup {IndexID(c)}
        /\ ipc' = [ipc EXCEPT ![c] = IF @ = "flush" THEN "write" ELSE "finalWrite"]
        /\ UNCHANGED <<failed, envVars>>
     \/ /\ Fault
        /\ failed' = [failed EXCEPT ![c] = TRUE]
        /\ ipc' = [ipc EXCEPT ![c] = "send"]
        /\ UNCHANGED intermediateIndices
  /\ UNCHANGED <<nodeIDX, block, nodeBoundingBox, osmData, docWordCount, parsed, left, blockOf,
                 stores, workerVars, mainVars>>

\* lenDF: the field length of every document parsed so far, shared by all the
\* blocks of the call; 0 stands for "no entry".
LenFieldInDoc(c) ==
  [d \in DocIDs |->
     IF \E i \in 1 .. parsed[c] : InputOf(c)[i].id = d
       THEN WordsIn(CHOOSE doc \in Range(InputOf(c)) : doc.id = d, c[2])
       ELSE 0]

\* How many words the documents before the i-th have, and all parsed ones.
WordsBefore(c, i) == SumFunction([j \in 1 .. i - 1 |-> WordsIn(InputOf(c)[j], c[2])])
StreamLength(c) == WordsBefore(c, parsed[c] + 1)

\* Whether the k-th word of the i-th document is in the posting map: the map
\* holds MaxPosting tokens, or the last ones.
InSegment(c, i, k) ==
  LET last == StreamLength(c) - left[c]
      size == IF ipc[c] = "write" THEN MaxPosting ELSE last % MaxPosting
  IN WordsBefore(c, i) + k \in last - size + 1 .. last

Segment(c) ==
  UNION {{<<InputOf(c)[i].id, k>> : k \in {n \in 1 .. WordsIn(InputOf(c)[i], c[2]) : InSegment(c, i, n)}}
           : i \in 1 .. parsed[c]}

\* The postings a block gets.  The last one gets its whole segment.  The loop
\* of an earlier one runs over the indices of its sorted terms instead of the
\* terms: which tokens that keeps depends on the term IDs, here on chance.
Kept(c) == IF ipc[c] = "write" THEN SUBSET Segment(c) ELSE {Segment(c)}

\* A posting list that could not be appended is passed over.
KeptOfFailed(c) == SUBSET Segment(c) \ {Segment(c)}

BlockWith(c, tokens) == [id |-> IndexID(c), tokens |-> tokens, lens |-> LenFieldInDoc(c)]

\* The postings and the metadata are written and the file is closed.  An error
\* of the last Close is the call's; that of an earlier Close is dropped, and so
\* is every error of AppendPostingList.
WriteBlock(c) ==
  LET Write(tokens) ==
        blockFiles' = {b \in blockFiles : b.id # IndexID(c)} \cup {BlockWith(c, tokens)}
  IN
  /\ ipc[c] \in {"write", "finalWrite"}
  /\ \/ /\ \E tokens \in Kept(c) : Write(tokens)
        /\ UNCHANGED <<failed, envVars>>
     \/ /\ \E tokens \in KeptOfFailed(c) : Write(tokens)
        /\ DroppedFault
        /\ UNCHANGED failed
     \/ /\ Fault
        /\ failed' = [failed EXCEPT ![c] = (ipc[c] = "finalWrite")]
        /\ UNCHANGED blockFiles
  /\ ipc' = [ipc EXCEPT ![c] = IF @ = "write" THEN "stream" ELSE "send"]
  /\ UNCHANGED <<parsed, left, blockOf, shared, allSearchNodes, docStore, workerVars, mainVars>>

------------------------------------------------------------------------------
(***************************************************************************)
(* The collectors (batchingOSMWays, batchingOSMNodes) and SpimiBatchIndex. *)
(***************************************************************************)
BatchesOf(side) == {w \in Workers : w[1] = side}

\* The collector receives an error over the unbuffered result channel, reports
\* it and returns; the worker returns too.
CollectError(w) ==
  /\ pc[w] = "error"
  /\ collector[w[1]] = "collect"
  /\ pc' = [pc EXCEPT ![w] = "failed"]
  /\ collector' = [collector EXCEPT ![w[1]] = "err"]
  /\ errChan' = Append(errChan, "err")
  /\ UNCHANGED <<pos, searchNodes, mainPc, docsCount, merged, shared, stores, invertVars, envVars>>

\* (Mutated forms: the first batch to return ends the wait; a worker that
\* succeeds does not say that it is done.)
OneReturned(side) ==
  BatchesOf(side) = {} \/ \E w \in BatchesOf(side) : pc[w] \in {"done", "failed"}
AllFailed(side) == \A w \in BatchesOf(side) : pc[w] = "failed"

\* wg.Wait() returned and the result channel is closed.
AllReturned(side) == \A w \in BatchesOf(side) : pc[w] \in {"done", "failed"}

CollectClosed(side) ==
  /\ collector[side] = "collect"
  /\ AllReturned(side)
  /\ collector' = [collector EXCEPT ![side] = "nil"]
  /\ errChan' = Append(errChan, "nil")
  /\ UNCHANGED <<mainPc, docsCount, merged, shared, stores, workerVars, invertVars, envVars>>

\* SpimiBatchIndex receives the result of a side and returns the first error.
ReceiveResult ==
  /\ mainPc = "collect"
  /\ errChan # <<>>
  /\ mainPc' = IF Head(errChan) = "err" THEN "failed" ELSE "collect"
  /\ errChan' = Tail(errChan)
  /\ UNCHANGED <<collector, docsCount, merged, shared, stores, workerVars, invertVars, envVars>>

\* Both collectors have returned, the channel is drained and closed.  The
\* R-tree items are written and the document counter is kept.
WriteRtreeData ==
  /\ mainPc = "collect"
  /\ \A side \in Sides : collector[side] # "collect"
  /\ errChan = <<>>
  /\ \/ /\ docsCount' = nodeIDX
        /\ mainPc' = "mergeName"
        /\ UNCHANGED envVars
     \/ /\ Fault
        /\ mainPc' = "failed"
        /\ UNCHANGED docsCount
  /\ UNCHANGED <<collector, errChan, merged, shared, stores, workerVars, invertVars>>

Registered(f) == {ix \in intermediateIndices : ix.field = f}
ToMerge(f) == {b \in blockFiles : b.id \in Registered(f)}
AfterMerge(f) == IF f = "name" THEN "mergeAddress" ELSE "done"

\* OpenReader of every registered block of the field, Merge, MergeFieldLengths
\* and Close.  A block whose files are not complete cannot be opened.  A failed
\* OpenWriter of the merged index shows only in the first posting list: when
\* there is none, Close finds no open file and writes nothing.
MergeField(f) ==
  /\ \/ f = "name" /\ mainPc = "mergeName"
     \/ f = "address" /\ mainPc = "mergeAddress"
  /\ \/ /\ \A ix \in Registered(f) : \E b \in blockFiles : b.id = ix
        /\ merged' = [merged EXCEPT ![f] = ToMerge(f)]
        /\ mainPc' = AfterMerge(f)
        /\ UNCHANGED envVars
     \/ /\ \A ix \in Registered(f) : \E b \in blockFiles : b.id = ix /\ b.tokens = {}
        /\ DroppedFault
        /\ mainPc' = AfterMerge(f)
        /\ UNCHANGED merged
     \/ /\ Fault
        /\ mainPc' = "failed"
        /\ UNCHANGED merged
     \/ /\ \E ix \in Registered(f) : \A b \in blockFiles : b.id # ix
        /\ mainPc' = "failed"
        /\ UNCHANGED <<merged, envVars>>
  /\ UNCHANGED <<collector, errChan, docsCount, shared, stores, workerVars, invertVars>>

\* MergeFieldLengths: the lengths of a document add up over the blocks.
FieldLength(f, d) == SumFunction([b \in merged[f] |-> b.lens[d]])

\* Merge: the words of a field by which the merged index finds document d.
FoundWords(f, d) == {k \in 1 .. WordsIn(osmData[d + 1], f) : \E b \in merged[f] : <<d, k>> \in b.tokens}

------------------------------------------------------------------------------
Worker(w) ==
  \/ WorkerCancelled(w)
  \/ SkipUnnamed(w)
  \/ CheckWay(w)
  \/ CheckNode(w)
  \/ AddDocument(w)
  \/ StartInvert(w)
  \/ FinishBatch(w)
  \/ \E f \in Fields : ReceiveInvert(w, f)
  \/ SaveDocs(w)
  \/ AppendNodes(w)

Invert(c) ==
  \/ ParseNode(c)
  \/ ParseCancelled(c)
  \/ StreamCancelled(c)
  \/ TakeBlock(c)
  \/ RegisterBlock(c)
  \/ WriteBlock(c)

Collect(side) ==
  \/ \E w \in BatchesOf(side) : CollectError(w)
  \/ CollectClosed(side)

Main ==
  \/ ReceiveResult
  \/ WriteRtreeData
  \/ \E f \in Fields : MergeField(f)

\* SpimiBatchIndex has returned: its caller goes on, or panics.
Returned ==
  /\ mainPc \in {"done", "failed"}
  /\ UNCHANGED vars

\* The goroutines an error leaves behind run on.
Next ==
  \/ \E w \in Workers : Worker(w)
  \/ \E c \in Calls : Invert(c)
  \/ \E side \in Sides : Collect(side)
  \/ Main
  \/ Cancel
  \/ Returned

Spec == Init /\ [][Next]_vars

\* The Go scheduler runs every goroutine that can take a step; nobody has to
\* cancel the context.
Fairness ==
  /\ \A w \in Workers : WF_vars(Worker(w))
  /\ \A c \in Calls : WF_vars(Invert(c))
  /\ \A side \in Sides : WF_vars(Collect(side))
  /\ WF_vars(Main)

FairSpec == Spec /\ Fairness

------------------------------------------------------------------------------
(***************************************************************************)
(* Properties.                                                             *)
(***************************************************************************)
\* Every variable stays in its set.
SharedTypeOK ==
  /\ nodeIDX \in Nat
  /\ block \in Nat
  /\ nodeBoundingBox \in [Names -> SUBSET Boxes]
  /\ osmData \in Seq(Documents)
  /\ intermediateIndices \subseteq IndexIDs
  /\ docWordCount \in [DocIDs -> Nat]

StoresTypeOK ==
  /\ allSearchNodes \in Seq(Documents)
  /\ docStore \subseteq Documents
  /\ blockFiles \subseteq BlockFiles

WorkerTypeOK ==
  /\ pc \in [Workers -> {"next", "add", "invert", "wait", "save", "append",
                         "error", "failed", "done"}]
  /\ pos \in [Workers -> Nat \ {0}]
  /\ searchNodes \in [Workers -> Seq(Documents)]

InvertTypeOK ==
  /\ ipc \in [Calls -> {"idle", "parse", "stream", "flush", "finalFlush",
                        "write", "finalWrite", "send", "sent"}]
  /\ parsed \in [Calls -> Nat]
  /\ left \in [Calls -> Nat]
  /\ blockOf \in [Calls -> Nat]
  /\ failed \in [Calls -> BOOLEAN]

MainTypeOK ==
  /\ collector \in [Sides -> {"collect", "nil", "err"}]
  /\ errChan \in Seq({"nil", "err"})
  /\ mainPc \in {"collect", "mergeName", "mergeAddress", "done", "failed"}
  /\ docsCount \in Nat
  /\ merged \in [Fields -> SUBSET BlockFiles]
  /\ cancelled \in BOOLEAN
  /\ faults \in 0 .. MaxFaults
  /\ dropped \in 0 .. faults

TypeOK ==
  /\ SharedTypeOK
  /\ StoresTypeOK
  /\ WorkerTypeOK
  /\ InvertTypeOK
  /\ MainTypeOK

\* Document IDs are dense and mean the same document everywhere: the i-th
\* R-tree item has ID i - 1, and every document held by a worker, listed or
\* stored is the R-tree item of its ID.  The searcher resolves an ID it finds
\* in the R-tree or in a posting list through the key-value store.
DocumentIDs ==
  LET Indexed(doc) == doc.id < nodeIDX /\ osmData[doc.id + 1] = doc IN
  /\ Len(osmData) = nodeIDX
  /\ \A i \in 1 .. Len(osmData) : osmData[i].id = i - 1
  /\ \A w \in Workers : \A i \in 1 .. Len(searchNodes[w]) : Indexed(searchNodes[w][i])
  /\ \A i \in 1 .. Len(allSearchNodes) : Indexed(allSearchNodes[i])
  /\ \A doc \in docStore : Indexed(doc)

\* No two SpimiInvert calls ever write the same block file, not even one after
\* the other: a number taken under the lock is taken for good, so a call that
\* has taken a number finds no block of that number registered.
Taken(c) == ipc[c] \in {"flush", "finalFlush"}
Writing(c) == ipc[c] \in {"write", "finalWrite"}

BlockFilesExclusive ==
  /\ \A c \in Calls : Taken(c) \/ Writing(c) => blockOf[c] < block
  /\ \A ix \in intermediateIndices : ix.block < block
  /\ \A c \in Calls : Taken(c) => \A ix \in intermediateIndices : ix.block # blockOf[c]
  /\ \A c, d \in Calls :
       c # d /\ (Taken(c) \/ Writing(c)) /\ (Taken(d) \/ Writing(d)) => blockOf[c] # blockOf[d]

\* The merge runs alone: when SpimiBatchIndex is past its collectors without
\* an error, every worker has returned and no SpimiInvert call is under way, so
\* no block is registered or written any more.
MergeRunsAlone ==
  mainPc \in {"mergeName", "mergeAddress", "done"} =>
    /\ \A w \in Workers : pc[w] = "done"
    /\ \A c \in Calls : ipc[c] \in {"idle", "sent"} /\ ~failed[c]

\* A document is listed only when it is in the key-value store already.
ListedIsStored == Range(allSearchNodes) \subseteq docStore

\* Whether no batch has enough words to fill a block before its end.
RoomForBatches ==
  \A w \in Workers : \A f \in Fields :
    SumFunction([i \in DOMAIN Batch(w) |-> WordsOf[Batch(w)[i]][f]]) < MaxPosting

\* A successful, uncancelled build is complete: the documents listed and
\* stored are exactly the docsCount numbered ones, each once, and the word count
\* of each is that of both fields, although two goroutines add it up.  When no
\* block was filled early and no posting list was lost, a document is found in
\* the merged index of a field by all its words, and its field length is right.
CompleteOnSuccess ==
  mainPc = "done" /\ ~cancelled =>
    /\ docsCount = nodeIDX
    /\ Len(allSearchNodes) = docsCount
    /\ Range(allSearchNodes) = Range(osmData)
    /\ docStore = Range(osmData)
    /\ \A doc \in Range(osmData) :
         /\ docWordCount[doc.id] = WordsIn(doc, "name") + WordsIn(doc, "address")
         /\ RoomForBatches /\ dropped = 0 =>
              \A f \in Fields :
                /\ FoundWords(f, doc.id) = 1 .. WordsIn(doc, f)
                /\ FieldLength(f, doc.id) = WordsIn(doc, f)

\* No error that the code looks at goes unnoticed: a build in which an I/O
\* operation failed succeeds only if its error is one of the dropped ones.  The
\* Close of an early block is not among them: its error is dropped by
\* SpimiInvert, but the merge cannot open the block.
FaultsSurface == mainPc = "done" => faults = dropped

\* The region lies where no latitude reaches a longitude, as Indonesia does.
\* Elsewhere the corners that AroundPrevious mixes up may lie in the box of a way
\* that no other way covers.
LatsBelowLons ==
  \A o, p \in Objects : \A i \in DOMAIN LatsOf[o], j \in DOMAIN LonsOf[p] :
    LatsOf[o][i] < LonsOf[p][j]

\* An object is dropped as a duplicate only for a way of the same name whose
\* box holds it and which is indexed, or is about to be (IsWayDuplicateCheck,
\* IsNodeDuplicateCheck).
PassedOver(w) ==
  {Batch(w)[i] : i \in 1 .. (IF pos[w] > Len(Batch(w)) THEN Len(Batch(w)) ELSE pos[w] - 1)}
IndexedObjects == {osmData[i].obj : i \in 1 .. Len(osmData)}
Pending == {Current(w) : w \in {v \in Workers : pc[v] = "add"}}

DroppedIsCovered ==
  LatsBelowLons => \A w \in Workers : \A o \in PassedOver(w) \ IndexedObjects :
    NameOf[o] # NoName =>
      \E v \in (IndexedObjects \cup Pending) \cap Range(Ways) :
        /\ v # o
        /\ NameOf[v] = NameOf[o]
        /\ PointsContains(BoxOf(v), LatsOf[o], LonsOf[o])

\* SpimiBatchIndex returns, whatever fails.
Terminates == <>(mainPc \in {"done", "failed"})

\* The build implements what it promises its caller.
Promise == INSTANCE IndexBuild WITH
  Whole    <- RoomForBatches,
  status   <- IF mainPc \in {"done", "failed"} THEN mainPc ELSE "building",
  accepted <- Range(osmData),
  listed   <- IF mainPc = "done" THEN Range(allSearchNodes) ELSE {},
  findable <- IF mainPc = "done"
                THEN {doc \in Range(osmData) :
                        \A f \in Fields : FoundWords(f, doc.id) = 1 .. WordsIn(doc, f)}
                ELSE {},
  impaired <- cancelled \/ dropped > 0

ImplementsIndexBuild == Promise!Spec

(***************************************************************************)
(* What the repository says and the code does not keep.                    *)
(***************************************************************************)
\* indexer.go:308-309 "cancel context, semua goroutine batchProcessing akan
\* Done & close indexingRes Channel": after SpimiBatchIndex has returned an
\* error, all the batch goroutines return.
WorkersReturn ==
  (mainPc = "failed") ~> (\A w \in Workers : pc[w] \in {"done", "failed"})

\* indexer.go:190 "cek duplikat kalo sebelumnya ada way dengan nama sama dan
\* posisi sama dengan way ini": two ways of the same name at the same position
\* are not both indexed.
SamePlaceIndexedOnce ==
  \A i, j \in 1 .. Len(osmData) :
    LET a == osmData[i].obj
        b == osmData[j].obj
    IN i # j /\ {a, b} \subseteq Range(Ways) /\ NameOf[a] = NameOf[b] => BoxOf(a) # BoxOf(b)

==============================================================================
