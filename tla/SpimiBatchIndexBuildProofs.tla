---------------------- MODULE SpimiBatchIndexBuildProofs ----------------------
(***************************************************************************)
(* Theorems about what a build of SpimiBatchIndex comes to: that no error  *)
(* is lost, that every document is held by one worker or listed, that      *)
(* there are no more document IDs than objects, that no object is dropped  *)
(* without a way that covers it, that a successful build is complete and   *)
(* implements IndexBuild; with the invariants on the words that the        *)
(* goroutines count, cut into blocks and write.                            *)
(***************************************************************************)
EXTENDS SpimiBatchIndexProofs, DataLemmas

------------------------------------------------------------------------------
(* What a step of each goroutine leaves alone. *)

LEMMA WorkerFootprint ==
  ASSUME TypeOK, NEW w \in Workers, Worker(w)
  PROVE  /\ UNCHANGED <<block, intermediateIndices, docWordCount, blockFiles, blockOf, failed,
                        mainVars, cancelled, dropped>>
         /\ \A v \in Workers \ {w} : /\ pc'[v] = pc[v]
                                     /\ pos'[v] = pos[v]
                                     /\ searchNodes'[v] = searchNodes[v]
         /\ \A c \in Calls : c[1] # w =>
              ipc'[c] = ipc[c] /\ parsed'[c] = parsed[c] /\ left'[c] = left[c]
         /\ \A c \in Calls : ipc'[c] = ipc[c] \/ ipc'[c] \in {"parse", "sent"}
         /\ pc[w] \notin {"error", "failed", "done"}
<1> USE DEF shared, stores, workerVars, invertVars, mainVars, envVars, TypeOK, WorkerTypeOK, InvertTypeOK
<1>1. CASE \/ WorkerCancelled(w) \/ SkipUnnamed(w) \/ CheckWay(w) \/ CheckNode(w) \/ FinishBatch(w)
  BY <1>1 DEF WorkerCancelled, SkipUnnamed, CheckWay, CheckNode, FinishBatch, MoreObjects, BatchRead
<1>2. CASE AddDocument(w)
  BY <1>2 DEF AddDocument
<1>3. CASE StartInvert(w)
  BY <1>3 DEF StartInvert, BatchRead
<1>4. ASSUME NEW f \in Fields, ReceiveInvert(w, f)
      PROVE  /\ UNCHANGED <<block, intermediateIndices, docWordCount, blockFiles, blockOf, failed,
                            mainVars, cancelled, dropped, parsed, left, pos, searchNodes>>
             /\ \A v \in Workers \ {w} : pc'[v] = pc[v]
             /\ \A c \in Calls : c[1] # w => ipc'[c] = ipc[c]
             /\ \A c \in Calls : ipc'[c] = ipc[c] \/ ipc'[c] = "sent"
             /\ pc[w] = "wait"
  BY <1>4 DEF ReceiveInvert
<1>5. CASE SaveDocs(w) \/ AppendNodes(w)
  BY <1>5 DEF SaveDocs, AppendNodes, Fault
<1> QED
  BY <1>1, <1>2, <1>3, <1>4, <1>5 DEF Worker

LEMMA CallFootprint ==
  ASSUME TypeOK, NEW c \in Calls, Invert(c)
  PROVE  /\ UNCHANGED <<workerVars, mainVars, nodeIDX, nodeBoundingBox, osmData,
                        allSearchNodes, docStore, cancelled>>
         /\ Active(c) /\ ipc[c] # "send"
         /\ ipc'[c] \in {"parse", "stream", "flush", "finalFlush", "write", "finalWrite", "send"}
         /\ \A d \in Calls \ {c} : /\ ipc'[d] = ipc[d]
                                   /\ parsed'[d] = parsed[d]
                                   /\ left'[d] = left[d]
                                   /\ blockOf'[d] = blockOf[d]
                                   /\ failed'[d] = failed[d]
<1> USE DEF shared, stores, envVars, TypeOK, InvertTypeOK, Active
<1>1. CASE ParseNode(c)
  BY <1>1 DEF ParseNode
<1>2. CASE ParseCancelled(c) \/ StreamCancelled(c)
  BY <1>2 DEF ParseCancelled, StreamCancelled
<1>3. CASE TakeBlock(c)
  BY <1>3 DEF TakeBlock
<1>4. CASE RegisterBlock(c)
  BY <1>4 DEF RegisterBlock, Fault
<1>5. CASE WriteBlock(c)
  BY <1>5 DEF WriteBlock, Fault, DroppedFault
<1> QED
  BY <1>1, <1>2, <1>3, <1>4, <1>5 DEF Invert

\* Neither a worker nor a call.
OtherStep == Main \/ Cancel \/ (\E side \in Sides : Collect(side)) \/ UNCHANGED vars

LEMMA OtherFootprint ==
  ASSUME TypeOK, OtherStep
  PROVE  /\ UNCHANGED <<shared, stores, pos, searchNodes, invertVars>>
         /\ \A w \in Workers : pc'[w] = pc[w] \/ (pc[w] = "error" /\ pc'[w] = "failed")
<1> USE DEF TypeOK, WorkerTypeOK
<1>1. CASE Main \/ Cancel \/ UNCHANGED vars
  BY <1>1 DEF Main, ReceiveResult, WriteRtreeData, MergeField, Cancel, vars, workerVars
<1>2. ASSUME NEW side \in Sides, Collect(side)
      PROVE  /\ UNCHANGED <<shared, stores, pos, searchNodes, invertVars>>
             /\ \A w \in Workers : pc'[w] = pc[w] \/ (pc[w] = "error" /\ pc'[w] = "failed")
  BY <1>2 DEF Collect, CollectError, CollectClosed, workerVars, BatchesOf
<1> QED
  BY <1>1, <1>2 DEF OtherStep

\* Every step is of one of the three kinds.
LEMMA StepKinds ==
  ASSUME [Next]_vars
  PROVE  (\E w \in Workers : Worker(w)) \/ (\E c \in Calls : Invert(c)) \/ OtherStep
BY DEF Next, Returned, OtherStep

------------------------------------------------------------------------------
(* Block files are written once, by the call that has registered them. *)

BlocksFresh ==
  /\ \A b \in blockFiles : b.id.block < block /\ b.id \in intermediateIndices
  /\ \A c \in Calls : Taken(c) \/ Writing(c) => \A b \in blockFiles : b.id.block # blockOf[c]
  /\ \A c \in Calls : Writing(c) => IndexID(c) \in intermediateIndices

LEMMA InitBlocksFresh == Init => BlocksFresh
BY DEF Init, BlocksFresh, Taken, Writing

LEMMA InvertKeepsBlocksFresh ==
  ASSUME TypeOK, BlockFilesExclusive, BlocksFresh, NEW c \in Calls, Invert(c)
  PROVE  BlocksFresh'
<1> USE DEF TypeOK, SharedTypeOK, InvertTypeOK, shared, stores, IndexID
<1>1. /\ \A d \in Calls \ {c} : ipc'[d] = ipc[d] /\ blockOf'[d] = blockOf[d]
      /\ \A d \in Calls : blockOf[d] \in Nat
      /\ block \in Nat
  BY CallFootprint
<1>2. /\ \A d \in Calls \ {c} : (Taken(d)' <=> Taken(d)) /\ (Writing(d)' <=> Writing(d))
      /\ \A d \in Calls \ {c} : IndexID(d)' = IndexID(d)
  BY <1>1 DEF Taken, Writing
<1>3. \A b \in blockFiles : b.id.block \in Nat
  BY DEF StoresTypeOK, BlockFiles, IndexIDs
<1>4. CASE ParseNode(c) \/ ParseCancelled(c) \/ StreamCancelled(c)
  <2>1. UNCHANGED <<block, blockFiles, intermediateIndices, blockOf>> /\ ~Taken(c)' /\ ~Writing(c)'
    BY <1>4 DEF ParseNode, ParseCancelled, StreamCancelled, Taken, Writing
  <2> QED
    BY <1>2, <2>1 DEF BlocksFresh
<1>5. CASE TakeBlock(c)
  <2>1. /\ UNCHANGED <<blockFiles, intermediateIndices>>
        /\ block' = block + 1 /\ blockOf'[c] = block
        /\ ~Writing(c)'
    BY <1>5 DEF TakeBlock, NextBlock, Writing
  <2>2. \A b \in blockFiles : b.id.block < block' /\ b.id.block # block
    BY <1>1, <1>3, <2>1 DEF BlocksFresh
  <2> QED
    BY <1>1, <1>2, <2>1, <2>2 DEF BlocksFresh
<1>6. CASE RegisterBlock(c)
  <2>1. /\ UNCHANGED <<block, blockFiles, blockOf>>
        /\ Taken(c)
        /\ \/ intermediateIndices' = intermediateIndices \cup {IndexID(c)}
           \/ intermediateIndices' = intermediateIndices /\ ~Writing(c)'
    BY <1>6 DEF RegisterBlock, Taken, Writing
  <2>2. \A b \in blockFiles : b.id.block # blockOf'[c]
    BY <2>1 DEF BlocksFresh
  <2> QED
    BY <1>1, <1>2, <2>1, <2>2 DEF BlocksFresh
<1>7. CASE WriteBlock(c)
  <2>1. /\ UNCHANGED <<block, intermediateIndices, blockOf>>
        /\ Writing(c) /\ ~Taken(c)' /\ ~Writing(c)'
    BY <1>7 DEF WriteBlock, Taken, Writing
  <2>2. \A b \in blockFiles' : b \in blockFiles \/ b.id = IndexID(c)
    BY <1>7 DEF WriteBlock, BlockWith
  <2>3. IndexID(c) \in intermediateIndices /\ IndexID(c).block = blockOf[c] /\ blockOf[c] < block
    BY <2>1 DEF BlocksFresh, BlockFilesExclusive
  <2>4. \A d \in Calls \ {c} : Taken(d) \/ Writing(d) => blockOf[d] # blockOf[c]
    BY <2>1 DEF BlockFilesExclusive
  <2> QED
    BY <1>1, <1>2, <2>1, <2>2, <2>3, <2>4 DEF BlocksFresh
<1> QED
  BY <1>4, <1>5, <1>6, <1>7 DEF Invert

LEMMA OthersKeepBlocksFresh ==
  ASSUME TypeOK, BlocksFresh, (\E w \in Workers : Worker(w)) \/ OtherStep
  PROVE  BlocksFresh'
<1>1. /\ UNCHANGED <<block, blockFiles, intermediateIndices, blockOf>>
      /\ \A c \in Calls : ipc'[c] = ipc[c] \/ ipc'[c] \in {"parse", "sent"}
  BY WorkerFootprint, OtherFootprint DEF shared, stores, invertVars
<1>2. \A c \in Calls : (Taken(c)' => Taken(c)) /\ (Writing(c)' => Writing(c))
  BY <1>1 DEF Taken, Writing
<1> QED
  BY <1>1, <1>2 DEF BlocksFresh, IndexID

LEMMA BlocksFreshAlways == Spec => []BlocksFresh
<1>1. Init => BlocksFresh
  BY InitBlocksFresh
<1>2. ASSUME TypeOK, BlockFilesExclusive, BlocksFresh, [Next]_vars
      PROVE  BlocksFresh'
  BY <1>2, StepKinds, InvertKeepsBlocksFresh, OthersKeepBlocksFresh
<1> QED
  BY <1>1, <1>2, TypeCorrect, BlockFilesExclusiveAlways, PTL DEF Spec

------------------------------------------------------------------------------
(* The trace that a failed I/O operation leaves. *)

\* A registered block that has no complete files and that nobody will write.
Unwritten(ix) ==
  /\ \A b \in blockFiles : b.id # ix
  /\ \A c \in Calls : Writing(c) => IndexID(c) # ix

\* Where the error of an operation that failed can still be seen.
Evidence ==
  \/ mainPc = "failed"
  \/ \E side \in Sides : collector[side] = "err"
  \/ \E w \in Workers : pc[w] \in {"error", "failed"}
  \/ \E c \in Calls : failed[c]
  \/ \E ix \in intermediateIndices : Unwritten(ix)

ErrorsKept ==
  /\ \A c \in Calls : failed[c] => ipc[c] \in {"send", "sent"}
  /\ faults # dropped => Evidence

\* What has been merged had all its block files.
MergedHaveFiles ==
  /\ mainPc \in {"mergeAddress", "done"} => \A ix \in Registered("name") : ~Unwritten(ix)
  /\ mainPc = "done" => \A ix \in Registered("address") : ~Unwritten(ix)

LEMMA InitErrorsKept == Init => ErrorsKept
BY DEF Init, ErrorsKept

LEMMA WorkerKeepsErrors ==
  ASSUME TypeOK, Control, ErrorsKept, NEW w \in Workers, Worker(w)
  PROVE  ErrorsKept'
<1>1. /\ UNCHANGED <<intermediateIndices, blockFiles, blockOf, failed, mainPc, collector, dropped>>
      /\ \A v \in Workers \ {w} : pc'[v] = pc[v]
      /\ \A c \in Calls : ipc'[c] = ipc[c] \/ ipc'[c] \in {"parse", "sent"}
      /\ pc[w] \notin {"error", "failed", "done"}
  BY WorkerFootprint DEF mainVars
<1>2. \A ix \in intermediateIndices : Unwritten(ix) => Unwritten(ix)'
  BY <1>1 DEF Unwritten, Writing, IndexID
<1>3. Evidence => Evidence'
  BY <1>1, <1>2 DEF Evidence
<1>4. faults' = faults \/ pc'[w] = "error"
  BY DEF Worker, WorkerCancelled, SkipUnnamed, CheckWay, CheckNode, AddDocument, StartInvert,
         FinishBatch, ReceiveInvert, SaveDocs, AppendNodes, envVars, TypeOK, WorkerTypeOK
<1>5. ASSUME NEW c \in Calls, failed[c]
      PROVE  ipc'[c] \in {"send", "sent"}
  <2>1. ipc[c] \in {"send", "sent"} /\ c[1] \in Workers
    BY <1>5, CallParts DEF ErrorsKept
  <2>2. CASE StartInvert(w)
    <3>1. pc[w] \in {"invert", "next"}
      BY <2>2 DEF StartInvert, BatchRead
    <3>2. c[1] # w
      BY <1>5, <2>1, <3>1 DEF Control, CallControl, Active
    <3> QED
      BY <2>1, <2>2, <3>2 DEF StartInvert
  <2>3. CASE ~StartInvert(w)
    BY <2>1, <2>3 DEF Worker, WorkerCancelled, SkipUnnamed, CheckWay, CheckNode, AddDocument,
         FinishBatch, ReceiveInvert, SaveDocs, AppendNodes, invertVars, TypeOK, InvertTypeOK
  <2> QED
    BY <2>2, <2>3
<1> QED
  BY <1>1, <1>3, <1>4, <1>5 DEF ErrorsKept, Evidence

LEMMA InvertKeepsErrors ==
  ASSUME TypeOK, BlockFilesExclusive, BlocksFresh, ErrorsKept, NEW c \in Calls, Invert(c)
  PROVE  ErrorsKept'
<1>1. /\ UNCHANGED <<pc, mainPc, collector>>
      /\ ipc[c] \notin {"send", "sent"} /\ ~failed[c]
      /\ \A d \in Calls \ {c} : ipc'[d] = ipc[d] /\ blockOf'[d] = blockOf[d] /\ failed'[d] = failed[d]
  BY CallFootprint DEF workerVars, mainVars, Active, ErrorsKept
<1>2. /\ \A d \in Calls : failed[d] => failed'[d]
      /\ \A d \in Calls \ {c} : failed'[d] => ipc'[d] \in {"send", "sent"}
  BY <1>1 DEF ErrorsKept
<1>3. intermediateIndices \subseteq intermediateIndices'
  BY DEF Invert, ParseNode, ParseCancelled, StreamCancelled, TakeBlock, RegisterBlock, WriteBlock, shared
<1>4. ASSUME NEW ix \in intermediateIndices, Unwritten(ix)
      PROVE  Unwritten(ix)'
  <2>1. CASE RegisterBlock(c)
    <3>1. UNCHANGED <<blockFiles, blockOf>> /\ Taken(c)
      BY <2>1 DEF RegisterBlock, stores, Taken
    <3>2. IndexID(c)' # ix
      BY <3>1 DEF BlockFilesExclusive, IndexID
    <3> QED
      BY <1>1, <1>4, <3>1, <3>2 DEF Unwritten, Writing, IndexID
  <2>2. CASE WriteBlock(c)
    <3>1. blockOf' = blockOf /\ Writing(c) /\ ~Writing(c)'
      BY <2>2 DEF WriteBlock, Writing, TypeOK, InvertTypeOK
    <3>2. \A b \in blockFiles' : b \in blockFiles \/ b.id = IndexID(c)
      BY <2>2 DEF WriteBlock, BlockWith
    <3> QED
      BY <1>1, <1>4, <3>1, <3>2 DEF Unwritten, Writing, IndexID
  <2>3. CASE ParseNode(c) \/ ParseCancelled(c) \/ StreamCancelled(c) \/ TakeBlock(c)
    <3>1. blockFiles' = blockFiles /\ ~Writing(c)'
      BY <2>3 DEF ParseNode, ParseCancelled, StreamCancelled, TakeBlock, stores, Writing, TypeOK, InvertTypeOK
    <3> QED
      BY <1>1, <1>4, <3>1 DEF Unwritten, Writing, IndexID
  <2> QED
    BY <2>1, <2>2, <2>3 DEF Invert
<1>5. Evidence => Evidence'
  BY <1>1, <1>2, <1>3, <1>4 DEF Evidence
<1>6. CASE ParseNode(c) \/ ParseCancelled(c) \/ StreamCancelled(c) \/ TakeBlock(c)
  <2>1. UNCHANGED <<faults, dropped>> /\ (failed'[c] => ipc'[c] = "send")
    BY <1>1, <1>6 DEF ParseNode, ParseCancelled, StreamCancelled, TakeBlock, envVars, TypeOK, InvertTypeOK
  <2> QED
    BY <1>2, <1>5, <2>1 DEF ErrorsKept
<1>7. CASE RegisterBlock(c)
  <2>1. /\ dropped' = dropped
        /\ faults' = faults \/ failed'[c]
        /\ failed'[c] => ipc'[c] = "send"
    BY <1>1, <1>7 DEF RegisterBlock, Fault, envVars, TypeOK, InvertTypeOK
  <2> QED
    BY <1>2, <1>5, <2>1 DEF ErrorsKept, Evidence
<1>8. CASE WriteBlock(c)
  <2>1. failed'[c] => ipc'[c] = "send"
    BY <1>1, <1>8 DEF WriteBlock, TypeOK, InvertTypeOK
  <2>2. CASE UNCHANGED envVars
    BY <1>2, <1>5, <2>1, <2>2 DEF ErrorsKept, envVars
  <2>3. CASE DroppedFault
    <3>1. faults' = faults + 1 /\ dropped' = dropped + 1 /\ faults \in Nat /\ dropped \in Nat
      BY <2>3 DEF DroppedFault, TypeOK, MainTypeOK
    <3> QED
      BY <1>2, <1>5, <2>1, <3>1 DEF ErrorsKept
  <2>4. CASE Fault /\ blockFiles' = blockFiles /\ failed' = [failed EXCEPT ![c] = (ipc[c] = "finalWrite")]
    <3>1. /\ Writing(c) /\ ~Writing(c)'
          /\ UNCHANGED <<blockOf, intermediateIndices>>
      BY <1>8 DEF WriteBlock, Writing, shared, TypeOK, InvertTypeOK
    <3>2. CASE ipc[c] = "finalWrite"
      <4>1. failed'[c]
        BY <2>4, <3>2 DEF TypeOK, InvertTypeOK
      <4> QED
        BY <1>2, <2>1, <4>1 DEF ErrorsKept, Evidence
    <3>3. CASE ipc[c] = "write"
      <4>1. IndexID(c) \in intermediateIndices' /\ \A b \in blockFiles' : b.id # IndexID(c)
        BY <2>4, <3>1 DEF BlocksFresh, IndexID
      <4>2. \A d \in Calls : Writing(d)' => IndexID(d)' # IndexID(c)
        BY <1>1, <3>1 DEF BlockFilesExclusive, IndexID, Writing
      <4>3. Unwritten(IndexID(c))'
        BY <3>1, <4>1, <4>2 DEF Unwritten, IndexID
      <4>4. IndexID(c)' = IndexID(c)
        BY <3>1 DEF IndexID
      <4> QED
        BY <1>2, <2>1, <4>1, <4>3, <4>4 DEF ErrorsKept, Evidence
    <3> QED
      BY <1>8, <3>2, <3>3 DEF WriteBlock
  <2> QED
    BY <1>8, <2>2, <2>3, <2>4 DEF WriteBlock
<1> QED
  BY <1>6, <1>7, <1>8 DEF Invert

LEMMA OthersKeepErrors ==
  ASSUME TypeOK, ErrorsKept, OtherStep
  PROVE  ErrorsKept'
<1>1. UNCHANGED <<intermediateIndices, blockFiles, ipc, blockOf, failed>>
  BY OtherFootprint DEF shared, stores, invertVars
<1>2. \A ix \in intermediateIndices : Unwritten(ix) => Unwritten(ix)'
  BY <1>1 DEF Unwritten, Writing, IndexID
<1>3. \A w \in Workers : pc[w] \in {"error", "failed"} => pc'[w] \in {"error", "failed"}
  BY OtherFootprint
<1>4. \A side \in Sides : collector[side] = "err" => collector'[side] = "err"
  BY DEF OtherStep, Main, ReceiveResult, WriteRtreeData, MergeField, Cancel, vars, mainVars,
         Collect, CollectError, CollectClosed, TypeOK, MainTypeOK
<1>5. mainPc = "failed" => mainPc' = "failed"
  BY DEF OtherStep, Main, ReceiveResult, WriteRtreeData, MergeField, Cancel, vars, mainVars,
         Collect, CollectError, CollectClosed
<1>6. Evidence => Evidence'
  BY <1>1, <1>2, <1>3, <1>4, <1>5 DEF Evidence
<1>7. \/ UNCHANGED <<faults, dropped>>
      \/ DroppedFault
      \/ mainPc' = "failed"
  BY DEF OtherStep, Main, ReceiveResult, WriteRtreeData, MergeField, Cancel, vars, envVars,
         Collect, CollectError, CollectClosed
<1>8. CASE DroppedFault
  <2>1. faults' = faults + 1 /\ dropped' = dropped + 1 /\ faults \in Nat /\ dropped \in Nat
    BY <1>8 DEF DroppedFault, TypeOK, MainTypeOK
  <2> QED
    BY <1>1, <1>6, <2>1 DEF ErrorsKept
<1> QED
  BY <1>1, <1>6, <1>7, <1>8 DEF ErrorsKept, Evidence

LEMMA ErrorsKeptAlways == Spec => []ErrorsKept
<1>1. Init => ErrorsKept
  BY InitErrorsKept
<1>2. ASSUME TypeOK, Control, BlockFilesExclusive, BlocksFresh, ErrorsKept, [Next]_vars
      PROVE  ErrorsKept'
  BY <1>2, StepKinds, WorkerKeepsErrors, InvertKeepsErrors, OthersKeepErrors
<1> QED
  BY <1>1, <1>2, TypesAndControl, BlockFilesExclusiveAlways, BlocksFreshAlways, PTL DEF Spec

\* While it merges, SpimiBatchIndex is the only one to take a step.
LEMMA MergeStep ==
  ASSUME TypeOK, MergeRunsAlone, mainPc \in {"mergeName", "mergeAddress", "done"}, [Next]_vars
  PROVE  /\ OtherStep
         /\ UNCHANGED <<shared, stores, pos, searchNodes, invertVars>>
         /\ pc' = pc
<1>1. ASSUME NEW w \in Workers, Worker(w)
      PROVE  FALSE
  BY <1>1, WorkerFootprint DEF MergeRunsAlone
<1>2. ASSUME NEW c \in Calls, Invert(c)
      PROVE  FALSE
  BY <1>2, CallFootprint DEF MergeRunsAlone, Active
<1>3. OtherStep
  BY <1>1, <1>2, StepKinds
<1>4. \A w \in Workers : pc'[w] = pc[w]
  BY <1>3, OtherFootprint DEF MergeRunsAlone
<1>5. pc' \in [Workers -> {"next", "add", "invert", "wait", "save", "append",
                           "error", "failed", "done"}]
  <2>1. ASSUME NEW side \in Sides, Collect(side)
        PROVE  CollectClosed(side)
    BY <2>1 DEF Collect, CollectError, BatchesOf, MergeRunsAlone
  <2> QED
    BY <1>3, <2>1 DEF OtherStep, Main, ReceiveResult, WriteRtreeData, MergeField, Cancel, vars,
                      CollectClosed, workerVars, TypeOK, WorkerTypeOK
<1>6. pc' = pc
  BY <1>4, <1>5 DEF TypeOK, WorkerTypeOK
<1> QED
  BY <1>3, <1>6, OtherFootprint

\* How mainPc comes to a later step of the merge.
LEMMA MainSteps ==
  ASSUME TypeOK, OtherStep
  PROVE  /\ mainPc' = "mergeName" => mainPc = "mergeName" \/ (WriteRtreeData /\ docsCount' = nodeIDX)
         /\ mainPc' = "mergeAddress" => mainPc = "mergeAddress" \/ (mainPc = "mergeName" /\ MergeField("name"))
         /\ mainPc' = "done" => mainPc = "done" \/ (mainPc = "mergeAddress" /\ MergeField("address"))
         /\ mainPc' = mainPc /\ mainPc \in {"mergeName", "mergeAddress", "done"} =>
              UNCHANGED <<docsCount, merged>>
<1>1. ASSUME NEW f \in Fields, MergeField(f)
      PROVE  /\ mainPc' # "mergeName" /\ mainPc' # mainPc
             /\ mainPc' = "mergeAddress" => f = "name" /\ mainPc = "mergeName"
             /\ mainPc' = "done" => f = "address" /\ mainPc = "mergeAddress"
  BY <1>1 DEF MergeField, AfterMerge
<1>2. ASSUME ~ \E f \in Fields : MergeField(f), mainPc' # "failed"
      PROVE  /\ mainPc' = mainPc \/ (WriteRtreeData /\ mainPc' = "mergeName" /\ docsCount' = nodeIDX)
             /\ mainPc' = mainPc /\ mainPc # "collect" => UNCHANGED <<docsCount, merged>>
  BY <1>2 DEF OtherStep, Main, ReceiveResult, WriteRtreeData, Cancel, vars, mainVars,
              Collect, CollectError, CollectClosed
<1> QED
  BY <1>1, <1>2

LEMMA MergedHaveFilesAlways == Spec => []MergedHaveFiles
<1>1. Init => MergedHaveFiles
  BY DEF Init, MergedHaveFiles
<1>2. ASSUME TypeOK, MergeRunsAlone, MergedHaveFiles, [Next]_vars
      PROVE  MergedHaveFiles'
  <2>1. CASE mainPc \notin {"mergeName", "mergeAddress", "done"}
    <3>1. mainPc' \notin {"mergeAddress", "done"}
      BY <2>1, <1>2, StepKinds, WorkerFootprint, CallFootprint, MainSteps DEF mainVars
    <3> QED
      BY <3>1 DEF MergedHaveFiles
  <2>2. CASE mainPc \in {"mergeName", "mergeAddress", "done"}
    <3>1. OtherStep /\ UNCHANGED <<intermediateIndices, blockFiles, ipc, blockOf>>
      BY <1>2, <2>2, MergeStep DEF shared, stores, invertVars
    <3>2. \A f \in Fields : Registered(f)' = Registered(f)
      BY <3>1 DEF Registered
    <3>3. \A ix : Unwritten(ix)' => Unwritten(ix)
      BY <3>1 DEF Unwritten, Writing, IndexID
    <3>4. ASSUME NEW f \in Fields, MergeField(f), mainPc' # "failed", NEW ix \in Registered(f)
          PROVE  ~Unwritten(ix)
      BY <3>4 DEF MergeField, Unwritten
    <3> QED
      BY <1>2, <3>1, <3>2, <3>3, <3>4, MainSteps DEF MergedHaveFiles, Fields
  <2> QED
    BY <2>1, <2>2
<1> QED
  BY <1>1, <1>2, TypeCorrect, MergeRunsAloneAlways, PTL DEF Spec

\* No error that the code looks at is lost between the goroutines: a build that
\* succeeds has met no failed I/O operation but those whose error it drops.
THEOREM FaultsSurfaceAlways == Spec => []FaultsSurface
<1>1. ASSUME TypeOK, Control, MergeRunsAlone, ErrorsKept, MergedHaveFiles
      PROVE  FaultsSurface
  <2>1. SUFFICES ASSUME mainPc = "done", Evidence PROVE FALSE
    BY <1>1 DEF FaultsSurface, ErrorsKept
  <2>2. /\ \A w \in Workers : pc[w] = "done"
        /\ \A c \in Calls : ~failed[c]
        /\ \A side \in Sides : collector[side] = "nil"
    BY <1>1, <2>1 DEF MergeRunsAlone, Control, MainControl
  <2>3. ASSUME NEW ix \in intermediateIndices, Unwritten(ix)
        PROVE  FALSE
    <3>1. ix.field \in Fields
      BY <1>1 DEF TypeOK, SharedTypeOK, IndexIDs
    <3>2. ix \in Registered(ix.field)
      BY DEF Registered
    <3> QED
      BY <1>1, <2>1, <2>3, <3>1, <3>2 DEF MergedHaveFiles, Fields
  <2> QED
    BY <2>1, <2>2, <2>3 DEF Evidence
<1> QED
  BY <1>1, TypesAndControl, MergeRunsAloneAlways, ErrorsKeptAlways, MergedHaveFilesAlways, PTL

------------------------------------------------------------------------------
(* Every numbered document is in one place. *)

LEMMA AppendFresh ==
  ASSUME NEW s \in Seq(Documents), NEW d \in Documents, IsInjective(s), d \notin Range(s)
  PROVE  /\ IsInjective(Append(s, d))
         /\ Range(Append(s, d)) = Range(s) \cup {d}
<1>1. /\ Append(s, d) \in Seq(Documents) /\ Len(Append(s, d)) = Len(s) + 1
      /\ Append(s, d)[Len(s) + 1] = d
      /\ \A i \in 1 .. Len(s) : Append(s, d)[i] = s[i]
  OBVIOUS
<1>2. ASSUME NEW i \in 1 .. Len(s) + 1, NEW j \in 1 .. Len(s) + 1, Append(s, d)[i] = Append(s, d)[j]
      PROVE  i = j
  BY <1>1, <1>2, DocumentRange DEF IsInjective
<1>3. d \in Range(Append(s, d)) /\ Range(s) \subseteq Range(Append(s, d))
  <2>1. Len(s) + 1 \in 1 .. Len(Append(s, d)) /\ 1 .. Len(s) \subseteq 1 .. Len(Append(s, d))
    BY <1>1
  <2>2. \A i \in 1 .. Len(Append(s, d)) : Append(s, d)[i] \in Range(Append(s, d))
    BY <1>1, DocumentRange
  <2>3. \A e \in Range(s) : \E i \in 1 .. Len(s) : s[i] = e
    BY DocumentRange
  <2> QED
    BY <1>1, <2>1, <2>2, <2>3
<1> QED
  BY <1>1, <1>2, <1>3, AppendRange DEF IsInjective

LEMMA ConcatInjective ==
  ASSUME NEW s \in Seq(Documents), NEW t \in Seq(Documents), IsInjective(s), IsInjective(t),
         Range(s) \cap Range(t) = {}
  PROVE  /\ IsInjective(s \o t)
         /\ Range(s \o t) = Range(s) \cup Range(t)
<1>1. /\ s \o t \in Seq(Documents) /\ Len(s \o t) = Len(s) + Len(t)
      /\ \A i \in 1 .. Len(s) : (s \o t)[i] = s[i]
      /\ \A i \in 1 .. Len(t) : (s \o t)[Len(s) + i] = t[i]
  OBVIOUS
<1>2. \A i \in 1 .. Len(s) + Len(t) :
        \/ i \in 1 .. Len(s) /\ (s \o t)[i] = s[i] /\ (s \o t)[i] \in Range(s)
        \/ /\ i - Len(s) \in 1 .. Len(t)
           /\ (s \o t)[i] = t[i - Len(s)] /\ (s \o t)[i] \in Range(t)
  <2> TAKE i \in 1 .. Len(s) + Len(t)
  <2>1. CASE i <= Len(s)
    BY <1>1, <2>1, DocumentRange
  <2>2. CASE i > Len(s)
    <3>1. i - Len(s) \in 1 .. Len(t) /\ Len(s) + (i - Len(s)) = i
      BY <2>2
    <3> QED
      BY <1>1, <3>1, DocumentRange
  <2> QED
    BY <2>1, <2>2
<1>3. ASSUME NEW i \in 1 .. Len(s) + Len(t), NEW j \in 1 .. Len(s) + Len(t), (s \o t)[i] = (s \o t)[j]
      PROVE  i = j
  BY <1>2, <1>3 DEF IsInjective
<1>4. ASSUME NEW d \in Range(s) \cup Range(t)
      PROVE  d \in Range(s \o t)
  <2>1. CASE d \in Range(s)
    <3>1. PICK i \in 1 .. Len(s) : s[i] = d
      BY <2>1, DocumentRange
    <3>2. i \in 1 .. Len(s \o t) /\ (s \o t)[i] = d
      BY <1>1, <3>1
    <3> QED
      BY <1>1, <3>2, DocumentRange
  <2>2. CASE d \in Range(t)
    <3>1. PICK i \in 1 .. Len(t) : t[i] = d
      BY <2>2, DocumentRange
    <3>2. Len(s) + i \in 1 .. Len(s \o t) /\ (s \o t)[Len(s) + i] = d
      BY <1>1, <3>1
    <3> QED
      BY <1>1, <3>2, DocumentRange
  <2> QED
    BY <2>1, <2>2
<1> QED
  BY <1>1, <1>3, <1>4, ConcatDocuments DEF IsInjective

\* What becomes document nodeIDX is a document.
LEMMA NewDocument ==
  ASSUME TypeOK, Control, NEW w \in Workers, AddDocument(w)
  PROVE  [id |-> nodeIDX, obj |-> Current(w)] \in Documents
<1>1. pos[w] \in 1 .. Len(Batch(w)) /\ nodeIDX \in Nat
  BY BatchObjects DEF AddDocument, Control, WorkerControl, TypeOK, WorkerTypeOK, SharedTypeOK
<1>2. Current(w) \in Objects
  BY <1>1, BatchObjects DEF Current
<1> QED
  BY <1>1, <1>2 DEF Documents

\* The documents that worker w has accepted and not yet listed.
Held(w) == Range(searchNodes[w])

\* A document that has a number is held by one worker, once, or is listed,
\* once; a worker that is done holds none.
Holdings ==
  /\ IsInjective(allSearchNodes)
  /\ \A w \in Workers : IsInjective(searchNodes[w]) /\ Held(w) \cap Range(allSearchNodes) = {}
  /\ \A v, w \in Workers : v # w => Held(v) \cap Held(w) = {}
  /\ \A doc \in Range(osmData) : doc \in Range(allSearchNodes) \/ \E w \in Workers : doc \in Held(w)
  /\ \A w \in Workers : pc[w] = "done" => searchNodes[w] = <<>>

LEMMA InitHoldings == Init => Holdings
BY DEF Init, Holdings, Held, Range, IsInjective

LEMMA AddDocumentKeepsHoldings ==
  ASSUME TypeOK, Control, DocumentIDs, Holdings, NEW w \in Workers, AddDocument(w)
  PROVE  Holdings'
<1> DEFINE new == [id |-> nodeIDX, obj |-> Current(w)]
<1>1. /\ pc[w] = "add"
      /\ searchNodes' = [searchNodes EXCEPT ![w] = Append(@, new)]
      /\ osmData' = Append(osmData, new)
      /\ pc' = [pc EXCEPT ![w] = IF Len(searchNodes'[w]) = BatchSize THEN "invert" ELSE "next"]
      /\ UNCHANGED <<allSearchNodes, docStore>>
  BY DEF AddDocument, stores
<1>2. new \in Documents
  BY NewDocument
<1>3. /\ osmData \in Seq(Documents) /\ nodeIDX \in Nat
      /\ searchNodes \in [Workers -> Seq(Documents)]
      /\ allSearchNodes \in Seq(Documents)
  BY DEF TypeOK, SharedTypeOK, WorkerTypeOK, StoresTypeOK
<1>4. ~Known(new)
  <2>1. ~Indexed(new)
    BY <1>3 DEF Indexed
  <2> QED
    BY <1>2, <2>1, DocumentIDsKnown
<1> HIDE DEF new
<1>5. /\ searchNodes'[w] = Append(searchNodes[w], new)
      /\ \A v \in Workers \ {w} : searchNodes'[v] = searchNodes[v] /\ Held(v)' = Held(v)
      /\ IsInjective(searchNodes'[w])
      /\ Held(w)' = Held(w) \cup {new}
  <2>1. searchNodes[w] \in Seq(Documents) /\ IsInjective(searchNodes[w]) /\ new \notin Range(searchNodes[w])
    BY <1>3, <1>4 DEF Known, Holdings
  <2>2. searchNodes'[w] = Append(searchNodes[w], new)
    BY <1>1, <1>3
  <2>3. \A v \in Workers \ {w} : searchNodes'[v] = searchNodes[v]
    BY <1>1, <1>3
  <2> QED
    BY <1>2, <2>1, <2>2, <2>3, AppendFresh DEF Held
<1>6. new \notin Range(allSearchNodes) /\ \A v \in Workers : new \notin Held(v)
  BY <1>4 DEF Known, Held
<1>7. \A doc \in Range(osmData') : doc \in Range(osmData) \/ doc = new
  BY <1>1, <1>2, <1>3, AppendRange
<1>8. \A v \in Workers : pc'[v] = "done" => v # w /\ pc[v] = "done"
  BY <1>1 DEF TypeOK, WorkerTypeOK
<1>9. \A u, v \in Workers : u # v => Held(u)' \cap Held(v)' = {}
  BY <1>5, <1>6 DEF Holdings
<1>10. \A v \in Workers : IsInjective(searchNodes'[v]) /\ Held(v)' \cap Range(allSearchNodes)' = {}
  BY <1>1, <1>5, <1>6 DEF Holdings
<1>11. \A doc \in Range(osmData') :
         doc \in Range(allSearchNodes') \/ \E v \in Workers : doc \in Held(v)'
  BY <1>1, <1>5, <1>7 DEF Holdings
<1>12. \A v \in Workers : pc'[v] = "done" => searchNodes'[v] = <<>>
  BY <1>5, <1>8 DEF Holdings
<1> QED
  BY <1>1, <1>9, <1>10, <1>11, <1>12 DEF Holdings

LEMMA AppendNodesKeepsHoldings ==
  ASSUME TypeOK, Holdings, NEW w \in Workers, AppendNodes(w)
  PROVE  Holdings'
<1>1. /\ allSearchNodes' = allSearchNodes \o searchNodes[w]
      /\ searchNodes' = [searchNodes EXCEPT ![w] = <<>>]
      /\ pc' = [pc EXCEPT ![w] = "next"]
      /\ osmData' = osmData
  BY DEF AppendNodes, ListedWithSaved, shared
<1>2. allSearchNodes \in Seq(Documents) /\ searchNodes \in [Workers -> Seq(Documents)]
  BY DEF TypeOK, StoresTypeOK, WorkerTypeOK
<1>3. /\ IsInjective(allSearchNodes')
      /\ Range(allSearchNodes') = Range(allSearchNodes) \cup Held(w)
  BY <1>1, <1>2, ConcatInjective DEF Holdings, Held
<1>4. /\ searchNodes'[w] = <<>> /\ Held(w)' = {}
      /\ \A v \in Workers \ {w} : searchNodes'[v] = searchNodes[v] /\ Held(v)' = Held(v)
  BY <1>1, <1>2 DEF Held, Range
<1>5. IsInjective(<<>>)
  BY DEF IsInjective
<1>6. \A u, v \in Workers : u # v => Held(u)' \cap Held(v)' = {}
  BY <1>4 DEF Holdings
<1>7. \A v \in Workers : IsInjective(searchNodes'[v]) /\ Held(v)' \cap Range(allSearchNodes)' = {}
  BY <1>3, <1>4, <1>5 DEF Holdings
<1>8. \A doc \in Range(osmData') :
         doc \in Range(allSearchNodes') \/ \E v \in Workers : doc \in Held(v)'
  BY <1>1, <1>3, <1>4 DEF Holdings
<1>9. \A v \in Workers : pc'[v] = "done" => searchNodes'[v] = <<>>
  BY <1>1, <1>4 DEF Holdings, TypeOK, WorkerTypeOK
<1> QED
  BY <1>3, <1>6, <1>7, <1>8, <1>9 DEF Holdings

LEMMA OthersKeepHoldings ==
  ASSUME TypeOK, Holdings,
         \/ \E w \in Workers : Worker(w) /\ ~AddDocument(w) /\ ~AppendNodes(w)
         \/ \E c \in Calls : Invert(c)
         \/ OtherStep
  PROVE  Holdings'
<1>1. ASSUME NEW w \in Workers, Worker(w), ~AddDocument(w), ~AppendNodes(w)
      PROVE  /\ UNCHANGED <<osmData, searchNodes, allSearchNodes>>
             /\ \A v \in Workers : pc'[v] = "done" => searchNodes[v] = <<>>
  <2>1. UNCHANGED <<osmData, searchNodes, allSearchNodes>>
    BY <1>1 DEF Worker, WorkerCancelled, SkipUnnamed, CheckWay, CheckNode, StartInvert,
                FinishBatch, ReceiveInvert, SaveDocs, shared, stores
  <2>2. pc'[w] = "done" => searchNodes[w] = <<>>
    <3>1. CASE FinishBatch(w)
      BY <3>1 DEF FinishBatch, LeftOver
    <3>2. \A f \in Fields : AfterInvert(w, f) # "done"
      BY DEF AfterInvert
    <3>3. CASE ~FinishBatch(w)
      BY <1>1, <3>2, <3>3 DEF Worker, WorkerCancelled, SkipUnnamed, CheckWay, CheckNode, StartInvert,
                ReceiveInvert, SaveDocs, MoreObjects, TypeOK, WorkerTypeOK
    <3> QED
      BY <3>1, <3>3
  <2>3. \A v \in Workers \ {w} : pc'[v] = pc[v]
    BY <1>1, WorkerFootprint
  <2> QED
    BY <2>1, <2>2, <2>3 DEF Holdings
<1>2. ASSUME (\E c \in Calls : Invert(c)) \/ OtherStep
      PROVE  /\ UNCHANGED <<osmData, searchNodes, allSearchNodes>>
             /\ \A v \in Workers : pc'[v] = "done" => searchNodes[v] = <<>>
  BY <1>2, CallFootprint, OtherFootprint DEF shared, stores, workerVars, Holdings
<1> QED
  BY <1>1, <1>2 DEF Holdings, Held

LEMMA HoldingsAlways == Spec => []Holdings
<1>1. Init => Holdings
  BY InitHoldings
<1>2. ASSUME TypeOK, Control, DocumentIDs, Holdings, [Next]_vars
      PROVE  Holdings'
  BY <1>2, StepKinds, AddDocumentKeepsHoldings, AppendNodesKeepsHoldings, OthersKeepHoldings
<1> QED
  BY <1>1, <1>2, TypesAndControl, DocumentIDsAlways, PTL DEF Spec

------------------------------------------------------------------------------
(* There is a document ID for every document. *)

\* The place of the i-th object of a batch in the input.
Place(w, i) == <<w[1], w[2] + i>>
Places == ({"ways"} \X (1 .. Len(Ways))) \cup ({"nodes"} \X (1 .. Len(Nodes)))
Passed == {p \in Places : \E w \in Workers : \E i \in 1 .. pos[w] - 1 : p = Place(w, i)}

\* No more documents than objects passed.
BatchProgress ==
  /\ \A w \in Workers : pos[w] <= Len(Batch(w)) + 1
  /\ nodeIDX <= Cardinality(Passed)

LEMMA BatchLength ==
  ASSUME NEW w \in Workers
  PROVE  /\ w[1] \in Sides /\ w[2] \in Nat /\ w[2] % BatchSize = 0 /\ w = <<w[1], w[2]>>
         /\ Len(Batch(w)) \in Nat /\ Len(Batch(w)) <= BatchSize
         /\ w[2] + Len(Batch(w)) <= Len(Input(w[1]))
<1>1. /\ w[1] \in Sides /\ w = <<w[1], w[2]>>
      /\ w[2] \in 0 .. Len(Input(w[1])) - 1 /\ w[2] % BatchSize = 0
  BY DEF Workers
<1>2. Input(w[1]) \in Seq(Objects) /\ Len(Input(w[1])) \in Nat
  BY InputAssumption DEF Input
<1>3. w[2] \in Nat /\ w[2] + 1 <= Len(Input(w[1])) /\ BatchSize \in Nat \ {0}
  BY <1>1, <1>2, BoundAssumption
<1>4. /\ Len(Batch(w)) \in Nat /\ Len(Batch(w)) <= BatchSize
      /\ w[2] + Len(Batch(w)) <= Len(Input(w[1]))
  <2> DEFINE n == IF w[2] + BatchSize > Len(Input(w[1])) THEN Len(Input(w[1])) ELSE w[2] + BatchSize
  <2>1. n \in Nat /\ n <= Len(Input(w[1])) /\ n <= w[2] + BatchSize /\ w[2] + 1 <= n
    BY <1>2, <1>3
  <2>2. Len(SubSeq(Input(w[1]), w[2] + 1, n)) = n - w[2]
    BY <1>2, <1>3, <2>1
  <2>3. Len(Batch(w)) = n - w[2]
    BY <2>2 DEF Batch
  <2> QED
    BY <1>2, <1>3, <2>1, <2>3
<1> QED
  BY <1>1, <1>3, <1>4

\* Batches do not overlap.
LEMMA PlaceUnique ==
  ASSUME NEW v \in Workers, NEW w \in Workers,
         NEW i \in 1 .. Len(Batch(v)), NEW j \in 1 .. Len(Batch(w)), Place(v, i) = Place(w, j)
  PROVE  v = w /\ i = j
<1>1. v[1] = w[1] /\ v[2] + i = w[2] + j
  BY DEF Place
<1>2. v[2] \in Nat /\ w[2] \in Nat /\ i \in 1 .. BatchSize /\ j \in 1 .. BatchSize
      /\ v[2] % BatchSize = 0 /\ w[2] % BatchSize = 0
  BY BatchLength, BoundAssumption
<1>3. \A B \in Nat \ {0} : \A x, y \in Nat : x % B = 0 /\ y % B = 0 /\ x < y => x + B <= y
  <2> TAKE B \in Nat \ {0}
  <2> TAKE x, y \in Nat
  <2>1. SUFFICES ASSUME x % B = 0, y % B = 0, x < y PROVE x + B <= y
    OBVIOUS
  <2>2. x = B * (x \div B) /\ y = B * (y \div B) /\ x \div B \in Int /\ y \div B \in Int
    BY <2>1
  <2>3. \A a, b \in Int : a < b => B * a + B <= B * b
    <3> TAKE a, b \in Int
    <3>1. SUFFICES ASSUME a < b PROVE B * a + B <= B * b
      OBVIOUS
    <3>2. B * b = B * a + B + B * (b - a - 1)
      OBVIOUS
    <3>3. B * (b - a - 1) >= 0
      BY <3>1
    <3> QED
      BY <3>2, <3>3
  <2>4. x \div B < y \div B
    <3>1. \A a, b \in Int : a >= b => B * a >= B * b
      <4> TAKE a, b \in Int
      <4>1. SUFFICES ASSUME a >= b PROVE B * a >= B * b
        OBVIOUS
      <4>2. B * a = B * b + B * (a - b) /\ B * (a - b) >= 0
        BY <4>1
      <4> QED
        BY <4>2
    <3> QED
      BY <2>1, <2>2, <3>1
  <2> QED
    BY <2>2, <2>3, <2>4
<1>4. v[2] = w[2]
  <2>1. ~(v[2] < w[2]) /\ ~(w[2] < v[2])
    BY <1>1, <1>2, <1>3, BoundAssumption
  <2> QED
    BY <1>2, <2>1
<1> QED
  BY <1>1, <1>2, <1>4, BatchLength

LEMMA PlacesCounted ==
  /\ IsFiniteSet(Places)
  /\ Cardinality(Places) = Len(Ways) + Len(Nodes)
<1>1. Len(Ways) \in Nat /\ Len(Nodes) \in Nat
  BY InputAssumption
<1>2. ASSUME NEW side, NEW n \in Nat
      PROVE  IsFiniteSet({side} \X (1 .. n)) /\ Cardinality({side} \X (1 .. n)) = n
  <2>1. /\ IsFiniteSet({side}) /\ Cardinality({side}) = 1
        /\ IsFiniteSet(1 .. n) /\ Cardinality(1 .. n) = n
    BY FirstCount, FS_Singleton
  <2>2. /\ IsFiniteSet({side} \X (1 .. n))
        /\ Cardinality({side} \X (1 .. n)) = Cardinality({side}) * Cardinality(1 .. n)
    BY <2>1, FS_Product
  <2> QED
    BY <2>1, <2>2
<1> DEFINE W == {"ways"} \X (1 .. Len(Ways))
           N == {"nodes"} \X (1 .. Len(Nodes))
<1>3. IsFiniteSet(W) /\ Cardinality(W) = Len(Ways) /\ IsFiniteSet(N) /\ Cardinality(N) = Len(Nodes)
  BY <1>1, <1>2
<1>4. W \cap N = {}
  OBVIOUS
<1>5. Places = W \cup N
  BY DEF Places
<1> HIDE DEF W, N
<1>6. /\ IsFiniteSet(W \cup N)
      /\ Cardinality(W \cup N) = Cardinality(W) + Cardinality(N) - Cardinality(W \cap N)
  BY <1>3, FS_Union
<1>7. Cardinality(W \cap N) = 0
  BY <1>4, FS_EmptySet
<1> QED
  BY <1>1, <1>3, <1>5, <1>6, <1>7

LEMMA PassedCounted == IsFiniteSet(Passed) /\ Cardinality(Passed) <= Len(Ways) + Len(Nodes)
BY PlacesCounted, FS_Subset DEF Passed

LEMMA PassedGrows ==
  ASSUME UNCHANGED nodeIDX, nodeIDX <= Cardinality(Passed), TypeOK, TypeOK',
         \A w \in Workers : pos[w] <= pos'[w]
  PROVE  nodeIDX' <= Cardinality(Passed')
<1>1. Passed \subseteq Passed'
  <2>1. \A w \in Workers : 1 .. pos[w] - 1 \subseteq 1 .. pos'[w] - 1
    BY DEF TypeOK, WorkerTypeOK
  <2> QED
    BY <2>1 DEF Passed
<1>2. IsFiniteSet(Passed') /\ Cardinality(Passed') \in Nat /\ Cardinality(Passed) \in Nat
  <2>1. IsFiniteSet(Passed') /\ IsFiniteSet(Passed)
    BY PlacesCounted, FS_Subset DEF Passed
  <2> QED
    BY <2>1, FS_CardinalityType
<1>3. Cardinality(Passed) <= Cardinality(Passed')
  BY <1>1, <1>2, FS_Subset
<1> QED
  BY <1>2, <1>3 DEF TypeOK, SharedTypeOK

LEMMA AddDocumentKeepsProgress ==
  ASSUME TypeOK, Control, BatchProgress, NEW w \in Workers, AddDocument(w)
  PROVE  BatchProgress'
<1>1. /\ pos' = [pos EXCEPT ![w] = @ + 1] /\ nodeIDX' = nodeIDX + 1
      /\ pos[w] <= Len(Batch(w)) /\ nodeIDX \in Nat /\ pos \in [Workers -> Nat \ {0}]
      /\ pos[w] \in 1 .. Len(Batch(w))
  <2>1. pos' = [pos EXCEPT ![w] = @ + 1] /\ nodeIDX' = nodeIDX + 1 /\ pos[w] <= Len(Batch(w))
    BY DEF AddDocument, NextDocID, Control, WorkerControl
  <2> QED
    BY <2>1, BatchLength DEF TypeOK, SharedTypeOK, WorkerTypeOK
<1> DEFINE new == Place(w, pos[w])
<1>2. pos'[w] = pos[w] + 1 /\ \A v \in Workers \ {w} : pos'[v] = pos[v]
  BY <1>1
<1>3. new \in Places
  <2>1. \/ w[1] = "ways" /\ w[2] + pos[w] \in 1 .. Len(Ways)
        \/ w[1] = "nodes" /\ w[2] + pos[w] \in 1 .. Len(Nodes)
    <3>1. /\ w[1] \in Sides /\ w[2] \in Nat /\ Len(Batch(w)) \in Nat
          /\ w[2] + Len(Batch(w)) <= Len(Input(w[1]))
      BY BatchLength
    <3>2. Len(Ways) \in Nat /\ Len(Nodes) \in Nat
      BY InputAssumption
    <3>3. w[2] + pos[w] \in 1 .. Len(Input(w[1]))
      <4>1. Len(Input(w[1])) \in Nat
        BY <3>2 DEF Input
      <4> QED
        BY <1>1, <3>1, <4>1
    <3> QED
      BY <3>1, <3>3 DEF Sides, Input
  <2> QED
    BY <2>1 DEF Place, Places
<1>4. new \notin Passed
  <2>1. ASSUME NEW v \in Workers, NEW i \in 1 .. pos[v] - 1, Place(v, i) = Place(w, pos[w])
        PROVE  FALSE
    <3>1. i \in 1 .. Len(Batch(v)) /\ i < pos[v]
      BY <1>1, BatchLength DEF BatchProgress
    <3>2. v = w /\ i = pos[w]
      BY <1>1, <2>1, <3>1, PlaceUnique
    <3> QED
      BY <1>1, <3>1, <3>2
  <2> QED
    BY <2>1 DEF Passed
<1>5. Passed \cup {new} \subseteq Passed'
  <2>1. \A v \in Workers : 1 .. pos[v] - 1 \subseteq 1 .. pos'[v] - 1
    BY <1>1, <1>2
  <2>2. pos[w] \in 1 .. pos'[w] - 1
    BY <1>1, <1>2
  <2> QED
    BY <1>3, <2>1, <2>2 DEF Passed
<1> HIDE DEF new
<1>6. IsFiniteSet(Passed) /\ IsFiniteSet(Passed')
  BY PlacesCounted, FS_Subset DEF Passed
<1>7. IsFiniteSet(Passed \cup {new}) /\ Cardinality(Passed \cup {new}) = Cardinality(Passed) + 1
  BY <1>4, <1>6, FS_AddElement
<1>8. Cardinality(Passed \cup {new}) <= Cardinality(Passed')
  BY <1>5, <1>6, FS_Subset
<1>9. Cardinality(Passed) \in Nat /\ Cardinality(Passed') \in Nat
  BY <1>6, FS_CardinalityType
<1>10. nodeIDX' <= Cardinality(Passed')
  BY <1>1, <1>7, <1>8, <1>9 DEF BatchProgress
<1>11. \A v \in Workers : pos'[v] <= Len(Batch(v)) + 1
  BY <1>1, <1>2, BatchLength DEF BatchProgress
<1> QED
  BY <1>10, <1>11 DEF BatchProgress

LEMMA OthersKeepProgress ==
  ASSUME TypeOK, TypeOK', BatchProgress,
         \/ \E w \in Workers : Worker(w) /\ ~AddDocument(w)
         \/ \E c \in Calls : Invert(c)
         \/ OtherStep
  PROVE  BatchProgress'
<1>1. UNCHANGED nodeIDX /\ \A v \in Workers : pos'[v] = pos[v] \/ (pos'[v] = pos[v] + 1 /\ pos[v] <= Len(Batch(v)))
  <2>1. ASSUME NEW w \in Workers, Worker(w), ~AddDocument(w)
        PROVE  /\ UNCHANGED nodeIDX
               /\ pos' = pos \/ (pos' = [pos EXCEPT ![w] = @ + 1] /\ pos[w] <= Len(Batch(w)))
    BY <2>1 DEF Worker, WorkerCancelled, SkipUnnamed, CheckWay, CheckNode, StartInvert,
                FinishBatch, ReceiveInvert, SaveDocs, AppendNodes, shared, MoreObjects
  <2> QED
    BY <2>1, CallFootprint, OtherFootprint DEF workerVars, shared, TypeOK, WorkerTypeOK
<1>2. \A v \in Workers : pos[v] <= pos'[v] /\ pos'[v] <= Len(Batch(v)) + 1
  <2>1. \A v \in Workers : pos[v] \in Nat /\ Len(Batch(v)) \in Nat /\ pos[v] <= Len(Batch(v)) + 1
    BY BatchLength DEF BatchProgress, TypeOK, WorkerTypeOK
  <2> QED
    BY <1>1, <2>1
<1>3. nodeIDX' <= Cardinality(Passed')
  BY <1>1, <1>2, PassedGrows DEF BatchProgress
<1> QED
  BY <1>2, <1>3 DEF BatchProgress

LEMMA BatchProgressAlways == Spec => []BatchProgress
<1>1. Init => BatchProgress
  <2> SUFFICES ASSUME Init PROVE BatchProgress
    OBVIOUS
  <2>1. Cardinality(Passed) \in Nat
    BY PlacesCounted, FS_Subset, FS_CardinalityType DEF Passed
  <2> QED
    BY <2>1, BatchLength DEF Init, BatchProgress
<1>2. ASSUME TypeOK, TypeOK', Control, BatchProgress, [Next]_vars
      PROVE  BatchProgress'
  BY <1>2, StepKinds, AddDocumentKeepsProgress, OthersKeepProgress
<1> QED
  BY <1>1, <1>2, TypesAndControl, TypeCorrect, PTL DEF Spec

\* Every document has its place in docWordCount and in the field lengths.
LEMMA DocumentIDsFit ==
  ASSUME TypeOK, BatchProgress
  PROVE  nodeIDX <= Len(Ways) + Len(Nodes)
<1>1. Cardinality(Passed) \in Nat /\ Cardinality(Passed) <= Len(Ways) + Len(Nodes)
  BY PassedCounted, FS_CardinalityType
<1> QED
  BY <1>1, InputAssumption DEF BatchProgress, TypeOK, SharedTypeOK

LEMMA NewDocumentFits ==
  ASSUME TypeOK, Control, BatchProgress, NEW w \in Workers, AddDocument(w)
  PROVE  nodeIDX \in DocIDs
<1>1. nodeIDX' = nodeIDX + 1 /\ nodeIDX \in Nat
  BY DEF AddDocument, NextDocID, TypeOK, SharedTypeOK
<1>2. nodeIDX' <= Cardinality(Passed')
  BY AddDocumentKeepsProgress DEF BatchProgress
<1>3. Passed' \in SUBSET Places
  BY DEF Passed
<1>4. IsFiniteSet(Passed') /\ Cardinality(Passed') <= Len(Ways) + Len(Nodes)
  BY <1>3, PlacesCounted, FS_Subset
<1>5. Cardinality(Passed') \in Nat
  BY <1>4, FS_CardinalityType
<1>6. Len(Ways) \in Nat /\ Len(Nodes) \in Nat
  BY InputAssumption
<1> QED
  BY <1>1, <1>2, <1>4, <1>5, <1>6 DEF DocIDs

------------------------------------------------------------------------------
(* An object that is passed over is unnamed, indexed or covered by a way. *)

\* The indexed objects and those that are about to be.
Candidates == IndexedObjects \cup Pending

LEMMA ObjectBox ==
  ASSUME NEW o \in Objects
  PROVE  \E i \in DOMAIN LatsOf[o], j \in DOMAIN LatsOf[o], k \in DOMAIN LonsOf[o], l \in DOMAIN LonsOf[o] :
           /\ BoxOf(o).min = <<LatsOf[o][i], LonsOf[o][k]>>
           /\ BoxOf(o).max = <<LatsOf[o][j], LonsOf[o][l]>>
<1> DEFINE values(s) == {s[i] : i \in DOMAIN s}
<1>1. ASSUME NEW s \in Seq(Int) \ {<<>>}
      PROVE  Max(values(s)) \in values(s) /\ Min(values(s)) \in values(s)
  <2>1. DOMAIN s = 1 .. Len(s) /\ Len(s) \in Nat \ {0} /\ \A i \in DOMAIN s : s[i] \in Int
    OBVIOUS
  <2>2. IsFiniteSet(DOMAIN s)
    BY <2>1, FirstCount
  <2>3. IsFiniteSet(values(s))
    <3>1. [i \in DOMAIN s |-> s[i]] \in Surjection(DOMAIN s, values(s))
      BY DEF Surjection
    <3> QED
      BY <2>2, <3>1, FS_Surjection
  <2>4. (\A x \in values(s) : x \in Int) /\ values(s) # {}
    BY <2>1
  <2> HIDE DEF values
  <2> QED
    BY <2>3, <2>4, HasExtremes
<1>2. LatsOf[o] \in Seq(Int) \ {<<>>} /\ LonsOf[o] \in Seq(Int) \ {<<>>}
  BY InputAssumption
<1>3. /\ BoxOf(o).min = <<Min(values(LatsOf[o])), Min(values(LonsOf[o]))>>
      /\ BoxOf(o).max = <<Max(values(LatsOf[o])), Max(values(LonsOf[o]))>>
  BY DEF BoxOf, NewBoundingBox
<1>4. /\ Max(values(LatsOf[o])) \in values(LatsOf[o]) /\ Min(values(LatsOf[o])) \in values(LatsOf[o])
      /\ Max(values(LonsOf[o])) \in values(LonsOf[o]) /\ Min(values(LonsOf[o])) \in values(LonsOf[o])
  BY <1>1, <1>2
<1>5. PICK i \in DOMAIN LatsOf[o] : Min(values(LatsOf[o])) = LatsOf[o][i]
  BY <1>4
<1>6. PICK j \in DOMAIN LatsOf[o] : Max(values(LatsOf[o])) = LatsOf[o][j]
  BY <1>4
<1>7. PICK k \in DOMAIN LonsOf[o] : Min(values(LonsOf[o])) = LonsOf[o][k]
  BY <1>4
<1>8. PICK l \in DOMAIN LonsOf[o] : Max(values(LonsOf[o])) = LonsOf[o][l]
  BY <1>4
<1> HIDE DEF values
<1> QED
  BY <1>3, <1>5, <1>6, <1>7, <1>8

\* Where no latitude reaches a longitude, the corners of a box that are taken
\* for latitudes and longitudes lie in no box.
LEMMA NeverAround ==
  ASSUME LatsBelowLons, NEW o \in Objects, NEW v \in Objects
  PROVE  ~ PointsContains(BoxOf(o), BoxOf(v).min, BoxOf(v).max)
<1>1. PICK k \in DOMAIN LonsOf[o] : BoxOf(o).min[2] = LonsOf[o][k]
  BY ObjectBox
<1>2. PICK j \in DOMAIN LatsOf[v] : BoxOf(v).max[1] = LatsOf[v][j]
  BY ObjectBox
<1>3. DOMAIN BoxOf(v).min = {1, 2}
  BY ObjectBox
<1>4. LatsOf[v][j] < LonsOf[o][k] /\ LatsOf[v][j] \in Int /\ LonsOf[o][k] \in Int
  BY InputAssumption DEF LatsBelowLons
<1>5. ~ (BoxOf(o).min[2] <= BoxOf(v).max[1])
  BY <1>1, <1>2, <1>4
<1> QED
  BY <1>3, <1>5 DEF PointsContains, BoxContains

\* Every registered box is that of a way of its name.
WayBox(n, bb) == \E v \in Candidates \cap Range(Ways) : NameOf[v] = n /\ bb = BoxOf(v)
BoxesKnown == \A n \in Names : \A bb \in nodeBoundingBox[n] : WayBox(n, bb)

Covered(o) ==
  \E v \in Candidates \cap Range(Ways) :
    NameOf[v] = NameOf[o] /\ PointsContains(BoxOf(v), LatsOf[o], LonsOf[o])

Accounted(o) == NameOf[o] = NoName \/ o \in IndexedObjects \/ Covered(o)
PassedAccounted == \A w \in Workers : \A i \in 1 .. Len(Batch(w)) : i < pos[w] => Accounted(Batch(w)[i])

LEMMA BatchAt ==
  ASSUME NEW w \in Workers, NEW i \in 1 .. Len(Batch(w))
  PROVE  /\ Batch(w)[i] = Input(w[1])[w[2] + i]
         /\ w[2] + i \in 1 .. Len(Input(w[1]))
<1>1. /\ w[1] \in Sides /\ w[2] \in Nat /\ Len(Batch(w)) \in Nat
      /\ w[2] + Len(Batch(w)) <= Len(Input(w[1]))
  BY BatchLength
<1>2. Input(w[1]) \in Seq(Objects) /\ Len(Input(w[1])) \in Nat
  BY <1>1, InputAssumption DEF Input
<1> DEFINE n == IF w[2] + BatchSize > Len(Input(w[1])) THEN Len(Input(w[1])) ELSE w[2] + BatchSize
<1>3. n \in Nat /\ n <= Len(Input(w[1]))
  BY <1>1, <1>2, BoundAssumption
<1>4. Batch(w) = SubSeq(Input(w[1]), w[2] + 1, n)
  BY DEF Batch
<1> HIDE DEF n
<1>5. Batch(w)[i] = Input(w[1])[w[2] + i]
  <2>1. ASSUME NEW s \in Seq(Objects), NEW a \in Nat, NEW t, t = SubSeq(s, a + 1, n), n <= Len(s),
               NEW k \in 1 .. Len(t)
        PROVE  t[k] = s[a + k]
    BY <1>3, <2>1
  <2> QED
    BY <1>1, <1>2, <1>3, <1>4, <2>1
<1> QED
  BY <1>1, <1>2, <1>5

LEMMA CurrentObject ==
  ASSUME TypeOK, NEW w \in Workers, pos[w] <= Len(Batch(w))
  PROVE  /\ pos[w] \in 1 .. Len(Batch(w)) /\ Current(w) = Batch(w)[pos[w]]
         /\ Current(w) \in Objects
         /\ NameOf[Current(w)] # NoName => NameOf[Current(w)] \in Names
         /\ w[1] = "ways" => Current(w) \in Range(Ways)
<1>1. pos[w] \in 1 .. Len(Batch(w))
  BY BatchLength DEF TypeOK, WorkerTypeOK
<1>2. Current(w) \in Objects
  BY <1>1, BatchObjects DEF Current
<1>3. ASSUME w[1] = "ways" PROVE Current(w) \in Range(Ways)
  <2>1. Input(w[1]) = Ways
    BY <1>3 DEF Input
  <2>2. Current(w) = Ways[w[2] + pos[w]] /\ w[2] + pos[w] \in DOMAIN Ways
    BY <1>1, <2>1, BatchAt DEF Current
  <2> QED
    BY <2>2 DEF Range
<1> QED
  BY <1>1, <1>2, <1>3, InputAssumption DEF Current

LEMMA StillAccounted ==
  ASSUME Candidates \subseteq Candidates', IndexedObjects \subseteq IndexedObjects', NEW o, Accounted(o)
  PROVE  Accounted(o)'
BY DEF Accounted, Covered

LEMMA AddDocumentCandidates ==
  ASSUME TypeOK, Control, NEW w \in Workers, AddDocument(w)
  PROVE  /\ IndexedObjects' = IndexedObjects \cup {Current(w)}
         /\ Candidates \subseteq Candidates'
<1> DEFINE new == [id |-> nodeIDX, obj |-> Current(w)]
<1>1. /\ osmData' = Append(osmData, new) /\ osmData \in Seq(Documents) /\ new \in Documents
      /\ pos' = [pos EXCEPT ![w] = @ + 1]
      /\ \A v \in Workers \ {w} : pc'[v] = pc[v]
  BY NewDocument DEF AddDocument, TypeOK, SharedTypeOK, WorkerTypeOK
<1> HIDE DEF new
<1>2. /\ Len(osmData) \in Nat /\ Len(osmData') = Len(osmData) + 1
      /\ osmData'[Len(osmData) + 1] = new
      /\ \A i \in 1 .. Len(osmData) : osmData'[i] = osmData[i]
  BY <1>1
<1>3. 1 .. Len(osmData') = 1 .. Len(osmData) \cup {Len(osmData) + 1}
  BY <1>2
<1>4. new.obj = Current(w)
  BY DEF new
<1>5. IndexedObjects' = IndexedObjects \cup {Current(w)}
  BY <1>2, <1>3, <1>4 DEF IndexedObjects
<1>6. ASSUME NEW v \in Workers, pc[v] = "add"
      PROVE  Current(v) \in Candidates'
  <2>1. CASE v = w
    BY <1>5, <2>1 DEF Candidates
  <2>2. CASE v # w
    <3>1. pc'[v] = "add" /\ pos'[v] = pos[v]
      BY <1>1, <1>6, <2>2
    <3>2. Current(v)' = Current(v)
      BY <3>1 DEF Current
    <3> QED
      BY <3>1, <3>2 DEF Candidates, Pending
  <2> QED
    BY <2>1, <2>2
<1> QED
  BY <1>5, <1>6 DEF Candidates, Pending

LEMMA OtherCandidates ==
  ASSUME TypeOK, TypeOK',
         \/ \E w \in Workers : Worker(w) /\ ~ AddDocument(w)
         \/ \E c \in Calls : Invert(c)
         \/ OtherStep
  PROVE  /\ IndexedObjects' = IndexedObjects
         /\ Candidates \subseteq Candidates'
<1>1. /\ osmData' = osmData
      /\ \A v \in Workers : pc[v] = "add" => pc'[v] = "add" /\ pos'[v] = pos[v]
  <2>1. ASSUME NEW w \in Workers, Worker(w), ~ AddDocument(w)
        PROVE  osmData' = osmData /\ pc[w] # "add"
    BY <2>1 DEF Worker, WorkerCancelled, SkipUnnamed, CheckWay, CheckNode, StartInvert,
                FinishBatch, ReceiveInvert, SaveDocs, AppendNodes, shared, MoreObjects, BatchRead
  <2> QED
    BY <2>1, WorkerFootprint, CallFootprint, OtherFootprint DEF workerVars, shared
<1>2. IndexedObjects' = IndexedObjects
  BY <1>1 DEF IndexedObjects
<1>3. Pending \subseteq Pending'
  <2>1. ASSUME NEW v \in Workers, pc[v] = "add"
        PROVE  pc'[v] = "add" /\ Current(v)' = Current(v)
    BY <1>1, <2>1 DEF Current
  <2> QED
    BY <2>1 DEF Pending
<1> QED
  BY <1>2, <1>3 DEF Candidates

\* The boxes registered stay known as long as each new one is a candidate's.
LEMMA BoxesStayKnown ==
  ASSUME TypeOK, BoxesKnown, Candidates \subseteq Candidates',
         \/ UNCHANGED nodeBoundingBox
         \/ \E o \in Candidates' \cap Range(Ways) :
              nodeBoundingBox' = [nodeBoundingBox EXCEPT ![NameOf[o]] = {BoxOf(o)}]
  PROVE  BoxesKnown'
<1>1. ASSUME NEW n, NEW bb, WayBox(n, bb) PROVE WayBox(n, bb)'
  BY <1>1 DEF WayBox
<1>2. CASE UNCHANGED nodeBoundingBox
  BY <1>1, <1>2 DEF BoxesKnown
<1>3. ASSUME NEW o \in Candidates' \cap Range(Ways),
             nodeBoundingBox' = [nodeBoundingBox EXCEPT ![NameOf[o]] = {BoxOf(o)}]
      PROVE  BoxesKnown'
  <2>1. WayBox(NameOf[o], BoxOf(o))'
    BY DEF WayBox
  <2>2. ASSUME NEW n \in Names, NEW bb \in nodeBoundingBox'[n]
        PROVE  WayBox(n, bb)'
    <3>2. nodeBoundingBox'[n] = IF n = NameOf[o] THEN {BoxOf(o)} ELSE nodeBoundingBox[n]
      BY <1>3 DEF TypeOK, SharedTypeOK
    <3>3. CASE n = NameOf[o]
      BY <2>1, <2>2, <3>2, <3>3
    <3>4. CASE n # NameOf[o]
      BY <1>1, <2>2, <3>2, <3>4 DEF BoxesKnown
    <3> QED
      BY <3>3, <3>4
  <2> QED
    BY <2>2 DEF BoxesKnown
<1> QED
  BY <1>2, <1>3

\* A box that holds an object covers it.
LEMMA HeldIsCovered ==
  ASSUME BoxesKnown, NEW o, NameOf[o] \in Names, InPrevious(o)
  PROVE  Covered(o)
BY DEF BoxesKnown, WayBox, InPrevious, PreviousBoxes, Covered

LEMMA PassedStayAccounted ==
  ASSUME TypeOK, PassedAccounted, Candidates \subseteq Candidates', IndexedObjects \subseteq IndexedObjects',
         NEW w \in Workers, NEW o, o = Current(w),
         pos' = pos \/ (pos' = [pos EXCEPT ![w] = @ + 1] /\ Accounted(o)')
  PROVE  PassedAccounted'
<1>1. pos \in [Workers -> Nat \ {0}]
  BY DEF TypeOK, WorkerTypeOK
<1>2. ASSUME NEW v \in Workers, NEW i \in 1 .. Len(Batch(v)), i < pos'[v], NEW x, x = Batch(v)[i]
      PROVE  Accounted(x)'
  <2>1. CASE i < pos[v]
    <3>1. Accounted(x)
      BY <1>2, <2>1 DEF PassedAccounted
    <3> QED
      BY <3>1, StillAccounted
  <2>2. CASE ~ (i < pos[v])
    <3>1. v = w /\ i = pos[w] /\ Accounted(o)'
      BY <1>1, <1>2, <2>2, BatchLength
    <3> QED
      BY <1>2, <3>1 DEF Current
  <2> QED
    BY <2>1, <2>2
<1> QED
  BY <1>2 DEF PassedAccounted

LEMMA AddDocumentKeepsCovered ==
  ASSUME TypeOK, Control, BoxesKnown, PassedAccounted, NEW w \in Workers, AddDocument(w)
  PROVE  BoxesKnown' /\ PassedAccounted'
<1>1. IndexedObjects' = IndexedObjects \cup {Current(w)} /\ Candidates \subseteq Candidates'
  BY AddDocumentCandidates
<1>2. PICK o : o = Current(w)
  OBVIOUS
<1>3. pos[w] <= Len(Batch(w))
  BY DEF AddDocument, Control, WorkerControl
<1>4. w[1] = "ways" => o \in Range(Ways)
  BY <1>2, <1>3, CurrentObject
<1>5. o \in IndexedObjects' /\ o \in Candidates'
  BY <1>1, <1>2 DEF Candidates
<1>6. BoxesKnown'
  <2>1. \/ UNCHANGED nodeBoundingBox
        \/ /\ w[1] = "ways"
           /\ nodeBoundingBox' = [nodeBoundingBox EXCEPT ![NameOf[o]] = {BoxOf(o)}]
    BY <1>2 DEF AddDocument
  <2> QED
    BY <1>1, <1>4, <1>5, <2>1, BoxesStayKnown
<1>7. Accounted(o)'
  BY <1>5 DEF Accounted
<1>8. pos' = [pos EXCEPT ![w] = @ + 1]
  BY DEF AddDocument
<1> QED
  BY <1>1, <1>2, <1>6, <1>7, <1>8, PassedStayAccounted

LEMMA CheckWayKeepsCovered ==
  ASSUME LatsBelowLons, TypeOK, TypeOK', BoxesKnown, PassedAccounted, NEW w \in Workers, CheckWay(w)
  PROVE  BoxesKnown' /\ PassedAccounted'
<1>1. ~ AddDocument(w) /\ pos[w] <= Len(Batch(w))
  BY DEF CheckWay, AddDocument, MoreObjects
<1>2. IndexedObjects' = IndexedObjects /\ Candidates \subseteq Candidates'
  BY <1>1, OtherCandidates DEF Worker
<1>3. PICK o : o = Current(w)
  OBVIOUS
<1>4. o \in Objects /\ NameOf[o] \in Names /\ o \in Range(Ways)
  BY <1>1, <1>3, CurrentObject DEF CheckWay
<1>5. ~ AroundPrevious(o)
  <2>1. ASSUME NEW bb \in PreviousBoxes(o)
        PROVE  ~ PointsContains(BoxOf(o), bb.min, bb.max)
    <3>1. PICK v \in Range(Ways) : bb = BoxOf(v)
      BY <1>4 DEF BoxesKnown, WayBox, PreviousBoxes
    <3>2. v \in Objects
      BY InputAssumption DEF Range
    <3> QED
      BY <1>4, <3>1, <3>2, NeverAround
  <2> QED
    BY <2>1 DEF AroundPrevious
<1>6. CASE InPrevious(o)
  <2>1. nodeBoundingBox' = nodeBoundingBox /\ pos' = [pos EXCEPT ![w] = @ + 1]
    BY <1>3, <1>6 DEF CheckWay
  <2>2. Accounted(o)
    BY <1>4, <1>6, HeldIsCovered DEF Accounted
  <2>3. Accounted(o)'
    BY <1>2, <2>2, StillAccounted
  <2>4. BoxesKnown'
    BY <1>2, <2>1, BoxesStayKnown
  <2> QED
    BY <1>2, <1>3, <2>1, <2>3, <2>4, PassedStayAccounted
<1>7. CASE ~ InPrevious(o)
  <2>1. /\ pos' = pos /\ pc' = [pc EXCEPT ![w] = "add"]
        /\ \/ UNCHANGED nodeBoundingBox
           \/ nodeBoundingBox' = [nodeBoundingBox EXCEPT ![NameOf[o]] = {BoxOf(o)}]
    BY <1>3, <1>5, <1>7 DEF CheckWay
  <2>2. pc'[w] = "add" /\ Current(w)' = o
    BY <1>3, <2>1 DEF Current, TypeOK, WorkerTypeOK
  <2>3. o \in Candidates'
    BY <2>2 DEF Candidates, Pending
  <2>4. BoxesKnown'
    BY <1>2, <1>4, <2>1, <2>3, BoxesStayKnown
  <2> QED
    BY <1>2, <1>3, <2>1, <2>4, PassedStayAccounted
<1> QED
  BY <1>6, <1>7

\* A worker that passes over an object without registering a box: it is unnamed,
\* or it is a node in the box of a way.
LEMMA PassingKeepsCovered ==
  ASSUME TypeOK, TypeOK', BoxesKnown, PassedAccounted, NEW w \in Workers, SkipUnnamed(w) \/ CheckNode(w)
  PROVE  BoxesKnown' /\ PassedAccounted'
<1>1. ~ AddDocument(w) /\ pos[w] <= Len(Batch(w)) /\ UNCHANGED nodeBoundingBox
  BY DEF SkipUnnamed, CheckNode, AddDocument, MoreObjects, shared
<1>2. IndexedObjects' = IndexedObjects /\ Candidates \subseteq Candidates'
  BY <1>1, OtherCandidates DEF Worker
<1>3. PICK o : o = Current(w)
  OBVIOUS
<1>4. NameOf[o] # NoName => NameOf[o] \in Names
  BY <1>1, <1>3, CurrentObject
<1>5. \/ UNCHANGED pos
      \/ pos' = [pos EXCEPT ![w] = @ + 1] /\ (NameOf[o] = NoName \/ InPrevious(o))
  BY <1>3 DEF SkipUnnamed, CheckNode
<1>6. NameOf[o] = NoName \/ InPrevious(o) => Accounted(o)'
  BY <1>2, <1>4, HeldIsCovered, StillAccounted DEF Accounted
<1>7. BoxesKnown'
  BY <1>1, <1>2, BoxesStayKnown
<1> QED
  BY <1>2, <1>3, <1>5, <1>6, <1>7, PassedStayAccounted

\* Nobody else looks at the next object or registers a box.
LEMMA OthersKeepCovered ==
  ASSUME TypeOK, TypeOK', BoxesKnown, PassedAccounted,
         \/ \E w \in Workers : /\ Worker(w)
                               /\ ~ (AddDocument(w) \/ CheckWay(w) \/ SkipUnnamed(w) \/ CheckNode(w))
         \/ \E c \in Calls : Invert(c)
         \/ OtherStep
  PROVE  BoxesKnown' /\ PassedAccounted'
<1>1. IndexedObjects' = IndexedObjects /\ Candidates \subseteq Candidates'
  BY OtherCandidates
<1>2. UNCHANGED <<pos, nodeBoundingBox>>
  <2>1. ASSUME NEW w \in Workers, Worker(w),
               ~ (AddDocument(w) \/ CheckWay(w) \/ SkipUnnamed(w) \/ CheckNode(w))
        PROVE  UNCHANGED <<pos, nodeBoundingBox>>
    BY <2>1 DEF Worker, WorkerCancelled, StartInvert, FinishBatch, ReceiveInvert, SaveDocs,
                AppendNodes, shared
  <2> QED
    BY <2>1, CallFootprint, OtherFootprint DEF workerVars, shared
<1>3. BoxesKnown'
  BY <1>1, <1>2, BoxesStayKnown
<1>4. PassedAccounted'
  <2>1. ASSUME NEW o, Accounted(o) PROVE Accounted(o)'
    BY <1>1, <2>1, StillAccounted
  <2>2. ASSUME NEW v \in Workers, NEW i \in 1 .. Len(Batch(v)), i < pos'[v], NEW x, x = Batch(v)[i]
        PROVE  Accounted(x)'
    BY <1>2, <2>1, <2>2 DEF PassedAccounted
  <2> QED
    BY <2>2 DEF PassedAccounted
<1> QED
  BY <1>3, <1>4

CoveredSoFar == LatsBelowLons => BoxesKnown /\ PassedAccounted

LEMMA CoveredSoFarAlways == Spec => []CoveredSoFar
<1>1. Init => CoveredSoFar
  BY DEF Init, CoveredSoFar, BoxesKnown, PassedAccounted
<1>2. ASSUME TypeOK, TypeOK', Control, CoveredSoFar, [Next]_vars
      PROVE  CoveredSoFar'
  <2>1. CASE LatsBelowLons
    <3>1. BoxesKnown /\ PassedAccounted
      BY <1>2, <2>1 DEF CoveredSoFar
    <3>2. BoxesKnown' /\ PassedAccounted'
      BY <1>2, <2>1, <3>1, StepKinds, AddDocumentKeepsCovered, CheckWayKeepsCovered,
         PassingKeepsCovered, OthersKeepCovered
    <3> QED
      BY <3>2 DEF CoveredSoFar
  <2>2. CASE ~ LatsBelowLons
    BY <2>2 DEF CoveredSoFar, LatsBelowLons
  <2> QED
    BY <2>1, <2>2
<1> QED
  BY <1>1, <1>2, TypesAndControl, TypeCorrect, PTL DEF Spec

\* An object that is about to be indexed has not been passed over.
LEMMA PendingNotPassed ==
  ASSUME TypeOK, Control, NEW w \in Workers, NEW i \in 1 .. Len(Batch(w)), i < pos[w],
         Batch(w)[i] \in Range(Ways)
  PROVE  Batch(w)[i] \notin Pending
<1> SUFFICES ASSUME NEW u \in Workers, pc[u] = "add", Current(u) = Batch(w)[i] PROVE FALSE
  BY DEF Pending
<1>1. pos[u] \in 1 .. Len(Batch(u)) /\ Current(u) = Batch(u)[pos[u]]
  BY CurrentObject DEF Control, WorkerControl
<1>2. PICK j \in 1 .. Len(Batch(u)) : j = pos[u]
  BY <1>1
<1>3. \A v \in Workers : \A k \in 1 .. Len(Batch(v)) :
        /\ Batch(v)[k] = Input(v[1])[v[2] + k]
        /\ v[2] + k \in 1 .. Len(Input(v[1]))
        /\ v[1] \in Sides
  BY BatchAt, BatchLength
<1>4. ASSUME NEW v \in Workers, NEW k \in 1 .. Len(Batch(v)), Batch(v)[k] \in Range(Ways)
      PROVE  v[1] = "ways" /\ Batch(v)[k] = Ways[v[2] + k] /\ v[2] + k \in DOMAIN Ways
  <2>1. v[1] # "ways" => Batch(v)[k] \in Range(Nodes)
    <3>1. SUFFICES ASSUME v[1] # "ways" PROVE Batch(v)[k] \in Range(Nodes)
      OBVIOUS
    <3>2. Input(v[1]) = Nodes
      BY <3>1 DEF Input
    <3>3. Batch(v)[k] = Nodes[v[2] + k] /\ v[2] + k \in 1 .. Len(Nodes)
      BY <1>3, <3>2
    <3>4. v[2] + k \in DOMAIN Nodes
      BY <3>3, InputAssumption
    <3> QED
      BY <3>3, <3>4 DEF Range
  <2>2. v[1] = "ways"
    BY <1>4, <2>1, InputAssumption
  <2>3. Input(v[1]) = Ways
    BY <2>2 DEF Input
  <2>4. Batch(v)[k] = Ways[v[2] + k] /\ v[2] + k \in 1 .. Len(Ways)
    BY <1>3, <2>3
  <2> QED
    BY <2>2, <2>4, InputAssumption
<1>5. Ways[u[2] + j] = Ways[w[2] + i] /\ u[1] = w[1]
      /\ u[2] + j \in DOMAIN Ways /\ w[2] + i \in DOMAIN Ways
  BY <1>1, <1>2, <1>4
<1>6. u[2] + j = w[2] + i
  BY <1>5, InputAssumption DEF IsInjective
<1>7. u = w /\ i = j
  BY <1>5, <1>6, PlaceUnique DEF Place
<1> QED
  BY <1>2, <1>7

\* An object is dropped as a duplicate only for a way of the same name whose box
\* holds it and which is indexed, or is about to be (IsWayDuplicateCheck,
\* IsNodeDuplicateCheck), whatever the batches and their interleaving: as long
\* as no latitude reaches a longitude.
THEOREM DroppedIsCoveredAlways == Spec => []DroppedIsCovered
<1>1. ASSUME TypeOK, Control, BatchProgress, CoveredSoFar
      PROVE  DroppedIsCovered
  <2> SUFFICES ASSUME LatsBelowLons, NEW w \in Workers, NEW o \in PassedOver(w) \ IndexedObjects,
                      NameOf[o] # NoName
               PROVE  \E v \in (IndexedObjects \cup Pending) \cap Range(Ways) :
                        /\ v # o
                        /\ NameOf[v] = NameOf[o]
                        /\ PointsContains(BoxOf(v), LatsOf[o], LonsOf[o])
    BY DEF DroppedIsCovered
  <2>1. PICK i \in 1 .. Len(Batch(w)) : i < pos[w] /\ o = Batch(w)[i]
    <3>1. pos[w] \in Nat \ {0} /\ Len(Batch(w)) \in Nat /\ pos[w] <= Len(Batch(w)) + 1
      BY <1>1, BatchLength DEF BatchProgress, TypeOK, WorkerTypeOK
    <3>2. PICK i \in 1 .. (IF pos[w] > Len(Batch(w)) THEN Len(Batch(w)) ELSE pos[w] - 1) : o = Batch(w)[i]
      BY DEF PassedOver
    <3> QED
      BY <3>1, <3>2
  <2>2. Covered(o)
    BY <1>1, <2>1 DEF CoveredSoFar, PassedAccounted, Accounted
  <2>3. PICK v \in Candidates \cap Range(Ways) :
          NameOf[v] = NameOf[o] /\ PointsContains(BoxOf(v), LatsOf[o], LonsOf[o])
    BY <2>2 DEF Covered
  <2>4. v # o
    BY <1>1, <2>1, <2>3, PendingNotPassed DEF Candidates
  <2> QED
    BY <2>3, <2>4 DEF Candidates
<1> QED
  BY <1>1, TypesAndControl, BatchProgressAlways, CoveredSoFarAlways, PTL

------------------------------------------------------------------------------
(* How many words a list of documents has. *)

DocWords(s, f) == [i \in 1 .. Len(s) |-> WordsIn(s[i], f)]
WordsUpTo(s, f, n) == SumFunctionOnSet(DocWords(s, f), 1 .. n)

LEMMA WordsUpToType ==
  ASSUME NEW s \in Seq(Documents), NEW f \in Fields, NEW n \in 0 .. Len(s)
  PROVE  WordsUpTo(s, f, n) \in Nat
<1>1. \A i \in 1 .. Len(s) : DocWords(s, f)[i] \in Nat
  BY WordsNat DEF DocWords
<1>2. IsFiniteSet(1 .. n) /\ \A i \in 1 .. n : DocWords(s, f)[i] \in Nat
  BY <1>1, FS_Interval
<1> QED
  BY <1>2, SumType DEF WordsUpTo

LEMMA WordsUpToNone ==
  ASSUME NEW s, NEW f
  PROVE  WordsUpTo(s, f, 0) = 0
<1>1. 1 .. 0 = {}
  OBVIOUS
<1> QED
  BY <1>1, SumOfNone DEF WordsUpTo

LEMMA WordsUpToNext ==
  ASSUME NEW s \in Seq(Documents), NEW f \in Fields, NEW n \in 0 .. Len(s) - 1
  PROVE  WordsUpTo(s, f, n + 1) = WordsUpTo(s, f, n) + WordsIn(s[n + 1], f)
<1>1. \A i \in 1 .. Len(s) : DocWords(s, f)[i] \in Nat
  BY WordsNat DEF DocWords
<1>2. n \in Nat /\ \A i \in 1 .. n + 1 : DocWords(s, f)[i] \in Nat
  BY <1>1
<1>3. DocWords(s, f)[n + 1] = WordsIn(s[n + 1], f)
  BY DEF DocWords
<1> HIDE DEF DocWords
<1> QED
  BY <1>2, <1>3, SumNext DEF WordsUpTo

LEMMA WordsUpToGrow ==
  ASSUME NEW s \in Seq(Documents), NEW f \in Fields, NEW n \in 0 .. Len(s), NEW m \in 0 .. n
  PROVE  WordsUpTo(s, f, m) <= WordsUpTo(s, f, n)
<1>1. \A i \in 1 .. Len(s) : DocWords(s, f)[i] \in Nat
  BY WordsNat DEF DocWords
<1>2. n \in Nat /\ \A i \in 1 .. n : DocWords(s, f)[i] \in Nat
  BY <1>1
<1> QED
  BY <1>2, SumMonotonic DEF WordsUpTo

LEMMA WordsUpToAppend ==
  ASSUME NEW s \in Seq(Documents), NEW f \in Fields, NEW doc \in Documents
  PROVE  WordsUpTo(Append(s, doc), f, Len(s) + 1) = WordsUpTo(s, f, Len(s)) + WordsIn(doc, f)
<1> DEFINE t == Append(s, doc)
<1>1. /\ t \in Seq(Documents) /\ Len(t) = Len(s) + 1 /\ t[Len(s) + 1] = doc
      /\ \A i \in 1 .. Len(s) : t[i] = s[i]
  OBVIOUS
<1> HIDE DEF t
<1>2. WordsUpTo(t, f, Len(s) + 1) = WordsUpTo(t, f, Len(s)) + WordsIn(doc, f)
  <2>1. Len(s) \in 0 .. Len(t) - 1
    BY <1>1
  <2> QED
    BY <1>1, <2>1, WordsUpToNext
<1>3. WordsUpTo(t, f, Len(s)) = WordsUpTo(s, f, Len(s))
  <2>1. IsFiniteSet(1 .. Len(s)) /\ \A i \in 1 .. Len(s) : DocWords(t, f)[i] = DocWords(s, f)[i]
    BY <1>1, FS_Interval DEF DocWords
  <2> QED
    BY <2>1, SumSame DEF WordsUpTo
<1> QED
  BY <1>2, <1>3 DEF t

\* The sums of the model.
LEMMA WordsBeforeIs ==
  ASSUME TypeOK, NEW c \in Calls, NEW i \in 1 .. Len(InputOf(c)) + 1
  PROVE  WordsBefore(c, i) = WordsUpTo(InputOf(c), c[2], i - 1)
<1> DEFINE words == [j \in 1 .. i - 1 |-> WordsIn(InputOf(c)[j], c[2])]
<1>1. InputOf(c) \in Seq(Documents)
  BY CallParts DEF InputOf, TypeOK, WorkerTypeOK
<1>2. DOMAIN words = 1 .. i - 1
  OBVIOUS
<1>3. /\ IsFiniteSet(1 .. i - 1)
      /\ \A j \in 1 .. i - 1 : words[j] = DocWords(InputOf(c), c[2])[j]
  <2>1. i - 1 \in Int /\ Len(InputOf(c)) \in Int /\ i - 1 <= Len(InputOf(c))
    BY <1>1
  <2>2. IsFiniteSet(1 .. i - 1) /\ 1 .. i - 1 \subseteq 1 .. Len(InputOf(c))
    BY <2>1, FirstNumbers
  <2> QED
    BY <2>2 DEF DocWords
<1>4. WordsBefore(c, i) = SumFunctionOnSet(words, 1 .. i - 1)
  BY <1>2 DEF WordsBefore, SumFunction
<1> HIDE DEF words
<1> QED
  BY <1>3, <1>4, SumSame DEF WordsUpTo

\* The objects that worker w has passed.
BatchWords(w, f) == [i \in DOMAIN Batch(w) |-> WordsOf[Batch(w)[i]][f]]
WordsPassed(w, f) == SumFunctionOnSet(BatchWords(w, f), 1 .. pos[w] - 1)
WordsHeld(w, f) == WordsUpTo(searchNodes[w], f, Len(searchNodes[w]))

LEMMA BatchWordsNat ==
  ASSUME NEW w \in Workers, NEW f \in Fields
  PROVE  /\ DOMAIN BatchWords(w, f) = 1 .. Len(Batch(w))
         /\ \A i \in 1 .. Len(Batch(w)) : /\ BatchWords(w, f)[i] = WordsOf[Batch(w)[i]][f]
                                          /\ BatchWords(w, f)[i] \in Nat
<1>1. Batch(w) \in Seq(Objects)
  BY BatchObjects
<1>2. ASSUME NEW o \in Objects
      PROVE  WordsOf[o][f] \in Nat
  BY InputAssumption
<1>3. DOMAIN Batch(w) = 1 .. Len(Batch(w)) /\ \A i \in 1 .. Len(Batch(w)) : Batch(w)[i] \in Objects
  BY <1>1
<1> QED
  BY <1>2, <1>3 DEF BatchWords

LEMMA PassedWordsGrow ==
  ASSUME NEW w \in Workers, NEW f \in Fields, NEW n \in 0 .. Len(Batch(w)), NEW m \in 0 .. n
  PROVE  SumFunctionOnSet(BatchWords(w, f), 1 .. m) <= SumFunctionOnSet(BatchWords(w, f), 1 .. n)
<1>1. n \in Nat /\ \A i \in 1 .. n : BatchWords(w, f)[i] \in Nat
  BY BatchWordsNat, BatchLength
<1> QED
  BY <1>1, SumMonotonic

\* The documents a worker holds have no more words than the objects it has passed.
BatchFits == \A w \in Workers, f \in Fields : WordsHeld(w, f) <= WordsPassed(w, f)

LEMMA WordsTypes ==
  ASSUME TypeOK, BatchProgress, NEW w \in Workers, NEW f \in Fields
  PROVE  WordsHeld(w, f) \in Nat /\ WordsPassed(w, f) \in Nat
<1>1. searchNodes[w] \in Seq(Documents) /\ Len(searchNodes[w]) \in 0 .. Len(searchNodes[w])
  BY DEF TypeOK, WorkerTypeOK
<1>2. IsFiniteSet(1 .. pos[w] - 1) /\ \A i \in 1 .. pos[w] - 1 : BatchWords(w, f)[i] \in Nat
  <2>1. pos[w] - 1 \in Int /\ Len(Batch(w)) \in Int /\ pos[w] - 1 <= Len(Batch(w))
    BY BatchLength DEF BatchProgress, TypeOK, WorkerTypeOK
  <2>2. IsFiniteSet(1 .. pos[w] - 1) /\ 1 .. pos[w] - 1 \subseteq 1 .. Len(Batch(w))
    BY <2>1, FirstNumbers
  <2> QED
    BY <2>2, BatchWordsNat
<1> QED
  BY <1>1, <1>2, WordsUpToType, SumType DEF WordsHeld, WordsPassed

LEMMA AddDocumentKeepsFit ==
  ASSUME TypeOK, Control, BatchProgress, BatchFits, NEW w \in Workers, AddDocument(w)
  PROVE  BatchFits'
<1> DEFINE doc == [id |-> nodeIDX, obj |-> Current(w)]
<1>1. /\ searchNodes' = [searchNodes EXCEPT ![w] = Append(@, doc)]
      /\ pos' = [pos EXCEPT ![w] = @ + 1]
      /\ pos[w] \in 1 .. Len(Batch(w))
  BY BatchLength DEF AddDocument, Control, WorkerControl, TypeOK, WorkerTypeOK
<1>2. doc \in Documents
  BY NewDocument
<1>3. /\ searchNodes \in [Workers -> Seq(Documents)]
      /\ pos \in [Workers -> Nat \ {0}]
  BY DEF TypeOK, WorkerTypeOK
<1>4. ASSUME NEW f \in Fields
      PROVE  WordsIn(doc, f) = BatchWords(w, f)[pos[w]]
  BY <1>1, BatchWordsNat DEF WordsIn, Current
<1> HIDE DEF doc
<1>5. ASSUME NEW f \in Fields
      PROVE  WordsHeld(w, f)' = WordsHeld(w, f) + WordsIn(doc, f)
  <2>1. searchNodes[w] \in Seq(Documents) /\ searchNodes'[w] = Append(searchNodes[w], doc)
    BY <1>1, <1>3
  <2>2. Len(searchNodes'[w]) = Len(searchNodes[w]) + 1
    BY <1>2, <2>1
  <2> QED
    BY <1>2, <2>1, <2>2, WordsUpToAppend DEF WordsHeld
<1>6. ASSUME NEW f \in Fields
      PROVE  WordsPassed(w, f)' = WordsPassed(w, f) + BatchWords(w, f)[pos[w]]
  <2>1. pos'[w] - 1 = (pos[w] - 1) + 1 /\ pos[w] - 1 \in Nat
    BY <1>1, <1>3
  <2>2. \A i \in 1 .. (pos[w] - 1) + 1 : BatchWords(w, f)[i] \in Nat
    BY <1>1, BatchWordsNat, BatchLength
  <2>3. SumFunctionOnSet(BatchWords(w, f), 1 .. (pos[w] - 1) + 1)
          = SumFunctionOnSet(BatchWords(w, f), 1 .. pos[w] - 1) + BatchWords(w, f)[(pos[w] - 1) + 1]
    BY <2>1, <2>2, SumNext
  <2>4. (pos[w] - 1) + 1 = pos[w]
    BY <1>1
  <2> QED
    BY <2>1, <2>3, <2>4 DEF WordsPassed
<1>7. ASSUME NEW f \in Fields
      PROVE  WordsHeld(w, f)' <= WordsPassed(w, f)'
  <2>1. WordsHeld(w, f) <= WordsPassed(w, f) /\ WordsHeld(w, f) \in Nat /\ WordsPassed(w, f) \in Nat
    BY WordsTypes DEF BatchFits
  <2>2. BatchWords(w, f)[pos[w]] \in Nat
    BY <1>1, BatchWordsNat
  <2> QED
    BY <1>4, <1>5, <1>6, <2>1, <2>2
<1>8. ASSUME NEW v \in Workers \ {w}, NEW f \in Fields
      PROVE  WordsHeld(v, f)' <= WordsPassed(v, f)'
  <2>1. searchNodes'[v] = searchNodes[v] /\ pos'[v] = pos[v]
    BY <1>1, <1>3
  <2> QED
    BY <2>1 DEF BatchFits, WordsHeld, WordsPassed
<1> QED
  BY <1>7, <1>8 DEF BatchFits

LEMMA OthersKeepFit ==
  ASSUME TypeOK, TypeOK', BatchProgress, BatchProgress', BatchFits,
         \/ \E w \in Workers : Worker(w) /\ ~AddDocument(w)
         \/ \E c \in Calls : Invert(c)
         \/ OtherStep
  PROVE  BatchFits'
<1>1. \A v \in Workers : /\ pos'[v] = pos[v] \/ pos'[v] = pos[v] + 1
                         /\ searchNodes'[v] = searchNodes[v] \/ searchNodes'[v] = <<>>
  <2>1. ASSUME NEW w \in Workers, Worker(w), ~AddDocument(w)
        PROVE  /\ pos' = pos \/ pos' = [pos EXCEPT ![w] = @ + 1]
               /\ searchNodes' = searchNodes \/ searchNodes' = [searchNodes EXCEPT ![w] = <<>>]
    BY <2>1 DEF Worker, WorkerCancelled, SkipUnnamed, CheckWay, CheckNode, StartInvert,
                FinishBatch, ReceiveInvert, SaveDocs, AppendNodes
  <2> QED
    BY <2>1, CallFootprint, OtherFootprint DEF workerVars, TypeOK, WorkerTypeOK
<1>2. ASSUME NEW v \in Workers, NEW f \in Fields
      PROVE  WordsHeld(v, f)' <= WordsPassed(v, f)'
  <2>1. /\ pos[v] \in Nat \ {0} /\ pos'[v] \in Nat \ {0} /\ Len(Batch(v)) \in Nat
        /\ pos'[v] <= Len(Batch(v)) + 1
    BY BatchLength DEF BatchProgress, TypeOK, WorkerTypeOK
  <2>2. /\ WordsHeld(v, f) \in Nat /\ WordsPassed(v, f) \in Nat
        /\ WordsPassed(v, f)' \in Nat /\ WordsHeld(v, f)' \in Nat
    <3>1. IsFiniteSet(1 .. pos'[v] - 1) /\ \A i \in 1 .. pos'[v] - 1 : BatchWords(v, f)[i] \in Nat
      <4>1. pos'[v] - 1 \in Int /\ Len(Batch(v)) \in Int /\ pos'[v] - 1 <= Len(Batch(v))
        BY <2>1
      <4>2. IsFiniteSet(1 .. pos'[v] - 1) /\ 1 .. pos'[v] - 1 \subseteq 1 .. Len(Batch(v))
        BY <4>1, FirstNumbers
      <4> QED
        BY <4>2, BatchWordsNat
    <3>2. searchNodes'[v] \in Seq(Documents) /\ Len(searchNodes'[v]) \in 0 .. Len(searchNodes'[v])
      BY DEF TypeOK, WorkerTypeOK
    <3> QED
      BY <3>1, <3>2, WordsTypes, WordsUpToType, SumType DEF WordsPassed, WordsHeld
  <2>3. WordsPassed(v, f) <= WordsPassed(v, f)'
    <3>1. pos'[v] - 1 \in 0 .. Len(Batch(v)) /\ pos[v] - 1 \in 0 .. pos'[v] - 1
      BY <1>1, <2>1
    <3> QED
      BY <3>1, PassedWordsGrow DEF WordsPassed
  <2>4. WordsHeld(v, f)' <= WordsHeld(v, f)
    <3>1. CASE searchNodes'[v] = searchNodes[v]
      BY <2>2, <3>1 DEF WordsHeld
    <3>2. CASE searchNodes'[v] = <<>>
      BY <2>2, <3>2, WordsUpToNone DEF WordsHeld
    <3> QED
      BY <1>1, <3>1, <3>2
  <2> QED
    BY <2>2, <2>3, <2>4 DEF BatchFits
<1> QED
  BY <1>2 DEF BatchFits

LEMMA BatchFitsAlways == Spec => []BatchFits
<1>1. Init => BatchFits
  <2> SUFFICES ASSUME Init, NEW w \in Workers, NEW f \in Fields
               PROVE  WordsHeld(w, f) <= WordsPassed(w, f)
    BY DEF BatchFits
  <2>1. searchNodes[w] = <<>> /\ pos[w] = 1
    BY DEF Init
  <2>2. WordsHeld(w, f) = 0
    BY <2>1, WordsUpToNone DEF WordsHeld
  <2>3. 1 .. pos[w] - 1 = {}
    BY <2>1
  <2>4. WordsPassed(w, f) = 0
    BY <2>3, SumOfNone DEF WordsPassed
  <2> QED
    BY <2>2, <2>4
<1>2. ASSUME TypeOK, TypeOK', Control, BatchProgress, BatchProgress', BatchFits, [Next]_vars
      PROVE  BatchFits'
  BY <1>2, StepKinds, AddDocumentKeepsFit, OthersKeepFit
<1> QED
  BY <1>1, <1>2, TypesAndControl, TypeCorrect, BatchProgressAlways, PTL DEF Spec

------------------------------------------------------------------------------
(* The calls of a worker that has started them. *)

Inverting(w) == pc[w] \in {"wait", "save", "append"}

\* They parse all its documents, unless cancelled; both results are in before
\* the documents are saved.
CallsProgress ==
  /\ \A c \in Calls : Inverting(c[1]) =>
       /\ ipc[c] # "idle"
       /\ ipc[c] # "parse" /\ ~cancelled => parsed[c] = Len(InputOf(c))
  /\ \A c \in Calls : pc[c[1]] \in {"save", "append"} => ipc[c] = "sent" /\ ~failed[c]

LEMMA WorkerKeepsCallsProgress ==
  ASSUME TypeOK, Control, CallsProgress, NEW w \in Workers, Worker(w)
  PROVE  CallsProgress'
<1>1. /\ \A v \in Workers \ {w} : pc'[v] = pc[v] /\ searchNodes'[v] = searchNodes[v]
      /\ \A c \in Calls : c[1] # w => ipc'[c] = ipc[c] /\ parsed'[c] = parsed[c]
      /\ UNCHANGED <<failed, cancelled>>
  BY WorkerFootprint
<1>2. \A c \in Calls : c[1] \in Workers /\ c[2] \in Fields /\ c = <<c[1], c[2]>>
  BY CallParts
<1>3. ASSUME NEW c \in Calls, c[1] # w
      PROVE  /\ Inverting(c[1])' =>
                  /\ ipc'[c] # "idle"
                  /\ ipc'[c] # "parse" /\ ~cancelled' => parsed'[c] = Len(InputOf(c)')
             /\ pc'[c[1]] \in {"save", "append"} => ipc'[c] = "sent" /\ ~failed'[c]
  BY <1>1, <1>2, <1>3 DEF CallsProgress, Inverting, InputOf
<1>4. CASE pc'[w] \notin {"wait", "save", "append"}
  BY <1>3, <1>4 DEF CallsProgress, Inverting
<1>5. CASE StartInvert(w)
  <2>1. /\ pc'[w] = "wait"
        /\ \A c \in Calls : c[1] = w => ipc'[c] = "parse"
    BY <1>5 DEF StartInvert, TypeOK, WorkerTypeOK
  <2> QED
    BY <1>3, <2>1 DEF CallsProgress
<1>6. ASSUME NEW f \in Fields, ReceiveInvert(w, f)
      PROVE  CallsProgress'
  <2>1. /\ pc[w] = "wait" /\ ipc[<<w, f>>] = "send"
        /\ ipc' = [ipc EXCEPT ![<<w, f>>] = "sent"]
        /\ pc'[w] = AfterInvert(w, f)
        /\ UNCHANGED <<searchNodes, parsed>>
    BY <1>6 DEF ReceiveInvert, TypeOK, WorkerTypeOK
  <2>2. ASSUME NEW c \in Calls, c[1] = w
        PROVE  /\ ipc'[c] # "idle"
               /\ ipc'[c] # "parse" /\ ~cancelled' => parsed'[c] = Len(InputOf(c)')
    <3>1. Inverting(c[1])
      BY <2>1, <2>2 DEF Inverting
    <3>2. ipc[c] # "idle" /\ (ipc[c] # "parse" /\ ~cancelled => parsed[c] = Len(InputOf(c)))
      BY <3>1 DEF CallsProgress
    <3>3. ipc'[c] = ipc[c] \/ (ipc'[c] = "sent" /\ ipc[c] = "send")
      BY <2>1 DEF TypeOK, InvertTypeOK
    <3> QED
      BY <1>1, <2>1, <3>2, <3>3 DEF InputOf
  <2>3. ASSUME NEW c \in Calls, c[1] = w, pc'[w] \in {"save", "append"}
        PROVE  ipc'[c] = "sent" /\ ~failed'[c]
    <3>1. ~failed[<<w, f>>] /\ \A g \in Fields \ {f} : ipc[<<w, g>>] = "sent"
      BY <2>1, <2>3 DEF AfterInvert
    <3>2. c = <<w, c[2]>> /\ c[2] \in Fields
      BY <1>2, <2>3
    <3>3. CASE c[2] = f
      BY <1>1, <2>1, <3>1, <3>2, <3>3 DEF TypeOK, InvertTypeOK
    <3>4. CASE c[2] # f
      <4>1. ipc[c] = "sent" /\ ipc'[c] = "sent"
        BY <2>1, <3>1, <3>2, <3>4 DEF TypeOK, InvertTypeOK
      <4>2. ~failed[c]
        BY <2>1, <2>3, <4>1 DEF Control, CallControl
      <4> QED
        BY <1>1, <4>1, <4>2
    <3> QED
      BY <3>3, <3>4
  <2> QED
    BY <1>3, <2>2, <2>3 DEF CallsProgress, Inverting
<1>7. CASE SaveDocs(w)
  <2>1. /\ pc[w] = "save" /\ pc'[w] \in {"append", "error"}
        /\ UNCHANGED <<searchNodes, ipc, parsed>>
    BY <1>7 DEF SaveDocs, invertVars, TypeOK, WorkerTypeOK
  <2> QED
    BY <1>1, <1>3, <2>1 DEF CallsProgress, Inverting, InputOf
<1> QED
  BY <1>4, <1>5, <1>6, <1>7 DEF Worker, WorkerCancelled, SkipUnnamed, CheckWay, CheckNode,
     AddDocument, FinishBatch, AppendNodes, MoreObjects, BatchRead, TypeOK, WorkerTypeOK

LEMMA InvertKeepsCallsProgress ==
  ASSUME TypeOK, Control, CallsProgress, NEW c \in Calls, Invert(c)
  PROVE  CallsProgress'
<1>1. /\ UNCHANGED <<pc, searchNodes, cancelled>>
      /\ Active(c) /\ ipc'[c] # "idle"
      /\ \A d \in Calls \ {c} : ipc'[d] = ipc[d] /\ parsed'[d] = parsed[d] /\ failed'[d] = failed[d]
  BY CallFootprint DEF workerVars
<1>2. pc[c[1]] \notin {"save", "append"}
  BY <1>1 DEF Control, CallControl
<1>3. ASSUME ~cancelled, Inverting(c[1]), ipc'[c] # "parse"
      PROVE  parsed'[c] = Len(InputOf(c))
  <2>1. CASE ParseNode(c)
    BY <1>3, <2>1 DEF ParseNode, TypeOK, InvertTypeOK
  <2>2. CASE ~ParseNode(c)
    <3>1. ipc[c] # "parse" /\ parsed' = parsed
      BY <1>3, <2>2 DEF Invert, ParseCancelled, StreamCancelled, TakeBlock, RegisterBlock, WriteBlock
    <3> QED
      BY <1>3, <3>1 DEF CallsProgress
  <2> QED
    BY <2>1, <2>2
<1> QED
  BY <1>1, <1>2, <1>3 DEF CallsProgress, Inverting, InputOf

LEMMA OthersKeepCallsProgress ==
  ASSUME TypeOK, CallsProgress, OtherStep
  PROVE  CallsProgress'
<1>1. /\ UNCHANGED <<searchNodes, ipc, parsed, failed>>
      /\ \A c \in Calls : pc'[c[1]] = pc[c[1]] \/ pc'[c[1]] = "failed"
  BY OtherFootprint, CallParts DEF invertVars
<1>2. cancelled => cancelled'
  BY DEF OtherStep, Main, ReceiveResult, WriteRtreeData, MergeField, Cancel, vars, envVars,
         Collect, CollectError, CollectClosed, Fault, DroppedFault
<1> QED
  BY <1>1, <1>2 DEF CallsProgress, Inverting, InputOf

LEMMA CallsProgressAlways == Spec => []CallsProgress
<1>1. Init => CallsProgress
  BY CallParts DEF Init, CallsProgress, Inverting
<1>2. ASSUME TypeOK, Control, CallsProgress, [Next]_vars
      PROVE  CallsProgress'
  BY <1>2, StepKinds, WorkerKeepsCallsProgress, InvertKeepsCallsProgress, OthersKeepCallsProgress
<1> QED
  BY <1>1, <1>2, TypesAndControl, PTL DEF Spec

------------------------------------------------------------------------------
(* With room for every batch, a call writes one block: its last. *)

OneBlockPerCall ==
  RoomForBatches =>
    \A c \in Calls :
      /\ ipc[c] \in {"parse", "stream"} => left[c] = WordsUpTo(InputOf(c), c[2], parsed[c])
      /\ ipc[c] \in {"finalFlush", "finalWrite"} => left[c] = 0
      /\ ipc[c] \notin {"flush", "write"}

LEMMA StreamShort ==
  ASSUME TypeOK, BatchProgress, BatchFits, RoomForBatches,
         NEW c \in Calls, NEW n \in 0 .. Len(InputOf(c))
  PROVE  WordsUpTo(InputOf(c), c[2], n) < MaxPosting
<1>1. c[1] \in Workers /\ c[2] \in Fields
  BY CallParts
<1> DEFINE w == c[1]
           f == c[2]
           s == searchNodes[w]
<1>2. s \in Seq(Documents) /\ InputOf(c) = s /\ Len(s) \in 0 .. Len(s)
  BY <1>1 DEF InputOf, TypeOK, WorkerTypeOK
<1>3. WordsUpTo(s, f, n) <= WordsHeld(w, f)
  BY <1>1, <1>2, WordsUpToGrow DEF WordsHeld
<1>4. WordsHeld(w, f) <= WordsPassed(w, f)
  BY <1>1 DEF BatchFits
<1>5. WordsPassed(w, f) <= SumFunctionOnSet(BatchWords(w, f), 1 .. Len(Batch(w)))
  <2>1. Len(Batch(w)) \in 0 .. Len(Batch(w)) /\ pos[w] - 1 \in 0 .. Len(Batch(w))
    BY <1>1, BatchLength DEF BatchProgress, TypeOK, WorkerTypeOK
  <2> QED
    BY <1>1, <2>1, PassedWordsGrow DEF WordsPassed
<1>6. SumFunctionOnSet(BatchWords(w, f), 1 .. Len(Batch(w))) < MaxPosting
  <2>1. SumFunction(BatchWords(w, f)) < MaxPosting
    BY <1>1 DEF RoomForBatches, BatchWords
  <2> QED
    BY <1>1, <2>1, BatchWordsNat DEF SumFunction
<1>7. /\ WordsUpTo(s, f, n) \in Nat /\ WordsHeld(w, f) \in Nat /\ WordsPassed(w, f) \in Nat
      /\ SumFunctionOnSet(BatchWords(w, f), 1 .. Len(Batch(w))) \in Nat
      /\ MaxPosting \in Nat
  <2>1. IsFiniteSet(1 .. Len(Batch(w))) /\ \A i \in 1 .. Len(Batch(w)) : BatchWords(w, f)[i] \in Nat
    <3>1. Len(Batch(w)) \in Int /\ Len(Batch(w)) <= Len(Batch(w))
      BY <1>1, BatchLength
    <3>2. IsFiniteSet(1 .. Len(Batch(w)))
      BY <3>1, FirstNumbers
    <3> QED
      BY <1>1, <3>2, BatchWordsNat
  <2>2. SumFunctionOnSet(BatchWords(w, f), 1 .. Len(Batch(w))) \in Nat
    BY <2>1, SumType
  <2> QED
    BY <1>1, <1>2, <2>2, WordsUpToType, WordsTypes, BoundAssumption
<1> HIDE DEF w, f, s
<1>8. WordsUpTo(s, f, n) < MaxPosting
  BY <1>3, <1>4, <1>5, <1>6, <1>7
<1> QED
  BY <1>2, <1>8 DEF w, f, s

\* An active call's documents are those of the step before.
LEMMA ActiveInput ==
  ASSUME TypeOK, Control, NEW w \in Workers, Worker(w), NEW c \in Calls, Active(c), c[1] = w
  PROVE  searchNodes' = searchNodes
<1>1. pc[w] \in {"wait", "error", "failed"}
  BY DEF Control, CallControl
<1> QED
  BY <1>1 DEF Worker, WorkerCancelled, SkipUnnamed, CheckWay, CheckNode, AddDocument, StartInvert,
     FinishBatch, ReceiveInvert, SaveDocs, AppendNodes, MoreObjects, BatchRead

LEMMA WorkerKeepsOneBlock ==
  ASSUME TypeOK, Control, OneBlockPerCall, RoomForBatches, NEW w \in Workers, Worker(w)
  PROVE  OneBlockPerCall'
<1>1. ASSUME NEW c \in Calls, c[1] # w
      PROVE  UNCHANGED <<ipc[c], left[c], parsed[c], InputOf(c)>>
  BY <1>1, WorkerFootprint, CallParts DEF InputOf
<1>2. ASSUME StartInvert(w), NEW c \in Calls, c[1] = w
      PROVE  /\ ipc'[c] = "parse"
             /\ left'[c] = WordsUpTo(InputOf(c)', c[2], parsed'[c])
  <2>1. ipc'[c] = "parse" /\ left'[c] = 0 /\ parsed'[c] = 0
    BY <1>2 DEF StartInvert
  <2> QED
    BY <2>1, WordsUpToNone
<1>3. ASSUME ~StartInvert(w), NEW c \in Calls, c[1] = w
      PROVE  /\ UNCHANGED <<left[c], parsed[c]>>
             /\ ipc'[c] = ipc[c] \/ ipc'[c] = "sent"
             /\ ipc'[c] \in {"parse", "stream"} => InputOf(c)' = InputOf(c)
  <2>1. /\ UNCHANGED <<left, parsed>>
        /\ ipc'[c] = ipc[c] \/ ipc'[c] = "sent"
    BY <1>3 DEF Worker, WorkerCancelled, SkipUnnamed, CheckWay, CheckNode, AddDocument,
       FinishBatch, ReceiveInvert, SaveDocs, AppendNodes, invertVars, TypeOK, InvertTypeOK
  <2>2. ASSUME ipc'[c] \in {"parse", "stream"}
        PROVE  InputOf(c)' = InputOf(c)
    BY <1>3, <2>1, <2>2, ActiveInput DEF Active, InputOf
  <2> QED
    BY <2>1, <2>2
<1> QED
  BY <1>1, <1>2, <1>3 DEF OneBlockPerCall

LEMMA InvertKeepsOneBlock ==
  ASSUME TypeOK, Control, BatchProgress, BatchFits, OneBlockPerCall, RoomForBatches,
         NEW c \in Calls, Invert(c)
  PROVE  OneBlockPerCall'
<1>1. /\ UNCHANGED searchNodes
      /\ \A d \in Calls \ {c} : UNCHANGED <<ipc[d], parsed[d], left[d]>>
      /\ Active(c)
  BY CallFootprint DEF workerVars
<1>2. \A d \in Calls : InputOf(d)' = InputOf(d)
  BY <1>1 DEF InputOf
<1>3. /\ InputOf(c) \in Seq(Documents) /\ c[2] \in Fields
      /\ parsed[c] \in 0 .. Len(InputOf(c)) /\ left[c] \in Nat
  BY <1>1, CallParts DEF InputOf, TypeOK, WorkerTypeOK, InvertTypeOK, Control, CallControl
<1>4. CASE ParseNode(c)
  <2>1. /\ ipc[c] = "parse" /\ ipc'[c] \in {"parse", "stream"}
        /\ left'[c] = left[c] + WordsIn(InputOf(c)[parsed[c] + 1], c[2])
        /\ parsed'[c] = parsed[c] + 1
    BY <1>4 DEF ParseNode, TypeOK, InvertTypeOK
  <2>2. parsed[c] \in 0 .. Len(InputOf(c)) - 1
    BY <1>3, <2>1 DEF Control, CallControl
  <2>3. left'[c] = WordsUpTo(InputOf(c), c[2], parsed'[c])
    BY <1>3, <2>1, <2>2, WordsUpToNext DEF OneBlockPerCall
  <2> QED
    BY <1>1, <1>2, <2>1, <2>3 DEF OneBlockPerCall
<1>5. CASE ParseCancelled(c) \/ StreamCancelled(c)
  <2>1. /\ UNCHANGED <<left, parsed>>
        /\ \/ ipc[c] = "parse" /\ ipc'[c] = "stream"
           \/ ipc'[c] = "send"
    BY <1>5 DEF ParseCancelled, StreamCancelled, TypeOK, InvertTypeOK
  <2> QED
    BY <1>1, <1>2, <2>1 DEF OneBlockPerCall
<1>6. CASE TakeBlock(c)
  <2>1. ipc[c] = "stream" /\ left[c] < MaxPosting
    BY <1>3, <1>6, StreamShort DEF TakeBlock, OneBlockPerCall
  <2>2. ipc'[c] = "finalFlush" /\ left'[c] = 0
    BY <1>3, <1>6, <2>1, BoundAssumption DEF TakeBlock, LeftAfterBlock, TypeOK, InvertTypeOK
  <2> QED
    BY <1>1, <1>2, <2>2 DEF OneBlockPerCall
<1>7. CASE RegisterBlock(c) \/ WriteBlock(c)
  <2>1. /\ left' = left
        /\ ipc[c] # "flush" /\ ipc[c] # "write" /\ ipc[c] \in {"finalFlush", "finalWrite"}
        /\ ipc'[c] \in {"finalWrite", "send"}
    BY <1>7 DEF RegisterBlock, WriteBlock, OneBlockPerCall, TypeOK, InvertTypeOK
  <2> QED
    BY <1>1, <1>2, <2>1 DEF OneBlockPerCall
<1> QED
  BY <1>4, <1>5, <1>6, <1>7 DEF Invert

LEMMA OthersKeepOneBlock ==
  ASSUME TypeOK, OneBlockPerCall, OtherStep
  PROVE  OneBlockPerCall'
<1>1. UNCHANGED <<searchNodes, ipc, left, parsed>>
  BY OtherFootprint DEF invertVars
<1> QED
  BY <1>1 DEF OneBlockPerCall, InputOf

LEMMA OneBlockPerCallAlways == Spec => []OneBlockPerCall
<1>1. Init => OneBlockPerCall
  BY DEF Init, OneBlockPerCall
<1>2. ASSUME TypeOK, Control, BatchProgress, BatchFits, OneBlockPerCall, [Next]_vars
      PROVE  OneBlockPerCall'
  <2>1. CASE RoomForBatches
    BY <1>2, <2>1, StepKinds, WorkerKeepsOneBlock, InvertKeepsOneBlock, OthersKeepOneBlock
  <2>2. CASE ~RoomForBatches
    BY <2>2 DEF OneBlockPerCall, RoomForBatches
  <2> QED
    BY <2>1, <2>2
<1> QED
  BY <1>1, <1>2, TypesAndControl, BatchProgressAlways, BatchFitsAlways, PTL DEF Spec

------------------------------------------------------------------------------
(* The word counts of the documents. *)

\* What the calls of worker w have counted in the i-th document it holds.
Counted(w, i, f) ==
  IF Inverting(w) /\ i <= parsed[<<w, f>>] THEN WordsIn(searchNodes[w][i], f) ELSE 0

WordsCounted ==
  ~cancelled =>
    /\ \A d \in DocIDs : d >= nodeIDX => docWordCount[d] = 0
    /\ \A w \in Workers : pc[w] \notin {"error", "failed"} =>
         \A i \in 1 .. Len(searchNodes[w]) :
           docWordCount[searchNodes[w][i].id] = Counted(w, i, "name") + Counted(w, i, "address")
    /\ \A doc \in Range(allSearchNodes) :
         docWordCount[doc.id] = WordsIn(doc, "name") + WordsIn(doc, "address")

\* Documents that have been given an ID differ in it.
LEMMA SameID ==
  ASSUME TypeOK, DocumentIDs, NEW d \in Documents, NEW e \in Documents, Known(d), Known(e), d.id = e.id
  PROVE  d = e
<1>1. Indexed(d) /\ Indexed(e)
  BY DocumentIDsKnown
<1> QED
  BY <1>1 DEF Indexed

LEMMA HeldIsKnown ==
  ASSUME TypeOK, DocumentIDs, NEW w \in Workers
  PROVE  /\ searchNodes[w] \in Seq(Documents)
         /\ \A i \in 1 .. Len(searchNodes[w]) :
              /\ searchNodes[w][i] \in Documents /\ searchNodes[w][i] \in Held(w)
              /\ Known(searchNodes[w][i]) /\ searchNodes[w][i].id < nodeIDX
         /\ \A doc \in Held(w) : \E i \in 1 .. Len(searchNodes[w]) : searchNodes[w][i] = doc
<1>1. searchNodes[w] \in Seq(Documents)
  BY DEF TypeOK, WorkerTypeOK
<1>2. \A i \in 1 .. Len(searchNodes[w]) : searchNodes[w][i] \in Documents /\ searchNodes[w][i] \in Held(w)
  BY <1>1, DocumentRange DEF Held
<1>3. \A doc \in Held(w) : Known(doc)
  BY DEF Held, Known
<1>4. \A doc \in Documents : Known(doc) => doc.id < nodeIDX
  BY DocumentIDsKnown DEF Indexed
<1>5. \A doc \in Held(w) : \E i \in 1 .. Len(searchNodes[w]) : searchNodes[w][i] = doc
  BY <1>1, DocumentRange DEF Held
<1> QED
  BY <1>1, <1>2, <1>3, <1>4, <1>5

LEMMA ListedIsKnown ==
  ASSUME TypeOK, DocumentIDs, NEW doc \in Range(allSearchNodes)
  PROVE  doc \in Documents /\ Known(doc) /\ doc.id < nodeIDX
<1>1. doc \in Documents
  BY DocumentRange DEF TypeOK, StoresTypeOK
<1>2. Known(doc)
  BY DEF Known
<1> QED
  BY <1>1, <1>2, DocumentIDsKnown DEF Indexed

LEMMA KnownFits ==
  ASSUME TypeOK, BatchProgress, NEW doc \in Documents, doc.id < nodeIDX
  PROVE  doc.id \in DocIDs
<1>1. nodeIDX <= Len(Ways) + Len(Nodes) /\ nodeIDX \in Nat /\ doc.id \in Nat
  BY DocumentIDsFit DEF TypeOK, SharedTypeOK, Documents
<1>2. Len(Ways) \in Nat /\ Len(Nodes) \in Nat
  BY InputAssumption
<1> QED
  BY <1>1, <1>2 DEF DocIDs

LEMMA ParseKeepsWordsCounted ==
  ASSUME TypeOK, Control, DocumentIDs, Holdings, BatchProgress, WordsCounted,
         NEW c \in Calls, ParseNode(c)
  PROVE  WordsCounted'
<1> DEFINE w == c[1]
           f == c[2]
           p == parsed[c] + 1
           doc == searchNodes[w][p]
<1>1. w \in Workers /\ f \in Fields /\ c = <<w, f>>
  BY CallParts
<1>2. /\ ipc[c] = "parse" /\ ~cancelled
      /\ docWordCount' = [docWordCount EXCEPT ![doc.id] = @ + WordsIn(doc, f)]
      /\ parsed' = [parsed EXCEPT ![c] = p]
      /\ UNCHANGED <<pc, searchNodes, allSearchNodes, nodeIDX, cancelled>>
  BY DEF ParseNode, WordCount, InputOf, workerVars, stores, envVars
<1>3. p \in 1 .. Len(searchNodes[w])
  BY <1>1, <1>2 DEF Control, CallControl, InputOf, TypeOK, InvertTypeOK, WorkerTypeOK
<1>4. /\ doc \in Documents /\ doc \in Held(w) /\ Known(doc) /\ doc.id < nodeIDX /\ doc.id \in DocIDs
      /\ WordsIn(doc, f) \in Nat
  BY <1>1, <1>3, HeldIsKnown, KnownFits, WordsNat
<1>5. parsed \in [Calls -> Nat] /\ docWordCount \in [DocIDs -> Nat] /\ nodeIDX \in Nat
  BY DEF TypeOK, InvertTypeOK, SharedTypeOK
<1>6. pc[w] \in {"wait", "error", "failed"}
  BY <1>1, <1>2 DEF Control, CallControl, Active
<1> HIDE DEF doc
<1>7. \A d \in DocIDs : d >= nodeIDX => docWordCount'[d] = 0
  BY <1>2, <1>4, <1>5 DEF WordsCounted, DocIDs
<1>8. \A e \in Documents : Known(e) /\ e # doc => docWordCount'[e.id] = docWordCount[e.id]
  <2> TAKE e \in Documents
  <2>1. SUFFICES ASSUME Known(e), e # doc PROVE docWordCount'[e.id] = docWordCount[e.id]
    OBVIOUS
  <2>2. e.id # doc.id
    BY <1>4, <2>1, SameID
  <2> QED
    BY <1>2, <1>5, <2>2
<1>9. docWordCount'[doc.id] = docWordCount[doc.id] + WordsIn(doc, f)
  BY <1>2, <1>4, <1>5
<1>10. \A e \in Range(allSearchNodes) : e # doc
  BY <1>1, <1>4 DEF Holdings
<1>11. \A e \in Range(allSearchNodes') :
         docWordCount'[e.id] = WordsIn(e, "name") + WordsIn(e, "address")
  BY <1>2, <1>8, <1>10, ListedIsKnown DEF WordsCounted
<1>12. ASSUME NEW v \in Workers \ {w}, pc[v] \notin {"error", "failed"}, NEW i \in 1 .. Len(searchNodes[v])
       PROVE  docWordCount'[searchNodes[v][i].id] = Counted(v, i, "name")' + Counted(v, i, "address")'
  <2>1. searchNodes[v][i] # doc
    BY <1>1, <1>4, <1>12, HeldIsKnown DEF Holdings
  <2>2. \A g \in Fields : parsed'[<<v, g>>] = parsed[<<v, g>>]
    BY <1>1, <1>2, <1>5, CallPair
  <2>3. \A g \in Fields : Counted(v, i, g)' = Counted(v, i, g)
    BY <1>2, <2>2 DEF Counted, Inverting
  <2> QED
    BY <1>2, <1>8, <1>12, <2>1, <2>3, HeldIsKnown DEF WordsCounted, Fields
<1>13. ASSUME pc[w] \notin {"error", "failed"}, NEW i \in 1 .. Len(searchNodes[w])
       PROVE  docWordCount'[searchNodes[w][i].id] = Counted(w, i, "name")' + Counted(w, i, "address")'
  <2>1. /\ docWordCount[searchNodes[w][i].id] = Counted(w, i, "name") + Counted(w, i, "address")
        /\ Inverting(w) /\ Inverting(w)'
    BY <1>1, <1>2, <1>6, <1>13 DEF WordsCounted, Inverting
  <2>2. /\ parsed[<<w, f>>] = p - 1 /\ parsed'[<<w, f>>] = p /\ p \in Nat
        /\ \A g \in Fields \ {f} : parsed'[<<w, g>>] = parsed[<<w, g>>]
    <3>1. parsed[c] \in Nat /\ parsed'[c] = p /\ \A d \in Calls \ {c} : parsed'[d] = parsed[d]
      BY <1>2, <1>5
    <3>2. \A g \in Fields \ {f} : <<w, g>> \in Calls /\ <<w, g>> # <<w, f>>
      BY <1>1, CallPair
    <3>3. parsed[c] = p - 1 /\ p \in Nat
      BY <3>1
    <3> HIDE DEF w, f, p
    <3> QED
      BY <1>1, <3>1, <3>2, <3>3
  <2>3. \A g \in Fields \ {f} : Counted(w, i, g)' = Counted(w, i, g)
    BY <1>2, <2>1, <2>2 DEF Counted
  <2>4. CASE i # p
    <3>1. Counted(w, i, f)' = Counted(w, i, f)
      <4>1. i <= parsed'[<<w, f>>] <=> i <= parsed[<<w, f>>]
        BY <2>2, <2>4
      <4> QED
        BY <1>2, <2>1, <4>1 DEF Counted
    <3>2. searchNodes[w][i] # doc
      BY <1>1, <1>3, <2>4 DEF Holdings, IsInjective, doc
    <3>3. docWordCount'[searchNodes[w][i].id] = docWordCount[searchNodes[w][i].id]
      BY <1>1, <1>8, <3>2, HeldIsKnown
    <3> QED
      BY <1>1, <2>1, <2>3, <3>1, <3>3 DEF Fields
  <2>5. CASE i = p
    <3>1. searchNodes[w][i] = doc /\ searchNodes'[w][i] = doc
      BY <1>2, <2>5 DEF doc
    <3>2. Counted(w, i, f) = 0 /\ Counted(w, i, f)' = WordsIn(doc, f)
      BY <2>1, <2>2, <2>5, <3>1 DEF Counted
    <3>3. \A g \in Fields : Counted(w, i, g) \in Nat
      BY <1>4, <3>1, WordsNat DEF Counted
    <3>4. docWordCount'[searchNodes[w][i].id] = docWordCount[searchNodes[w][i].id] + WordsIn(doc, f)
      BY <1>9, <3>1
    <3> HIDE DEF w, f, p
    <3>5. CASE f = "name"
      BY <1>4, <2>1, <2>3, <3>2, <3>3, <3>4, <3>5 DEF Fields
    <3>6. CASE f = "address"
      BY <1>4, <2>1, <2>3, <3>2, <3>3, <3>4, <3>6 DEF Fields
    <3> QED
      BY <1>1, <3>5, <3>6 DEF Fields
  <2> QED
    BY <2>4, <2>5
<1> QED
  BY <1>2, <1>7, <1>11, <1>12, <1>13 DEF WordsCounted

LEMMA WorkerKeepsWordsCounted ==
  ASSUME TypeOK, Control, CallsProgress, DocumentIDs, BatchProgress, WordsCounted,
         NEW w \in Workers, Worker(w)
  PROVE  WordsCounted'
<1>1. /\ UNCHANGED <<docWordCount, cancelled>>
      /\ \A v \in Workers \ {w} : pc'[v] = pc[v] /\ searchNodes'[v] = searchNodes[v]
      /\ \A c \in Calls : c[1] # w => parsed'[c] = parsed[c]
  BY WorkerFootprint
<1>2. SUFFICES ASSUME ~cancelled PROVE WordsCounted'
  BY <1>1 DEF WordsCounted
<1>3. ASSUME NEW v \in Workers \ {w}, pc'[v] \notin {"error", "failed"}, NEW i \in 1 .. Len(searchNodes'[v])
      PROVE  docWordCount'[searchNodes'[v][i].id] = Counted(v, i, "name")' + Counted(v, i, "address")'
  <2>1. \A g \in Fields : parsed'[<<v, g>>] = parsed[<<v, g>>]
    BY <1>1, CallPair
  <2>2. \A g \in Fields : Counted(v, i, g)' = Counted(v, i, g)
    BY <1>1, <2>1 DEF Counted, Inverting
  <2> QED
    BY <1>1, <1>2, <1>3, <2>2 DEF WordsCounted, Fields
<1>4. CASE AddDocument(w)
  <2> DEFINE doc == [id |-> nodeIDX, obj |-> Current(w)]
  <2>1. /\ pc[w] = "add" /\ pc'[w] \in {"invert", "next"}
        /\ searchNodes'[w] = Append(searchNodes[w], doc)
        /\ nodeIDX' = nodeIDX + 1
        /\ UNCHANGED allSearchNodes
        /\ searchNodes[w] \in Seq(Documents) /\ nodeIDX \in Nat
    BY <1>4 DEF AddDocument, NextDocID, stores, TypeOK, SharedTypeOK, WorkerTypeOK
  <2>2. \A d \in DocIDs : d >= nodeIDX' => docWordCount'[d] = 0
    BY <1>1, <1>2, <2>1 DEF WordsCounted, DocIDs
  <2>3. \A i \in 1 .. Len(searchNodes'[w]), g \in Fields : Counted(w, i, g)' = 0
    BY <2>1 DEF Counted, Inverting
  <2>4. ASSUME NEW i \in 1 .. Len(searchNodes'[w])
        PROVE  docWordCount[searchNodes'[w][i].id] = 0
    <3>1. CASE i = Len(searchNodes[w]) + 1
      <4>1. doc.id \in DocIDs /\ doc.id >= nodeIDX
        BY <1>4, <2>1, NewDocumentFits
      <4>2. searchNodes'[w][i] = doc
        BY <2>1, <3>1
      <4> QED
        BY <1>2, <4>1, <4>2 DEF WordsCounted
    <3>2. CASE i # Len(searchNodes[w]) + 1
      <4>1. i \in 1 .. Len(searchNodes[w]) /\ searchNodes'[w][i] = searchNodes[w][i]
        BY <2>1, <3>2
      <4>2. \A g \in Fields : Counted(w, i, g) = 0
        BY <2>1 DEF Counted, Inverting
      <4> QED
        BY <1>2, <2>1, <4>1, <4>2 DEF WordsCounted, Fields
    <3> QED
      BY <3>1, <3>2
  <2>5. \A doc1 \in Range(allSearchNodes') :
          docWordCount'[doc1.id] = WordsIn(doc1, "name") + WordsIn(doc1, "address")
    BY <1>1, <1>2, <2>1 DEF WordsCounted
  <2>6. \A i \in 1 .. Len(searchNodes'[w]) :
          docWordCount'[searchNodes'[w][i].id] = Counted(w, i, "name")' + Counted(w, i, "address")'
    BY <1>1, <2>3, <2>4 DEF Fields
  <2> QED
    BY <1>3, <2>2, <2>5, <2>6 DEF WordsCounted
<1>5. CASE AppendNodes(w)
  <2>1. /\ pc[w] = "append"
        /\ allSearchNodes' = allSearchNodes \o searchNodes[w]
        /\ searchNodes'[w] = <<>>
        /\ nodeIDX' = nodeIDX
    BY <1>5 DEF AppendNodes, ListedWithSaved, shared, TypeOK, WorkerTypeOK
  <2>2. \A g \in Fields : parsed[<<w, g>>] = Len(searchNodes[w])
    <3>1. \A g \in Fields : <<w, g>> \in Calls /\ ipc[<<w, g>>] = "sent"
      BY <2>1, CallPair DEF CallsProgress
    <3> QED
      BY <1>2, <2>1, <3>1 DEF CallsProgress, Inverting, InputOf
  <2>3. ASSUME NEW doc \in Held(w)
        PROVE  docWordCount[doc.id] = WordsIn(doc, "name") + WordsIn(doc, "address")
    <3>1. PICK i \in 1 .. Len(searchNodes[w]) : searchNodes[w][i] = doc
      BY HeldIsKnown
    <3>2. \A g \in Fields : Counted(w, i, g) = WordsIn(doc, g)
      BY <2>1, <2>2, <3>1 DEF Counted, Inverting
    <3> QED
      BY <1>2, <2>1, <3>1, <3>2 DEF WordsCounted, Fields
  <2>4. \A doc \in Range(allSearchNodes') : doc \in Range(allSearchNodes) \/ doc \in Held(w)
    BY <2>1, ConcatDocuments DEF Held, TypeOK, StoresTypeOK, WorkerTypeOK
  <2>5. \A doc \in Range(allSearchNodes') :
          docWordCount'[doc.id] = WordsIn(doc, "name") + WordsIn(doc, "address")
    BY <1>1, <1>2, <2>3, <2>4 DEF WordsCounted
  <2>6. \A i \in 1 .. Len(searchNodes'[w]) : FALSE
    BY <2>1
  <2>7. \A d \in DocIDs : d >= nodeIDX' => docWordCount'[d] = 0
    BY <1>1, <1>2, <2>1 DEF WordsCounted
  <2> QED
    BY <1>3, <2>5, <2>6, <2>7 DEF WordsCounted
<1>6. CASE ~AddDocument(w) /\ ~AppendNodes(w)
  <2>1. UNCHANGED <<allSearchNodes, nodeIDX, searchNodes>>
    BY <1>6 DEF Worker, WorkerCancelled, SkipUnnamed, CheckWay, CheckNode, StartInvert,
       FinishBatch, ReceiveInvert, SaveDocs, shared, stores
  <2>2. ASSUME pc'[w] \notin {"error", "failed"}
        PROVE  \A i \in 1 .. Len(searchNodes[w]), g \in Fields : Counted(w, i, g)' = Counted(w, i, g)
    <3>1. CASE StartInvert(w)
      <4>1. /\ ~Inverting(w)
            /\ \A g \in Fields : parsed'[<<w, g>>] = 0
        BY <3>1, CallPair DEF StartInvert, Inverting, BatchRead
      <4> QED
        BY <4>1 DEF Counted
    <3>2. CASE ~StartInvert(w)
      <4>1. parsed' = parsed
        BY <1>6, <3>2 DEF Worker, WorkerCancelled, SkipUnnamed, CheckWay, CheckNode,
           FinishBatch, ReceiveInvert, SaveDocs, invertVars
      <4>2. Inverting(w)' <=> Inverting(w)
        BY <1>6, <2>2, <3>2 DEF Worker, WorkerCancelled, SkipUnnamed, CheckWay, CheckNode,
           FinishBatch, ReceiveInvert, AfterInvert, SaveDocs, Inverting, MoreObjects, BatchRead,
           TypeOK, WorkerTypeOK
      <4> QED
        BY <2>1, <4>1, <4>2 DEF Counted
    <3> QED
      BY <3>1, <3>2
  <2>3. pc'[w] \notin {"error", "failed"} => pc[w] \notin {"error", "failed"}
    BY WorkerFootprint
  <2> QED
    BY <1>1, <1>2, <1>3, <2>1, <2>2, <2>3 DEF WordsCounted, Fields
<1> QED
  BY <1>4, <1>5, <1>6

LEMMA OthersKeepWordsCounted ==
  ASSUME TypeOK, WordsCounted,
         (\E c \in Calls : Invert(c) /\ ~ParseNode(c)) \/ OtherStep
  PROVE  WordsCounted'
<1>1. /\ UNCHANGED <<nodeIDX, docWordCount, searchNodes, allSearchNodes, parsed>>
      /\ \A w \in Workers : pc'[w] = pc[w] \/ (pc[w] = "error" /\ pc'[w] = "failed")
      /\ cancelled => cancelled'
  <2>1. ASSUME NEW c \in Calls, Invert(c), ~ParseNode(c)
        PROVE  UNCHANGED <<nodeIDX, docWordCount, searchNodes, allSearchNodes, parsed, pc, cancelled>>
    BY <2>1 DEF Invert, ParseCancelled, StreamCancelled, TakeBlock, RegisterBlock, WriteBlock,
                shared, stores, workerVars, envVars, Fault, DroppedFault
  <2>2. ASSUME OtherStep
        PROVE  cancelled => cancelled'
    BY <2>2 DEF OtherStep, Main, ReceiveResult, WriteRtreeData, MergeField, Cancel, vars, envVars,
         Collect, CollectError, CollectClosed, Fault, DroppedFault
  <2> QED
    BY <2>1, <2>2, OtherFootprint DEF shared, stores, invertVars
<1>2. \A w \in Workers : pc'[w] \notin {"error", "failed"} =>
        \A i \in 1 .. Len(searchNodes[w]), g \in Fields : Counted(w, i, g)' = Counted(w, i, g)
  BY <1>1 DEF Counted, Inverting
<1> QED
  BY <1>1, <1>2 DEF WordsCounted, Fields

LEMMA WordsCountedAlways == Spec => []WordsCounted
<1>1. Init => WordsCounted
  BY DEF Init, WordsCounted, Range
<1>2. ASSUME TypeOK, Control, CallsProgress, DocumentIDs, Holdings, BatchProgress, WordsCounted, [Next]_vars
      PROVE  WordsCounted'
  BY <1>2, StepKinds, WorkerKeepsWordsCounted, ParseKeepsWordsCounted, OthersKeepWordsCounted
<1> QED
  BY <1>1, <1>2, TypesAndControl, CallsProgressAlways, DocumentIDsAlways, HoldingsAlways,
     BatchProgressAlways, PTL DEF Spec

------------------------------------------------------------------------------
(* What the last block of a call holds. *)

LEMMA SmallRemainder ==
  ASSUME NEW n \in Nat, NEW m \in Nat \ {0}, n < m
  PROVE  n % m = n
OBVIOUS

\* With room for the batch, the last block holds every word of every parsed document.
LEMMA LastSegment ==
  ASSUME TypeOK, Control, BatchProgress, BatchFits, OneBlockPerCall, RoomForBatches,
         NEW c \in Calls, ipc[c] = "finalWrite",
         NEW i \in 1 .. parsed[c], NEW k \in 1 .. WordsIn(InputOf(c)[i], c[2])
  PROVE  <<InputOf(c)[i].id, k>> \in Segment(c)
<1>1. /\ InputOf(c) \in Seq(Documents) /\ c[2] \in Fields
      /\ parsed[c] \in 0 .. Len(InputOf(c)) /\ left[c] = 0
  <2>1. InputOf(c) \in Seq(Documents) /\ c[2] \in Fields /\ parsed[c] \in Nat
    BY CallParts DEF InputOf, TypeOK, WorkerTypeOK, InvertTypeOK
  <2>2. parsed[c] <= Len(InputOf(c))
    BY DEF Control, CallControl, Active
  <2>3. left[c] = 0
    BY DEF OneBlockPerCall
  <2> QED
    BY <2>1, <2>2, <2>3
<1> DEFINE Up(n) == WordsUpTo(InputOf(c), c[2], n)
<1>2. WordsBefore(c, i) = Up(i - 1) /\ StreamLength(c) = Up(parsed[c])
  <2>1. i \in 1 .. Len(InputOf(c)) + 1 /\ parsed[c] + 1 \in 1 .. Len(InputOf(c)) + 1
    BY <1>1
  <2>2. (parsed[c] + 1) - 1 = parsed[c]
    BY <1>1
  <2> QED
    BY <2>1, <2>2, WordsBeforeIs DEF StreamLength
<1>3. /\ InputOf(c)[i] \in Documents
      /\ i - 1 \in 0 .. Len(InputOf(c)) - 1 /\ (i - 1) + 1 = i
      /\ i - 1 \in 0 .. Len(InputOf(c)) /\ i \in 0 .. Len(InputOf(c)) /\ i \in 0 .. parsed[c]
  BY <1>1
<1>4. Up(i) = Up(i - 1) + WordsIn(InputOf(c)[i], c[2])
  <2>1. Up((i - 1) + 1) = Up(i - 1) + WordsIn(InputOf(c)[(i - 1) + 1], c[2])
    BY <1>1, <1>3, WordsUpToNext
  <2> QED
    BY <1>3, <2>1
<1>5. Up(i) <= Up(parsed[c])
  BY <1>1, <1>3, WordsUpToGrow
<1>6. Up(i - 1) \in Nat /\ Up(i) \in Nat /\ Up(parsed[c]) \in Nat /\ WordsIn(InputOf(c)[i], c[2]) \in Nat
  BY <1>1, <1>3, WordsUpToType, WordsNat
<1>7. Up(parsed[c]) < MaxPosting /\ MaxPosting \in Nat \ {0}
  BY <1>1, StreamShort, BoundAssumption
<1> HIDE DEF Up
<1>8. Up(parsed[c]) % MaxPosting = Up(parsed[c])
  BY <1>6, <1>7, SmallRemainder
<1>9. InSegment(c, i, k)
  <2>1. StreamLength(c) - left[c] = Up(parsed[c])
    BY <1>1, <1>2, <1>6
  <2>2. InSegment(c, i, k) <=> Up(i - 1) + k \in Up(parsed[c]) - Up(parsed[c]) + 1 .. Up(parsed[c])
    BY <1>2, <1>8, <2>1 DEF InSegment
  <2> QED
    BY <1>4, <1>5, <1>6, <2>2
<1> QED
  BY <1>9 DEF Segment

LEMMA LengthOfHeld ==
  ASSUME TypeOK, DocumentIDs, BatchProgress, NEW c \in Calls, parsed[c] <= Len(InputOf(c)),
         NEW i \in 1 .. parsed[c]
  PROVE  LenFieldInDoc(c)[InputOf(c)[i].id] = WordsIn(InputOf(c)[i], c[2])
<1> DEFINE doc == InputOf(c)[i]
<1>1. /\ c[1] \in Workers /\ InputOf(c) = searchNodes[c[1]]
      /\ parsed[c] \in Nat /\ Range(InputOf(c)) = Held(c[1])
  BY CallParts DEF InputOf, Held, TypeOK, InvertTypeOK
<1>2. i \in 1 .. Len(InputOf(c))
  BY <1>1, HeldIsKnown
<1>3. doc \in Documents /\ doc \in Range(InputOf(c)) /\ Known(doc) /\ doc.id \in DocIDs
  BY <1>1, <1>2, HeldIsKnown, KnownFits
<1>4. \A e \in Range(InputOf(c)) : e.id = doc.id => e = doc
  BY <1>1, <1>3, HeldIsKnown, SameID
<1> HIDE DEF doc
<1>5. (CHOOSE e \in Range(InputOf(c)) : e.id = doc.id) = doc
  BY <1>3, <1>4
<1>6. \E j \in 1 .. parsed[c] : InputOf(c)[j].id = doc.id
  BY DEF doc
<1>7. LenFieldInDoc(c)[doc.id] = WordsIn(doc, c[2])
  BY <1>3, <1>5, <1>6 DEF LenFieldInDoc
<1> QED
  BY <1>7 DEF doc

\* It has no length for any other document.
LEMMA LengthOfOther ==
  ASSUME TypeOK, DocumentIDs, NEW c \in Calls, parsed[c] <= Len(InputOf(c)), NEW d \in DocIDs,
         \A e \in Held(c[1]) : e.id # d
  PROVE  LenFieldInDoc(c)[d] = 0
<1>1. c[1] \in Workers /\ InputOf(c) = searchNodes[c[1]] /\ parsed[c] \in Nat
  BY CallParts DEF InputOf, TypeOK, InvertTypeOK
<1>2. \A j \in 1 .. parsed[c] : InputOf(c)[j].id # d
  BY <1>1, HeldIsKnown
<1> QED
  BY <1>2 DEF LenFieldInDoc

------------------------------------------------------------------------------
(* What the block files on disk hold of each document. *)

\* No block of field f has a word of document d.
LensZero(d, f) == \A b \in blockFiles : b.id.field = f => b.lens[d] = 0

\* One block of field f has all the words of the document, and no other has any.
Inverted(doc, f) ==
  \E b \in blockFiles :
    /\ b.id.field = f
    /\ \A k \in 1 .. WordsIn(doc, f) : <<doc.id, k>> \in b.tokens
    /\ b.lens[doc.id] = WordsIn(doc, f)
    /\ \A a \in blockFiles \ {b} : a.id.field = f => a.lens[doc.id] = 0

\* Whether field f of the documents that worker w holds is not yet, or is,
\* written; neither is said of a worker or a call that has met an error.
Unread(w, f) == pc[w] \in {"next", "add", "invert"} \/ (pc[w] = "wait" /\ ipc[<<w, f>>] \notin {"send", "sent"})
Written(w, f) ==
  \/ pc[w] \in {"save", "append"}
  \/ pc[w] = "wait" /\ ipc[<<w, f>>] \in {"send", "sent"} /\ ~failed[<<w, f>>]

Inversion ==
  RoomForBatches /\ dropped = 0 /\ ~cancelled =>
    \A f \in Fields :
      /\ \A d \in DocIDs : d >= nodeIDX => LensZero(d, f)
      /\ \A w \in Workers : \A doc \in Held(w) :
           /\ Unread(w, f) => LensZero(doc.id, f)
           /\ Written(w, f) => Inverted(doc, f)
      /\ \A doc \in Range(allSearchNodes) : Inverted(doc, f)

LEMMA WorkerKeepsInversion ==
  ASSUME TypeOK, Control, CallsProgress, DocumentIDs, BatchProgress, Inversion,
         RoomForBatches, dropped = 0, ~cancelled, NEW w \in Workers, Worker(w)
  PROVE  Inversion'
<1>1. /\ UNCHANGED <<blockFiles, failed>>
      /\ \A v \in Workers \ {w} : pc'[v] = pc[v] /\ searchNodes'[v] = searchNodes[v]
      /\ \A c \in Calls : c[1] # w => ipc'[c] = ipc[c]
  BY WorkerFootprint
<1>2. \A f \in Fields : /\ \A d : LensZero(d, f)' <=> LensZero(d, f)
                        /\ \A doc : Inverted(doc, f)' <=> Inverted(doc, f)
  BY <1>1 DEF LensZero, Inverted, WordsIn
<1>3. ASSUME NEW f \in Fields, NEW v \in Workers \ {w}, NEW doc \in Held(v)'
      PROVE  /\ Unread(v, f)' => LensZero(doc.id, f)'
             /\ Written(v, f)' => Inverted(doc, f)'
  <2>1. doc \in Held(v) /\ ipc'[<<v, f>>] = ipc[<<v, f>>]
    BY <1>1, <1>3, CallPair DEF Held
  <2>2. (Unread(v, f)' <=> Unread(v, f)) /\ (Written(v, f)' <=> Written(v, f))
    BY <1>1, <2>1 DEF Unread, Written
  <2> QED
    BY <1>2, <2>1, <2>2 DEF Inversion
<1>4. CASE AddDocument(w)
  <2> DEFINE new == [id |-> nodeIDX, obj |-> Current(w)]
  <2>1. /\ pc[w] = "add" /\ pc'[w] \in {"invert", "next"}
        /\ searchNodes' = [searchNodes EXCEPT ![w] = Append(@, new)]
        /\ nodeIDX' = nodeIDX + 1 /\ nodeIDX \in Nat
        /\ UNCHANGED <<allSearchNodes, ipc>>
    BY <1>4 DEF AddDocument, NextDocID, stores, invertVars, TypeOK, SharedTypeOK, WorkerTypeOK
  <2>2. nodeIDX \in DocIDs /\ nodeIDX >= nodeIDX
    BY <1>4, <2>1, NewDocumentFits
  <2>3. searchNodes[w] \in Seq(Documents) /\ new \in Documents
    BY <1>4, NewDocument DEF TypeOK, WorkerTypeOK
  <2>4. \A doc \in Held(w)' : doc \in Held(w) \/ doc = new
    <3>1. searchNodes'[w] = Append(searchNodes[w], new)
      BY <2>1 DEF TypeOK, WorkerTypeOK
    <3> HIDE DEF new
    <3> QED
      BY <2>3, <3>1, AppendRange DEF Held
  <2>5. \A f \in Fields : Unread(w, f) /\ ~Written(w, f)'
    BY <2>1 DEF Unread, Written
  <2>6. \A f \in Fields, doc \in Held(w)' : LensZero(doc.id, f)
    BY <2>2, <2>4, <2>5 DEF Inversion
  <2>7. \A d \in DocIDs : d >= nodeIDX' => d >= nodeIDX
    BY <2>1 DEF DocIDs
  <2> QED
    BY <1>2, <1>3, <2>1, <2>5, <2>6, <2>7 DEF Inversion
<1>5. CASE AppendNodes(w)
  <2>1. /\ pc[w] = "append"
        /\ allSearchNodes' = allSearchNodes \o searchNodes[w]
        /\ searchNodes'[w] = <<>>
        /\ nodeIDX' = nodeIDX
    BY <1>5 DEF AppendNodes, ListedWithSaved, shared, TypeOK, WorkerTypeOK
  <2>2. \A doc \in Range(allSearchNodes') : doc \in Range(allSearchNodes) \/ doc \in Held(w)
    BY <2>1, ConcatDocuments DEF Held, TypeOK, StoresTypeOK, WorkerTypeOK
  <2>3. \A f \in Fields : Written(w, f)
    BY <2>1 DEF Written
  <2>4. Held(w)' = {}
    BY <2>1 DEF Held, Range
  <2>5. \A f \in Fields, doc \in Range(allSearchNodes') : Inverted(doc, f)
    BY <2>2, <2>3 DEF Inversion
  <2> QED
    BY <1>2, <1>3, <2>1, <2>4, <2>5 DEF Inversion
<1>6. CASE ~AddDocument(w) /\ ~AppendNodes(w)
  <2>1. UNCHANGED <<allSearchNodes, nodeIDX, searchNodes>>
    BY <1>6 DEF Worker, WorkerCancelled, SkipUnnamed, CheckWay, CheckNode, StartInvert,
       FinishBatch, ReceiveInvert, SaveDocs, shared, stores
  <2>2. ASSUME searchNodes[w] # <<>>, NEW f \in Fields
        PROVE  (Unread(w, f)' => Unread(w, f)) /\ (Written(w, f)' => Written(w, f))
    <3>1. CASE StartInvert(w)
      <4>1. /\ pc[w] \in {"next", "invert"} /\ pc'[w] = "wait" /\ ipc'[<<w, f>>] = "parse"
        BY <3>1, CallPair DEF StartInvert, BatchRead, TypeOK, WorkerTypeOK
      <4> QED
        BY <4>1 DEF Unread, Written
    <3>2. ASSUME NEW g \in Fields, ReceiveInvert(w, g)
          PROVE  (Unread(w, f)' => Unread(w, f)) /\ (Written(w, f)' => Written(w, f))
      <4>1. /\ pc[w] = "wait" /\ ipc[<<w, g>>] = "send"
            /\ ipc' = [ipc EXCEPT ![<<w, g>>] = "sent"]
            /\ pc'[w] = AfterInvert(w, g)
        BY <3>2 DEF ReceiveInvert, TypeOK, WorkerTypeOK
      <4>2. <<w, f>> \in Calls /\ <<w, g>> \in Calls
        BY CallPair
      <4>3. ipc'[<<w, f>>] = ipc[<<w, f>>] \/ (ipc'[<<w, f>>] = "sent" /\ ipc[<<w, f>>] = "send")
        BY <4>1, <4>2 DEF TypeOK, InvertTypeOK
      <4>4. pc'[w] \in {"wait", "error", "save"}
        BY <4>1 DEF AfterInvert
      <4>5. Unread(w, f)' => Unread(w, f)
        BY <4>1, <4>3, <4>4 DEF Unread
      <4>6. ASSUME pc'[w] = "save"
            PROVE  Written(w, f)
        <5>1. ~failed[<<w, g>>] /\ \A h \in Fields \ {g} : ipc[<<w, h>>] = "sent"
          BY <4>1, <4>6 DEF AfterInvert
        <5>2. CASE f = g
          BY <4>1, <5>1, <5>2 DEF Written
        <5>3. CASE f # g
          <6>1. ipc[<<w, f>>] = "sent"
            BY <5>1, <5>3
          <6>2. ~failed[<<w, f>>]
            BY <4>1, <4>2, <6>1 DEF Control, CallControl
          <6> QED
            BY <4>1, <6>1, <6>2 DEF Written
        <5> QED
          BY <5>2, <5>3
      <4> QED
        BY <1>1, <4>1, <4>3, <4>4, <4>5, <4>6 DEF Written
    <3>3. CASE ~StartInvert(w) /\ ~ \E g \in Fields : ReceiveInvert(w, g)
      <4>1. /\ ipc' = ipc
            /\ \/ pc'[w] = pc[w]
               \/ pc[w] = "next" /\ pc'[w] = "add"
               \/ pc[w] = "save" /\ pc'[w] = "append"
               \/ pc'[w] \in {"error", "done"}
        BY <1>6, <3>3 DEF Worker, WorkerCancelled, SkipUnnamed, CheckWay, CheckNode,
           FinishBatch, SaveDocs, invertVars, MoreObjects, TypeOK, WorkerTypeOK
      <4> QED
        BY <1>1, <4>1 DEF Unread, Written
    <3> QED
      BY <3>1, <3>2, <3>3
  <2>3. \A doc \in Held(w) : searchNodes[w] # <<>>
    BY DEF Held, Range
  <2>4. Held(w)' = Held(w)
    BY <2>1 DEF Held
  <2> QED
    BY <1>2, <1>3, <2>1, <2>2, <2>3, <2>4 DEF Inversion
<1> QED
  BY <1>4, <1>5, <1>6

\* A call that does not write its block leaves the block files alone, and ends
\* with an error if it ends.
LEMMA QuietCallKeepsInversion ==
  ASSUME TypeOK, Inversion, RoomForBatches, dropped = 0, ~cancelled, NEW c \in Calls, Invert(c),
         blockFiles' = blockFiles, ipc'[c] = "send" => failed'[c]
  PROVE  Inversion'
<1>1. /\ UNCHANGED <<pc, searchNodes, allSearchNodes, nodeIDX>>
      /\ ipc[c] \notin {"idle", "sent", "send"} /\ ipc'[c] # "sent"
      /\ \A d \in Calls \ {c} : ipc'[d] = ipc[d] /\ failed'[d] = failed[d]
  BY CallFootprint DEF workerVars, Active
<1>2. \A f \in Fields : /\ \A d : LensZero(d, f)' <=> LensZero(d, f)
                        /\ \A doc : Inverted(doc, f)' <=> Inverted(doc, f)
  BY DEF LensZero, Inverted, WordsIn
<1>3. ASSUME NEW w \in Workers, NEW f \in Fields
      PROVE  (Unread(w, f)' => Unread(w, f)) /\ (Written(w, f)' => Written(w, f))
  <2>1. CASE <<w, f>> = c
    BY <1>1, <2>1 DEF Unread, Written
  <2>2. CASE <<w, f>> # c
    BY <1>1, <2>2, CallPair DEF Unread, Written
  <2> QED
    BY <2>1, <2>2
<1>4. \A w \in Workers : Held(w)' = Held(w)
  BY <1>1 DEF Held
<1> QED
  BY <1>1, <1>2, <1>3, <1>4 DEF Inversion

\* One that does adds a block with the words of its documents.
LEMMA WriteKeepsInversion ==
  ASSUME TypeOK, Control, CallsProgress, DocumentIDs, Holdings, BatchProgress, BatchFits,
         OneBlockPerCall, BlockFilesExclusive, BlocksFresh, Inversion,
         RoomForBatches, dropped = 0, ~cancelled,
         NEW c \in Calls, ipc[c] = "finalWrite",
         blockFiles' = {b \in blockFiles : b.id # IndexID(c)} \cup {BlockWith(c, Segment(c))},
         failed' = failed, ipc' = [ipc EXCEPT ![c] = "send"],
         UNCHANGED <<workerVars, nodeIDX, allSearchNodes>>
  PROVE  Inversion'
<1> DEFINE w == c[1]
           f == c[2]
           new == BlockWith(c, Segment(c))
<1>1. w \in Workers /\ f \in Fields /\ c = <<w, f>>
  BY CallParts
<1>2. \A b \in blockFiles : b.id # IndexID(c)
  BY DEF BlocksFresh, Writing, IndexID
<1>3. blockFiles' = blockFiles \cup {new} /\ new \notin blockFiles
  BY <1>2 DEF BlockWith
<1>4. /\ new.id.field = f
      /\ new.tokens = Segment(c)
      /\ new.lens = LenFieldInDoc(c)
  BY DEF BlockWith, IndexID
<1>5. parsed[c] <= Len(InputOf(c)) /\ parsed[c] \in Nat
  BY DEF Control, CallControl, Active, TypeOK, InvertTypeOK
<1>6. ASSUME NEW d \in DocIDs, \A e \in Held(w) : e.id # d
      PROVE  new.lens[d] = 0
  BY <1>4, <1>5, <1>6, LengthOfOther
<1> HIDE DEF new
\* What is known of the other documents, or of the other field, stays.
<1>7. ASSUME NEW g \in Fields, NEW d \in DocIDs, g # f \/ \A e \in Held(w) : e.id # d, LensZero(d, g)
      PROVE  LensZero(d, g)'
  <2>1. \A b \in blockFiles' : b.id.field = g => b.lens[d] = 0
    BY <1>3, <1>4, <1>6, <1>7 DEF LensZero
  <2> QED
    BY <2>1 DEF LensZero
<1>8. ASSUME NEW g \in Fields, NEW doc \in Documents, doc.id \in DocIDs,
             g # f \/ \A e \in Held(w) : e.id # doc.id,
             Inverted(doc, g)
      PROVE  Inverted(doc, g)'
  <2>1. PICK b \in blockFiles : /\ b.id.field = g
                                /\ \A k \in 1 .. WordsIn(doc, g) : <<doc.id, k>> \in b.tokens
                                /\ b.lens[doc.id] = WordsIn(doc, g)
                                /\ \A a \in blockFiles \ {b} : a.id.field = g => a.lens[doc.id] = 0
    BY <1>8 DEF Inverted
  <2>2. b \in blockFiles'
    BY <1>3
  <2>3. \A a \in blockFiles' \ {b} : a.id.field = g => a.lens[doc.id] = 0
    BY <1>3, <1>4, <1>6, <1>8, <2>1
  <2>4. \E a \in blockFiles' :
          /\ a.id.field = g
          /\ \A k \in 1 .. WordsIn(doc, g) : <<doc.id, k>> \in a.tokens
          /\ a.lens[doc.id] = WordsIn(doc, g)
          /\ \A e \in blockFiles' \ {a} : e.id.field = g => e.lens[doc.id] = 0
    BY <2>1, <2>2, <2>3
  <2> QED
    BY <2>4 DEF Inverted, WordsIn
<1>9. \A e \in Documents : Known(e) /\ e \notin Held(w) => \A d \in Held(w) : d.id # e.id
  BY <1>1, HeldIsKnown, SameID
<1>10. ASSUME NEW d \in DocIDs, d >= nodeIDX, NEW g \in Fields
       PROVE  LensZero(d, g)'
  <2>1. \A e \in Held(w) : e.id < nodeIDX /\ e.id \in Nat
    BY <1>1, HeldIsKnown DEF Documents
  <2>2. d \in Int /\ nodeIDX \in Nat
    BY DEF DocIDs, TypeOK, SharedTypeOK
  <2>3. \A e \in Held(w) : e.id # d
    BY <1>10, <2>1, <2>2
  <2> QED
    BY <1>7, <1>10, <2>3 DEF Inversion
<1>11. ASSUME NEW doc \in Range(allSearchNodes), NEW g \in Fields
       PROVE  Inverted(doc, g)'
  <2>1. doc \in Documents /\ Known(doc) /\ doc.id \in DocIDs
    BY ListedIsKnown, KnownFits
  <2>2. \A e \in Held(w) : e.id # doc.id
    BY <1>1, <1>9, <2>1 DEF Holdings
  <2> QED
    BY <1>8, <2>1, <2>2 DEF Inversion
\* The documents of another worker, or another field of them.
<1>12. ASSUME NEW v \in Workers, NEW g \in Fields, <<v, g>> # c, NEW doc \in Held(v)
       PROVE  /\ Unread(v, g)' => LensZero(doc.id, g)'
              /\ Written(v, g)' => Inverted(doc, g)'
  <2>1. ipc'[<<v, g>>] = ipc[<<v, g>>]
    BY <1>12, CallPair DEF TypeOK, InvertTypeOK
  <2>2. (Unread(v, g)' <=> Unread(v, g)) /\ (Written(v, g)' <=> Written(v, g))
    BY <2>1 DEF Unread, Written, workerVars
  <2>3. doc \in Documents /\ Known(doc) /\ doc.id \in DocIDs
    BY HeldIsKnown, KnownFits
  <2>4. g # f \/ \A e \in Held(w) : e.id # doc.id
    <3>1. CASE v = w
      BY <1>1, <1>12, <3>1
    <3>2. CASE v # w
      BY <1>1, <1>9, <2>3, <3>2 DEF Holdings
    <3> QED
      BY <3>1, <3>2
  <2> QED
    BY <1>7, <1>8, <2>2, <2>3, <2>4 DEF Inversion
\* The documents just written.
<1>13. ASSUME NEW doc \in Held(w)
       PROVE  /\ ~Unread(w, f)'
              /\ Written(w, f)' => Inverted(doc, f)'
  <2>1. pc[w] \in {"wait", "error", "failed"} /\ pc' = pc /\ ipc'[<<w, f>>] = "send"
    BY <1>1 DEF Control, CallControl, Active, workerVars, TypeOK, InvertTypeOK
  <2>2. ~Unread(w, f)'
    BY <2>1 DEF Unread
  <2>3. ASSUME Written(w, f)'
        PROVE  Inverted(doc, f)'
    <3>1. pc[w] = "wait"
      BY <2>1, <2>3 DEF Written
    <3>2. parsed[c] = Len(InputOf(c)) /\ InputOf(c) = searchNodes[w]
      BY <3>1 DEF CallsProgress, Inverting, InputOf
    <3>3. PICK i \in 1 .. parsed[c] : InputOf(c)[i] = doc
      BY <1>1, <3>2, HeldIsKnown
    <3>4. \A k \in 1 .. WordsIn(doc, f) : <<doc.id, k>> \in new.tokens
      BY <1>4, <3>3, LastSegment
    <3>5. new.lens[doc.id] = WordsIn(doc, f)
      BY <1>4, <1>5, <3>3, LengthOfHeld
    <3>6. Unread(w, f)
      BY <1>1, <3>1 DEF Unread
    <3>7. \A a \in blockFiles' \ {new} : a.id.field = f => a.lens[doc.id] = 0
      BY <1>1, <1>3, <3>6 DEF Inversion, LensZero
    <3>8. \E a \in blockFiles' :
          /\ a.id.field = f
          /\ \A k \in 1 .. WordsIn(doc, f) : <<doc.id, k>> \in a.tokens
          /\ a.lens[doc.id] = WordsIn(doc, f)
          /\ \A e \in blockFiles' \ {a} : e.id.field = f => e.lens[doc.id] = 0
      BY <1>3, <1>4, <3>4, <3>5, <3>7
    <3> QED
      BY <3>8 DEF Inverted, WordsIn
  <2> QED
    BY <2>2, <2>3
<1>14. \A v \in Workers : Held(v)' = Held(v)
  BY DEF Held, workerVars
<1>15. ASSUME NEW v \in Workers, NEW g \in Fields, NEW doc \in Held(v)
       PROVE  /\ Unread(v, g)' => LensZero(doc.id, g)'
              /\ Written(v, g)' => Inverted(doc, g)'
  BY <1>1, <1>12, <1>13, <1>15
<1> HIDE DEF w, f
<1> QED
  BY <1>10, <1>11, <1>14, <1>15 DEF Inversion

LEMMA InvertKeepsInversion ==
  ASSUME TypeOK, Control, CallsProgress, DocumentIDs, Holdings, BatchProgress, BatchFits,
         OneBlockPerCall, BlockFilesExclusive, BlocksFresh, Inversion,
         RoomForBatches, dropped = 0, dropped' = 0, ~cancelled,
         NEW c \in Calls, Invert(c)
  PROVE  Inversion'
<1>1. CASE WriteBlock(c)
  <2>1. /\ ipc[c] = "finalWrite"
        /\ ipc' = [ipc EXCEPT ![c] = "send"]
        /\ UNCHANGED <<workerVars, nodeIDX, allSearchNodes>>
    BY <1>1 DEF WriteBlock, OneBlockPerCall, shared, TypeOK, InvertTypeOK
  <2>2. ~DroppedFault
    BY DEF DroppedFault
  <2>3. \/ /\ blockFiles' = {b \in blockFiles : b.id # IndexID(c)} \cup {BlockWith(c, Segment(c))}
           /\ failed' = failed
        \/ /\ blockFiles' = blockFiles
           /\ failed' = [failed EXCEPT ![c] = TRUE]
    BY <1>1, <2>1, <2>2 DEF WriteBlock, Kept
  <2>4. CASE blockFiles' = blockFiles /\ failed' = [failed EXCEPT ![c] = TRUE]
    <3>1. failed'[c]
      BY <2>4 DEF TypeOK, InvertTypeOK
    <3> QED
      BY <2>4, <3>1, QuietCallKeepsInversion
  <2> QED
    BY <2>1, <2>3, <2>4, WriteKeepsInversion
<1>2. CASE ~WriteBlock(c)
  <2>1. blockFiles' = blockFiles /\ (ipc'[c] = "send" => failed'[c])
    BY <1>2 DEF Invert, ParseNode, ParseCancelled, StreamCancelled, TakeBlock, RegisterBlock, stores,
       TypeOK, InvertTypeOK
  <2> QED
    BY <2>1, QuietCallKeepsInversion
<1> QED
  BY <1>1, <1>2

LEMMA OthersKeepInversion ==
  ASSUME TypeOK, Inversion, RoomForBatches, dropped = 0, ~cancelled, OtherStep
  PROVE  Inversion'
<1>1. /\ UNCHANGED <<nodeIDX, blockFiles, searchNodes, allSearchNodes, ipc, failed>>
      /\ \A w \in Workers : pc'[w] = pc[w] \/ pc'[w] = "failed"
  BY OtherFootprint DEF shared, stores, invertVars
<1>2. \A f \in Fields : /\ \A d : LensZero(d, f)' <=> LensZero(d, f)
                        /\ \A doc : Inverted(doc, f)' <=> Inverted(doc, f)
                        /\ \A w \in Workers : /\ Unread(w, f)' => Unread(w, f)
                                              /\ Written(w, f)' => Written(w, f)
  BY <1>1 DEF LensZero, Inverted, WordsIn, Unread, Written
<1> QED
  BY <1>1, <1>2 DEF Inversion, Held

\* The context stays cancelled and a lost write stays lost.
LEMMA ImpairedStays ==
  ASSUME TypeOK, [Next]_vars
  PROVE  (cancelled => cancelled') /\ dropped' \in Nat /\ dropped <= dropped'
<1>1. dropped \in Nat
  BY DEF TypeOK, MainTypeOK
<1>2. \/ UNCHANGED <<cancelled, dropped>> \/ Fault \/ DroppedFault \/ Cancel
  <2>1. ASSUME NEW w \in Workers, Worker(w)
        PROVE  UNCHANGED <<cancelled, dropped>>
    BY <2>1, WorkerFootprint
  <2>2. ASSUME NEW c \in Calls, Invert(c)
        PROVE  UNCHANGED <<cancelled, dropped>> \/ Fault \/ DroppedFault
    BY <2>2 DEF Invert, ParseNode, ParseCancelled, StreamCancelled, TakeBlock, RegisterBlock, WriteBlock, envVars
  <2>3. ASSUME OtherStep
        PROVE  UNCHANGED <<cancelled, dropped>> \/ Fault \/ DroppedFault \/ Cancel
    BY <2>3 DEF OtherStep, Main, ReceiveResult, WriteRtreeData, MergeField, vars, envVars,
         Collect, CollectError, CollectClosed
  <2> QED
    BY <2>1, <2>2, <2>3, StepKinds
<1> QED
  BY <1>1, <1>2 DEF Fault, DroppedFault, Cancel

LEMMA InversionAlways == Spec => []Inversion
<1>1. Init => Inversion
  BY DEF Init, Inversion, LensZero, Held, Range
<1>2. ASSUME TypeOK, Control, CallsProgress, DocumentIDs, Holdings, BatchProgress, BatchFits,
             OneBlockPerCall, BlockFilesExclusive, BlocksFresh, Inversion, [Next]_vars
      PROVE  Inversion'
  <2>1. CASE RoomForBatches /\ dropped' = 0 /\ ~cancelled'
    <3>1. RoomForBatches /\ dropped = 0 /\ dropped' = 0 /\ ~cancelled
      BY <1>2, <2>1, ImpairedStays DEF TypeOK, MainTypeOK
    <3> QED
      BY <1>2, <3>1, StepKinds, WorkerKeepsInversion, InvertKeepsInversion, OthersKeepInversion
  <2>2. CASE ~(RoomForBatches /\ dropped' = 0 /\ ~cancelled')
    BY <2>2 DEF Inversion, RoomForBatches
  <2> QED
    BY <2>1, <2>2
<1> QED
  BY <1>1, <1>2, TypesAndControl, CallsProgressAlways, DocumentIDsAlways, HoldingsAlways,
     BatchProgressAlways, BatchFitsAlways, OneBlockPerCallAlways, BlockFilesExclusiveAlways,
     BlocksFreshAlways, PTL DEF Spec

------------------------------------------------------------------------------
(* What is merged, and what the caller gets. *)

MergeState ==
  /\ mainPc \in {"mergeName", "mergeAddress", "done"} => docsCount = nodeIDX
  /\ dropped = 0 =>
       /\ mainPc \in {"mergeAddress", "done"} => merged["name"] = ToMerge("name")
       /\ mainPc = "done" => merged["address"] = ToMerge("address")

LEMMA MergeStateStep ==
  ASSUME TypeOK, MergeRunsAlone, MergeState, [Next]_vars
  PROVE  MergeState'
<1>1. CASE mainPc \notin {"mergeName", "mergeAddress", "done"}
  <2>1. CASE mainPc' \in {"mergeName", "mergeAddress", "done"}
    <3>1. OtherStep
      BY <1>1, <2>1, StepKinds, WorkerFootprint, CallFootprint DEF mainVars
    <3>2. mainPc' = "mergeName" /\ docsCount' = nodeIDX
      BY <1>1, <2>1, <3>1, MainSteps
    <3>3. nodeIDX' = nodeIDX
      BY <3>1, OtherFootprint DEF shared
    <3> QED
      BY <3>2, <3>3 DEF MergeState
  <2> QED
    BY <2>1 DEF MergeState
<1>2. CASE mainPc \in {"mergeName", "mergeAddress", "done"}
  <2>1. OtherStep /\ UNCHANGED <<nodeIDX, intermediateIndices, blockFiles>>
    BY <1>2, MergeStep DEF shared, stores
  <2>2. \A f \in Fields : ToMerge(f)' = ToMerge(f)
    BY <2>1 DEF ToMerge, Registered
  <2>3. dropped' = 0 => dropped = 0 /\ ~DroppedFault
    BY ImpairedStays DEF TypeOK, MainTypeOK, DroppedFault
  <2>4. ASSUME NEW f \in Fields, MergeField(f), mainPc' # "failed", dropped' = 0
        PROVE  /\ docsCount' = docsCount
               /\ merged'[f] = ToMerge(f) /\ \A g \in Fields \ {f} : merged'[g] = merged[g]
    BY <2>3, <2>4 DEF MergeField, TypeOK, MainTypeOK
  <2>5. \A f \in Fields : MergeField(f) => docsCount' = docsCount
    BY DEF MergeField
  <2>6. mainPc' # "failed" => docsCount' = docsCount
    BY <1>2, <2>1, <2>5, MainSteps DEF TypeOK, MainTypeOK, OtherStep, Main, ReceiveResult, WriteRtreeData,
       Cancel, vars, mainVars, Collect, CollectError, CollectClosed
  <2>7. ASSUME dropped' = 0, mainPc' \in {"mergeAddress", "done"}
        PROVE  merged'["name"] = ToMerge("name")
    BY <1>2, <2>1, <2>3, <2>4, <2>7, MainSteps DEF MergeState, Fields
  <2>8. ASSUME dropped' = 0, mainPc' = "done"
        PROVE  merged'["address"] = ToMerge("address")
    BY <1>2, <2>1, <2>3, <2>4, <2>8, MainSteps DEF MergeState, Fields
  <2> QED
    BY <1>2, <2>1, <2>2, <2>6, <2>7, <2>8 DEF MergeState, Fields
<1> QED
  BY <1>1, <1>2

LEMMA MergeStateAlways == Spec => []MergeState
<1>1. Init => MergeState
  BY DEF Init, MergeState
<1>2. ASSUME TypeOK, MergeRunsAlone, MergeState, [Next]_vars
      PROVE  MergeState'
  BY <1>2, MergeStateStep
<1> QED
  BY <1>1, <1>2, TypeCorrect, MergeRunsAloneAlways, PTL DEF Spec

FilesFinite == IsFiniteSet(blockFiles)

LEMMA FilesFiniteAlways == Spec => []FilesFinite
<1> USE DEF FilesFinite
<1>1. Init => FilesFinite
  BY FS_EmptySet DEF Init
<1>2. ASSUME TypeOK, FilesFinite, [Next]_vars
      PROVE  FilesFinite'
  <2>1. ASSUME NEW c \in Calls, Invert(c)
        PROVE  IsFiniteSet(blockFiles')
    <3>1. CASE blockFiles' = blockFiles
      BY <1>2, <3>1
    <3>2. CASE \E tokens : blockFiles' = {b \in blockFiles : b.id # IndexID(c)} \cup {BlockWith(c, tokens)}
      <4>1. PICK tokens : blockFiles' = {b \in blockFiles : b.id # IndexID(c)} \cup {BlockWith(c, tokens)}
        BY <3>2
      <4>2. IsFiniteSet({b \in blockFiles : b.id # IndexID(c)})
        BY <1>2, FS_Subset
      <4> QED
        BY <4>1, <4>2, FS_AddElement
    <3>3. \/ blockFiles' = blockFiles
          \/ \E tokens : blockFiles' = {b \in blockFiles : b.id # IndexID(c)} \cup {BlockWith(c, tokens)}
      BY <2>1 DEF Invert, ParseNode, ParseCancelled, StreamCancelled, TakeBlock, RegisterBlock, WriteBlock, stores
    <3> QED
      BY <3>1, <3>2, <3>3
  <2> QED
    BY <1>2, <2>1, StepKinds, WorkerFootprint, OtherFootprint DEF stores
<1> HIDE DEF FilesFinite
<1> QED
  BY <1>1, <1>2, TypeCorrect, PTL DEF Spec

\* What the inverted document looks like in the merged index.
LEMMA MergedDocument ==
  ASSUME TypeOK, DocumentIDs, BlocksFresh, FilesFinite,
         NEW f \in Fields, merged[f] = ToMerge(f),
         NEW doc \in Documents, Known(doc), doc.id \in DocIDs, Inverted(doc, f)
  PROVE  /\ FoundWords(f, doc.id) = 1 .. WordsIn(doc, f)
         /\ FieldLength(f, doc.id) = WordsIn(doc, f)
<1>1. PICK b \in blockFiles : /\ b.id.field = f
                              /\ \A k \in 1 .. WordsIn(doc, f) : <<doc.id, k>> \in b.tokens
                              /\ b.lens[doc.id] = WordsIn(doc, f)
                              /\ \A a \in blockFiles \ {b} : a.id.field = f => a.lens[doc.id] = 0
  BY DEF Inverted
<1>2. \A a \in blockFiles : a \in merged[f] <=> a.id.field = f
  BY DEF ToMerge, Registered, BlocksFresh
<1>3. merged[f] \subseteq blockFiles /\ b \in merged[f]
  BY <1>1, <1>2 DEF ToMerge
<1>4. osmData[doc.id + 1] = doc
  BY DocumentIDsKnown DEF Indexed
<1>5. FoundWords(f, doc.id) = 1 .. WordsIn(doc, f)
  BY <1>1, <1>3, <1>4 DEF FoundWords
<1> DEFINE lens == [a \in merged[f] |-> a.lens[doc.id]]
<1>6. /\ lens[b] = WordsIn(doc, f)
      /\ \A a \in merged[f] \ {b} : lens[a] = 0
  BY <1>1, <1>2, <1>3
<1>7. IsFiniteSet(merged[f]) /\ WordsIn(doc, f) \in Nat
  BY <1>3, FS_Subset, WordsNat DEF FilesFinite
<1>8. FieldLength(f, doc.id) = SumFunctionOnSet(lens, merged[f])
  BY DEF FieldLength, SumFunction
<1> HIDE DEF lens
<1>9. FieldLength(f, doc.id) = WordsIn(doc, f)
  BY <1>3, <1>6, <1>7, <1>8, SumOfOne
<1> QED
  BY <1>5, <1>9

\* A list without repetitions holds as many documents as it is long.
LEMMA CountInjective ==
  ASSUME NEW r \in Seq(Documents), IsInjective(r)
  PROVE  IsFiniteSet(Range(r)) /\ Cardinality(Range(r)) = Len(r)
<1>1. r \in [1 .. Len(r) -> Range(r)] /\ Len(r) \in Nat
  BY DocumentRange
<1>2. r \in Injection(1 .. Len(r), Range(r)) /\ r \in Surjection(1 .. Len(r), Range(r))
  BY <1>1, DocumentRange DEF Injection, Surjection
<1>3. IsFiniteSet(1 .. Len(r)) /\ Cardinality(1 .. Len(r)) = Len(r)
  BY <1>1, FirstCount
<1>4. /\ IsFiniteSet(Range(r))
      /\ Cardinality(Range(r)) = Cardinality(1 .. Len(r)) <=> r \in Injection(1 .. Len(r), Range(r))
  BY <1>2, <1>3, FS_Surjection
<1> QED
  BY <1>2, <1>3, <1>4

\* The R-tree items repeat no document: they are as many as the numbers given.
LEMMA ItemsCounted ==
  ASSUME TypeOK, DocumentIDs
  PROVE  IsInjective(osmData) /\ Cardinality(Range(osmData)) = nodeIDX
<1>1. osmData \in Seq(Documents) /\ Numbered
  BY DocumentIDsKnown DEF TypeOK, SharedTypeOK
<1>2. \A i, j \in 1 .. Len(osmData) : osmData[i] = osmData[j] => i = j
  BY <1>1 DEF Numbered
<1>3. IsInjective(osmData)
  BY <1>1, <1>2 DEF IsInjective
<1> QED
  BY <1>1, <1>3, CountInjective DEF Numbered

\* A document known anywhere is an R-tree item.
LEMMA KnownIsItem ==
  ASSUME TypeOK, DocumentIDs, NEW doc \in Documents, Known(doc)
  PROVE  doc \in Range(osmData)
<1>1. osmData \in Seq(Documents) /\ Numbered /\ Indexed(doc)
  BY DocumentIDsKnown DEF TypeOK, SharedTypeOK
<1>2. doc.id + 1 \in 1 .. Len(osmData) /\ osmData[doc.id + 1] = doc
  BY <1>1 DEF Numbered, Indexed, Documents, TypeOK, SharedTypeOK
<1> QED
  BY <1>1, <1>2, DocumentRange

\* Past the collectors, the documents listed are the R-tree items: no worker
\* has any left, even if the context was cancelled in the meantime.
LEMMA AllListed ==
  ASSUME TypeOK, MergeRunsAlone, DocumentIDs, Holdings, mainPc \in {"mergeName", "mergeAddress", "done"}
  PROVE  Range(allSearchNodes) = Range(osmData)
<1>1. \A w \in Workers : Held(w) = {}
  BY DEF MergeRunsAlone, Holdings, Held, Range
<1>2. Range(osmData) \subseteq Range(allSearchNodes)
  BY <1>1 DEF Holdings
<1> QED
  BY <1>2, ListedIsKnown, KnownIsItem

\* A build that succeeds and was not cancelled has listed and stored every
\* document it numbered, once, with the right word count, and, when no batch
\* fills a block early and no write was lost, the merged indexes hold all its
\* words: for any input, batch size and interleaving of the goroutines.
THEOREM CompleteOnSuccessAlways == Spec => []CompleteOnSuccess
<1>1. ASSUME TypeOK, Control, MergeRunsAlone, DocumentIDs, ListedIsStored, Holdings, BatchProgress,
             BlocksFresh, WordsCounted, Inversion, MergeState, FilesFinite
      PROVE  CompleteOnSuccess
  <2>1. SUFFICES ASSUME mainPc = "done", ~cancelled
        PROVE  /\ docsCount = nodeIDX
               /\ Len(allSearchNodes) = docsCount
               /\ Range(allSearchNodes) = Range(osmData)
               /\ docStore = Range(osmData)
               /\ \A doc \in Range(osmData) :
                    /\ docWordCount[doc.id] = WordsIn(doc, "name") + WordsIn(doc, "address")
                    /\ RoomForBatches /\ dropped = 0 =>
                         \A f \in Fields : /\ FoundWords(f, doc.id) = 1 .. WordsIn(doc, f)
                                           /\ FieldLength(f, doc.id) = WordsIn(doc, f)
    BY DEF CompleteOnSuccess
  <2>2. /\ osmData \in Seq(Documents) /\ allSearchNodes \in Seq(Documents)
        /\ docStore \subseteq Documents /\ nodeIDX \in Nat
    BY <1>1 DEF TypeOK, SharedTypeOK, StoresTypeOK
  <2>3. docsCount = nodeIDX
    BY <1>1, <2>1 DEF MergeState
  <2>4. Range(allSearchNodes) = Range(osmData)
    BY <1>1, <2>1, AllListed
  <2>5. docStore = Range(osmData)
    <3>1. docStore \subseteq Range(osmData)
      BY <1>1, <2>2, KnownIsItem DEF Known
    <3> QED
      BY <1>1, <2>4, <3>1 DEF ListedIsStored
  <2>6. Len(allSearchNodes) = docsCount
    BY <1>1, <2>2, <2>3, <2>4, ItemsCounted, CountInjective DEF Holdings
  <2>7. ASSUME NEW doc \in Range(osmData)
         PROVE  doc \in Range(allSearchNodes) /\ doc \in Documents /\ Known(doc) /\ doc.id \in DocIDs
    BY <1>1, <2>4, ListedIsKnown, KnownFits
  <2>8. ASSUME NEW doc \in Range(osmData), RoomForBatches, dropped = 0, NEW f \in Fields
         PROVE  /\ FoundWords(f, doc.id) = 1 .. WordsIn(doc, f)
                /\ FieldLength(f, doc.id) = WordsIn(doc, f)
    <3>1. merged[f] = ToMerge(f)
      BY <1>1, <2>1, <2>8 DEF MergeState, Fields
    <3>2. Inverted(doc, f)
      BY <1>1, <2>1, <2>7, <2>8 DEF Inversion
    <3> QED
      BY <1>1, <2>7, <3>1, <3>2, MergedDocument
  <2>9. \A doc \in Range(osmData) : docWordCount[doc.id] = WordsIn(doc, "name") + WordsIn(doc, "address")
    BY <1>1, <2>1, <2>7 DEF WordsCounted
  <2> QED
    BY <2>3, <2>4, <2>5, <2>6, <2>8, <2>9
<1> QED
  BY <1>1, TypesAndControl, MergeRunsAloneAlways, DocumentIDsAlways, ListedIsStoredAlways, HoldingsAlways,
     BatchProgressAlways, BlocksFreshAlways, WordsCountedAlways, InversionAlways, MergeStateAlways,
     FilesFiniteAlways, PTL

------------------------------------------------------------------------------
(* The construction implements IndexBuild. *)

LEMMA PromiseInit == Init => Promise!Init
BY DEF Init, Promise!Init, Range

\* IndexBuild counts as this module does.
LEMMA PromiseCounts == ASSUME NEW S PROVE Promise!Cardinality(S) = Cardinality(S)
BY DEF Promise!Cardinality, Cardinality

LEMMA AppendItems ==
  ASSUME NEW s \in Seq(Documents), NEW d \in Documents
  PROVE  Range(Append(s, d)) = Range(s) \cup {d}
<1>1. /\ Append(s, d) \in Seq(Documents) /\ Len(s) \in Nat
      /\ Len(Append(s, d)) = Len(s) + 1
      /\ Append(s, d)[Len(s) + 1] = d
      /\ \A i \in 1 .. Len(s) : Append(s, d)[i] = s[i]
  OBVIOUS
<1>2. \A i \in 1 .. Len(s) : i \in 1 .. Len(s) + 1
  BY <1>1
<1>3. Len(s) + 1 \in 1 .. Len(s) + 1
  BY <1>1
<1>4. \A i \in 1 .. Len(s) + 1 : Append(s, d)[i] \in Range(Append(s, d))
  BY <1>1, DocumentRange
<1>5. d \in Range(Append(s, d))
  BY <1>1, <1>3, <1>4
<1>6. ASSUME NEW e \in Range(s)
      PROVE  e \in Range(Append(s, d))
  <2>1. PICK i \in 1 .. Len(s) : s[i] = e
    BY DocumentRange
  <2> QED
    BY <1>1, <1>2, <1>4, <2>1
<1> QED
  BY <1>5, <1>6, AppendRange

\* A worker numbers a document, which is then accepted, or does nothing of
\* what the caller is promised.
LEMMA WorkerKeepsPromise ==
  ASSUME TypeOK, Control, MergeRunsAlone, DocumentIDs, NEW w \in Workers, Worker(w)
  PROVE  [Promise!Next]_(Promise!vars)
<1>1. /\ UNCHANGED <<mainPc, cancelled, dropped>>
      /\ mainPc # "done"
  BY WorkerFootprint DEF mainVars, MergeRunsAlone
<1>2. CASE AddDocument(w)
  <2> DEFINE o == Current(w)
             new == [id |-> nodeIDX, obj |-> o]
  <2>1. osmData' = Append(osmData, new) /\ osmData \in Seq(Documents) /\ new \in Documents
    BY <1>2, NewDocument DEF AddDocument, TypeOK, SharedTypeOK
  <2>2. o \in Objects
    BY <2>1 DEF Documents
  <2>3. new = [id |-> Promise!Cardinality(Range(osmData)), obj |-> o]
    BY ItemsCounted, PromiseCounts
  <2> HIDE DEF new, o
  <2>4. Range(osmData') = Range(osmData) \cup {new}
    BY <2>1, AppendItems
  <2>5. Promise!Accept(o)
    BY <1>1, <2>3, <2>4 DEF Promise!Accept
  <2> QED
    BY <2>2, <2>5 DEF Promise!Next
<1>3. CASE ~AddDocument(w)
  <2>1. UNCHANGED osmData
    BY <1>3 DEF Worker, WorkerCancelled, SkipUnnamed, CheckWay, CheckNode, StartInvert,
       FinishBatch, ReceiveInvert, SaveDocs, AppendNodes, shared
  <2> QED
    BY <1>1, <2>1 DEF Promise!vars
<1> QED
  BY <1>2, <1>3

\* A step that changes no more than whether the caller has given up or a write
\* was lost.
LEMMA ImpairKeepsPromise ==
  ASSUME TypeOK, [Next]_vars, UNCHANGED osmData,
         mainPc' = mainPc \/ {mainPc, mainPc'} \cap {"done", "failed"} = {},
         mainPc = "done" => UNCHANGED <<allSearchNodes, merged>>
  PROVE  [Promise!Next]_(Promise!vars)
<1> DEFINE impaired == cancelled \/ dropped > 0
<1>1. (cancelled => cancelled') /\ dropped \in Nat /\ dropped' \in Nat /\ dropped <= dropped'
  BY ImpairedStays DEF TypeOK, MainTypeOK
<1>2. impaired => impaired'
  BY <1>1
<1>3. \A doc, f : mainPc = "done" => FoundWords(f, doc.id)' = FoundWords(f, doc.id)
  BY DEF FoundWords, WordsIn
<1> DEFINE status == IF mainPc \in {"done", "failed"} THEN mainPc ELSE "building"
           listed == IF mainPc = "done" THEN Range(allSearchNodes) ELSE {}
           findable == IF mainPc = "done"
                         THEN {doc \in Range(osmData) :
                                 \A f \in Fields : FoundWords(f, doc.id) = 1 .. WordsIn(doc, f)}
                         ELSE {}
<1>4. status' = status
  OBVIOUS
<1>5. (mainPc = "done" <=> mainPc' = "done") /\ listed' = listed
  OBVIOUS
<1>6. findable' = findable
  BY <1>3, <1>5 DEF WordsIn
<1>7. impaired' = impaired \/ (~impaired /\ impaired' = TRUE)
  BY <1>2
<1> HIDE DEF findable
<1>8. CASE impaired' = impaired
  BY <1>4, <1>5, <1>6, <1>8 DEF Promise!vars, findable
<1>9. CASE ~impaired /\ impaired' = TRUE
  BY <1>4, <1>5, <1>6, <1>9 DEF Promise!Impair, Promise!Next, findable
<1> QED
  BY <1>7, <1>8, <1>9

\* The last merge publishes the index.
LEMMA LastMergePublishes ==
  ASSUME TypeOK, MergeRunsAlone, DocumentIDs, Holdings, CompleteOnSuccess', [Next]_vars,
         OtherStep, mainPc # "done", mainPc' = "done"
  PROVE  Promise!Publish
<1>1. mainPc = "mergeAddress" /\ UNCHANGED <<osmData, allSearchNodes>>
  BY MainSteps, OtherFootprint DEF shared, stores
<1>2. Range(allSearchNodes') = Range(osmData)
  BY <1>1, AllListed
<1>3. (cancelled => cancelled') /\ dropped \in Nat /\ dropped' \in Nat /\ dropped <= dropped'
  BY ImpairedStays DEF TypeOK, MainTypeOK
<1>4. ASSUME RoomForBatches, ~cancelled', dropped' = 0
      PROVE  \A doc \in Range(osmData) : \A f \in Fields : FoundWords(f, doc.id)' = 1 .. WordsIn(doc, f)
  BY <1>1, <1>4 DEF CompleteOnSuccess, RoomForBatches, WordsIn
<1> DEFINE found == {doc \in Range(osmData) :
                       \A f \in Fields : FoundWords(f, doc.id) = 1 .. WordsIn(doc, f)}
<1>5. found' \subseteq Range(osmData)
  BY <1>1
<1>6. RoomForBatches /\ ~(cancelled \/ dropped > 0)' => found' = Range(osmData)
  BY <1>1, <1>3, <1>4 DEF WordsIn
<1>7. (cancelled \/ dropped > 0)' \in {cancelled \/ dropped > 0, TRUE}
  <2>1. CASE (cancelled \/ dropped > 0)'
    BY <2>1
  <2>2. CASE ~(cancelled \/ dropped > 0)'
    <3>1. ~(cancelled \/ dropped > 0)
      BY <1>3, <2>2
    <3> QED
      BY <2>2, <3>1
  <2> QED
    BY <2>1, <2>2
<1> HIDE DEF found
<1> QED
  BY <1>1, <1>2, <1>5, <1>6, <1>7 DEF Promise!Publish, found

\* An error of the collectors, of the R-tree items or of a merge ends the build.
LEMMA ErrorFails ==
  ASSUME TypeOK, OtherStep, mainPc # "failed", mainPc' = "failed"
  PROVE  Promise!Fail
<1>1. \/ ReceiveResult /\ UNCHANGED dropped
      \/ WriteRtreeData /\ UNCHANGED dropped
      \/ \E f \in Fields : MergeField(f) /\ UNCHANGED dropped
  BY DEF OtherStep, Main, ReceiveResult, WriteRtreeData, MergeField, AfterMerge, Fault, envVars,
         Cancel, vars, mainVars, Collect, CollectError, CollectClosed
<1>2. mainPc # "done" /\ UNCHANGED <<osmData, cancelled, dropped>>
  BY <1>1, OtherFootprint DEF ReceiveResult, WriteRtreeData, MergeField, Fault, DroppedFault, envVars, shared
<1> QED
  BY <1>2 DEF Promise!Fail

LEMMA OthersKeepPromise ==
  ASSUME TypeOK, MergeRunsAlone, DocumentIDs, Holdings, CompleteOnSuccess', [Next]_vars, OtherStep
  PROVE  [Promise!Next]_(Promise!vars)
<1>1. UNCHANGED <<osmData, allSearchNodes>>
  BY OtherFootprint DEF shared, stores
<1>2. mainPc \in {"done", "failed"} => mainPc' = mainPc
  BY DEF OtherStep, Main, ReceiveResult, WriteRtreeData, MergeField, Cancel, vars, mainVars,
         Collect, CollectError, CollectClosed
<1>3. CASE mainPc' = mainPc \/ {mainPc, mainPc'} \cap {"done", "failed"} = {}
  BY <1>1, <1>2, <1>3, MainSteps, ImpairKeepsPromise
<1>4. CASE mainPc' = "done" /\ mainPc # "done"
  BY <1>4, LastMergePublishes DEF Promise!Next
<1>5. CASE mainPc' = "failed" /\ mainPc # "failed"
  BY <1>5, ErrorFails DEF Promise!Next
<1> QED
  BY <1>2, <1>3, <1>4, <1>5

\* The goroutines, blocks and merges keep what IndexBuild promises the caller,
\* whatever fails: documents are accepted one by one under consecutive IDs, and
\* the build ends once, in an error or with exactly the accepted documents.
THEOREM KeepsPromise == Spec => ImplementsIndexBuild
<1>1. ASSUME TypeOK, Control, MergeRunsAlone, DocumentIDs, Holdings, CompleteOnSuccess', [Next]_vars
      PROVE  [Promise!Next]_(Promise!vars)
  <2>1. ASSUME NEW c \in Calls, Invert(c)
        PROVE  [Promise!Next]_(Promise!vars)
    <3>1. /\ UNCHANGED <<mainPc, osmData>>
          /\ mainPc # "done"
      BY <1>1, <2>1, CallFootprint DEF mainVars, MergeRunsAlone, Active
    <3> QED
      BY <1>1, <3>1, ImpairKeepsPromise
  <2> QED
    BY <1>1, <2>1, StepKinds, WorkerKeepsPromise, OthersKeepPromise
<1> QED
  BY <1>1, PromiseInit, TypesAndControl, MergeRunsAloneAlways, DocumentIDsAlways, HoldingsAlways,
     CompleteOnSuccessAlways, PTL DEF Spec, ImplementsIndexBuild, Promise!Spec

==============================================================================
