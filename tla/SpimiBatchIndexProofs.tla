------------------------ MODULE SpimiBatchIndexProofs ------------------------
(***************************************************************************)
(* Theorems about SpimiBatchIndex, for every input, batch size, posting    *)
(* limit, number of failures and cancellation: types and control, then     *)
(* what its goroutines share, which are the block files, the document IDs  *)
(* and the document store.                                                 *)
(***************************************************************************)
EXTENDS SpimiBatchIndex, TLAPS

(***************************************************************************)
(* The control of the goroutines, which type correctness and everything    *)
(* else rests on.                                                          *)
(***************************************************************************)
\* A SpimiInvert call is under way only while its worker waits for it, or has
\* given up on it after the error of the other field; it never parses more
\* documents than it was handed.
Active(c) == ipc[c] \notin {"idle", "sent"}

CallControl ==
  \A c \in Calls :
    /\ Active(c) => pc[c[1]] \in {"wait", "error", "failed"}
    /\ Active(c) => parsed[c] <= Len(InputOf(c))
    /\ ipc[c] = "parse" => parsed[c] < Len(InputOf(c))
    /\ ipc[c] = "sent" /\ failed[c] => pc[c[1]] \in {"error", "failed"}
    /\ ipc[c] = "idle" => ~failed[c]
    /\ pc[c[1]] = "wait" => ipc[c] # "idle"

\* A worker adds only an object of its batch, and inverts only a list that
\* holds a document.
WorkerControl ==
  \A w \in Workers :
    /\ pc[w] = "add" => pos[w] <= Len(Batch(w))
    /\ pc[w] = "invert" => searchNodes[w] # <<>>

\* The error of a worker reaches SpimiBatchIndex before the end of its side.
MainControl ==
  /\ \A w \in Workers : pc[w] = "failed" => collector[w[1]] = "err"
  /\ \A side \in Sides :
       /\ collector[side] = "nil" => AllReturned(side)
       /\ collector[side] = "err" /\ mainPc = "collect" =>
            \E i \in 1 .. Len(errChan) : errChan[i] = "err"
  /\ mainPc \in {"mergeName", "mergeAddress", "done"} =>
       \A side \in Sides : collector[side] = "nil"

Control == CallControl /\ WorkerControl /\ MainControl

------------------------------------------------------------------------------
(* Facts about the constants. *)

\* The objects of a batch are objects of the input.
LEMMA BatchObjects ==
  ASSUME NEW w \in Workers
  PROVE  Batch(w) \in Seq(Objects)
<1>1. w[1] \in Sides /\ w[2] \in 0 .. Len(Input(w[1])) - 1
  BY DEF Workers
<1>2. Input(w[1]) \in Seq(Objects)
  BY InputAssumption DEF Input
<1> DEFINE last == IF w[2] + BatchSize > Len(Input(w[1])) THEN Len(Input(w[1])) ELSE w[2] + BatchSize
<1>3. last \in Int /\ last <= Len(Input(w[1])) /\ w[2] + 1 \in Int /\ 1 <= w[2] + 1
  BY <1>1, <1>2, BoundAssumption
<1>4. SubSeq(Input(w[1]), w[2] + 1, last) \in Seq(Objects)
  BY <1>2, <1>3
<1> QED
  BY <1>4 DEF Batch

\* A word count is a number.
LEMMA WordsNat ==
  ASSUME NEW doc \in Documents, NEW f \in Fields
  PROVE  WordsIn(doc, f) \in Nat
BY InputAssumption DEF WordsIn, Documents

\* The tokens of a block are tokens.
LEMMA SegmentTokens ==
  ASSUME TypeOK, NEW c \in Calls, parsed[c] <= Len(InputOf(c))
  PROVE  Segment(c) \subseteq Tokens
<1>1. InputOf(c) \in Seq(Documents) /\ parsed[c] \in Nat
  BY DEF InputOf, Calls, TypeOK, WorkerTypeOK, InvertTypeOK
<1>2. \A i \in 1 .. parsed[c] : InputOf(c)[i] \in Documents
  BY <1>1
<1>3. \A i \in 1 .. parsed[c] : InputOf(c)[i].id \in Nat /\ WordsIn(InputOf(c)[i], c[2]) \in Nat
  BY <1>2, WordsNat DEF Documents, Calls
<1> QED
  BY <1>3 DEF Segment, Tokens

LEMMA CallParts ==
  ASSUME NEW c \in Calls
  PROVE  c[1] \in Workers /\ c[2] \in Fields /\ c = <<c[1], c[2]>>
BY DEF Calls

LEMMA CallPair ==
  ASSUME NEW w \in Workers, NEW f \in Fields
  PROVE  <<w, f>> \in Calls
BY DEF Calls

LEMMA WorkerSide ==
  ASSUME NEW w \in Workers
  PROVE  w[1] \in Sides
BY DEF Workers

------------------------------------------------------------------------------
(* Type correctness. *)

LEMMA InitTypeOK == Init => TypeOK
<1> SUFFICES ASSUME Init PROVE TypeOK
  OBVIOUS
<1>1. SharedTypeOK
  BY DEF Init, SharedTypeOK
<1>2. StoresTypeOK
  BY DEF Init, StoresTypeOK
<1>3. WorkerTypeOK
  BY DEF Init, WorkerTypeOK
<1>4. InvertTypeOK
  BY DEF Init, InvertTypeOK
<1>5. MainTypeOK
  <2>1. MaxFaults \in Nat
    BY BoundAssumption
  <2>2. 0 \in 0 .. MaxFaults /\ 0 \in 0 .. 0
    BY <2>1
  <2>3. errChan \in Seq({"nil", "err"})
    BY DEF Init
  <2>4. collector \in [Sides -> {"collect", "nil", "err"}] /\ merged \in [Fields -> SUBSET BlockFiles]
    BY DEF Init
  <2> QED
    BY <2>2, <2>3, <2>4 DEF Init, MainTypeOK
<1> QED
  BY <1>1, <1>2, <1>3, <1>4, <1>5 DEF TypeOK

\* What leaves a group of variables alone keeps its types.
LEMMA TypesKept ==
  /\ SharedTypeOK /\ UNCHANGED shared => SharedTypeOK'
  /\ StoresTypeOK /\ UNCHANGED stores => StoresTypeOK'
  /\ WorkerTypeOK /\ UNCHANGED workerVars => WorkerTypeOK'
  /\ InvertTypeOK /\ UNCHANGED invertVars => InvertTypeOK'
  /\ MainTypeOK /\ UNCHANGED <<mainVars, envVars>> => MainTypeOK'
<1>1. SharedTypeOK /\ UNCHANGED shared => SharedTypeOK'
  BY DEF SharedTypeOK, shared
<1>2. StoresTypeOK /\ UNCHANGED stores => StoresTypeOK'
  BY DEF StoresTypeOK, stores
<1>3. WorkerTypeOK /\ UNCHANGED workerVars => WorkerTypeOK'
  BY DEF WorkerTypeOK, workerVars
<1>4. InvertTypeOK /\ UNCHANGED invertVars => InvertTypeOK'
  BY DEF InvertTypeOK, invertVars
<1>5. MainTypeOK /\ UNCHANGED <<mainVars, envVars>> => MainTypeOK'
  BY DEF MainTypeOK, mainVars, envVars
<1> QED
  BY <1>1, <1>2, <1>3, <1>4, <1>5

\* A failing I/O operation stays within the bound.
LEMMA FaultType ==
  ASSUME MainTypeOK, Fault \/ DroppedFault
  PROVE  faults' \in 0 .. MaxFaults /\ dropped' \in 0 .. faults' /\ cancelled' \in BOOLEAN
<1>1. MaxFaults \in Nat
  BY BoundAssumption
<1> QED
  BY <1>1 DEF MainTypeOK, Fault, DroppedFault

LEMMA WorkerKeepsTypes ==
  ASSUME TypeOK, Control, NEW w \in Workers, Worker(w)
  PROVE  TypeOK'
<1> USE TypesKept DEF TypeOK
<1>1. CASE WorkerCancelled(w)
  <2>1. WorkerTypeOK'
    BY <1>1 DEF WorkerCancelled, WorkerTypeOK
  <2> QED
    BY <1>1, <2>1 DEF WorkerCancelled
<1>2. CASE SkipUnnamed(w)
  <2>1. WorkerTypeOK'
    BY <1>2 DEF SkipUnnamed, WorkerTypeOK
  <2> QED
    BY <1>2, <2>1 DEF SkipUnnamed
<1>3. CASE CheckWay(w)
  <2>1. Current(w) \in Objects
    BY <1>3, BatchObjects DEF CheckWay, MoreObjects, Current, WorkerTypeOK
  <2>2. WorkerTypeOK'
    <3>1. /\ pos' = pos \/ pos' = [pos EXCEPT ![w] = @ + 1]
          /\ pc' = pc \/ pc' = [pc EXCEPT ![w] = "add"]
          /\ searchNodes' = searchNodes
      BY <1>3 DEF CheckWay
    <3>2. pos' \in [Workers -> Nat \ {0}]
      BY <3>1 DEF WorkerTypeOK
    <3>3. pc' \in [Workers -> {"next", "add", "invert", "wait", "save", "append",
                              "error", "failed", "done"}]
      BY <3>1 DEF WorkerTypeOK
    <3> QED
      BY <3>1, <3>2, <3>3 DEF WorkerTypeOK
  <2>3. nodeBoundingBox' \in [Names -> SUBSET Boxes]
    BY <1>3, <2>1 DEF CheckWay, SharedTypeOK, Boxes
  <2>4. SharedTypeOK'
    BY <1>3, <2>3 DEF CheckWay, SharedTypeOK
  <2> QED
    BY <1>3, <2>2, <2>4 DEF CheckWay
<1>4. CASE CheckNode(w)
  <2>1. WorkerTypeOK'
    <3>1. /\ pos' = pos \/ pos' = [pos EXCEPT ![w] = @ + 1]
          /\ pc' = pc \/ pc' = [pc EXCEPT ![w] = "add"]
          /\ searchNodes' = searchNodes
      BY <1>4 DEF CheckNode
    <3>2. pos' \in [Workers -> Nat \ {0}]
      BY <3>1 DEF WorkerTypeOK
    <3>3. pc' \in [Workers -> {"next", "add", "invert", "wait", "save", "append",
                              "error", "failed", "done"}]
      BY <3>1 DEF WorkerTypeOK
    <3> QED
      BY <3>1, <3>2, <3>3 DEF WorkerTypeOK
  <2> QED
    BY <1>4, <2>1 DEF CheckNode
<1>5. CASE AddDocument(w)
  <2>1. Current(w) \in Objects
    BY <1>5, BatchObjects DEF AddDocument, Current, WorkerTypeOK, Control, WorkerControl
  <2>2. [id |-> nodeIDX, obj |-> Current(w)] \in Documents
    BY <2>1 DEF Documents, SharedTypeOK
  <2>3. WorkerTypeOK'
    <3>1. searchNodes' \in [Workers -> Seq(Documents)]
      BY <1>5, <2>2 DEF AddDocument, WorkerTypeOK
    <3> QED
      BY <1>5, <3>1 DEF AddDocument, WorkerTypeOK
  <2>4. nodeBoundingBox' \in [Names -> SUBSET Boxes]
    BY <1>5, <2>1 DEF AddDocument, SharedTypeOK, Boxes
  <2>5. nodeIDX' \in Nat /\ osmData' \in Seq(Documents)
    BY <1>5, <2>2 DEF AddDocument, SharedTypeOK, NextDocID
  <2>6. SharedTypeOK'
    BY <1>5, <2>4, <2>5 DEF AddDocument, SharedTypeOK
  <2> QED
    BY <1>5, <2>3, <2>6 DEF AddDocument
<1>6. CASE StartInvert(w)
  <2>1. WorkerTypeOK'
    BY <1>6 DEF StartInvert, WorkerTypeOK
  <2>2. InvertTypeOK'
    BY <1>6 DEF StartInvert, InvertTypeOK
  <2> QED
    BY <1>6, <2>1, <2>2 DEF StartInvert
<1>7. CASE FinishBatch(w)
  <2>1. WorkerTypeOK'
    BY <1>7 DEF FinishBatch, WorkerTypeOK
  <2> QED
    BY <1>7, <2>1 DEF FinishBatch
<1>8. ASSUME NEW f \in Fields, ReceiveInvert(w, f)
      PROVE  TypeOK'
  <2>1. AfterInvert(w, f) \in {"error", "save", "wait"}
    BY DEF AfterInvert
  <2>2. WorkerTypeOK'
    BY <1>8, <2>1 DEF ReceiveInvert, WorkerTypeOK
  <2>3. InvertTypeOK'
    BY <1>8 DEF ReceiveInvert, InvertTypeOK
  <2> QED
    BY <1>8, <2>2, <2>3 DEF ReceiveInvert
<1>9. CASE SaveDocs(w)
  <2>1. Range(searchNodes[w]) \subseteq Documents
    BY DEF Range, WorkerTypeOK
  <2>2. WorkerTypeOK'
    BY <1>9 DEF SaveDocs, WorkerTypeOK
  <2>3. StoresTypeOK'
    BY <1>9, <2>1 DEF SaveDocs, StoresTypeOK
  <2>4. MainTypeOK'
    BY <1>9, FaultType DEF SaveDocs, MainTypeOK, mainVars, envVars
  <2> QED
    BY <1>9, <2>2, <2>3, <2>4 DEF SaveDocs
<1>10. CASE AppendNodes(w)
  <2>1. WorkerTypeOK'
    BY <1>10 DEF AppendNodes, WorkerTypeOK
  <2>2. StoresTypeOK'
    BY <1>10 DEF AppendNodes, StoresTypeOK, WorkerTypeOK, ListedWithSaved
  <2> QED
    BY <1>10, <2>1, <2>2 DEF AppendNodes
<1> QED
  BY <1>1, <1>2, <1>3, <1>4, <1>5, <1>6, <1>7, <1>8, <1>9, <1>10 DEF Worker

LEMMA InvertKeepsTypes ==
  ASSUME TypeOK, Control, NEW c \in Calls, Invert(c)
  PROVE  TypeOK'
<1> USE TypesKept DEF TypeOK
<1> c[1] \in Workers /\ c[2] \in Fields
  BY CallParts
<1>1. CASE ParseNode(c)
  <2> DEFINE doc == InputOf(c)[parsed[c] + 1]
  <2>1. doc \in Documents
    BY <1>1 DEF ParseNode, InputOf, WorkerTypeOK, InvertTypeOK, Control, CallControl
  <2>2. WordsIn(doc, c[2]) \in Nat
    BY <2>1, WordsNat
  <2>3. docWordCount' \in [DocIDs -> Nat]
    <3>1. docWordCount' = [docWordCount EXCEPT ![doc.id] = @ + WordsIn(doc, c[2])]
      BY <1>1 DEF ParseNode, WordCount
    <3> HIDE DEF doc
    <3>2. \A d \in DocIDs : docWordCount[d] + WordsIn(doc, c[2]) \in Nat
      BY <2>2 DEF SharedTypeOK
    <3> QED
      BY <3>1, <3>2 DEF SharedTypeOK
  <2>4. SharedTypeOK'
    BY <1>1, <2>3 DEF ParseNode, SharedTypeOK
  <2>5. InvertTypeOK'
    BY <1>1, <2>2 DEF ParseNode, InvertTypeOK
  <2> QED
    BY <1>1, <2>4, <2>5 DEF ParseNode
<1>2. CASE ParseCancelled(c)
  <2>1. InvertTypeOK'
    BY <1>2 DEF ParseCancelled, InvertTypeOK
  <2> QED
    BY <1>2, <2>1 DEF ParseCancelled
<1>3. CASE StreamCancelled(c)
  <2>1. InvertTypeOK'
    BY <1>3 DEF StreamCancelled, InvertTypeOK
  <2> QED
    BY <1>3, <2>1 DEF StreamCancelled
<1>4. CASE TakeBlock(c)
  <2>1. MaxPosting \in Nat
    BY BoundAssumption
  <2>2. left' \in [Calls -> Nat]
    BY <1>4, <2>1 DEF TakeBlock, InvertTypeOK, LeftAfterBlock
  <2>3. InvertTypeOK'
    BY <1>4, <2>2 DEF TakeBlock, InvertTypeOK, SharedTypeOK
  <2>4. SharedTypeOK'
    BY <1>4 DEF TakeBlock, SharedTypeOK, NextBlock
  <2> QED
    BY <1>4, <2>3, <2>4 DEF TakeBlock
<1>5. CASE RegisterBlock(c)
  <2>1. IndexID(c) \in IndexIDs
    BY DEF IndexID, IndexIDs, InvertTypeOK
  <2>2. SharedTypeOK'
    BY <1>5, <2>1 DEF RegisterBlock, SharedTypeOK
  <2>3. InvertTypeOK'
    BY <1>5 DEF RegisterBlock, InvertTypeOK
  <2>4. MainTypeOK'
    BY <1>5, FaultType DEF RegisterBlock, MainTypeOK, mainVars, envVars
  <2> QED
    BY <1>5, <2>2, <2>3, <2>4 DEF RegisterBlock
<1>6. CASE WriteBlock(c)
  <2>1. LenFieldInDoc(c) \in [DocIDs -> Nat]
    <3> SUFFICES ASSUME NEW d \in DocIDs, NEW i \in 1 .. parsed[c], InputOf(c)[i].id = d
                 PROVE  WordsIn(CHOOSE doc \in Range(InputOf(c)) : doc.id = d, c[2]) \in Nat
      BY DEF LenFieldInDoc
    <3>1. InputOf(c) \in Seq(Documents)
      BY DEF InputOf, WorkerTypeOK
    <3>2. parsed[c] <= Len(InputOf(c)) /\ parsed[c] \in Nat
      BY <1>6 DEF WriteBlock, Control, CallControl, Active, InvertTypeOK
    <3>3. InputOf(c)[i] \in Range(InputOf(c)) /\ Range(InputOf(c)) \subseteq Documents
      BY <3>1, <3>2 DEF Range
    <3>4. (CHOOSE doc \in Range(InputOf(c)) : doc.id = d) \in Documents
      BY <3>3
    <3> QED
      BY <3>4, WordsNat
  <2>2. IndexID(c) \in IndexIDs
    BY DEF IndexID, IndexIDs, InvertTypeOK
  <2>3. \A tokens \in SUBSET Segment(c) : BlockWith(c, tokens) \in BlockFiles
    <3>1. Segment(c) \subseteq Tokens
      BY <1>6, SegmentTokens DEF WriteBlock, Control, CallControl, Active
    <3> QED
      BY <2>1, <2>2, <3>1 DEF BlockFiles, BlockWith
  <2>4. StoresTypeOK'
    <3>1. \/ blockFiles' = blockFiles
          \/ \E tokens \in SUBSET Segment(c) :
               blockFiles' = {b \in blockFiles : b.id # IndexID(c)} \cup {BlockWith(c, tokens)}
      BY <1>6 DEF WriteBlock, Kept, KeptOfFailed
    <3> QED
      BY <1>6, <2>3, <3>1 DEF WriteBlock, StoresTypeOK
  <2>5. InvertTypeOK'
    BY <1>6 DEF WriteBlock, InvertTypeOK
  <2>6. MainTypeOK'
    BY <1>6, FaultType DEF WriteBlock, MainTypeOK, mainVars, envVars
  <2> QED
    BY <1>6, <2>4, <2>5, <2>6 DEF WriteBlock
<1> QED
  BY <1>1, <1>2, <1>3, <1>4, <1>5, <1>6 DEF Invert

LEMMA MainKeepsTypes ==
  ASSUME TypeOK, Control, Main \/ Cancel \/ \E side \in Sides : Collect(side)
  PROVE  TypeOK'
<1> USE TypesKept DEF TypeOK
<1>1. ASSUME NEW w \in Workers, CollectError(w)
      PROVE  TypeOK'
  <2>1. WorkerTypeOK'
    BY <1>1 DEF CollectError, WorkerTypeOK
  <2>2. MainTypeOK'
    <3>1. errChan' \in Seq({"nil", "err"})
      BY <1>1 DEF CollectError, MainTypeOK
    <3>2. collector' \in [Sides -> {"collect", "nil", "err"}]
      BY <1>1 DEF CollectError, MainTypeOK
    <3> QED
      BY <1>1, <3>1, <3>2 DEF CollectError, MainTypeOK, envVars
  <2> QED
    BY <1>1, <2>1, <2>2 DEF CollectError
<1>2. ASSUME NEW side \in Sides, CollectClosed(side)
      PROVE  TypeOK'
  <2>1. MainTypeOK'
    BY <1>2 DEF CollectClosed, MainTypeOK, envVars
  <2> QED
    BY <1>2, <2>1 DEF CollectClosed
<1>3. CASE ReceiveResult
  <2>1. MainTypeOK'
    BY <1>3 DEF ReceiveResult, MainTypeOK, envVars
  <2> QED
    BY <1>3, <2>1 DEF ReceiveResult
<1>4. CASE WriteRtreeData
  <2>1. MainTypeOK'
    BY <1>4, FaultType DEF WriteRtreeData, MainTypeOK, SharedTypeOK, envVars
  <2> QED
    BY <1>4, <2>1 DEF WriteRtreeData
<1>5. ASSUME NEW f \in Fields, MergeField(f)
      PROVE  TypeOK'
  <2>1. ToMerge(f) \subseteq BlockFiles
    BY DEF StoresTypeOK, ToMerge
  <2>2. merged' \in [Fields -> SUBSET BlockFiles]
    BY <1>5, <2>1 DEF MergeField, MainTypeOK
  <2>3. faults' \in 0 .. MaxFaults /\ dropped' \in 0 .. faults' /\ cancelled' \in BOOLEAN
    BY <1>5, FaultType DEF MergeField, MainTypeOK, envVars
  <2>4. MainTypeOK'
    BY <1>5, <2>2, <2>3 DEF MergeField, AfterMerge, MainTypeOK
  <2> QED
    BY <1>5, <2>4 DEF MergeField
<1>6. CASE Cancel
  <2>1. MainTypeOK'
    BY <1>6 DEF Cancel, MainTypeOK, mainVars
  <2> QED
    BY <1>6, <2>1 DEF Cancel
<1> QED
  BY <1>1, <1>2, <1>3, <1>4, <1>5, <1>6 DEF Main, Collect, BatchesOf

------------------------------------------------------------------------------
(* The control invariant. *)

LEMMA InitControl == Init => Control
<1> SUFFICES ASSUME Init PROVE Control
  OBVIOUS
<1>1. CallControl
  BY DEF Init, CallControl, Active, Calls
<1>2. WorkerControl
  BY DEF Init, WorkerControl
<1>3. MainControl
  BY DEF Init, MainControl
<1> QED
  BY <1>1, <1>2, <1>3 DEF Control

\* A step of worker w that neither starts nor awaits a call leaves the control
\* of all calls as it is: none of its own is under way.
LEMMA QuietWorkerStep ==
  ASSUME TypeOK, CallControl, NEW w \in Workers,
         pc[w] \in {"next", "add", "invert", "save", "append"},
         pc'[w] # "wait",
         \A v \in Workers \ {w} : pc'[v] = pc[v] /\ searchNodes'[v] = searchNodes[v],
         UNCHANGED invertVars
  PROVE  CallControl'
<1> SUFFICES ASSUME NEW c \in Calls
             PROVE  /\ Active(c)' => (pc[c[1]])' \in {"wait", "error", "failed"}
                    /\ Active(c)' => parsed'[c] <= Len((searchNodes[c[1]])')
                    /\ ipc'[c] = "parse" => parsed'[c] < Len((searchNodes[c[1]])')
                    /\ ipc'[c] = "sent" /\ failed'[c] => (pc[c[1]])' \in {"error", "failed"}
                    /\ ipc'[c] = "idle" => ~failed'[c]
                    /\ (pc[c[1]])' = "wait" => ipc'[c] # "idle"
  BY DEF CallControl, InputOf
<1>1. c[1] \in Workers
  BY CallParts
<1>2. UNCHANGED <<ipc, parsed, left, blockOf, failed>>
  BY DEF invertVars
<1>3. CASE c[1] = w
  <2>1. ipc[c] \in {"idle", "sent"} /\ ~failed[c]
    BY <1>3, <1>1 DEF CallControl, Active, TypeOK, InvertTypeOK
  <2> QED
    BY <2>1, <1>2, <1>3 DEF Active
<1>4. CASE c[1] # w
  BY <1>1, <1>2, <1>4 DEF CallControl, Active, InputOf
<1> QED
  BY <1>3, <1>4

\* A step of a worker that has not returned, and does not return with an
\* error, is nothing to the collectors.
LEMMA WorkerStepMainControl ==
  ASSUME MainControl, NEW w \in Workers,
         pc[w] \notin {"done", "failed"},
         pc'[w] # "failed",
         \A v \in Workers \ {w} : pc'[v] = pc[v],
         UNCHANGED mainVars
  PROVE  MainControl'
<1>1. UNCHANGED <<collector, errChan, mainPc>>
  BY DEF mainVars
<1>2. \A v \in Workers : pc'[v] = "failed" => collector'[v[1]] = "err"
  BY <1>1 DEF MainControl
<1>3. \A side \in Sides : collector'[side] = "nil" => AllReturned(side)'
  BY <1>1 DEF MainControl, AllReturned, BatchesOf
<1> QED
  BY <1>1, <1>2, <1>3 DEF MainControl

LEMMA WorkerKeepsControl ==
  ASSUME TypeOK, Control, NEW w \in Workers, Worker(w)
  PROVE  Control'
<1> USE DEF Control
<1>1. CASE \/ WorkerCancelled(w) \/ SkipUnnamed(w) \/ CheckWay(w) \/ CheckNode(w)
  <2>1. /\ pc[w] = "next" /\ pos[w] <= Len(Batch(w))
        /\ pc' = pc \/ pc' = [pc EXCEPT ![w] = "error"]
                    \/ (pc' = [pc EXCEPT ![w] = "add"] /\ pos' = pos)
        /\ \A v \in Workers \ {w} : pos'[v] = pos[v]
        /\ searchNodes' = searchNodes
        /\ UNCHANGED <<invertVars, mainVars>>
    BY <1>1 DEF WorkerCancelled, SkipUnnamed, CheckWay, CheckNode, MoreObjects,
                TypeOK, WorkerTypeOK
  <2>2. /\ pc'[w] \in {"next", "error", "add"}
        /\ \A v \in Workers \ {w} : pc'[v] = pc[v]
        /\ pc'[w] = "add" => pos'[w] = pos[w]
    BY <2>1 DEF TypeOK, WorkerTypeOK
  <2>3. CallControl'
    BY <2>1, <2>2, QuietWorkerStep
  <2>4. WorkerControl'
    BY <2>1, <2>2 DEF WorkerControl
  <2>5. MainControl'
    BY <2>1, <2>2, WorkerStepMainControl
  <2> QED
    BY <2>3, <2>4, <2>5
<1>2. CASE AddDocument(w)
  <2> DEFINE doc == [id |-> nodeIDX, obj |-> Current(w)]
  <2>1. /\ pc[w] = "add"
        /\ searchNodes' = [searchNodes EXCEPT ![w] = Append(@, doc)]
        /\ pc' = [pc EXCEPT ![w] = IF Len(searchNodes'[w]) = BatchSize THEN "invert" ELSE "next"]
        /\ \A v \in Workers \ {w} : pos'[v] = pos[v]
        /\ UNCHANGED <<invertVars, mainVars>>
    BY <1>2 DEF AddDocument, TypeOK, WorkerTypeOK
  <2> HIDE DEF doc
  <2>2. /\ pc'[w] \in {"next", "invert"}
        /\ searchNodes'[w] # <<>>
        /\ \A v \in Workers \ {w} : pc'[v] = pc[v] /\ searchNodes'[v] = searchNodes[v]
    BY <2>1 DEF TypeOK, WorkerTypeOK
  <2>3. CallControl'
    BY <2>1, <2>2, QuietWorkerStep
  <2>4. WorkerControl'
    BY <2>1, <2>2 DEF WorkerControl
  <2>5. MainControl'
    BY <2>1, <2>2, WorkerStepMainControl
  <2> QED
    BY <2>3, <2>4, <2>5
<1>3. CASE StartInvert(w)
  <2>1. /\ pc[w] \in {"invert", "next"}
        /\ searchNodes[w] # <<>>
        /\ pc' = [pc EXCEPT ![w] = "wait"]
        /\ ipc' = [c \in Calls |-> IF c[1] = w THEN "parse" ELSE ipc[c]]
        /\ parsed' = [c \in Calls |-> IF c[1] = w THEN 0 ELSE parsed[c]]
        /\ UNCHANGED <<pos, searchNodes, failed, mainVars>>
    BY <1>3 DEF StartInvert, WorkerControl, BatchRead, LeftOver
  <2>2. CallControl'
    <3> SUFFICES ASSUME NEW c \in Calls
                 PROVE  /\ Active(c)' => (pc[c[1]])' \in {"wait", "error", "failed"}
                        /\ Active(c)' => parsed'[c] <= Len((searchNodes[c[1]])')
                        /\ ipc'[c] = "parse" => parsed'[c] < Len((searchNodes[c[1]])')
                        /\ ipc'[c] = "sent" /\ failed'[c] => (pc[c[1]])' \in {"error", "failed"}
                        /\ ipc'[c] = "idle" => ~failed'[c]
                        /\ (pc[c[1]])' = "wait" => ipc'[c] # "idle"
      BY DEF CallControl, InputOf
    <3>1. c[1] \in Workers
      BY CallParts
    <3>2. CASE c[1] = w
      <4>1. Len(searchNodes[w]) \in Nat /\ Len(searchNodes[w]) > 0
        BY <2>1 DEF TypeOK, WorkerTypeOK
      <4> QED
        BY <4>1, <3>1, <3>2, <2>1 DEF TypeOK, WorkerTypeOK
    <3>3. CASE c[1] # w
      BY <3>1, <3>3, <2>1 DEF CallControl, Active, InputOf, TypeOK, WorkerTypeOK
    <3> QED
      BY <3>2, <3>3
  <2>3. WorkerControl'
    BY <2>1 DEF WorkerControl, TypeOK, WorkerTypeOK
  <2>4. MainControl'
    BY <2>1, WorkerStepMainControl DEF TypeOK, WorkerTypeOK
  <2> QED
    BY <2>2, <2>3, <2>4
<1>4. CASE FinishBatch(w)
  <2>1. /\ pc[w] = "next"
        /\ pc' = [pc EXCEPT ![w] = "done"]
        /\ UNCHANGED <<pos, searchNodes, invertVars, mainVars>>
    BY <1>4 DEF FinishBatch, BatchRead
  <2>2. pc'[w] = "done" /\ \A v \in Workers \ {w} : pc'[v] = pc[v]
    BY <2>1 DEF TypeOK, WorkerTypeOK
  <2>3. CallControl'
    BY <2>1, <2>2, QuietWorkerStep
  <2>4. WorkerControl'
    BY <2>1, <2>2 DEF WorkerControl
  <2>5. MainControl'
    BY <2>1, <2>2, WorkerStepMainControl
  <2> QED
    BY <2>3, <2>4, <2>5
<1>5. ASSUME NEW f \in Fields, ReceiveInvert(w, f)
      PROVE  Control'
  <2> DEFINE e == <<w, f>>
  <2>1. /\ pc[w] = "wait" /\ ipc[e] = "send" /\ e \in Calls
        /\ ipc' = [ipc EXCEPT ![e] = "sent"]
        /\ pc' = [pc EXCEPT ![w] = AfterInvert(w, f)]
        /\ UNCHANGED <<pos, searchNodes, parsed, failed, mainVars>>
    BY <1>5, CallPair DEF ReceiveInvert
  <2>2. /\ pc'[w] = AfterInvert(w, f)
        /\ pc'[w] \in {"error", "save", "wait"}
        /\ \A v \in Workers \ {w} : pc'[v] = pc[v]
    BY <2>1 DEF TypeOK, WorkerTypeOK, AfterInvert
  <2>3. /\ failed[e] => pc'[w] = "error"
        /\ pc'[w] = "save" => \A g \in Fields \ {f} : ipc[<<w, g>>] = "sent"
    BY <2>2 DEF AfterInvert, TypeOK, InvertTypeOK
  <2>4. CallControl'
    <3> SUFFICES ASSUME NEW c \in Calls
                 PROVE  /\ Active(c)' => (pc[c[1]])' \in {"wait", "error", "failed"}
                        /\ Active(c)' => parsed'[c] <= Len((searchNodes[c[1]])')
                        /\ ipc'[c] = "parse" => parsed'[c] < Len((searchNodes[c[1]])')
                        /\ ipc'[c] = "sent" /\ failed'[c] => (pc[c[1]])' \in {"error", "failed"}
                        /\ ipc'[c] = "idle" => ~failed'[c]
                        /\ (pc[c[1]])' = "wait" => ipc'[c] # "idle"
      BY DEF CallControl, InputOf
    <3>1. c[1] \in Workers /\ c[2] \in Fields /\ c = <<c[1], c[2]>>
      BY CallParts
    <3> HIDE DEF e
    <3>2. CASE c = e
      <4>1. c[1] = w
        BY <3>2 DEF e
      <4>2. ipc'[c] = "sent"
        BY <3>2, <2>1 DEF TypeOK, InvertTypeOK
      <4> QED
        BY <4>1, <4>2, <3>2, <2>1, <2>2, <2>3 DEF Active
    <3>3. CASE c # e /\ c[1] = w
      <4>1. c[2] # f /\ ipc'[c] = ipc[c]
        BY <3>1, <3>3, <2>1 DEF e, TypeOK, InvertTypeOK
      <4>2. pc'[w] = "save" => ipc[c] = "sent"
        BY <4>1, <3>1, <3>3, <2>3
      <4>3. ipc[c] = "sent" => ~failed[c]
        BY <3>3, <2>1 DEF CallControl
      <4>4. ipc[c] # "idle"
        BY <3>3, <2>1 DEF CallControl
      <4>5. Active(c) => parsed[c] <= Len(searchNodes[w])
        BY <3>3 DEF CallControl, InputOf
      <4>6. ipc[c] = "parse" => parsed[c] < Len(searchNodes[w])
        BY <3>3 DEF CallControl, InputOf
      <4> QED
        BY <4>1, <4>2, <4>3, <4>4, <4>5, <4>6, <3>3, <2>1, <2>2 DEF Active
    <3>4. CASE c[1] # w
      <4>1. ipc'[c] = ipc[c]
        BY <3>4, <2>1 DEF e, TypeOK, InvertTypeOK
      <4> QED
        BY <4>1, <3>1, <3>4, <2>1, <2>2 DEF CallControl, Active, InputOf
    <3> QED
      BY <3>2, <3>3, <3>4
  <2>5. WorkerControl'
    BY <2>1, <2>2 DEF WorkerControl
  <2>6. MainControl'
    BY <2>1, <2>2, WorkerStepMainControl
  <2> QED
    BY <2>4, <2>5, <2>6
<1>6. CASE SaveDocs(w) \/ AppendNodes(w)
  <2>1. /\ pc[w] \in {"save", "append"}
        /\ \/ pc' = [pc EXCEPT ![w] = "append"]
           \/ pc' = [pc EXCEPT ![w] = "error"]
           \/ pc' = [pc EXCEPT ![w] = "next"]
        /\ \A v \in Workers \ {w} : searchNodes'[v] = searchNodes[v]
        /\ UNCHANGED <<pos, invertVars, mainVars>>
    BY <1>6 DEF SaveDocs, AppendNodes, TypeOK, WorkerTypeOK
  <2>2. /\ pc'[w] \in {"append", "error", "next"}
        /\ \A v \in Workers \ {w} : pc'[v] = pc[v]
    BY <2>1 DEF TypeOK, WorkerTypeOK
  <2>3. CallControl'
    BY <2>1, <2>2, QuietWorkerStep
  <2>4. WorkerControl'
    BY <2>1, <2>2 DEF WorkerControl
  <2>5. MainControl'
    BY <2>1, <2>2, WorkerStepMainControl
  <2> QED
    BY <2>3, <2>4, <2>5
<1> QED
  BY <1>1, <1>2, <1>3, <1>4, <1>5, <1>6 DEF Worker

\* What a step of call c may do to the control of the calls.
LEMMA CallStep ==
  ASSUME TypeOK, CallControl, NEW c \in Calls,
         Active(c), ipc'[c] # "idle", ipc'[c] # "sent",
         \A d \in Calls \ {c} : ipc'[d] = ipc[d] /\ parsed'[d] = parsed[d] /\ failed'[d] = failed[d],
         parsed'[c] <= Len(InputOf(c)),
         ipc'[c] = "parse" => parsed'[c] < Len(InputOf(c)),
         UNCHANGED workerVars
  PROVE  CallControl'
<1>1. UNCHANGED <<pc, searchNodes>>
  BY DEF workerVars
<1> QED
  BY <1>1 DEF CallControl, Active, InputOf

LEMMA InvertKeepsControl ==
  ASSUME TypeOK, Control, NEW c \in Calls, Invert(c)
  PROVE  Control'
<1> USE DEF Control
<1>1. UNCHANGED <<workerVars, mainVars>>
  BY DEF Invert, ParseNode, ParseCancelled, StreamCancelled, TakeBlock, RegisterBlock, WriteBlock
<1>2. WorkerControl' /\ MainControl'
  BY <1>1 DEF workerVars, mainVars, WorkerControl, MainControl, AllReturned
<1>3. Active(c) /\ parsed[c] \in Nat /\ Len(InputOf(c)) \in Nat /\ parsed[c] <= Len(InputOf(c))
  <2>1. Active(c)
    BY DEF Active, Invert, ParseNode, ParseCancelled, StreamCancelled, TakeBlock, RegisterBlock,
           WriteBlock
  <2>2. Len(InputOf(c)) \in Nat
    BY CallParts DEF InputOf, TypeOK, WorkerTypeOK
  <2> QED
    BY <2>1, <2>2 DEF CallControl, TypeOK, InvertTypeOK
<1>4. CASE ParseNode(c)
  <2>1. /\ parsed' = [parsed EXCEPT ![c] = @ + 1]
        /\ ipc' = [ipc EXCEPT ![c] = IF parsed[c] + 1 = Len(InputOf(c)) THEN "stream" ELSE "parse"]
        /\ failed' = failed
        /\ parsed[c] < Len(InputOf(c))
    BY <1>4 DEF ParseNode, CallControl
  <2>2. /\ parsed'[c] = parsed[c] + 1
        /\ ipc'[c] = IF parsed[c] + 1 = Len(InputOf(c)) THEN "stream" ELSE "parse"
        /\ \A d \in Calls \ {c} : ipc'[d] = ipc[d] /\ parsed'[d] = parsed[d]
    BY <2>1 DEF TypeOK, InvertTypeOK
  <2>3. parsed'[c] <= Len(InputOf(c)) /\ (ipc'[c] = "parse" => parsed'[c] < Len(InputOf(c)))
    BY <1>3, <2>1, <2>2
  <2> QED
    BY <1>1, <1>2, <1>3, <2>1, <2>2, <2>3, CallStep
<1>5. CASE \/ ParseCancelled(c) \/ StreamCancelled(c) \/ TakeBlock(c)
           \/ RegisterBlock(c) \/ WriteBlock(c)
  <2>1. /\ parsed' = parsed
        /\ \E s \in {"stream", "send", "flush", "finalFlush", "write", "finalWrite"} :
             ipc' = [ipc EXCEPT ![c] = s]
        /\ failed' = failed \/ \E b \in BOOLEAN : failed' = [failed EXCEPT ![c] = b]
    BY <1>5 DEF ParseCancelled, StreamCancelled, TakeBlock, RegisterBlock, WriteBlock
  <2>2. /\ ipc'[c] \notin {"idle", "sent", "parse"}
        /\ \A d \in Calls \ {c} : ipc'[d] = ipc[d] /\ failed'[d] = failed[d]
    BY <2>1 DEF TypeOK, InvertTypeOK
  <2> QED
    BY <1>1, <1>2, <1>3, <2>1, <2>2, CallStep
<1> QED
  BY <1>4, <1>5 DEF Invert

LEMMA MainKeepsControl ==
  ASSUME TypeOK, Control, Main \/ Cancel \/ \E side \in Sides : Collect(side)
  PROVE  Control'
<1> USE DEF Control
<1>1. ASSUME NEW w \in Workers, CollectError(w)
      PROVE  Control'
  <2>1. /\ pc[w] = "error" /\ collector[w[1]] = "collect" /\ w[1] \in Sides
        /\ pc' = [pc EXCEPT ![w] = "failed"]
        /\ collector' = [collector EXCEPT ![w[1]] = "err"]
        /\ errChan' = Append(errChan, "err")
        /\ UNCHANGED <<pos, searchNodes, invertVars, mainPc>>
    BY <1>1, WorkerSide DEF CollectError
  <2>2. pc'[w] = "failed" /\ \A v \in Workers \ {w} : pc'[v] = pc[v]
    BY <2>1 DEF TypeOK, WorkerTypeOK
  <2>3. CallControl'
    BY <2>1, <2>2, CallParts DEF CallControl, Active, InputOf, invertVars
  <2>4. WorkerControl'
    BY <2>1, <2>2 DEF WorkerControl
  <2>5. /\ collector'[w[1]] = "err"
        /\ \A side \in Sides \ {w[1]} : collector'[side] = collector[side]
    BY <2>1 DEF TypeOK, MainTypeOK
  <2>6. \A v \in Workers : pc'[v] = "failed" => collector'[v[1]] = "err"
    BY <2>1, <2>2, <2>5, WorkerSide DEF MainControl
  <2>7. \A side \in Sides : collector'[side] = "nil" => AllReturned(side)'
    BY <2>2, <2>5 DEF MainControl, AllReturned, BatchesOf
  <2>8. \A i \in 1 .. Len(errChan) : i \in 1 .. Len(errChan') /\ errChan'[i] = errChan[i]
    BY <2>1 DEF TypeOK, MainTypeOK
  <2>9. \E i \in 1 .. Len(errChan') : errChan'[i] = "err"
    <3>1. /\ Len(errChan') = Len(errChan) + 1 /\ Len(errChan) \in Nat
          /\ errChan'[Len(errChan) + 1] = "err"
      BY <2>1 DEF TypeOK, MainTypeOK
    <3> QED
      BY <3>1
  <2>10. mainPc \notin {"mergeName", "mergeAddress", "done"}
    BY <2>1 DEF MainControl
  <2>11. MainControl'
    BY <2>1, <2>5, <2>6, <2>7, <2>9, <2>10 DEF MainControl
  <2> QED
    BY <2>3, <2>4, <2>11
<1>2. ASSUME UNCHANGED <<workerVars, invertVars>>
      PROVE  CallControl' /\ WorkerControl'
  BY <1>2 DEF workerVars, invertVars, CallControl, WorkerControl, Active, InputOf
<1>3. ASSUME NEW side \in Sides, CollectClosed(side)
      PROVE  Control'
  <2>1. /\ collector[side] = "collect" /\ AllReturned(side)
        /\ collector' = [collector EXCEPT ![side] = "nil"]
        /\ errChan' = Append(errChan, "nil")
        /\ UNCHANGED <<mainPc, workerVars, invertVars>>
    BY <1>3 DEF CollectClosed
  <2>2. /\ collector'[side] = "nil"
        /\ \A t \in Sides \ {side} : collector'[t] = collector[t]
    BY <2>1 DEF TypeOK, MainTypeOK
  <2>3. pc' = pc
    BY <2>1 DEF workerVars
  <2>4. \A w \in Workers : pc'[w] = "failed" => collector'[w[1]] = "err"
    BY <2>1, <2>2, <2>3, WorkerSide DEF MainControl
  <2>5. \A t \in Sides : collector'[t] = "nil" => AllReturned(t)'
    BY <2>1, <2>2, <2>3 DEF MainControl, AllReturned
  <2>6. \A i \in 1 .. Len(errChan) : i \in 1 .. Len(errChan') /\ errChan'[i] = errChan[i]
    BY <2>1 DEF TypeOK, MainTypeOK
  <2>7. mainPc \notin {"mergeName", "mergeAddress", "done"}
    BY <2>1 DEF MainControl
  <2>8. MainControl'
    BY <2>1, <2>2, <2>4, <2>5, <2>6, <2>7 DEF MainControl
  <2> QED
    BY <1>2, <2>1, <2>8
<1>4. CASE ReceiveResult
  <2>1. /\ mainPc = "collect" /\ errChan # <<>>
        /\ mainPc' = IF Head(errChan) = "err" THEN "failed" ELSE "collect"
        /\ errChan' = Tail(errChan)
        /\ UNCHANGED <<collector, workerVars, invertVars>>
    BY <1>4 DEF ReceiveResult
  <2>2. pc' = pc
    BY <2>1 DEF workerVars
  <2>3. ASSUME mainPc' = "collect", NEW i \in 1 .. Len(errChan), errChan[i] = "err"
        PROVE  \E j \in 1 .. Len(errChan') : errChan'[j] = "err"
    <3>1. i # 1 /\ i \in Nat
      BY <2>1, <2>3
    <3>2. i - 1 \in 1 .. Len(errChan') /\ errChan'[i - 1] = errChan[i]
      BY <2>1, <2>3, <3>1 DEF TypeOK, MainTypeOK
    <3> QED
      BY <2>3, <3>2
  <2>4. MainControl'
    BY <2>1, <2>2, <2>3 DEF MainControl, AllReturned
  <2> QED
    BY <1>2, <2>1, <2>4
<1>5. CASE WriteRtreeData
  <2>1. /\ mainPc = "collect" /\ \A side \in Sides : collector[side] # "collect"
        /\ errChan = <<>>
        /\ mainPc' \in {"mergeName", "failed"}
        /\ UNCHANGED <<collector, errChan, workerVars, invertVars>>
    BY <1>5 DEF WriteRtreeData
  <2>2. \A side \in Sides : collector[side] = "nil"
    BY <2>1 DEF MainControl, TypeOK, MainTypeOK
  <2>3. MainControl'
    BY <2>1, <2>2 DEF MainControl, AllReturned, workerVars
  <2> QED
    BY <1>2, <2>1, <2>3
<1>6. ASSUME NEW f \in Fields, MergeField(f)
      PROVE  Control'
  <2>1. /\ mainPc \in {"mergeName", "mergeAddress"}
        /\ mainPc' \in {"mergeAddress", "done", "failed"}
        /\ UNCHANGED <<collector, errChan, workerVars, invertVars>>
    BY <1>6 DEF MergeField, AfterMerge
  <2>2. MainControl'
    BY <2>1 DEF MainControl, AllReturned, workerVars
  <2> QED
    BY <1>2, <2>1, <2>2
<1>7. CASE Cancel
  <2>1. UNCHANGED <<workerVars, invertVars, mainVars>>
    BY <1>7 DEF Cancel
  <2>2. MainControl'
    BY <2>1 DEF MainControl, AllReturned, workerVars, mainVars
  <2> QED
    BY <1>2, <2>1, <2>2
<1> QED
  BY <1>1, <1>3, <1>4, <1>5, <1>6, <1>7 DEF Main, Collect, BatchesOf

\* TypeOK and Control are inductive together.
LEMMA StepKeepsTypesAndControl ==
  ASSUME TypeOK, Control, [Next]_vars
  PROVE  TypeOK' /\ Control'
<1>1. CASE \E w \in Workers : Worker(w)
  BY <1>1, WorkerKeepsTypes, WorkerKeepsControl
<1>2. CASE \E c \in Calls : Invert(c)
  BY <1>2, InvertKeepsTypes, InvertKeepsControl
<1>3. CASE Main \/ Cancel \/ \E side \in Sides : Collect(side)
  BY <1>3, MainKeepsTypes, MainKeepsControl
<1>4. CASE UNCHANGED vars
  <2>1. TypeOK'
    BY <1>4, TypesKept DEF vars, TypeOK
  <2>2. CallControl'
    BY <1>4 DEF vars, workerVars, invertVars, Control, CallControl, Active, InputOf
  <2>3. WorkerControl'
    BY <1>4 DEF vars, workerVars, Control, WorkerControl
  <2>4. MainControl'
    BY <1>4 DEF vars, workerVars, mainVars, Control, MainControl, AllReturned
  <2> QED
    BY <2>1, <2>2, <2>3, <2>4 DEF Control
<1> QED
  BY <1>1, <1>2, <1>3, <1>4 DEF Next, Returned

LEMMA TypesAndControl == Spec => [](TypeOK /\ Control)
<1>1. Init => TypeOK /\ Control
  BY InitTypeOK, InitControl
<1>2. TypeOK /\ Control /\ [Next]_vars => (TypeOK /\ Control)'
  BY StepKeepsTypesAndControl
<1> QED
  BY <1>1, <1>2, PTL DEF Spec

\* Every variable stays in its set, whatever the input, the interleaving, the
\* failures and the cancellation.
THEOREM TypeCorrect == Spec => []TypeOK
<1>1. TypeOK /\ Control => TypeOK
  OBVIOUS
<1> QED
  BY <1>1, TypesAndControl, PTL

\* The merge runs alone: once SpimiBatchIndex merges, no worker and no
\* SpimiInvert call is left that could register or write a block.
THEOREM MergeRunsAloneAlways == Spec => []MergeRunsAlone
<1>1. TypeOK /\ Control => MergeRunsAlone
  <2> SUFFICES ASSUME TypeOK, Control, mainPc \in {"mergeName", "mergeAddress", "done"}
               PROVE  /\ \A w \in Workers : pc[w] = "done"
                      /\ \A c \in Calls : ipc[c] \in {"idle", "sent"} /\ ~failed[c]
    BY DEF MergeRunsAlone
  <2>1. \A side \in Sides : collector[side] = "nil" /\ AllReturned(side)
    BY DEF Control, MainControl
  <2>2. ASSUME NEW w \in Workers
        PROVE  pc[w] = "done"
    <3>1. pc[w] \in {"done", "failed"}
      BY <2>1, WorkerSide DEF AllReturned, BatchesOf
    <3>2. pc[w] # "failed"
      BY <2>1, WorkerSide DEF Control, MainControl
    <3> QED
      BY <3>1, <3>2
  <2>3. ASSUME NEW c \in Calls
        PROVE  ipc[c] \in {"idle", "sent"} /\ ~failed[c]
    <3>1. pc[c[1]] = "done"
      BY <2>2, CallParts
    <3> QED
      BY <3>1 DEF Control, CallControl, Active, TypeOK, InvertTypeOK
  <2> QED
    BY <2>2, <2>3
<1> QED
  BY <1>1, TypesAndControl, PTL

------------------------------------------------------------------------------
(* Block files. *)

\* A step that takes no block number and registers none, and after which no
\* call is at work on a block that was not before.
LEMMA BlocksKept ==
  ASSUME BlockFilesExclusive,
         UNCHANGED <<block, blockOf, intermediateIndices>>,
         \A c \in Calls : (Taken(c)' => Taken(c)) /\ (Writing(c)' => Writing(c))
  PROVE  BlockFilesExclusive'
BY DEF BlockFilesExclusive

LEMMA InitBlocks == Init => BlockFilesExclusive
BY DEF Init, BlockFilesExclusive, Taken, Writing

\* A number just taken is not that of any registered block or other call.
LEMMA TakeBlockKeepsBlocks ==
  ASSUME TypeOK, BlockFilesExclusive, NEW c \in Calls, TakeBlock(c)
  PROVE  BlockFilesExclusive'
<1>1. /\ blockOf' = [blockOf EXCEPT ![c] = block]
      /\ block' = block + 1
      /\ ipc[c] = "stream"
      /\ ipc' = [ipc EXCEPT ![c] = IF left[c] >= MaxPosting THEN "flush" ELSE "finalFlush"]
      /\ intermediateIndices' = intermediateIndices
  BY DEF TakeBlock, NextBlock
<1>2. /\ block \in Nat /\ block' \in Nat
      /\ \A d \in Calls : blockOf[d] \in Nat
      /\ \A ix \in intermediateIndices : ix.block \in Nat
  BY <1>1 DEF TypeOK, SharedTypeOK, InvertTypeOK, IndexIDs
<1>3. /\ blockOf'[c] = block /\ Taken(c)'
      /\ \A d \in Calls \ {c} : /\ blockOf'[d] = blockOf[d]
                                /\ Taken(d)' <=> Taken(d)
                                /\ Writing(d)' <=> Writing(d)
  BY <1>1 DEF TypeOK, InvertTypeOK, Taken, Writing
<1>4. \A d \in Calls \ {c} : Taken(d)' \/ Writing(d)' => blockOf'[d] < block
  BY <1>3 DEF BlockFilesExclusive
<1>5. \A d \in Calls : Taken(d)' \/ Writing(d)' => blockOf'[d] < block'
  BY <1>1, <1>2, <1>3, <1>4
<1>6. \A ix \in intermediateIndices' : ix.block < block /\ ix.block < block'
  BY <1>1, <1>2 DEF BlockFilesExclusive
<1>7. \A d \in Calls : Taken(d)' => \A ix \in intermediateIndices' : ix.block # blockOf'[d]
  BY <1>1, <1>2, <1>3, <1>6 DEF BlockFilesExclusive
<1>8. \A d, e \in Calls :
        d # e /\ (Taken(d)' \/ Writing(d)') /\ (Taken(e)' \/ Writing(e)') => blockOf'[d] # blockOf'[e]
  BY <1>2, <1>3, <1>4 DEF BlockFilesExclusive
<1> QED
  BY <1>5, <1>6, <1>7, <1>8 DEF BlockFilesExclusive

\* Registering a block turns a taken number into a registered one.
LEMMA RegisterBlockKeepsBlocks ==
  ASSUME TypeOK, BlockFilesExclusive, NEW c \in Calls, RegisterBlock(c)
  PROVE  BlockFilesExclusive'
<1>1. /\ ipc[c] \in {"flush", "finalFlush"}
      /\ ipc' = [ipc EXCEPT ![c] = ipc'[c]]
      /\ ipc'[c] \in {"write", "finalWrite", "send"}
      /\ UNCHANGED <<block, blockOf>>
  BY DEF RegisterBlock, TypeOK, InvertTypeOK
<1>2. intermediateIndices' = intermediateIndices \/ intermediateIndices' = intermediateIndices \cup {IndexID(c)}
  BY DEF RegisterBlock
<1>3. /\ Taken(c) /\ ~Taken(c)'
      /\ \A d \in Calls \ {c} : (Taken(d)' <=> Taken(d)) /\ (Writing(d)' <=> Writing(d))
  BY <1>1 DEF TypeOK, InvertTypeOK, Taken, Writing
<1>4. \A d \in Calls : Taken(d)' \/ Writing(d)' => Taken(d) \/ Writing(d)
  BY <1>3
<1>5. IndexID(c).block = blockOf[c]
  BY DEF IndexID
<1>6. \A ix \in intermediateIndices' : ix \in intermediateIndices \/ ix.block = blockOf[c]
  BY <1>2, <1>5
<1>7. \A ix \in intermediateIndices' : ix.block < block'
  BY <1>1, <1>3, <1>6 DEF BlockFilesExclusive
<1>8. \A d \in Calls : Taken(d)' => \A ix \in intermediateIndices' : ix.block # blockOf'[d]
  BY <1>1, <1>3, <1>6 DEF BlockFilesExclusive
<1>9. \A d \in Calls : Taken(d)' \/ Writing(d)' => blockOf'[d] < block'
  BY <1>1, <1>4 DEF BlockFilesExclusive
<1>10. \A d, e \in Calls :
        d # e /\ (Taken(d)' \/ Writing(d)') /\ (Taken(e)' \/ Writing(e)') => blockOf'[d] # blockOf'[e]
  BY <1>1, <1>4 DEF BlockFilesExclusive
<1> QED
  BY <1>7, <1>8, <1>9, <1>10 DEF BlockFilesExclusive

LEMMA InvertKeepsBlocks ==
  ASSUME TypeOK, BlockFilesExclusive, NEW c \in Calls, Invert(c)
  PROVE  BlockFilesExclusive'
<1>1. CASE ParseNode(c) \/ ParseCancelled(c) \/ StreamCancelled(c) \/ WriteBlock(c)
  <2>1. /\ UNCHANGED <<block, blockOf, intermediateIndices>>
        /\ ipc' = [ipc EXCEPT ![c] = ipc'[c]]
        /\ ipc'[c] \in {"parse", "stream", "send"}
    BY <1>1 DEF ParseNode, ParseCancelled, StreamCancelled, WriteBlock, shared, TypeOK, InvertTypeOK
  <2>2. \A d \in Calls : (Taken(d)' => Taken(d)) /\ (Writing(d)' => Writing(d))
    BY <2>1 DEF TypeOK, InvertTypeOK, Taken, Writing
  <2> QED
    BY <2>1, <2>2, BlocksKept
<1>2. CASE TakeBlock(c)
  BY <1>2, TakeBlockKeepsBlocks
<1>3. CASE RegisterBlock(c)
  BY <1>3, RegisterBlockKeepsBlocks
<1> QED
  BY <1>1, <1>2, <1>3 DEF Invert

LEMMA WorkerKeepsBlocks ==
  ASSUME TypeOK, BlockFilesExclusive, NEW w \in Workers, Worker(w)
  PROVE  BlockFilesExclusive'
<1>1. UNCHANGED <<block, blockOf, intermediateIndices>>
  BY DEF Worker, WorkerCancelled, SkipUnnamed, CheckWay, CheckNode, AddDocument, StartInvert,
         FinishBatch, ReceiveInvert, SaveDocs, AppendNodes, shared, invertVars
<1>2. \A c \in Calls : ipc'[c] = ipc[c] \/ ipc'[c] \in {"parse", "sent"}
  BY DEF Worker, WorkerCancelled, SkipUnnamed, CheckWay, CheckNode, AddDocument, StartInvert,
         FinishBatch, ReceiveInvert, SaveDocs, AppendNodes, invertVars, TypeOK, InvertTypeOK
<1> QED
  BY <1>1, <1>2, BlocksKept DEF Taken, Writing

LEMMA MainKeepsBlocks ==
  ASSUME BlockFilesExclusive,
         Main \/ Cancel \/ (\E side \in Sides : Collect(side)) \/ UNCHANGED vars
  PROVE  BlockFilesExclusive'
<1>1. UNCHANGED <<block, blockOf, intermediateIndices, ipc>>
  BY DEF Main, Cancel, Collect, CollectError, CollectClosed, ReceiveResult, WriteRtreeData,
         MergeField, vars, shared, invertVars
<1> QED
  BY <1>1, BlocksKept DEF Taken, Writing

\* No two SpimiInvert calls write the same block file, whatever the number of
\* batches and however their critical sections interleave.
THEOREM BlockFilesExclusiveAlways == Spec => []BlockFilesExclusive
<1>1. Init => BlockFilesExclusive
  BY InitBlocks
<1>2. ASSUME TypeOK, BlockFilesExclusive, [Next]_vars
      PROVE  BlockFilesExclusive'
  BY <1>2, WorkerKeepsBlocks, InvertKeepsBlocks, MainKeepsBlocks DEF Next, Returned
<1> QED
  BY <1>1, <1>2, TypeCorrect, PTL DEF Spec

------------------------------------------------------------------------------
(* Document IDs. *)

\* The document is the R-tree item of its ID.
Indexed(doc) == doc.id < nodeIDX /\ osmData[doc.id + 1] = doc

\* A document comes from one of the places that hold documents.
Known(doc) ==
  \/ \E w \in Workers : doc \in Range(searchNodes[w])
  \/ doc \in Range(allSearchNodes)
  \/ doc \in docStore

Numbered ==
  /\ Len(osmData) = nodeIDX
  /\ \A i \in 1 .. Len(osmData) : osmData[i].id = i - 1

\* The positions of a sequence of documents and its range.
LEMMA DocumentRange ==
  ASSUME NEW s \in Seq(Documents)
  PROVE  /\ Range(s) \subseteq Documents
         /\ \A i \in 1 .. Len(s) : s[i] \in Range(s)
         /\ \A doc \in Range(s) : \E i \in 1 .. Len(s) : s[i] = doc
BY DEF Range

LEMMA DocumentIDsKnown ==
  ASSUME TypeOK
  PROVE  DocumentIDs <=> Numbered /\ \A doc \in Documents : Known(doc) => Indexed(doc)
<1>1. \A w \in Workers : searchNodes[w] \in Seq(Documents)
  BY DEF TypeOK, WorkerTypeOK
<1>2. allSearchNodes \in Seq(Documents) /\ docStore \subseteq Documents
  BY DEF TypeOK, StoresTypeOK
<1>3. ASSUME DocumentIDs, NEW doc \in Documents, Known(doc)
      PROVE  Indexed(doc)
  <2>1. ASSUME NEW w \in Workers, doc \in Range(searchNodes[w])
        PROVE  Indexed(doc)
    BY <1>1, <1>3, <2>1, DocumentRange DEF DocumentIDs, Indexed
  <2>2. CASE doc \in Range(allSearchNodes)
    BY <1>2, <1>3, <2>2, DocumentRange DEF DocumentIDs, Indexed
  <2>3. CASE doc \in docStore
    BY <1>3, <2>3 DEF DocumentIDs, Indexed
  <2> QED
    BY <1>3, <2>1, <2>2, <2>3 DEF Known
<1>4. ASSUME Numbered, \A doc \in Documents : Known(doc) => Indexed(doc)
      PROVE  DocumentIDs
  <2>1. \A w \in Workers : \A i \in 1 .. Len(searchNodes[w]) : Indexed(searchNodes[w][i])
    BY <1>1, <1>4, DocumentRange DEF Known
  <2>2. \A i \in 1 .. Len(allSearchNodes) : Indexed(allSearchNodes[i])
    BY <1>2, <1>4, DocumentRange DEF Known
  <2>3. \A doc \in docStore : Indexed(doc)
    BY <1>2, <1>4 DEF Known
  <2> QED
    BY <1>4, <2>1, <2>2, <2>3 DEF DocumentIDs, Numbered, Indexed
<1> QED
  BY <1>3, <1>4 DEF DocumentIDs, Numbered

LEMMA InitDocumentIDs == Init => DocumentIDs
BY DEF Init, DocumentIDs

\* A step that numbers no document and brings none from elsewhere.
LEMMA DocumentsKept ==
  ASSUME TypeOK, TypeOK', DocumentIDs,
         UNCHANGED <<nodeIDX, osmData>>,
         \A doc \in Documents : Known(doc)' => Known(doc)
  PROVE  DocumentIDs'
<1>1. Numbered /\ \A doc \in Documents : Known(doc) => Indexed(doc)
  BY DocumentIDsKnown
<1>2. Numbered' /\ \A doc \in Documents : Known(doc)' => Indexed(doc)'
  BY <1>1 DEF Numbered, Indexed
<1>3. (DocumentIDs <=> Numbered /\ \A doc \in Documents : Known(doc) => Indexed(doc))'
  BY DocumentIDsKnown, PTL
<1> QED
  BY <1>2, <1>3

\* A list that grows by one document, or by another list.
LEMMA AppendRange ==
  ASSUME NEW s \in Seq(Documents), NEW d \in Documents
  PROVE  /\ Append(s, d) \in Seq(Documents)
         /\ \A e \in Range(Append(s, d)) : e \in Range(s) \/ e = d
<1>1. Append(s, d) \in Seq(Documents)
  OBVIOUS
<1>2. ASSUME NEW i \in 1 .. Len(Append(s, d))
      PROVE  Append(s, d)[i] \in Range(s) \/ Append(s, d)[i] = d
  BY <1>2, DocumentRange
<1> QED
  BY <1>1, <1>2, DocumentRange

LEMMA ConcatDocuments ==
  ASSUME NEW s \in Seq(Documents), NEW t \in Seq(Documents)
  PROVE  /\ s \o t \in Seq(Documents)
         /\ \A e \in Range(s \o t) : e \in Range(s) \/ e \in Range(t)
<1>1. s \o t \in Seq(Documents)
  OBVIOUS
<1>2. ASSUME NEW i \in 1 .. Len(s \o t)
      PROVE  (s \o t)[i] \in Range(s) \/ (s \o t)[i] \in Range(t)
  <2>1. CASE i <= Len(s)
    BY <1>2, <2>1, DocumentRange
  <2>2. CASE i > Len(s)
    <3>1. i - Len(s) \in 1 .. Len(t) /\ (s \o t)[i] = t[i - Len(s)]
      BY <1>2, <2>2
    <3> QED
      BY <3>1, DocumentRange
  <2> QED
    BY <1>2, <2>1, <2>2
<1> QED
  BY <1>1, <1>2, DocumentRange

\* The new document takes the number after the last.
LEMMA AddDocumentKeepsIDs ==
  ASSUME TypeOK, TypeOK', Control, DocumentIDs, NEW w \in Workers, AddDocument(w)
  PROVE  DocumentIDs'
<1> DEFINE new == [id |-> nodeIDX, obj |-> Current(w)]
<1>1. /\ pc[w] = "add"
      /\ searchNodes' = [searchNodes EXCEPT ![w] = Append(@, new)]
      /\ osmData' = Append(osmData, new)
      /\ nodeIDX' = nodeIDX + 1
      /\ UNCHANGED <<allSearchNodes, docStore>>
  BY DEF AddDocument, NextDocID, stores
<1>2. new \in Documents
  <2>1. Current(w) \in Objects
    BY <1>1, BatchObjects DEF Current, TypeOK, WorkerTypeOK, Control, WorkerControl
  <2> QED
    BY <2>1 DEF Documents, TypeOK, SharedTypeOK
<1>3. /\ osmData \in Seq(Documents) /\ nodeIDX \in Nat /\ Len(osmData) = nodeIDX
      /\ \A v \in Workers : searchNodes[v] \in Seq(Documents)
  BY DEF TypeOK, SharedTypeOK, WorkerTypeOK, DocumentIDs
<1>4. Numbered /\ \A doc \in Documents : Known(doc) => Indexed(doc)
  BY DocumentIDsKnown
<1>5. new.id = nodeIDX
  OBVIOUS
<1> HIDE DEF new
<1>6. /\ Len(osmData') = nodeIDX + 1
      /\ osmData'[nodeIDX + 1] = new
      /\ \A i \in 1 .. nodeIDX : osmData'[i] = osmData[i]
  BY <1>1, <1>2, <1>3
<1>7. Numbered'
  BY <1>1, <1>3, <1>4, <1>5, <1>6 DEF Numbered
<1>8. \A doc \in Documents : doc = new => Indexed(doc)'
  BY <1>1, <1>3, <1>5, <1>6 DEF Indexed
<1>9. \A doc \in Documents : Indexed(doc) => Indexed(doc)'
  BY <1>1, <1>3, <1>6 DEF Indexed, Documents
<1>10. \A v \in Workers : \A doc \in Range(searchNodes'[v]) : doc \in Range(searchNodes[v]) \/ doc = new
  BY <1>1, <1>2, <1>3, AppendRange DEF TypeOK, WorkerTypeOK
<1>11. \A doc \in Documents : Known(doc)' => Known(doc) \/ doc = new
  BY <1>1, <1>10 DEF Known
<1>12. \A doc \in Documents : Known(doc)' => Indexed(doc)'
  BY <1>4, <1>8, <1>9, <1>11
<1>13. (DocumentIDs <=> Numbered /\ \A doc \in Documents : Known(doc) => Indexed(doc))'
  BY DocumentIDsKnown, PTL
<1> QED
  BY <1>7, <1>12, <1>13

\* Every other step of a worker moves documents from one holder to another.
LEMMA WorkerKeepsIDs ==
  ASSUME TypeOK, TypeOK', Control, DocumentIDs, NEW w \in Workers, Worker(w)
  PROVE  DocumentIDs'
<1>1. CASE AddDocument(w)
  BY <1>1, AddDocumentKeepsIDs
<1>2. CASE SaveDocs(w)
  <2>1. /\ UNCHANGED <<nodeIDX, osmData, searchNodes, allSearchNodes>>
        /\ docStore' \subseteq docStore \cup Range(searchNodes[w])
    BY <1>2 DEF SaveDocs, shared
  <2>2. \A doc \in Documents : Known(doc)' => Known(doc)
    BY <2>1 DEF Known
  <2> QED
    BY <2>1, <2>2, DocumentsKept
<1>3. CASE AppendNodes(w)
  <2>1. /\ UNCHANGED <<nodeIDX, osmData, docStore>>
        /\ allSearchNodes' = allSearchNodes \o searchNodes[w]
        /\ searchNodes' = [searchNodes EXCEPT ![w] = <<>>]
    BY <1>3 DEF AppendNodes, ListedWithSaved, shared
  <2>2. allSearchNodes \in Seq(Documents) /\ searchNodes \in [Workers -> Seq(Documents)]
    BY DEF TypeOK, StoresTypeOK, WorkerTypeOK
  <2>3. \A doc \in Range(allSearchNodes') : doc \in Range(allSearchNodes) \/ doc \in Range(searchNodes[w])
    BY <2>1, <2>2, ConcatDocuments
  <2>4. \A v \in Workers : Range(searchNodes'[v]) \subseteq Range(searchNodes[v])
    <3>1. Range(searchNodes'[w]) = {}
      BY <2>1, <2>2 DEF Range
    <3>2. \A v \in Workers \ {w} : searchNodes'[v] = searchNodes[v]
      BY <2>1, <2>2
    <3> QED
      BY <3>1, <3>2
  <2>5. \A doc \in Documents : Known(doc)' => Known(doc)
    BY <2>1, <2>3, <2>4 DEF Known
  <2> QED
    BY <2>1, <2>5, DocumentsKept
<1>4. CASE \/ WorkerCancelled(w) \/ SkipUnnamed(w) \/ CheckWay(w) \/ CheckNode(w)
           \/ StartInvert(w) \/ FinishBatch(w) \/ \E f \in Fields : ReceiveInvert(w, f)
  <2>1. UNCHANGED <<nodeIDX, osmData, searchNodes, allSearchNodes, docStore>>
    BY <1>4 DEF WorkerCancelled, SkipUnnamed, CheckWay, CheckNode, StartInvert, FinishBatch,
                ReceiveInvert, shared, stores
  <2>2. \A doc \in Documents : Known(doc)' => Known(doc)
    BY <2>1 DEF Known
  <2> QED
    BY <2>1, <2>2, DocumentsKept
<1> QED
  BY <1>1, <1>2, <1>3, <1>4 DEF Worker

LEMMA OthersKeepIDs ==
  ASSUME TypeOK, TypeOK', DocumentIDs,
         \/ \E c \in Calls : Invert(c)
         \/ \E side \in Sides : Collect(side)
         \/ Main \/ Cancel \/ UNCHANGED vars
  PROVE  DocumentIDs'
<1>1. UNCHANGED <<nodeIDX, osmData, searchNodes, allSearchNodes, docStore>>
  BY DEF Invert, ParseNode, ParseCancelled, StreamCancelled, TakeBlock, RegisterBlock, WriteBlock,
         Collect, CollectError, CollectClosed, Main, ReceiveResult, WriteRtreeData, MergeField,
         Cancel, vars, shared, stores, workerVars
<1>2. \A doc \in Documents : Known(doc)' => Known(doc)
  BY <1>1 DEF Known
<1> QED
  BY <1>1, <1>2, DocumentsKept

\* A document ID means the same document in the R-tree, in the key-value store
\* and in the list of documents, in every state of every build.
THEOREM DocumentIDsAlways == Spec => []DocumentIDs
<1>1. Init => DocumentIDs
  BY InitDocumentIDs
<1>2. ASSUME TypeOK, TypeOK', Control, DocumentIDs, [Next]_vars
      PROVE  DocumentIDs'
  BY <1>2, WorkerKeepsIDs, OthersKeepIDs DEF Next, Returned
<1> QED
  BY <1>1, <1>2, TypesAndControl, PTL DEF Spec

------------------------------------------------------------------------------
(* The document store. *)

\* What a worker is about to list is stored.
ToList == \A w \in Workers : pc[w] = "append" => Range(searchNodes[w]) \subseteq docStore

LEMMA InitListedIsStored == Init => ListedIsStored /\ ToList
BY DEF Init, ListedIsStored, ToList, Range

\* Saving documents under IDs that mean the same documents loses none.
LEMMA SaveKeepsStored ==
  ASSUME TypeOK, DocumentIDs, NEW w \in Workers, SaveDocs(w)
  PROVE  docStore \subseteq docStore'
<1>1. \/ docStore' = docStore
      \/ docStore' = {d \in docStore : \A e \in Range(searchNodes[w]) : d.id # e.id} \cup Range(searchNodes[w])
  BY DEF SaveDocs
<1>2. ASSUME NEW d \in docStore, NEW e \in Range(searchNodes[w]), d.id = e.id
      PROVE  d = e
  <2>1. searchNodes[w] \in Seq(Documents) /\ d \in Documents
    BY DEF TypeOK, StoresTypeOK, WorkerTypeOK
  <2>2. e \in Documents
    BY <2>1, DocumentRange
  <2>3. Indexed(d) /\ Indexed(e)
    BY <2>1, <2>2, DocumentIDsKnown DEF Known
  <2> QED
    BY <1>2, <2>3 DEF Indexed
<1> QED
  BY <1>1, <1>2

LEMMA WorkerKeepsStored ==
  ASSUME TypeOK, DocumentIDs, ListedIsStored, ToList, NEW w \in Workers, Worker(w)
  PROVE  ListedIsStored' /\ ToList'
<1>1. CASE SaveDocs(w)
  <2>1. UNCHANGED <<searchNodes, allSearchNodes>>
    BY <1>1 DEF SaveDocs
  <2>2. docStore \subseteq docStore'
    BY <1>1, SaveKeepsStored
  <2>3. /\ \A v \in Workers \ {w} : pc'[v] = pc[v]
        /\ pc'[w] = "append" => Range(searchNodes[w]) \subseteq docStore'
    BY <1>1 DEF SaveDocs, TypeOK, WorkerTypeOK
  <2> QED
    BY <2>1, <2>2, <2>3 DEF ListedIsStored, ToList
<1>2. CASE AppendNodes(w)
  <2>1. /\ pc[w] = "append"
        /\ docStore' = docStore
        /\ allSearchNodes' = allSearchNodes \o searchNodes[w]
        /\ searchNodes' = [searchNodes EXCEPT ![w] = <<>>]
        /\ pc' = [pc EXCEPT ![w] = "next"]
    BY <1>2 DEF AppendNodes, ListedWithSaved
  <2>2. allSearchNodes \in Seq(Documents) /\ searchNodes \in [Workers -> Seq(Documents)]
    BY DEF TypeOK, StoresTypeOK, WorkerTypeOK
  <2>3. \A doc \in Range(allSearchNodes') : doc \in Range(allSearchNodes) \/ doc \in Range(searchNodes[w])
    BY <2>1, <2>2, ConcatDocuments
  <2>4. /\ pc'[w] # "append"
        /\ \A v \in Workers \ {w} : pc'[v] = pc[v] /\ searchNodes'[v] = searchNodes[v]
    BY <2>1, <2>2 DEF TypeOK, WorkerTypeOK
  <2> QED
    BY <2>1, <2>3, <2>4 DEF ListedIsStored, ToList
<1>3. CASE \/ WorkerCancelled(w) \/ SkipUnnamed(w) \/ CheckWay(w) \/ CheckNode(w)
           \/ AddDocument(w) \/ StartInvert(w) \/ FinishBatch(w)
           \/ \E f \in Fields : ReceiveInvert(w, f)
  <2>1. UNCHANGED <<allSearchNodes, docStore>>
    BY <1>3 DEF WorkerCancelled, SkipUnnamed, CheckWay, CheckNode, AddDocument, StartInvert,
                FinishBatch, ReceiveInvert, stores
  <2>2. /\ pc'[w] # "append"
        /\ \A v \in Workers \ {w} : pc'[v] = pc[v]
    <3>1. \A f \in Fields : AfterInvert(w, f) # "append"
      BY DEF AfterInvert
    <3>2. ASSUME NEW f \in Fields, ReceiveInvert(w, f)
          PROVE  pc'[w] # "append" /\ \A v \in Workers \ {w} : pc'[v] = pc[v]
      BY <3>1, <3>2 DEF ReceiveInvert, TypeOK, WorkerTypeOK
    <3>3. CASE AddDocument(w)
      BY <3>3 DEF AddDocument, TypeOK, WorkerTypeOK
    <3> QED
      BY <1>3, <3>2, <3>3 DEF WorkerCancelled, SkipUnnamed, CheckWay, CheckNode, StartInvert,
                              FinishBatch, MoreObjects, BatchRead, TypeOK, WorkerTypeOK
  <2>3. \A v \in Workers \ {w} : searchNodes'[v] = searchNodes[v]
    BY <1>3 DEF WorkerCancelled, SkipUnnamed, CheckWay, CheckNode, AddDocument, StartInvert,
                FinishBatch, ReceiveInvert, TypeOK, WorkerTypeOK
  <2> QED
    BY <2>1, <2>2, <2>3 DEF ListedIsStored, ToList
<1> QED
  BY <1>1, <1>2, <1>3 DEF Worker

LEMMA OthersKeepStored ==
  ASSUME TypeOK, ListedIsStored, ToList,
         \/ \E c \in Calls : Invert(c)
         \/ \E side \in Sides : Collect(side)
         \/ Main \/ Cancel \/ UNCHANGED vars
  PROVE  ListedIsStored' /\ ToList'
<1>1. UNCHANGED <<searchNodes, allSearchNodes, docStore>>
  BY DEF Invert, ParseNode, ParseCancelled, StreamCancelled, TakeBlock, RegisterBlock, WriteBlock,
         Collect, CollectError, CollectClosed, Main, ReceiveResult, WriteRtreeData, MergeField,
         Cancel, vars, shared, stores, workerVars
<1>2. \A w \in Workers : pc'[w] = "append" => pc[w] = "append"
  BY DEF Invert, ParseNode, ParseCancelled, StreamCancelled, TakeBlock, RegisterBlock, WriteBlock,
         Collect, CollectError, CollectClosed, Main, ReceiveResult, WriteRtreeData, MergeField,
         Cancel, vars, workerVars, TypeOK, WorkerTypeOK, BatchesOf
<1> QED
  BY <1>1, <1>2 DEF ListedIsStored, ToList

\* A document is listed only when it is in the key-value store, and stays there.
THEOREM ListedIsStoredAlways == Spec => []ListedIsStored
<1>1. Init => ListedIsStored /\ ToList
  BY InitListedIsStored
<1>2. ASSUME TypeOK, DocumentIDs, ListedIsStored, ToList, [Next]_vars
      PROVE  ListedIsStored' /\ ToList'
  BY <1>2, WorkerKeepsStored, OthersKeepStored DEF Next, Returned
<1> QED
  BY <1>1, <1>2, TypeCorrect, DocumentIDsAlways, PTL DEF Spec

==============================================================================
