# Verification of osm-search

TLA+ models of `osm-search`, a full-text and spatial search engine for
OpenStreetMap data, with TLC runs on small instances and TLAPS proofs. Line
numbers refer to the source under `src/`.

The project covers the concurrent build of the inverted indexes, the R-tree, the
geofences, the queries of the server, and the two programs over their files.

## 1. The system

Two programs share an output directory and a bbolt file.

* `cmd/indexing` parses an OSM file, builds the inverted indexes
  (`SpimiBatchIndex`), builds the n-gram model and saves the metadata.
* `cmd/server` loads all that and answers searches, autocompletion, reverse
  geocoding, nearby places and geofence requests over HTTP.

| Component | State | Operations | What makes it correct |
|---|---|---|---|
| Index construction, `pkg/index/indexer.go` | document and block counters, box per name, R-tree items, list of block files, word counts; per goroutine its list of documents | duplicate check, numbering, inversion of a list, saving, collecting results, merging | IDs dense and consistent, block files never shared, merge after the last writer, nothing lost, every error reported, all goroutines end |
| Inversion and merge, `indexer.go`, `heap_merge.go` | posting map, token stream, heap of blocks | parse, flush, last block, k-way merge, sum of field lengths | each word of each document in the merged index exactly as often as it occurs |
| Inverted index file, `inverted_index.go` | terms, positions, field lengths, file offset | append, read a posting list, open, close | what was appended is read back, by concurrent readers too |
| Term IDs, `pkg/util.go` | two maps | `GetID`, `GetStr` | a bijection, also under concurrent use |
| Duplicate boxes, `pkg/geo/geometry.go` | none | box of a point list, containment | only covered objects are dropped |
| Document store, `pkg/kvdb` | bbolt buckets of documents and query points | save, get | a document is stored whole under its ID |
| R-tree, `pkg/datastructure/rtree.go` | tree of bounding boxes | insert, split, delete, condense, nearest | every item is in the tree once, bounds enclose, depth is uniform, nearest first |
| Geofence, `pkg/geofence` | fences per name, last position of each query point | add, delete, add point, update, search | enter, exit and cross follow the sequence of positions |
| Searcher, `pkg/searcher/searcher.go` | opened indexes | query, autocomplete, nearby, reverse geocoding | exactly the documents that match, each page once |
| Spell corrector and n-gram model, `pkg/searcher` | transducer, counts | candidates, best correction | candidates are the products of the alternatives |
| Compression, `pkg/compress` | none | encode and decode posting lists | decode undoes encode |
| Concurrency helpers, `pkg/concurrent` | channels | pool, pipeline, background worker | every job has one result; not used by the programs |
| OSM parser, `pkg/geo/parse_osm.go` | maps built in three passes | `ParseOSM` | selection of objects |
| HTTP, wiring, configuration, logging | none of their own | decode, validate, delegate | shutdown order |

How they interact: the indexer hands the batches of the parsed objects to
goroutines that share the counters and maps under `batchingLock`; each of them
starts two `SpimiInvert` goroutines and takes their results from an unbuffered
channel, writes to the document store, and reports to a collector over another
unbuffered channel; two collectors report to `SpimiBatchIndex` over a buffered
one. The block files on disk link the inversion to the merge. The server's
handlers call the searcher and the geofence index concurrently; these share
the term IDs, the open index files, the fence map and the store.

What is hard here: interleavings of the indexer's goroutines; errors and
cancellation in the middle of them; limits (`BATCH_SIZE` = 100000,
`maxDynamicPostingListSize` = 10^7) that no test reaches; a crash of the
indexer between its files; unsynchronised state in the server; and the
restructuring of the R-tree. `PROJECT.json` lists the hazards at their lines.

## 2. Plan

1. **Done.** `BoundingBox`, `SpimiBatchIndex` with its promise `IndexBuild`,
   `SpimiInvert`; safety invariants of the core proved.
2. **Done.** `Rtree` and its use in `RtreeIndex`; `Geofence` on top of it.
3. **Done.** `Searcher` with the shared index files, the term IDs of the running
   server, `Compress` and `NGramModel`: one module for the four parts the first plan
   had, because a torn read matters only through the answer it leads to.
4. **Done.** `Deployment`: files, builds, crashes, shutdown; all its safety
   invariants proved.
5. **Done.** `FaultsSurface`, `CompleteOnSuccess` and the refinement of `IndexBuild`
   proved; all invariants of `SpimiInvert` proved, down to the number of postings.
6. **Done.** All invariants of `Searcher` proved, from the code of the posting lists to
   the page that is answered.
7. **Done.** The R-tree without recursive operators, and all invariants and the action
   property of `Geofence` proved, down to the walk of the tree and the geometry of a move.
8. Left: the OSM parser with `GetFullAdress`, the two other scorings, and proofs about
   R-trees of more than one level.

Abstract specifications: `IndexBuild` for the construction (refined); the set
`present` of objects for the R-tree, the circles acknowledged (`acked`) for a fence,
and the correct answers (`CorrectAnswers`, from the documents alone, without index
files, transducer order or candidates) for the search are stated as references
inside the properties.

## 3. Modules

### BoundingBox
`NewBoundingBox`, `Contains` (here `BoxContains`) and `PointsContains` of `geometry.go`. Coordinates
are only compared in the code, so integers stand for them.

### SpimiBatchIndex
The core, for any input. The sequences `Ways` and `Nodes` are cut into batches;
a *worker* is the goroutine of one batch, a *call* a `SpimiInvert` goroutine of
a worker and a field.

| Variables | In the code |
|---|---|
| `nodeIDX`, `block`, `nodeBoundingBox`, `osmData`, `intermediateIndices`, `docWordCount` | the variables of the same name, shared under `batchingLock` |
| `allSearchNodes`, `docStore`, `blockFiles` | the result list, the bbolt bucket, the complete block files |
| `pc`, `pos`, `searchNodes` | a worker: where it is, its next object, its accepted documents |
| `ipc`, `parsed`, `left`, `blockOf`, `failed` | a call: where it is, documents parsed, tokens left, its block number, its result |
| `collector`, `errChan`, `mainPc`, `docsCount`, `merged` | the collectors, their channel and `SpimiBatchIndex` itself |
| `cancelled`, `faults`, `dropped` | the context; I/O failures so far, and those whose error nobody looks at |

A critical section is one action; what a goroutine does alone belongs to the
action beside it. So the two sections of an object are `CheckWay`/`CheckNode`
and `AddDocument`, and the race between them is there. An unbuffered channel is
a rendezvous: the receiver's action (`ReceiveInvert`, `CollectError`) moves both
sides, and a sender without a receiver stays where it is.

`StartInvert` covers both places where a list is inverted, the full list and the
rest. `TakeBlock`, `RegisterBlock` and `WriteBlock` are the three steps of a
block: number, registration, content. `WriteBlock` has the successful write,
the posting list lost to a dropped `AppendPostingList` error, and the failed
`Close`, whose error counts only for the last block. `MergeField` covers
opening, merging, closing; a block that was never completely written cannot be
opened, and a failed `OpenWriter` of the merged index is noticed only when a
posting list is appended.

Data is abstract: a document is its ID and its object, a token is the pair of a
document ID and the position of the word, an address is a number of words. The
loop of the early flush runs over the wrong values (line 743); which tokens it
keeps depends on the term IDs, so here it keeps any subset. `SpimiInvert` has
the exact behaviour.

### IndexBuild
What the construction promises: accepted documents get consecutive IDs; it ends
once, with an error or with exactly the accepted documents listed, each found by
all its words. The second half of the promise is not given when the caller has
cancelled (line 828 ends a parse early and says nothing), when a dropped error
lost a write, or when a batch may take several blocks (`Whole` is FALSE).
Documents may still be accepted after a failure, by the goroutines left behind,
but not after a success.

### SpimiInvert
One field, token by token, without failures. A call parses its documents in order: `node`
and `nextWord` are the two loop variables of the parser, `EndNode` goes on to the next
document. Calls share the term IDs (`StrToID`) and append their blocks to one sequence;
`Merge` starts when all calls are done, which is `MergeRunsAlone` of the core. That no
two documents have the same ID (`BatchesAssumption`) is what the core's `DocumentIDs` and
`CompleteOnSuccess` establish. A block is its terms in
the order of appending, their posting lists and field lengths. The early flush
is the code's own: the terms appended are the indices of the sorted terms.

### Rtree and RtreeIndex
`rtree.go` and the heap of `pq_rtree.go`, as operators. A tree is a nested record;
the parent pointers of the code are the nesting, so `adjustTree` and `condenseTree`
become functions of the depth on the path chosen (`up` in `Put`, `removed` in `Remove1`).
The recursions of the code that go down (`chooseLeaf`, `FindLeaf`, `search`), the loops of
the heap and of the walk are a `Loop`: rounds up to a bound that is enough, the last of
which change nothing. Down the tree the bound is `MaxHeight`, in the heap its length, in
the walk what the queue can get to hold. Every operation is whole:
`InsertLeaf` with choice, split, adjustment and a new root; `Delete` with
`FindLeaf`, condensation, re-insertion at the noted levels and the root that gives way.
Coordinates are integers, areas and distances are exact; `Weight` stands for the
squared cosine in the approximated distance. Four history fields say what the code
does not keep: the objects lost to a tie (`lost`), a node put into both halves of a
split (`shared`), a subtree put back at a level that was no longer its own
(`astray`), and a panic.

`RtreeIndex` is a tree in use: loaded from a list, as the server does, then changed
by `InsertNew` and `DeleteFound`. `present` is the set it should hold. The queries
have no state; the properties evaluate them in every state.

### Geofence
Handlers of several clients over the shared `FenceIndex`.

| Variables | In the code |
|---|---|
| `fences`, `heap` | the map of fences, and the fence objects it refers to; a request may hold one that was deleted |
| `queryPoint` | the geofence bucket of the store |
| `call`, `reply` | the request a client has under way, with its step and local variables, and the last answer |
| `acked`, `raced`, `broken` of a fence | history for the properties |
| `requests`, `faults`, `restarts` | bounds |

Every access to a shared map, tree or bucket is a step of its own: `AddFence1` reads
and `AddFence2` writes the map, `AddFencePoint1` checks it and `AddFencePoint2` reads it
again, `Search2` and `Search3` are the two transactions of the store. `Add1` writes
the tree that it started from, so that one of two overlapping additions may be lost.
A panic inside a handler is answered with 500 and leaves the tree as it was then.
`Restart` keeps the query points only. `GeofenceAssumption` says what the validation of the
requests lets pass, which is never the latitude -999 that stands for no position, and that a
split looks at more axes than a box has, as it does in the code. `IsLineCircleIntersect` solves the quadratic as
the code does, with squares in the place of roots.

### Compress, NGramModel and Searcher
`Compress` is the variable-byte code of the posting lists for any base (128 in the
code). `NGramModel` counts n-grams of the corpus and estimates a query by stupid
backoff; probabilities are compared by scaled logarithms. `Searcher` has the rest:

| Variables | In the code |
|---|---|
| `termIDs`, `features` | `TermIDMap` and `OSMFeatureMap`, which queries extend |
| `position` | the file offset of each merged index, shared by all queries |
| `call`, `reply`, `requests` | as in `Geofence` |

`FreeFormQuery` and `Autocomplete` are the parts of the methods of that name before
the first posting list is read; `Seek` and `Read` are the two halves of
`GetPostingList`; `ScoreDocs` and `ScoreMatched` score and page. The alternatives of a
misspelt word and the completions of a prefix are constants, because the transducer is a
library. The product of the alternatives shares memory as Go's `append` does
(`Grows`): from the fourth word on candidates end in the same alternative, which is why
`SearchExact`, and in `CompletionExact` the part that says nothing is missing, are stated
for up to three words. Scores are BM25F in thousandths, documents of equal score come in any order,
as the code collects them from a map.

The index files and the n-gram counts are constants defined as what the indexer makes of
the documents (`IndexAssumption`, `NGramDataAssumption`, which TLC evaluates): the link
from the build, whose result `SpimiBatchIndex` and `SpimiInvert` establish, to the
server. `WordsAssumption` and `RequestsAssumption` give the types of the constants: words
are strings and never operators, as in the code, where words are numbers from 0 and
operators are negative; the transducer, built of the vocabulary, knows its words only; a
request has the fields its handler decodes.

### Deployment
`cmd/indexing` and `cmd/server` over the files of one directory.

| Variables | In the code |
|---|---|
| `file` | each file, as the build its content comes from; 0 if absent, empty or mixed |
| `average` | the average field length in the metadata of each index, as a fraction |
| `lock` | who has `docs_store.db` open |
| `build`, `indexer` | the last build begun, and where the indexer is: stage and half of a write |
| `server`, `starts` | the same for the server, with the files it has loaded |
| `unsaved`, `cut`, `late` | history: n-grams not saved; a server gone between truncating and writing; a server writing after the next build began |

`Program` is the order in which `main` of the indexer writes. A file that the code
truncates, or fills in several transactions, takes two steps (`BeginFile`,
`WriteFile`); `IndexerDies` may come between any two. `Stop` cancels the context;
from then on `CloseStore`, `CloseBegin`/`CloseWrite` (the two goroutines) and `Exit`
(`main` returning, or the process killed) run in any order.

### Proof and model-checking modules
`MCSpimiBatchIndex`, `MCSpimiInvert`, `MCRtreeIndex`, `MCGeofence`, `MCSearcher` and
`MCDeployment` give the constants small values. The theorems about `SpimiBatchIndex` are in
`SpimiBatchIndexProofs` (control, documents) and, on top of it, `SpimiBatchIndexBuildProofs`
(failures, dropped objects, words, and the refinement); those about `SpimiInvert`, `Searcher`,
`Deployment` and `Geofence` are in `SpimiInvertProofs`, `SearcherProofs`, `DeploymentProofs`
and `GeofenceProofs`, which rests on `RtreeProofs`, facts about trees with one leaf.
`DataLemmas` has what they share: induction, sums over finite sets, folds, loops and
flattened sequences. A comment
"a mutated form" marks a definition that is not the code's: it is what a plausible
mistake there would be, and its property fails with it.

## 4. Runs

| Run | Instance | Shows |
|---|---|---|
| `batch_build` | three ways (one unnamed, one inside another of the same name) in two batches, no nodes, cancellation at any moment | type invariant, `DocumentIDs`, `BlockFilesExclusive`, `MergeRunsAlone`, `ListedIsStored`, `CompleteOnSuccess`, `DroppedIsCovered`, refinement of `IndexBuild` |
| `batch_sides` | a way batch beside a batch of two nodes of the same name, one inside the way's box and one outside | `CompleteOnSuccess` and `DroppedIsCovered` between the two sides |
| `batch_faults` | a batch of two ways whose words need two blocks or more per field, up to two I/O failures, fairness | `FaultsSurface`, `Terminates` |
| `invert` | four calls: two fill their posting maps, one is empty, one fits into its last block | term IDs (in `TypeOK`), `BlocksSorted`, `EachTermOnce`, `NothingInvented`, `InvertedWithoutLoss` |
| `rtree` | empty, or eight objects on three levels; any five insertions and deletions of nine objects | `HoldsItems`, `BoundsTight`, `Balanced`, `SearchExact`, `NearestFirst`, `RadiusComplete` |
| `geofence` | two clients, five requests of twelve kinds on one fence of up to four points, a failing transaction, a restart | `AckedPointsKept`, `SearchTellsAll`, `ServerErrorsExplained` |
| `searcher` | two concurrent requests out of eighteen over four documents | `IDsKept`, `SearchExact`, `SearchSound`, `CompletionExact`, `ServerErrorsExplained` |
| `deployment` | three builds and three starts of the server | `ServesWhole`, `StartsAfterBuild`, `AverageStays`, and `StartEnds` under fairness |
| `batch_leak`, `batch_twice`, `invert_loss`, `invert_lens` | as small as the disagreement needs | the disagreements of section 6 |

Bounds. `BatchSize` is 1 or 2 instead of 100000: a batch that is full and one
that is not both occur. `MaxPosting` is 2 or 3 where early flushes are wanted and 9
where none happens. `MaxFaults` is at most 2, so that a failure may meet the
consequences of another one; a build stops at the first error it looks at. Two
workers with their four calls are the smallest instance in which every pair of
concurrent steps meets: two objects of different batches, two calls of one
worker, two calls of two workers. No symmetry is used, since the order of the
input matters. `CompleteOnSuccess` is checked for a cancelled context through the
refinement only, which excuses exactly the found words.

`rtree` has limits 2 and 3 instead of 25 and 50: eight objects then make three levels,
in which every deletion empties a leaf and its parent, so that leaves and inner entries
are put back. `MaxHeight` is 5, levels of objects included: no state of the run has more.
A subtree goes astray only from `MinChildItems` = 3 on, with some
seventy objects; that case is excused by `Balanced` and not reached by the run.
`geofence` has limits 2 and 3 and three dimensions of boxes that have two axes, so that
the split that panics in the code at the 26th point does so at the fourth; a tree never has
more levels than a leaf and its objects (`MaxHeight` is 2); a search looks at two points
instead of three. The clients report query points of their own: no property speaks of
what two of them do to one (section 7).
`searcher`: whatever one request leaves behind for a later one is in `termIDs`,
`features` and `position`, and every read seeks first, so two requests, concurrent or one
after the other, meet in every way that matters. The requests include a misspelt word, one
nothing resembles, one that only a control token resembles, four words, unknown words,
none, pages beyond the first, and invalid numbers. `Base` = 3 gives the last of the
four documents an ID of two bytes. `deployment`: three builds are a good one, one on top of
it and one after a death; the metadata grows and shrinks, and the last has a single
document.

The properties of the new modules excuse exactly what section 6 lists, by name: `raced`,
`broken`, `torn`, `unsaved`, `cut`, `late`, `lost`, `shared`, `astray`. Where a reply of the
server is 500, `ServerErrorsExplained` lists all reasons there are.

Deadlock is not checked in `rtree`, `geofence`, `searcher` and `deployment`: their
bounded operations simply come to an end.

The `Returned` step stands for the caller going on after `SpimiBatchIndex`
has returned; deadlock is checked in the builds, and a model in which everybody
waits before that would be reported.

Fairness. `FairSpec` has weak fairness for each goroutine: the Go scheduler runs
every goroutine that can take a step, and an enabled step here stays enabled
until it is taken or its channel partner goes away. There is no fairness for `Cancel`
nor for a failure. `Deployment` has weak fairness for the steps of a running indexer, for
a server that can load, and for the exit of a stopped one: processes that run go on, and
nobody has to start, stop or kill them. `StartEnds` holds because builds are finite in
number: against an endless series of builds a waiting server has no claim to the file
lock.

Initial state. The output directory and the document bucket are taken to be
empty. The program does not truncate the files of an earlier build (hazard at
`inverted_index.go:62`); `Deployment` has builds on top of builds. Ways have at least
one node position: the code indexes into their coordinates without a check.

## 5. Proofs

Those about `SpimiBatchIndex` hold for every input, batch size, posting limit and number
of failures, from the two assumptions `InputAssumption` (the types of the constants; an object is one
element of the two lists, so none occurs twice) and `BoundAssumption` (positive limits),
which TLC evaluates in the runs.

| Theorem | Argument |
|---|---|
| `TypeCorrect` | `TypeOK` is inductive together with `Control`; needed because the lists that are inverted must be documents with a valid ID |
| `MergeRunsAloneAlways` | `Control` relates the three levels of goroutines: a call is under way only while its worker waits for it or after the worker has failed; a call that did not fail and was received is `sent`; a collector says `nil` only when all its workers returned without an error; `SpimiBatchIndex` is past its loop only when both said `nil` |
| `BlockFilesExclusiveAlways` | inductive with `TypeOK`; `TakeBlock` takes a number above all others, and registration and writing keep the number |
| `DocumentIDsAlways` | inductive with `TypeOK`; `AddDocument` is the only step that numbers, the others move documents between sequences and sets |
| `ListedIsStoredAlways` | strengthened by `ToList`: a worker about to list its documents has stored them. Saving replaces only documents of the same ID, and by `DocumentIDs` these are the same documents |
| `FaultsSurfaceAlways` | strengthened by `BlocksFresh` (a block file is written once, by the call that registered it), `ErrorsKept` (the error of an operation that failed is still to be seen: in a result not yet received, in a worker or collector in error, or as a registered block without its file) and `MergedHaveFiles` (what has been merged had all its files). At the end, none of these places is left |
| `DroppedIsCoveredAlways` | strengthened by `BoxesKnown` (a registered box is that of a way of the name that is indexed or about to be) and `PassedAccounted` (an object passed over is unnamed, indexed or covered). What is about to be indexed is never passed over before it is, because no object has two places (`PlaceUnique`) and no way occurs twice |
| `CompleteOnSuccessAlways` | see below |
| `KeepsPromise` | `SpimiBatchIndex` implements `IndexBuild`: `Init` maps to `Init`, and each step to `Accept`, `Publish`, `Fail`, `Impair` or a stutter. Uses `TypeOK`, `Control`, `MergeRunsAlone`, `DocumentIDs`, `Holdings` of the state and `CompleteOnSuccess` of the next one |

`Control` is needed because `MergeRunsAlone` speaks only of the end: it is not
kept by a step that ends the collection unless one knows how the collectors came
to their result.

`CompleteOnSuccess` speaks of the end of a build, and nothing of it is true before. The
invariants that carry it follow a document on its way:

| Part | What it says |
|---|---|
| `Holdings` | a numbered document is held by one worker, once, or listed, once |
| `BatchProgress` | a worker stays in its batch, and there are no more documents than objects passed |
| `CallsProgress` | a call parses all documents its worker holds, and both calls are done before they are saved |
| `BatchFits`, `OneBlockPerCall` | the words a worker holds are no more than those of its batch, so that with room for a batch a call flushes once, at its end |
| `WordsCounted` | the word count of a document is what its worker's calls have parsed of it so far |
| `Inversion` | a document's words are in no block before its worker's calls run, and exactly once in the blocks when they are done |
| `MergeState`, `FilesFinite` | what is merged is the union of the blocks |

Those about `SpimiInvert` hold for any documents, any number of calls and any limit of the
posting map, from `BatchesAssumption`. They share one inductive invariant, `IInv`:

| Part | What it says | Needed for |
|---|---|---|
| `Shape` | types; where each call and the merge can be; terms and postings in a block are in order and are those of the block | `TypeOK`, `BlocksSorted` |
| `Tokens` | the token stream of a call has each word of a document as often as the parser has read it there, under the ID the word has now | words read = tokens |
| `Stream` | the length of the stream is the number of words read; a call that fits one block has counted every token since its start | such a call never flushes early |
| `Postings` | for each term and document: the postings in the blocks and in the open map are at most the tokens taken, and equal to them for a call that fits; field lengths likewise | `NothingInvented`, `InvertedWithoutLoss` |
| `Merged` | terms appended are ascending; a block's terms before its cursor are appended or being gathered, those after it are not smaller; the postings of an appended term are those of the blocks that have passed it | `EachTermOnce`, and the other two at the end |

`NothingInvented` is not inductive: it speaks of the merged lists only, while what bounds
them is what the calls have parsed, flushed and kept, several steps earlier and in any
order of the calls. Counting postings needs sums over blocks and cardinalities of sets
of positions. Theorems: `TypeCorrect`, `BlocksSortedAlways`, `EachTermOnceAlways`,
`NothingInventedAlways`, `InvertedWithoutLossAlways`.

Those about `Deployment` hold for any number of builds and starts, any sizes, sums and
counts, from `DeploymentAssumption`. They share one inductive invariant, `IInv`:

| Part | What it says | Needed for |
|---|---|---|
| `LockInv` | the indexer writes exactly while it has the lock; a serving server has it, and no build has begun since it loaded | no file changes under a server |
| `LoadedInv` | a running server has loaded non-empty metadata | what it writes on stopping is a file of a build, and its average has documents to divide by |
| `ProgressInv` | every file of a stage that the indexer has passed is of this build, or excused; `meta.metadata` is not of this build until the last stage | a build is whole when its metadata is there |
| `HoldInv` | a server of the last build holds what the files hold | `ServesWhole` |
| `CutInv` | only a closing server leaves a file of a passed stage empty | `StartsAfterBuild` |
| `AverageInv` | the limits, for the stored average and for the loaded one | `AverageStays` |

`ServesWhole` alone is not inductive: it says nothing before the server is there, while
the reason it holds is the order in which the indexer wrote. Theorems: `TypeCorrect`,
`ServesWholeAlways`, `StartsAfterBuildAlways`, `AverageStaysAlways`.

Those about `Searcher` hold for any documents, requests, misspellings, completions, number
of clients, base of the code and interleaving, from its four assumptions and those of
`Compress` and `NGramModel`; the index files are what `IndexAssumption` says, byte by byte.
They come in two layers. The first says what each algorithm computes:

| Lemmas | What they say |
|---|---|
| `IDsGiven` | `GetID` keeps the IDs given before and gives none twice |
| `RoundTrip`, `DecodedType` | a posting list is decoded to itself, whatever its numbers; any bytes decode to numbers |
| section "The index files" | the bytes at a word's position are the code of its posting list, inside the file |
| `PostingListInOrder` | a posting list is ascending and has the documents that have the word |
| `MergedTurn` and section | the intersection of ascending lists has what both have |
| `RPNIs`, `ProcessBy` and section | a conjunction evaluates to the documents of all its words |
| `CandidatesMeant`, `CandidatesExact`, `CompletionsMeant` | every candidate takes an alternative of each word; with three words or fewer every choice is a candidate |
| `MostProbableIs`, `MatchedAre` | the estimate of a query does not depend on those estimated with it, so the best of the candidates is the best that can be meant |
| `RankingIs`, `SearchFinds`, `PageIs` | a ranking has the documents that were scored, and a page is a part of it |

Each loop is a fold in the model. Its value is that of a table of its intermediate results
(`FoldExists` in `DataLemmas`), about which induction is over a number.

The second layer is the inductive invariant `IInv`; one lemma per action shows that it is kept:

| Part | What it says | Needed for |
|---|---|---|
| `Maps` | the maps of IDs extend those loaded, one to one | `IDsKept` |
| `Positioned` | positions lie in their files | an untorn read is never at the end |
| `ReadsFit` | what a request has read and what it still reads are the lists it needs, in order; unless a read was torn those read are the posting lists of their words | scores and intersections are of the right lists |
| `Searching`, `Completing` | the terms read for are the best candidates of the request itself; `QueriesFit`: what the matched queries have found, with what those left will find, is what all find | `SearchExact`, `CompletionExact` |
| `ReplyFits` | an answer is right for the request it carries, or torn; a 500 is explained | the four properties of answers |

None of the properties of answers is inductive: they speak of finished requests, while what
makes an answer right is settled at the choice of the candidates and at every read, with
other requests moving the files in between. TLC checked `IInv` on the instance of the run
`searcher` before it was proved. The proof showed one thing that the run had not: the
completeness in `CompletionExact` fails for four words, since their candidates share an
array as those of a search do. Theorems: `TypeOKAlways`, `IDsKeptAlways`, `SearchExactAlways`,
`SearchSoundAlways`, `CompletionExactAlways`, `ServerErrorsExplainedAlways`.

Those about `Geofence` hold for any clients, requests, limits of a node, number of points a
search looks at, failures and restarts, from `GeofenceAssumption` and `RtreeAssumption`. They
rest on the inductive invariant `IInv`:

| Part | What it says | Needed for |
|---|---|---|
| `StoreInv` | the map of fences points into the heap, the query points are positions that requests gave | `TypeOK` |
| `FencesInv` | in every fence object no key has two IDs, every circle is under its own key and has an ID, and the tree is flat: its root is a leaf, or the one object left when a fence of two points loses one; without an earlier panic it is a leaf of at most `MaxChildItems` entries | what `Add` and a search make of such a tree is known exactly |
| `CallsInv` | a request under way is one its client may send, at a step of its handler, with the local variables of that step; a tree it holds is flat | every step |
| `KeptInv` | in a fence without raced or panicked additions: if nobody is between the two steps of `Add`, the tree has the objects of the circles acknowledged, each once; a call before the first step holds the present tree; after it the tree already has what the circles will be. Two calls are never inside `Add` of such a fence | `AckedPointsKept`, `SearchTellsAll` |

`AckedPointsKept` is not inductive: it says nothing of a fence while a point is being
added, which is when tree and map disagree. The invariant is about the heap and not the map
of fences, because a call goes on with an object that is no longer in the map.

The tree. `RtreeProofs` says what the operations do to a flat tree. `InsertLeaf` appends an
entry, or panics with the entry appended when the leaf was full; `FindLeaf` finds the
root if an entry has the ID; `Delete` puts the last entry in the place of the one found
and queues nothing. So `Add` keeps the other objects, whatever the order of the entries.

| Theorem | Argument |
|---|---|
| `TypesCorrect`, `PointsKept` | from `IInv` |
| `ErrorsExplained` | one case per step that answers 500; `Add1` panics only where `AddPanics` says |
| `SearchesTellAll` | from `IInv`, the walk and the geometry below |

The walk (`WalkReportsAll`). The state of the walk after its first round, which opens the
root, is described by two sets of entries: those queued by their box and those put back with
their own distance; the rest has been reported (`Walking`). A round moves the entry at the
head from the first set to the second, or from either to the reported ones. Insertion into
the heap and extraction from it only permute what it holds (`InsertLists`, `ExtractLists`), which
does not depend on how distances compare. Each entry of n is moved at most twice, so
2n + 1 rounds end with an empty queue, and the model's bound is at least that.

The move (`StatusesTold`, `LineTells`). `SearchTellsAll` says that a move crosses a circle
when the centre is nearer to the segment than the radius, the code solves a quadratic and
looks whether a root is in [0, 1]. With both ends outside, the product of the roots is
positive, and so is that of their distances from 1: both roots are in the interval or none
is, and they are when the foot of the perpendicular is.

Induction. The induction theorems of the library take an operator as a parameter, which
the provers cannot instantiate. `DataLemmas` has the set forms: a set that has 0 and with n
also n + 1 has all numbers (`NatInductive`); a set of subsets of a finite set has a minimal
one (`MinimalSubset`). From these it proves what `SumFunctionOnSet` computes: that the
recursive definition has a solution, what adding an element does, sums of equal or smaller
functions, and of parts. The modules proved about write their sums with it. The same
way it proves that a fold has a table of its steps (`FoldExists`, `FoldTyped`), which the
recursive definition in the library does not give directly, that a loop has a course, which
stays in a set that its rounds keep (`RoundsExist`), and what `FlattenSeq` makes of
sequences.

Only model-checked:

* The properties of `RtreeIndex`, trees of several levels. They hold only where `MaxHeight`
  is enough for the tree, where the boxes have the axes that a split looks at and where no
  tie or double seed intervenes (`Sound`), and a proof has to follow every split, every
  re-insertion and the way back up through nested records; of these operations only those
  on a tree with one leaf are proved about. `NearestFirst` and `RadiusComplete` need, on top
  of that, that the heap is ordered and that a box is never farther than what it holds.
* `Terminates` and `StartEnds`: the proof system does not handle fairness and ENABLED.

## 6. Where the code differs from what it says

Shown by a run whose violation is expected:

* `batch_leak`: the comment at `indexer.go:308` says all goroutines end after an
  error. The collector returns, nobody reads the unbuffered channel any more, and
  a second worker with an error blocks for ever. So does the other `SpimiInvert`
  goroutine of a failed worker.
* `batch_twice`: the duplicate check and the registration are two critical
  sections, so the same place may be indexed by two batches.
* `invert_loss`: `for term := range terms` at `indexer.go:743` yields indices.
  Postings are lost when a posting map is flushed early, and terms are
  appended with empty lists.
* `invert_lens`: every block of a call carries the field lengths of all its
  documents, and `MergeFieldLengths` adds them up.

Met while modelling, modelled as the code does it, and excused in the properties:

* Build: `indexer.go:621` passes the corners of the previous box as a list of latitudes and
  a list of longitudes, so the inverse containment it announces is not found. Where latitudes and longitudes
  overlap, which they do not in Indonesia, the corners may by chance lie in the new
  way's box, and a way that nothing covers is dropped: trying to prove `DroppedIsCovered`
  without `LatsBelowLons` brought this up. The
  postal code of an address may be a neighbour's (1053), and `country[0]` may not
  exist (1165).
* R-tree: a tie drops an entry (`rtree.go:323`), one entry may be both seeds (449), a
  subtree may be put back one level too high (803), the object of a root leaf may become
  the root (761), and object 0 may take a subtree with it (870). The approximated
  distance takes the cosine of degrees (`distance.go:32`), and the walk stops by another
  distance than the one it is ordered by (`rtree.go:648`).
* Geofence: only three points are looked at (`geofence.go:65`), the 26th point panics (39),
  the first position of a query point may have crossed a fence (109). A fence deleted under
  an addition panics (`fence_index.go:93`), two additions of a fence both succeed (34).
  Two searches for one query point may both read the same old position (56), before either
  stores its own (67): both then tell of the same entry, or a crossing is lost.
* Queries: torn posting lists (`inverted_index.go:184`), candidates that share their last
  word (`spell_corrector.go:129`), panics for a word that nothing resembles (153), for
  one the corpus does not have (`ngram_lm.go:333`) and for no word (`searcher.go:448`);
  words are counted twice, so none is rare (`ngram_lm.go:106`); `ADDRESS_B` is not used;
  positions with a zero are rejected.
* Files: the error of saving the n-grams is dropped (`spell_corrector.go:88`), the server
  exits without waiting for the goroutines that write its metadata (`kv.go:35`), and every
  stop changes the average (`inverted_index.go:351`).

`PROJECT.json` quotes the lines. `DroppedIsCovered`, `FaultsSurface` and
`CompleteOnSuccess` are stated for what the code does: where no latitude reaches a
longitude, an object is dropped only for a covering way; an error is lost only where the code drops it; found words and field
lengths are exact only when no block is flushed early.

## 7. Not modelled

* What no property covers although the models have it, each a hazard with a note in
  `PROJECT.json`. A property would have to excuse just the case: two clients that report one
  query point (`fence_index.go:56`), the line from a first position (`geofence.go:109`), a
  fourth fence that holds the position (65), an entry lost to a tie (`rtree.go:323`) or to
  object 0 (869), an inner node put back too high (803), a server over n-grams that
  were not saved (`spell_corrector.go:88`); and nothing says what an offset beyond the
  results should give (`rtree.go:663`).
* An index without documents, whose average is 0/0 (`inverted_index.go:351`): `Deployment`
  and `Searcher` assume that each field has a document.
* A second server: it may open the store that a stopping one has closed while that one
  still writes its metadata. `Deployment` has one server process.
* Queries of more than sixteen words, for which the slices of the candidates grow once more
  (`Grows`).
* Of the validations in front of `Geofence`, those of ranges: they reject a request and
  change no state.
* `ParseOSM` and `GetFullAdress`: sequential passes over a protobuf file and look-ups
  by floating-point polygon tests, without state that outlives them. An address enters the
  build as a number of words and the search as a list of words.
* The scorings TF-IDF and BM25+: floating-point formulas over the same posting
  lists. BM25F, the default, is modelled in thousandths, which the small instances need
  no more of; that rounding in the code keeps the same order is not claimed.
* Distances on the globe: the models are flat, and `NearestFirst` and `RadiusComplete`
  say nothing of the degrees at `distance.go:32`.
* The byte layout of metadata, documents and `rtree.dat`; a metadata file is read whole
  or, by its size, not at all.
* A `fatal error` of the Go runtime for concurrent map access ends the server; it is one
  of the causes of `Restart` in `Geofence`, and of `Exit` in `Deployment`.
* The transducer, the stemmer, bbolt and the HTTP library; encoding, rate limits,
  logging and progress bars; `pkg/concurrent`, which nothing uses.
