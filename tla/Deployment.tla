----------------------------- MODULE Deployment -----------------------------
(***************************************************************************)
(* The two programs of the system over their files: cmd/indexing writes    *)
(* them one after the other, cmd/server loads them, and rewrites the       *)
(* metadata of both merged indexes when it stops.  The lock of the         *)
(* document store keeps the two apart.  Either process may be killed       *)
(* between any two steps, and the server, told to stop, exits without      *)
(* waiting for the goroutines that close its files.                        *)
(*                                                                         *)
(* A file is the number of the build its content comes from, 0 if it is    *)
(* absent, empty or a mixture.  One write is one step; a file that is      *)
(* truncated, or rewritten piecemeal, first becomes 0.  Both programs use  *)
(* the directory that the server always uses.                              *)
(***************************************************************************)
EXTENDS Integers

CONSTANTS MaxBuilds, MaxStarts,  \* bounds on the runs of the two programs
          MetadataSize,  \* MetadataSize[b]: bytes of an index's metadata in build b
          FieldSum,      \* FieldSum[b]: the lengths of the documents of an index, added up
          FieldDocs      \* FieldDocs[b]: the documents that have a length

ASSUME DeploymentAssumption ==
    /\ MaxBuilds \in Nat /\ MaxStarts \in Nat
    /\ MetadataSize \in [1..MaxBuilds -> Nat]
    /\ FieldSum \in [1..MaxBuilds -> Nat]
    /\ FieldDocs \in [1..MaxBuilds -> Nat \ {0}]

VARIABLES file,     \* the content of each file
          average,  \* averageFieldLength in the metadata of each index, <<numerator, denominator>>
          lock,     \* who has docs_store.db open
          build,    \* the last build that was begun
          indexer, server,
          starts,   \* of the server, so far
          unsaved,  \* history: saving the n-grams of this build failed
          cut,      \* history: a server was gone between truncating and writing a file
          late      \* history: a server wrote a file after the next build had begun

vars == <<file, average, lock, build, indexer, server, starts, unsaved, cut, late>>

Fields == {"name", "address"}
Metadata == [name |-> "merged_name_index.metadata", address |-> "merged_address_index.metadata"]
SizeFile == [name |-> "merged_name_index_size.metadata",
             address |-> "merged_address_index_size.metadata"]

Stages == 1..10

\* (Mutated forms: meta.metadata is saved before the n-grams, or before the R-tree.)
MetaBeforeNGrams == [k \in Stages |->
    CASE k = 1 -> "docs_store.db" [] k = 2 -> "rtree.dat" [] k = 3 -> "merged_name_index.index"
      [] k = 4 -> Metadata.name [] k = 5 -> SizeFile.name [] k = 6 -> "merged_address_index.index"
      [] k = 7 -> Metadata.address [] k = 8 -> SizeFile.address
      [] k = 9 -> "meta.metadata" [] k = 10 -> "ngram.index"]
MetaBeforeRtree == [MetaBeforeNGrams EXCEPT ![2] = "ngram.index", ![10] = "rtree.dat"]

\* What the indexer writes, in this order.
Program == [k \in Stages |->
    CASE k = 1 -> "docs_store.db"
      [] k = 2 -> "rtree.dat"
      [] k = 3 -> "merged_name_index.index"
      [] k = 4 -> Metadata.name
      [] k = 5 -> SizeFile.name
      [] k = 6 -> "merged_address_index.index"
      [] k = 7 -> Metadata.address
      [] k = 8 -> SizeFile.address
      [] k = 9 -> "ngram.index"
      [] k = 10 -> "meta.metadata"]

Files == {"docs_store.db", "rtree.dat", "merged_name_index.index", "merged_address_index.index",
          "ngram.index", "meta.metadata", Metadata.name, Metadata.address,
          SizeFile.name, SizeFile.address}

\* rtree.dat is overwritten in one write, posting lists are appended; SaveDocs
\* overwrites the documents batch by batch, and the others are truncated first.
Rewritten == Files \ {"rtree.dat", "merged_name_index.index", "merged_address_index.index"}

\* What a stopping server writes again, in this order.
Closing == [k \in 1..4 |-> CASE k = 1 -> Metadata.name [] k = 2 -> SizeFile.name
                             [] k = 3 -> Metadata.address [] k = 4 -> SizeFile.address]
ClosedFiles == {Metadata.name, SizeFile.name, Metadata.address, SizeFile.address}

NotRunning == [at |-> "off", stage |-> 1, phase |-> "begin"]
ServerOff == [at |-> "off", stage |-> 1, phase |-> "begin", build |-> 0,
              loaded |-> [f \in Files |-> 0], average |-> [field \in Fields |-> <<0, 1>>]]

Init ==
    /\ file = [f \in Files |-> 0]
    /\ average = [field \in Fields |-> <<0, 1>>]
    /\ lock = "free" /\ build = 0
    /\ indexer = NotRunning
    /\ server = ServerOff
    /\ starts = 0
    /\ unsaved = FALSE /\ cut = FALSE /\ late = FALSE

\* The average that an index with metadata of build b gets from the one it has:
\* SerializeMetadata adds all lengths to it and divides by their number.
\* (Mutated forms: it divides before it adds; it divides by one less.)
AverageOnTop(b, old) == <<FieldSum[b] * old[2] + old[1] * FieldDocs[b], FieldDocs[b] * old[2]>>
AverageOfOthers(b, old) == <<FieldSum[b] * old[2] + old[1], (FieldDocs[b] - 1) * old[2]>>

AverageAfter(b, old) == <<FieldSum[b] * old[2] + old[1], FieldDocs[b] * old[2]>>

----------------------------------------------------------------------------
(* The indexer *)

\* main parses the map and asks for the document store.
StartIndexer ==
    /\ indexer.at = "off" /\ build < MaxBuilds
    /\ indexer' = [NotRunning EXCEPT !.at = "waiting"]
    /\ UNCHANGED <<file, average, lock, build, server, starts, unsaved, cut, late>>

\* bolt.Open waits until no other process has the file open.
OpenStore ==
    /\ indexer.at = "waiting" /\ build < MaxBuilds /\ lock = "free"
    /\ lock' = "indexer"
    /\ build' = build + 1
    /\ indexer' = [indexer EXCEPT !.at = "writing"]
    /\ unsaved' = FALSE /\ cut' = FALSE /\ late' = FALSE
    /\ UNCHANGED <<file, average, server, starts>>

Writing(k) == indexer.at = "writing" /\ indexer.stage = k

BeginFile(k) ==
    /\ Writing(k) /\ indexer.phase = "begin" /\ Program[k] \in Rewritten
    /\ file' = [file EXCEPT ![Program[k]] = 0]
    /\ indexer' = [indexer EXCEPT !.phase = "write"]
    /\ UNCHANGED <<average, lock, build, server, starts, unsaved, cut, late>>

NextStage == indexer' = [at |-> "writing", stage |-> indexer.stage + 1, phase |-> "begin"]

WriteFile(k) ==
    /\ Writing(k) /\ (Program[k] \in Rewritten => indexer.phase = "write")
    /\ file' = [file EXCEPT ![Program[k]] = build]
    /\ average' = [field \in Fields |-> IF Program[k] = Metadata[field]
                                       THEN AverageAfter(build, <<0, 1>>) ELSE average[field]]
    /\ NextStage
    /\ UNCHANGED <<lock, build, server, starts, unsaved, cut, late>>

\* Preprocessdata drops the error of SaveNGramData, at whatever point it failed.
NGramsUnsaved(k) ==
    /\ Writing(k) /\ Program[k] = "ngram.index"
    /\ unsaved' = TRUE
    /\ NextStage
    /\ UNCHANGED <<file, average, lock, build, server, starts, cut, late>>

\* (A mutated form: the store stays locked.)
FinishLocked ==
    /\ indexer.at = "writing" /\ indexer.stage = 11
    /\ indexer' = NotRunning
    /\ UNCHANGED <<file, average, lock, build, server, starts, unsaved, cut, late>>

FinishIndexer ==
    /\ indexer.at = "writing" /\ indexer.stage = 11
    /\ indexer' = NotRunning
    /\ lock' = "free"
    /\ UNCHANGED <<file, average, build, server, starts, unsaved, cut, late>>

\* Killed, or a panic after any other error.
IndexerDies ==
    /\ indexer.at # "off"
    /\ indexer' = NotRunning
    /\ lock' = IF lock = "indexer" THEN "free" ELSE lock
    /\ UNCHANGED <<file, average, build, server, starts, unsaved, cut, late>>

----------------------------------------------------------------------------
(* The server *)

StartServer ==
    /\ server.at = "off" /\ starts < MaxStarts
    /\ server' = [ServerOff EXCEPT !.at = "waiting"]
    /\ starts' = starts + 1
    /\ UNCHANGED <<file, average, lock, build, indexer, unsaved, cut, late>>

\* OpenReader reads the size, then as many bytes of metadata: an empty file is an
\* error, too few bytes are a panic.
Readable(field) ==
    /\ file[SizeFile[field]] # 0 /\ file[Metadata[field]] # 0
    /\ MetadataSize[file[Metadata[field]]] <= MetadataSize[file[SizeFile[field]]]

\* LoadMeta, LoadNGramData, OpenReader of both indexes, Deserialize of the R-tree.
Loadable ==
    /\ file["meta.metadata"] # 0 /\ file["ngram.index"] # 0
    /\ \A field \in Fields : Readable(field)
    /\ file["rtree.dat"] # 0

\* With the store open nobody else changes a file, so loading is one step.
Load ==
    /\ server.at = "waiting" /\ lock = "free"
    /\ IF Loadable
       THEN /\ server' = [at |-> "serving", stage |-> 1, phase |-> "begin", build |-> build,
                          loaded |-> file, average |-> average]
            /\ lock' = "server"
       ELSE server' = ServerOff /\ UNCHANGED lock
    /\ UNCHANGED <<file, average, build, indexer, starts, unsaved, cut, late>>

\* The context is cancelled: two goroutines close the indexes and the store, and
\* main goes on to exit.
Stop ==
    /\ server.at = "serving"
    /\ server' = [server EXCEPT !.at = "closing"]
    /\ UNCHANGED <<file, average, lock, build, indexer, starts, unsaved, cut, late>>

CloseStore ==
    /\ server.at = "closing" /\ lock = "server"
    /\ lock' = "free"
    /\ UNCHANGED <<file, average, build, indexer, server, starts, unsaved, cut, late>>

IsLate == late' = (late \/ build # server.build)

CloseBegin(k) ==
    /\ server.at = "closing" /\ server.stage = k /\ server.phase = "begin"
    /\ file' = [file EXCEPT ![Closing[k]] = 0]
    /\ server' = [server EXCEPT !.phase = "write"]
    /\ IsLate
    /\ UNCHANGED <<average, lock, build, indexer, starts, unsaved, cut>>

CloseWrite(k) ==
    /\ server.at = "closing" /\ server.stage = k /\ server.phase = "write"
    /\ file' = [file EXCEPT ![Closing[k]] = server.loaded[Closing[k]]]
    /\ average' = [field \in Fields |->
                      IF Closing[k] = Metadata[field]
                      THEN AverageAfter(server.loaded[Metadata[field]], server.average[field])
                      ELSE average[field]]
    /\ server' = [server EXCEPT !.stage = @ + 1, !.phase = "begin"]
    /\ IsLate
    /\ UNCHANGED <<lock, build, indexer, starts, unsaved, cut>>

\* main returns, or the process is killed: the goroutines are wherever they are.
Exit ==
    /\ server.at # "off"
    /\ server' = ServerOff
    /\ lock' = IF lock = "server" THEN "free" ELSE lock
    /\ cut' = (cut \/ server.phase = "write")
    /\ UNCHANGED <<file, average, build, indexer, starts, unsaved, late>>

IndexerStep ==
    OpenStore \/ FinishIndexer \/ (\E k \in Stages : BeginFile(k) \/ WriteFile(k) \/ NGramsUnsaved(k))

Next ==
    \/ StartIndexer \/ IndexerStep \/ IndexerDies
    \/ StartServer \/ Load \/ Stop \/ CloseStore
    \/ \E k \in 1..4 : CloseBegin(k) \/ CloseWrite(k)
    \/ Exit

\* Both programs go on; nobody has to start or to stop them.
Fairness == WF_vars(IndexerStep) /\ WF_vars(Load) /\ WF_vars(server.at = "closing" /\ Exit)

Spec == Init /\ [][Next]_vars /\ Fairness

----------------------------------------------------------------------------
(* Properties *)

Builds == 0..MaxBuilds

\* Files come from builds that were begun, an average has a denominator, and the
\* writers are within their programs.
TypeOK ==
    /\ file \in [Files -> 0..build]
    /\ average \in [Fields -> Nat \X (Nat \ {0})]
    /\ lock \in {"free", "indexer", "server"}
    /\ build \in Builds
    /\ indexer \in [at : {"off", "waiting", "writing"}, stage : 1..11, phase : {"begin", "write"}]
    /\ server \in [at : {"off", "waiting", "serving", "closing"}, stage : 1..5, phase : {"begin", "write"},
                   build : 0..build, loaded : [Files -> 0..build],
                   average : [Fields -> Nat \X (Nat \ {0})]]
    /\ starts \in 0..MaxStarts
    /\ unsaved \in BOOLEAN /\ cut \in BOOLEAN /\ late \in BOOLEAN

\* A server that has loaded the metadata of the last build begun serves that build and
\* nothing else, documents included, whatever was killed before and during the build:
\* the metadata is written last, and no file changes under a server.  Only the
\* n-grams may be older, when saving them failed, and nothing is promised once a
\* stopping server has written into a later build (main, LoadMainIndex, Close).
ServesWhole ==
    server.at = "serving" /\ server.loaded["meta.metadata"] = build /\ ~late =>
        /\ file = server.loaded
        /\ \A f \in Files : server.loaded[f] = build \/ (f = "ngram.index" /\ unsaved)

\* After a build that was finished the server starts, except if saving the n-grams
\* failed or if a server was stopped between truncating and rewriting a file, or wrote
\* it into this build: no death of the indexer, at any point, of this or an earlier
\* build keeps it from starting (OpenReader, LoadMeta, LoadNGramData, Deserialize).
StartsAfterBuild ==
    build # 0 /\ file["meta.metadata"] = build /\ server.at # "closing"
        /\ ~unsaved /\ ~cut /\ ~late => Loadable

\* Every stop adds the stored average to the lengths before it divides: over any
\* number of stops the average stays between the true one and the true sum over one
\* document less; with a single document it grows without bound (SerializeMetadata).
AverageStays ==
    \A field \in Fields :
        LET b == file[Metadata[field]]
            num == average[field][1]
            den == average[field][2]
        IN  b # 0 => /\ FieldSum[b] * den <= num * FieldDocs[b]
                     /\ num * (FieldDocs[b] - 1) <= FieldSum[b] * den

\* A server that waits for the store gets it, or fails to load, however often the
\* indexer is killed and run again: no build ends with the store still locked.
StartEnds == server.at = "waiting" ~> server.at # "waiting"

=============================================================================
