-------------------------- MODULE DeploymentProofs --------------------------
(***************************************************************************)
(* What Deployment promises, for any number of builds, starts and deaths.  *)
(*                                                                         *)
(* The argument: the lock keeps indexer and serving server apart           *)
(* (LockInv); the indexer leaves every file behind it in the state of its  *)
(* build, and meta.metadata is the last (ProgressInv); a server holds what *)
(* the files hold as long as no other build was begun (HoldInv); and only  *)
(* a closing server leaves a file empty (CutInv).                          *)
(***************************************************************************)
EXTENDS Deployment, TLAPS

Running == server.at \in {"serving", "closing"}

\* The indexer writes exactly while it has the lock; a serving server has it, and no
\* build is begun meanwhile.
LockInv ==
    /\ indexer.at = "writing" <=> lock = "indexer"
    /\ indexer.at # "writing" => indexer.stage = 1 /\ indexer.phase = "begin"
    /\ indexer.at = "writing" => build # 0
    /\ server.at = "serving" => lock = "server" /\ server.build = build
    /\ lock = "server" => Running
    /\ Running /\ server.build = build => indexer.at # "writing"
    /\ server.phase = "write" => server.at = "closing"

\* What a server has loaded was there.
LoadedInv ==
    Running => /\ server.loaded["meta.metadata"] # 0
               /\ \A f \in ClosedFiles : server.loaded[f] # 0

Good(f) ==
    \/ file[f] = build
    \/ f = "ngram.index" /\ unsaved
    \/ f \in ClosedFiles /\ file[f] = 0

\* The indexer has passed stage k of the last build begun.
Passed(k) ==
    IF indexer.at = "writing" THEN k < indexer.stage
    ELSE build # 0 /\ file["meta.metadata"] = build

ProgressInv ==
    ~late => /\ \A k \in Stages : Passed(k) => Good(Program[k])
             /\ indexer.at = "writing" /\ indexer.stage <= 10 => file["meta.metadata"] # build

HoldInv ==
    ~late /\ Running /\ server.build = build =>
        /\ file["meta.metadata"] = server.loaded["meta.metadata"]
        /\ server.at = "serving" => file = server.loaded
        /\ server.loaded["meta.metadata"] = build =>
              \A f \in Files : server.loaded[f] = build \/ (f = "ngram.index" /\ unsaved)

\* The file that a closing server has truncated and not yet written.
Open(f) ==
    /\ server.at = "closing" /\ server.phase = "write" /\ server.build = build
    /\ \E k \in 1..4 : server.stage = k /\ f = Closing[k]

CutInv ==
    ~late /\ ~cut =>
        \A k \in Stages : Passed(k) /\ Program[k] \in ClosedFiles /\ file[Program[k]] = 0 => Open(Program[k])

Within(b, avg) ==
    b # 0 => /\ FieldSum[b] * avg[2] <= avg[1] * FieldDocs[b]
             /\ avg[1] * (FieldDocs[b] - 1) <= FieldSum[b] * avg[2]

AverageInv ==
    \A field \in Fields :
        /\ Within(file[Metadata[field]], average[field])
        /\ Running => Within(server.loaded[Metadata[field]], server.average[field])

IInv == TypeOK /\ LockInv /\ LoadedInv /\ ProgressInv /\ HoldInv /\ CutInv /\ AverageInv

----------------------------------------------------------------------------
(* The program of the indexer and the files *)

LEMMA ProgramFacts ==
    /\ Program \in [Stages -> Files]
    /\ \A f \in Files : \E k \in Stages : Program[k] = f
    /\ \A j, k \in Stages : Program[j] = Program[k] => j = k
    /\ Program[10] = "meta.metadata"
    /\ \A k \in Stages : Program[k] = "meta.metadata" => k = 10
<1>1. Program \in [Stages -> Files]
  BY DEF Program, Stages, Files, Metadata, SizeFile
<1>2. \A f \in Files : \E k \in Stages : Program[k] = f
  <2>. DEFINE P(k) == Program[k]
  <2>1. /\ 1 \in Stages /\ 2 \in Stages /\ 3 \in Stages /\ 4 \in Stages /\ 5 \in Stages
        /\ 6 \in Stages /\ 7 \in Stages /\ 8 \in Stages /\ 9 \in Stages /\ 10 \in Stages
    BY DEF Stages
  <2>2. /\ P(1) = "docs_store.db" /\ P(2) = "rtree.dat" /\ P(3) = "merged_name_index.index"
        /\ P(4) = Metadata.name /\ P(5) = SizeFile.name /\ P(6) = "merged_address_index.index"
        /\ P(7) = Metadata.address /\ P(8) = SizeFile.address /\ P(9) = "ngram.index"
        /\ P(10) = "meta.metadata"
    BY <2>1 DEF Program
  <2>. QED BY <2>1, <2>2 DEF Files
<1>3. \A j, k \in Stages : Program[j] = Program[k] => j = k
  BY DEF Program, Stages, Metadata, SizeFile
<1>4. Program[10] = "meta.metadata"
  BY DEF Program, Stages
<1>. QED BY <1>1, <1>2, <1>3, <1>4 DEF Stages

LEMMA FileFacts ==
    /\ ClosedFiles \subseteq Files
    /\ Closing \in [1..4 -> ClosedFiles]
    /\ \A j, k \in 1..4 : Closing[j] = Closing[k] => j = k
    /\ \A field \in Fields : Metadata[field] \in ClosedFiles /\ SizeFile[field] \in ClosedFiles
    /\ "meta.metadata" \in Files /\ "ngram.index" \in Files /\ "rtree.dat" \in Files
    /\ {"meta.metadata", "ngram.index", "rtree.dat"} \cap ClosedFiles = {}
    /\ Rewritten \subseteq Files /\ ClosedFiles \cup {"meta.metadata"} \subseteq Rewritten
<1>1. ClosedFiles \subseteq Files
  BY DEF ClosedFiles, Files
<1>2. Closing \in [1..4 -> ClosedFiles]
  BY DEF ClosedFiles, Closing
<1>3. \A j, k \in 1..4 : Closing[j] = Closing[k] => j = k
  BY DEF Closing, Metadata, SizeFile
<1>4. \A field \in Fields : Metadata[field] \in ClosedFiles /\ SizeFile[field] \in ClosedFiles
  BY DEF Fields, ClosedFiles, Metadata, SizeFile
<1>5. "meta.metadata" \in Files /\ "ngram.index" \in Files /\ "rtree.dat" \in Files
  BY DEF Files
<1>6. {"meta.metadata", "ngram.index", "rtree.dat"} \cap ClosedFiles = {}
  BY DEF ClosedFiles, Metadata, SizeFile
<1>7. Rewritten \subseteq Files /\ ClosedFiles \cup {"meta.metadata"} \subseteq Rewritten
  BY DEF Rewritten, Files, ClosedFiles, Metadata, SizeFile
<1>. QED BY <1>1, <1>2, <1>3, <1>4, <1>5, <1>6, <1>7

----------------------------------------------------------------------------
(* Averages *)

LEMMA AverageType ==
    ASSUME NEW b \in 1..MaxBuilds, NEW old \in Nat \X (Nat \ {0})
    PROVE  AverageAfter(b, old) \in Nat \X (Nat \ {0})
<1>. DEFINE S == FieldSum[b]  n == FieldDocs[b]
<1>1. S \in Nat /\ n \in Nat \ {0}
  BY DeploymentAssumption
<1>2. old[1] \in Nat /\ old[2] \in Nat \ {0}
  OBVIOUS
<1>. HIDE DEF S, n
<1>3. \A x, y \in Nat : x * y \in Nat
  OBVIOUS
<1>4. \A x, y \in Nat \ {0} : x * y \in Nat \ {0}
  OBVIOUS
<1>5. S * old[2] + old[1] \in Nat
  BY <1>1, <1>2, <1>3
<1>6. n * old[2] \in Nat \ {0}
  BY <1>1, <1>2, <1>4
<1>. QED BY <1>5, <1>6 DEF AverageAfter, S, n

\* Dividing the sum, or the sum on top of an average within the limits, stays within them.
LEMMA AverageWithin ==
    ASSUME NEW b \in 1..MaxBuilds, NEW old \in Nat \X (Nat \ {0}),
           old = <<0, 1>> \/ Within(b, old)
    PROVE  Within(b, AverageAfter(b, old))
<1>. DEFINE S == FieldSum[b]  n == FieldDocs[b]
<1>1. S \in Nat /\ n \in Nat \ {0}
  BY DeploymentAssumption
<1>2. old[1] \in Nat /\ old[2] \in Nat \ {0}
  OBVIOUS
<1>3. old[1] * (n - 1) <= S * old[2]
  <2>1. CASE old = <<0, 1>>
    <3>1. old[1] * (n - 1) = 0 /\ S * old[2] = S
      BY <2>1, <1>1
    <3>. QED BY <3>1, <1>1
  <2>2. CASE Within(b, old)
    BY <2>2 DEF Within
  <2>. QED BY <2>1, <2>2
<1>. HIDE DEF S, n
<1>4. \A s, d, num, m \in Nat : m >= 1 /\ num * (m - 1) <= s * d =>
        /\ s * (m * d) <= (s * d + num) * m
        /\ (s * d + num) * (m - 1) <= s * (m * d)
  <2>. SUFFICES ASSUME NEW s \in Nat, NEW d \in Nat, NEW num \in Nat, NEW m \in Nat,
                       m >= 1, num * (m - 1) <= s * d
                PROVE  /\ s * (m * d) <= (s * d + num) * m
                       /\ (s * d + num) * (m - 1) <= s * (m * d)
    OBVIOUS
  <2>1. s * (m * d) = (s * d) * m
    OBVIOUS
  <2>2. (s * d + num) * m = (s * d) * m + num * m
    OBVIOUS
  <2>3. num * m >= 0
    OBVIOUS
  <2>4. (s * d + num) * (m - 1) = (s * d) * m - s * d + num * (m - 1)
    OBVIOUS
  <2>5. s * d \in Nat /\ (s * d) * m \in Nat /\ num * m \in Nat /\ num * (m - 1) \in Int
    OBVIOUS
  <2>. QED BY <2>1, <2>2, <2>3, <2>4, <2>5
<1>5. /\ S * (n * old[2]) <= (S * old[2] + old[1]) * n
      /\ (S * old[2] + old[1]) * (n - 1) <= S * (n * old[2])
  BY <1>1, <1>2, <1>3, <1>4
<1>6. AverageAfter(b, old) = <<S * old[2] + old[1], n * old[2]>>
  BY DEF AverageAfter, S, n
<1>. QED BY <1>5, <1>6 DEF Within, S, n

----------------------------------------------------------------------------
(* Types, the lock, and what a server has loaded *)

IndexerType == [at : {"off", "waiting", "writing"}, stage : 1..11, phase : {"begin", "write"}]
ServerType(b) == [at : {"off", "waiting", "serving", "closing"}, stage : 1..5, phase : {"begin", "write"},
                  build : 0..b, loaded : [Files -> 0..b], average : [Fields -> Nat \X (Nat \ {0})]]

LEMMA OffTypes == NotRunning \in IndexerType /\ \A b \in Nat : ServerOff \in ServerType(b)
BY DEF NotRunning, ServerOff, IndexerType, ServerType

LEMMA FileUpdates ==
    ASSUME NEW b \in Nat, NEW g \in [Files -> 0..b], NEW f, NEW c \in 0..b
    PROVE  [g EXCEPT ![f] = c] \in [Files -> 0..b]
OBVIOUS

LEMMA IndexerUpdates ==
    ASSUME NEW i \in IndexerType
    PROVE  /\ \A a : [i EXCEPT !.at = a] = [at |-> a, stage |-> i.stage, phase |-> i.phase]
           /\ \A t : [i EXCEPT !.phase = t] = [at |-> i.at, stage |-> i.stage, phase |-> t]
<1>1. ASSUME NEW a PROVE [i EXCEPT !.at = a] = [at |-> a, stage |-> i.stage, phase |-> i.phase]
  BY DEF IndexerType
<1>2. ASSUME NEW t PROVE [i EXCEPT !.phase = t] = [at |-> i.at, stage |-> i.stage, phase |-> t]
  BY DEF IndexerType
<1>. QED BY <1>1, <1>2

LEMMA ServerUpdates ==
    ASSUME NEW b \in Nat, NEW s \in ServerType(b)
    PROVE  /\ \A a : [s EXCEPT !.at = a]
                   = [at |-> a, stage |-> s.stage, phase |-> s.phase, build |-> s.build,
                      loaded |-> s.loaded, average |-> s.average]
           /\ \A t : [s EXCEPT !.phase = t]
                   = [at |-> s.at, stage |-> s.stage, phase |-> t, build |-> s.build,
                      loaded |-> s.loaded, average |-> s.average]
           /\ \A n \in 1..5 : \A t : [s EXCEPT !.stage = n, !.phase = t]
                   = [at |-> s.at, stage |-> n, phase |-> t, build |-> s.build,
                      loaded |-> s.loaded, average |-> s.average]
<1>1. ASSUME NEW a
      PROVE  [s EXCEPT !.at = a]
                   = [at |-> a, stage |-> s.stage, phase |-> s.phase, build |-> s.build,
                      loaded |-> s.loaded, average |-> s.average]
  BY DEF ServerType
<1>2. ASSUME NEW z \in ServerType(b), NEW t
      PROVE  [z EXCEPT !.phase = t]
                   = [at |-> z.at, stage |-> z.stage, phase |-> t, build |-> z.build,
                      loaded |-> z.loaded, average |-> z.average]
  BY DEF ServerType
<1>3. ASSUME NEW n \in 1..5, NEW t
      PROVE  [s EXCEPT !.stage = n, !.phase = t]
                 = [at |-> s.at, stage |-> n, phase |-> t, build |-> s.build,
                    loaded |-> s.loaded, average |-> s.average]
  <2>1. [s EXCEPT !.stage = n] = [at |-> s.at, stage |-> n, phase |-> s.phase, build |-> s.build,
                                  loaded |-> s.loaded, average |-> s.average]
    BY DEF ServerType
  <2>2. [s EXCEPT !.stage = n] \in ServerType(b)
    BY DEF ServerType
  <2>3. [[s EXCEPT !.stage = n] EXCEPT !.phase = t]
           = [at |-> s.at, stage |-> n, phase |-> t, build |-> s.build,
              loaded |-> s.loaded, average |-> s.average]
    BY <2>1, <2>2, <1>2
  <2>4. [s EXCEPT !.stage = n, !.phase = t] = [[s EXCEPT !.stage = n] EXCEPT !.phase = t]
    OBVIOUS
  <2>. QED BY <2>3, <2>4
<1>. QED BY <1>1, <1>2, <1>3

LEMMA Records == TypeOK => indexer \in IndexerType /\ server \in ServerType(build) /\ build \in 0..MaxBuilds
BY DEF TypeOK, IndexerType, ServerType, Builds

\* What each action makes of the two records.
LEMMA IndexerAfter ==
    ASSUME TypeOK
    PROVE  /\ StartIndexer => indexer' = [at |-> "waiting", stage |-> 1, phase |-> "begin"]
           /\ OpenStore => indexer' = [at |-> "writing", stage |-> indexer.stage, phase |-> indexer.phase]
           /\ \A k : BeginFile(k) => indexer' = [at |-> "writing", stage |-> k, phase |-> "write"]
           /\ \A k : WriteFile(k) \/ NGramsUnsaved(k) =>
                        indexer' = [at |-> "writing", stage |-> k + 1, phase |-> "begin"]
           /\ FinishIndexer \/ IndexerDies => indexer' = [at |-> "off", stage |-> 1, phase |-> "begin"]
<1>1. StartIndexer => indexer' = [at |-> "waiting", stage |-> 1, phase |-> "begin"]
  <2>1. [NotRunning EXCEPT !.at = "waiting"]
           = [at |-> "waiting", stage |-> NotRunning.stage, phase |-> NotRunning.phase]
    BY OffTypes, IndexerUpdates
  <2>. QED BY <2>1 DEF StartIndexer, NotRunning
<1>2. OpenStore => indexer' = [at |-> "writing", stage |-> indexer.stage, phase |-> indexer.phase]
  BY Records, IndexerUpdates DEF OpenStore
<1>3. \A k : BeginFile(k) => indexer' = [at |-> "writing", stage |-> k, phase |-> "write"]
  BY Records, IndexerUpdates DEF BeginFile, Writing
<1>4. \A k : WriteFile(k) \/ NGramsUnsaved(k) =>
                 indexer' = [at |-> "writing", stage |-> k + 1, phase |-> "begin"]
  BY DEF WriteFile, NGramsUnsaved, Writing, NextStage
<1>5. FinishIndexer \/ IndexerDies => indexer' = [at |-> "off", stage |-> 1, phase |-> "begin"]
  BY DEF FinishIndexer, IndexerDies, NotRunning
<1>. QED BY <1>1, <1>2, <1>3, <1>4, <1>5

LEMMA ServerAfter ==
    ASSUME TypeOK
    PROVE  /\ StartServer => server' = [at |-> "waiting", stage |-> 1, phase |-> "begin", build |-> 0,
                                        loaded |-> [f \in Files |-> 0],
                                        average |-> [field \in Fields |-> <<0, 1>>]]
           /\ Load /\ Loadable => server' = [at |-> "serving", stage |-> 1, phase |-> "begin",
                                             build |-> build, loaded |-> file,
                                             average |-> average]
           /\ Stop => server' = [at |-> "closing", stage |-> server.stage, phase |-> server.phase,
                                 build |-> server.build, loaded |-> server.loaded,
                                 average |-> server.average]
           /\ \A k : CloseBegin(k) => server' = [at |-> "closing", stage |-> k, phase |-> "write",
                                                build |-> server.build, loaded |-> server.loaded,
                                                average |-> server.average]
           /\ \A k \in 1..4 : CloseWrite(k) => server' = [at |-> "closing", stage |-> k + 1, phase |-> "begin",
                                                build |-> server.build, loaded |-> server.loaded,
                                                average |-> server.average]
           /\ Exit \/ (Load /\ ~Loadable) => server' = ServerOff
<1>1. StartServer => server' = [at |-> "waiting", stage |-> 1, phase |-> "begin", build |-> 0,
                                loaded |-> [f \in Files |-> 0],
                                average |-> [field \in Fields |-> <<0, 1>>]]
  <2>1. ServerOff \in ServerType(0)
    BY OffTypes
  <2>2. [ServerOff EXCEPT !.at = "waiting"]
           = [at |-> "waiting", stage |-> ServerOff.stage, phase |-> ServerOff.phase,
              build |-> ServerOff.build, loaded |-> ServerOff.loaded, average |-> ServerOff.average]
    BY <2>1, ServerUpdates
  <2>. QED BY <2>2 DEF StartServer, ServerOff
<1>. DEFINE B == build
<1>2. B \in Nat /\ server \in ServerType(B)
  BY Records, DeploymentAssumption
<1>3. Load /\ Loadable => server' = [at |-> "serving", stage |-> 1, phase |-> "begin", build |-> build,
                                    loaded |-> file, average |-> average]
  BY DEF Load
<1>4. Stop => server' = [at |-> "closing", stage |-> server.stage, phase |-> server.phase,
                         build |-> server.build, loaded |-> server.loaded, average |-> server.average]
  BY <1>2, ServerUpdates DEF Stop
<1>5. \A k : CloseBegin(k) => server' = [at |-> "closing", stage |-> k, phase |-> "write",
                                        build |-> server.build, loaded |-> server.loaded,
                                        average |-> server.average]
  <2>. SUFFICES ASSUME NEW k, CloseBegin(k)
                PROVE  server' = [at |-> "closing", stage |-> k, phase |-> "write",
                                  build |-> server.build, loaded |-> server.loaded,
                                  average |-> server.average]
    OBVIOUS
  <2>1. server' = [server EXCEPT !.phase = "write"] /\ server.at = "closing" /\ server.stage = k
    BY DEF CloseBegin
  <2>. QED BY <1>2, <2>1, ServerUpdates
<1>6. \A k \in 1..4 : CloseWrite(k) => server' = [at |-> "closing", stage |-> k + 1, phase |-> "begin",
                                        build |-> server.build, loaded |-> server.loaded,
                                        average |-> server.average]
  <2>. SUFFICES ASSUME NEW k \in 1..4, CloseWrite(k)
                PROVE  server' = [at |-> "closing", stage |-> k + 1, phase |-> "begin",
                                  build |-> server.build, loaded |-> server.loaded,
                                  average |-> server.average]
    OBVIOUS
  <2>1. server' = [server EXCEPT !.stage = k + 1, !.phase = "begin"] /\ server.at = "closing"
    BY DEF CloseWrite
  <2>2. k + 1 \in 1..5
    OBVIOUS
  <2>. QED BY <1>2, <2>1, <2>2, ServerUpdates
<1>7. Exit \/ (Load /\ ~Loadable) => server' = ServerOff
  BY DEF Exit, Load
<1>. QED BY <1>1, <1>3, <1>4, <1>5, <1>6, <1>7

LEMMA TypeInit == Init => TypeOK
<1>. SUFFICES ASSUME Init PROVE TypeOK
  OBVIOUS
<1>1. MaxBuilds \in Nat /\ MaxStarts \in Nat
  BY DeploymentAssumption
<1>2. build = 0 /\ build \in Builds
  BY <1>1 DEF Init, Builds
<1>3. file \in [Files -> 0..build] /\ starts \in 0..MaxStarts
  BY <1>1, <1>2 DEF Init
<1>4. average \in [Fields -> Nat \X (Nat \ {0})]
  BY DEF Init
<1>5. indexer \in IndexerType /\ server \in ServerType(build)
  BY <1>2, OffTypes DEF Init
<1>6. lock \in {"free", "indexer", "server"} /\ unsaved \in BOOLEAN /\ cut \in BOOLEAN /\ late \in BOOLEAN
  BY DEF Init
<1>. QED BY <1>2, <1>3, <1>4, <1>5, <1>6 DEF TypeOK, IndexerType, ServerType

\* The parts of TypeOK that the actions change one at a time.
LEMMA TypeParts ==
    TypeOK <=> /\ file \in [Files -> 0..build]
               /\ average \in [Fields -> Nat \X (Nat \ {0})]
               /\ lock \in {"free", "indexer", "server"}
               /\ build \in 0..MaxBuilds
               /\ indexer \in IndexerType
               /\ server \in ServerType(build)
               /\ starts \in 0..MaxStarts
               /\ unsaved \in BOOLEAN /\ cut \in BOOLEAN /\ late \in BOOLEAN
BY DEF TypeOK, IndexerType, ServerType, Builds

LEMMA TypeStep == TypeOK /\ LockInv /\ LoadedInv /\ [Next]_vars => TypeOK'
<1>. SUFFICES ASSUME TypeOK, LockInv, LoadedInv, [Next]_vars PROVE TypeOK'
  OBVIOUS
<1>a. (file \in [Files -> 0..build] /\ average \in [Fields -> Nat \X (Nat \ {0})]
        /\ lock \in {"free", "indexer", "server"} /\ build \in 0..MaxBuilds
        /\ indexer \in IndexerType /\ server \in ServerType(build) /\ starts \in 0..MaxStarts
        /\ unsaved \in BOOLEAN /\ cut \in BOOLEAN /\ late \in BOOLEAN)' => TypeOK'
  BY DEF TypeOK, IndexerType, ServerType, Builds
<1>1. MaxBuilds \in Nat /\ MaxStarts \in Nat
  BY DeploymentAssumption
<1>2. build \in Nat /\ build \in 0..MaxBuilds
  BY <1>1, TypeParts
<1>b. /\ server.stage \in 1..5 /\ server.phase \in {"begin", "write"} /\ server.build \in 0..build
      /\ server.loaded \in [Files -> 0..build]
      /\ server.average \in [Fields -> Nat \X (Nat \ {0})]
  BY TypeParts DEF ServerType
<1>3. CASE StartIndexer
  <2>1. indexer' \in IndexerType
    BY <1>3, IndexerAfter DEF IndexerType
  <2>. QED BY <1>3, <1>a, <2>1, TypeParts DEF StartIndexer
<1>4. CASE OpenStore
  <2>1. build' = build + 1 /\ build' \in 0..MaxBuilds
    BY <1>1, <1>2, <1>4 DEF OpenStore
  <2>2. 0..build \subseteq 0..build'
    BY <1>2, <2>1
  <2>3. file' \in [Files -> 0..build']
    BY <1>4, <2>2, TypeParts DEF OpenStore
  <2>4. server' \in ServerType(build')
    BY <1>4, <2>2, TypeParts DEF OpenStore, ServerType
  <2>5. indexer' \in IndexerType
    <3>1. indexer.stage \in 1..11 /\ indexer.phase \in {"begin", "write"}
      BY TypeParts DEF IndexerType
    <3>. QED BY <1>4, <3>1, IndexerAfter DEF IndexerType
  <2>. QED BY <1>4, <1>a, <2>1, <2>3, <2>4, <2>5, TypeParts DEF OpenStore
<1>5. CASE FinishIndexer \/ IndexerDies
  <2>1. indexer' \in IndexerType
    BY <1>5, IndexerAfter DEF IndexerType
  <2>. QED BY <1>5, <1>a, <2>1, TypeParts DEF FinishIndexer, IndexerDies
<1>6. ASSUME NEW k \in Stages, BeginFile(k) PROVE TypeOK'
  <2>1. indexer' \in IndexerType
    BY <1>6, IndexerAfter DEF IndexerType, Stages
  <2>2. file' \in [Files -> 0..build]
    BY <1>2, <1>6, FileUpdates, TypeParts DEF BeginFile
  <2>. QED BY <1>6, <1>a, <2>1, <2>2, TypeParts DEF BeginFile
<1>7. ASSUME NEW k \in Stages, WriteFile(k) PROVE TypeOK'
  <2>1. build \in 1..MaxBuilds
    BY <1>1, <1>2, <1>7 DEF WriteFile, Writing, LockInv
  <2>2. file' \in [Files -> 0..build]
    <3>1. build \in 0..build
      BY <1>2
    <3>. QED BY <1>2, <1>7, <3>1, FileUpdates, TypeParts DEF WriteFile
  <2>3. <<0, 1>> \in Nat \X (Nat \ {0})
    OBVIOUS
  <2>4. AverageAfter(build, <<0, 1>>) \in Nat \X (Nat \ {0})
    BY <2>1, <2>3, AverageType
  <2>5. average' \in [Fields -> Nat \X (Nat \ {0})]
    BY <1>7, <2>4, TypeParts DEF WriteFile
  <2>6. indexer' \in IndexerType
    BY <1>7, IndexerAfter DEF IndexerType, Stages
  <2>. QED BY <1>7, <1>a, <2>2, <2>5, <2>6, TypeParts DEF WriteFile
<1>8. ASSUME NEW k \in Stages, NGramsUnsaved(k) PROVE TypeOK'
  <2>1. indexer' \in IndexerType
    BY <1>8, IndexerAfter DEF IndexerType, Stages
  <2>. QED BY <1>8, <1>a, <2>1, TypeParts DEF NGramsUnsaved
<1>9. CASE StartServer
  <2>1. server' \in ServerType(build)
    <3>1. [f \in Files |-> 0] \in [Files -> 0..build] /\ 0 \in 0..build
      BY <1>2
    <3>2. [field \in Fields |-> <<0, 1>>] \in [Fields -> Nat \X (Nat \ {0})]
      OBVIOUS
    <3>. QED BY <1>2, <1>9, <3>1, <3>2, ServerAfter DEF ServerType
  <2>. QED BY <1>1, <1>9, <1>a, <2>1, TypeParts DEF StartServer
<1>10. CASE Load
  <2>1. CASE Loadable
    <3>1. server' \in ServerType(build)
      <4>1. build \in 0..build /\ file \in [Files -> 0..build]
              /\ average \in [Fields -> Nat \X (Nat \ {0})]
        BY <1>2, TypeParts
      <4>. QED BY <1>2, <1>10, <2>1, <4>1, ServerAfter DEF ServerType
    <3>. QED BY <1>10, <1>a, <2>1, <3>1, TypeParts DEF Load
  <2>2. CASE ~Loadable
    <3>1. server' \in ServerType(build)
      BY <1>2, <1>10, <2>2, ServerAfter, OffTypes
    <3>. QED BY <1>10, <1>a, <2>2, <3>1, TypeParts DEF Load
  <2>. QED BY <2>1, <2>2
<1>11. CASE Stop
  <2>1. server' \in ServerType(build)
    BY <1>2, <1>11, <1>b, ServerAfter DEF ServerType
  <2>. QED BY <1>11, <1>a, <2>1, TypeParts DEF Stop
<1>12. CASE CloseStore
  BY <1>12, <1>a, TypeParts DEF CloseStore
<1>13. ASSUME NEW k \in 1..4, CloseBegin(k) PROVE TypeOK'
  <2>1. server' \in ServerType(build)
    <3>1. k \in 1..5
      OBVIOUS
    <3>. QED BY <1>2, <1>13, <1>b, <3>1, ServerAfter DEF ServerType
  <2>2. file' \in [Files -> 0..build]
    BY <1>2, <1>13, FileUpdates, TypeParts DEF CloseBegin
  <2>. QED BY <1>13, <1>a, <2>1, <2>2, TypeParts DEF CloseBegin, IsLate
<1>14. ASSUME NEW k \in 1..4, CloseWrite(k) PROVE TypeOK'
  <2>1. server' \in ServerType(build)
    <3>1. k + 1 \in 1..5
      OBVIOUS
    <3>. QED BY <1>2, <1>14, <1>b, <3>1, ServerAfter DEF ServerType
  <2>2. server.loaded \in [Files -> 0..build] /\ server.average \in [Fields -> Nat \X (Nat \ {0})]
    BY TypeParts DEF ServerType
  <2>3. file' \in [Files -> 0..build]
    <3>1. server.loaded[Closing[k]] \in 0..build
      BY <2>2, FileFacts
    <3>. QED BY <1>2, <1>14, <3>1, FileUpdates, TypeParts DEF CloseWrite
  <2>4. ASSUME NEW field \in Fields
        PROVE  AverageAfter(server.loaded[Metadata[field]], server.average[field]) \in Nat \X (Nat \ {0})
    <3>1. Metadata[field] \in ClosedFiles /\ Metadata[field] \in Files
      BY FileFacts
    <3>2. server.loaded[Metadata[field]] \in 1..MaxBuilds
      BY <1>1, <1>2, <1>14, <2>2, <3>1 DEF LoadedInv, Running, CloseWrite
    <3>3. server.average[field] \in Nat \X (Nat \ {0})
      BY <2>2
    <3>. QED BY <3>2, <3>3, AverageType
  <2>5. average' \in [Fields -> Nat \X (Nat \ {0})]
    BY <1>14, <2>4, TypeParts DEF CloseWrite
  <2>. QED BY <1>14, <1>a, <2>1, <2>3, <2>5, TypeParts DEF CloseWrite, IsLate
<1>15. CASE Exit
  <2>1. server' \in ServerType(build)
    BY <1>2, <1>15, ServerAfter, OffTypes
  <2>2. cut' \in BOOLEAN
    BY <1>15 DEF Exit
  <2>. QED BY <1>15, <1>a, <2>1, <2>2, TypeParts DEF Exit
<1>16. CASE UNCHANGED vars
  BY <1>16, <1>a, TypeParts DEF vars
<1>. QED BY <1>3, <1>4, <1>5, <1>6, <1>7, <1>8, <1>9, <1>10, <1>11, <1>12, <1>13, <1>14, <1>15,
            <1>16 DEF Next, IndexerStep

LEMMA LockStep == TypeOK /\ LockInv /\ [Next]_vars => LockInv'
<1>. SUFFICES ASSUME TypeOK, LockInv, [Next]_vars PROVE LockInv'
  OBVIOUS
<1>. USE DEF LockInv, Running
<1>1. build \in Nat /\ server.build \in 0..build
  BY DeploymentAssumption DEF TypeOK, Builds
<1>3. CASE StartIndexer
  BY <1>3 DEF StartIndexer, NotRunning
<1>4. CASE OpenStore
  BY <1>1, <1>4 DEF OpenStore, TypeOK
<1>5. CASE FinishIndexer
  BY <1>5 DEF FinishIndexer, NotRunning
<1>6. ASSUME NEW k \in Stages, BeginFile(k) PROVE LockInv'
  BY <1>6 DEF BeginFile, Writing, TypeOK
<1>7. ASSUME NEW k \in Stages, WriteFile(k) PROVE LockInv'
  BY <1>7 DEF WriteFile, Writing, NextStage, TypeOK
<1>8. ASSUME NEW k \in Stages, NGramsUnsaved(k) PROVE LockInv'
  BY <1>8 DEF NGramsUnsaved, Writing, NextStage, TypeOK
<1>9. CASE IndexerDies
  BY <1>9 DEF IndexerDies, NotRunning, TypeOK
<1>10. CASE StartServer
  BY <1>10 DEF StartServer, ServerOff
<1>11. CASE Load
  BY <1>11 DEF Load, ServerOff, TypeOK
<1>12. CASE Stop
  BY <1>12 DEF Stop, TypeOK
<1>13. CASE CloseStore
  BY <1>13 DEF CloseStore
<1>14. ASSUME NEW k \in 1..4, CloseBegin(k) PROVE LockInv'
  BY <1>14 DEF CloseBegin, TypeOK
<1>15. ASSUME NEW k \in 1..4, CloseWrite(k) PROVE LockInv'
  BY <1>15 DEF CloseWrite, TypeOK
<1>16. CASE Exit
  BY <1>16 DEF Exit, ServerOff
<1>17. CASE UNCHANGED vars
  BY <1>17 DEF vars
<1>. QED BY <1>3, <1>4, <1>5, <1>6, <1>7, <1>8, <1>9, <1>10, <1>11, <1>12, <1>13, <1>14, <1>15,
            <1>16, <1>17 DEF Next, IndexerStep

LEMMA LoadedStep == TypeOK /\ LoadedInv /\ [Next]_vars => LoadedInv'
<1>. SUFFICES ASSUME TypeOK, LoadedInv, [Next]_vars PROVE LoadedInv'
  OBVIOUS
<1>. USE DEF LoadedInv, Running
<1>1. CASE Load
  <2>1. CASE Loadable
    <3>1. file["meta.metadata"] # 0 /\ \A f \in ClosedFiles : file[f] # 0
      BY <2>1 DEF Loadable, Readable, ClosedFiles, Fields
    <3>. QED BY <1>1, <2>1, <3>1 DEF Load, TypeOK
  <2>2. CASE ~Loadable
    BY <1>1, <2>2 DEF Load, ServerOff
  <2>. QED BY <2>1, <2>2
<1>2. CASE StartServer
  BY <1>2 DEF StartServer, ServerOff
<1>3. CASE Stop
  BY <1>3 DEF Stop, TypeOK
<1>4. ASSUME NEW k \in 1..4, CloseBegin(k) \/ CloseWrite(k) PROVE LoadedInv'
  BY <1>4 DEF CloseBegin, CloseWrite, TypeOK
<1>5. CASE Exit
  BY <1>5 DEF Exit, ServerOff
<1>6. CASE UNCHANGED server
  BY <1>6
<1>. QED BY <1>1, <1>2, <1>3, <1>4, <1>5, <1>6
         DEF Next, IndexerStep, vars, StartIndexer, OpenStore, FinishIndexer, IndexerDies, BeginFile,
             WriteFile, NGramsUnsaved, CloseStore

----------------------------------------------------------------------------
(* What the indexer has written, and what a server holds *)

LEMMA ProgressStep ==
    TypeOK /\ LockInv /\ ProgressInv /\ HoldInv /\ [Next]_vars => ProgressInv'
<1>. SUFFICES ASSUME TypeOK, LockInv, ProgressInv, HoldInv, [Next]_vars PROVE ProgressInv'
  OBVIOUS
<1>1. /\ build \in Nat /\ file \in [Files -> 0..build] /\ server.build \in 0..build
      /\ late \in BOOLEAN /\ indexer.stage \in 1..11
  BY DeploymentAssumption, TypeParts DEF ServerType, IndexerType
<1>2. ASSUME UNCHANGED <<file, build, indexer, unsaved, late>> PROVE ProgressInv'
  BY <1>2 DEF ProgressInv, Passed, Good
<1>3. CASE StartIndexer
  <2>1. indexer'.at # "writing"
    BY <1>3, IndexerAfter
  <2>2. \A k \in Stages : Passed(k)' => Passed(k)
    BY <1>3, <2>1 DEF StartIndexer, Passed
  <2>3. \A k \in Stages : Good(Program[k])' <=> Good(Program[k])
    BY <1>3 DEF StartIndexer, Good
  <2>. QED BY <1>3, <2>1, <2>2, <2>3 DEF ProgressInv, StartIndexer
<1>4. CASE OpenStore
  <2>1. indexer'.at = "writing" /\ indexer'.stage = 1
    BY <1>4, IndexerAfter DEF OpenStore, LockInv
  <2>2. file' = file /\ file["meta.metadata"] \in 0..build /\ build' = build + 1
    BY <1>1, <1>4, FileFacts DEF OpenStore
  <2>3. file'["meta.metadata"] # build'
    BY <1>1, <2>2
  <2>. QED BY <2>1, <2>3 DEF ProgressInv, Passed, Stages
<1>5. CASE FinishIndexer
  <2>1. indexer.at = "writing" /\ indexer.stage = 11 /\ UNCHANGED <<file, build, unsaved, late>>
    BY <1>5 DEF FinishIndexer
  <2>2. \A k \in Stages : Passed(k)
    BY <2>1 DEF Passed, Stages
  <2>3. \A k \in Stages : Good(Program[k])' <=> Good(Program[k])
    BY <2>1 DEF Good
  <2>4. indexer'.at # "writing"
    BY <1>5, IndexerAfter
  <2>. QED BY <2>1, <2>2, <2>3, <2>4 DEF ProgressInv
<1>6. ASSUME NEW k \in Stages, BeginFile(k) PROVE ProgressInv'
  <2>1. /\ indexer.at = "writing" /\ indexer.stage = k /\ build # 0
        /\ UNCHANGED <<build, unsaved, late>>
        /\ indexer'.at = "writing" /\ indexer'.stage = k
    BY <1>6, IndexerAfter DEF BeginFile, Writing, LockInv
  <2>2. ASSUME NEW j \in Stages, Passed(j)', ~late PROVE Good(Program[j])'
    <3>1. j < k /\ Program[j] # Program[k]
      BY <2>1, <2>2, ProgramFacts DEF Passed, Stages
    <3>2. file'[Program[j]] = file[Program[j]]
      BY <1>1, <1>6, <3>1, ProgramFacts DEF BeginFile
    <3>3. Good(Program[j])
      BY <2>1, <2>2, <3>1 DEF ProgressInv, Passed
    <3>. QED BY <2>1, <3>2, <3>3 DEF Good
  <2>3. ASSUME k <= 10, ~late PROVE file'["meta.metadata"] # build
    BY <1>1, <1>6, <2>1, <2>3, FileFacts DEF ProgressInv, BeginFile
  <2>. QED BY <2>1, <2>2, <2>3 DEF ProgressInv
<1>7. ASSUME NEW k \in Stages, WriteFile(k) \/ NGramsUnsaved(k) PROVE ProgressInv'
  <2>1. /\ indexer.at = "writing" /\ indexer.stage = k /\ UNCHANGED <<build, late>>
        /\ indexer'.at = "writing" /\ indexer'.stage = k + 1
    <3>1. indexer' = [at |-> "writing", stage |-> k + 1, phase |-> "begin"]
      BY <1>7, IndexerAfter
    <3>2. indexer.at = "writing" /\ indexer.stage = k /\ UNCHANGED <<build, late>>
      BY <1>7 DEF WriteFile, NGramsUnsaved, Writing
    <3>. QED BY <3>1, <3>2
  <2>2. Good(Program[k])'
    <3>1. CASE WriteFile(k)
      BY <1>1, <3>1, ProgramFacts DEF WriteFile, Good
    <3>2. CASE NGramsUnsaved(k)
      BY <3>2 DEF NGramsUnsaved, Good
    <3>. QED BY <1>7, <3>1, <3>2
  <2>3. \A f \in Files : f # Program[k] => file'[f] = file[f]
    BY <1>1, <1>7 DEF WriteFile, NGramsUnsaved
  <2>4. unsaved => unsaved'
    BY <1>7 DEF WriteFile, NGramsUnsaved
  <2>5. ASSUME NEW j \in Stages, Passed(j)', ~late PROVE Good(Program[j])'
    <3>1. CASE j = k
      BY <2>2, <3>1
    <3>2. CASE j # k
      <4>1. j < k /\ Program[j] # Program[k] /\ Program[j] \in Files
        BY <2>1, <2>5, <3>2, ProgramFacts DEF Passed, Stages
      <4>2. Good(Program[j])
        BY <2>1, <2>5, <4>1 DEF ProgressInv, Passed
      <4>. QED BY <2>1, <2>3, <2>4, <4>1, <4>2 DEF Good
    <3>. QED BY <3>1, <3>2
  <2>6. ASSUME k + 1 <= 10, ~late PROVE file'["meta.metadata"] # build
    <3>1. Program[k] # "meta.metadata"
      BY <2>6, ProgramFacts DEF Stages
    <3>. QED BY <2>1, <2>3, <2>6, <3>1, FileFacts DEF ProgressInv, Stages
  <2>. QED BY <2>1, <2>5, <2>6 DEF ProgressInv
<1>8. CASE IndexerDies
  <2>1. UNCHANGED <<file, build, unsaved, late>> /\ indexer'.at # "writing"
    BY <1>8, IndexerAfter DEF IndexerDies
  <2>2. ASSUME NEW k \in Stages, Passed(k)', ~late PROVE Good(Program[k])
    <3>1. build # 0 /\ file["meta.metadata"] = build
      BY <2>1, <2>2 DEF Passed
    <3>2. Passed(k)
      BY <1>1, <2>2, <3>1 DEF ProgressInv, Passed, Stages
    <3>. QED BY <2>2, <3>2 DEF ProgressInv
  <2>. QED BY <2>1, <2>2 DEF ProgressInv, Good
<1>9. ASSUME NEW k \in 1..4, CloseBegin(k) \/ CloseWrite(k) PROVE ProgressInv'
  <2>1. /\ UNCHANGED <<build, indexer, unsaved>> /\ late' = (late \/ build # server.build)
        /\ Running
    BY <1>9 DEF CloseBegin, CloseWrite, IsLate, Running
  <2>. SUFFICES ASSUME ~late' PROVE ProgressInv'
    BY DEF ProgressInv
  <2>2. ~late /\ server.build = build /\ indexer.at # "writing"
    BY <2>1 DEF LockInv
  <2>3. Closing[k] \in ClosedFiles /\ Closing[k] # "meta.metadata"
    BY FileFacts
  <2>4. \A f \in Files : f # Closing[k] => file'[f] = file[f]
    BY <1>1, <1>9 DEF CloseBegin, CloseWrite
  <2>5. ASSUME NEW j \in Stages, Passed(j)' PROVE Good(Program[j])'
    <3>1. Passed(j) /\ Program[j] \in Files
      BY <2>1, <2>2, <2>3, <2>4, <2>5, FileFacts, ProgramFacts DEF Passed
    <3>2. Good(Program[j])
      BY <2>2, <3>1 DEF ProgressInv
    <3>3. CASE Program[j] # Closing[k]
      BY <2>1, <2>4, <3>1, <3>2, <3>3 DEF Good
    <3>4. CASE Program[j] = Closing[k]
      <4>1. CASE CloseBegin(k)
        BY <1>1, <2>3, <3>1, <3>4, <4>1 DEF Good, CloseBegin
      <4>2. CASE CloseWrite(k)
        <5>1. file'[Closing[k]] = server.loaded[Closing[k]]
          BY <1>1, <3>1, <3>4, <4>2 DEF CloseWrite
        <5>2. file["meta.metadata"] = build
          BY <2>2, <3>1 DEF Passed
        <5>3. server.loaded[Closing[k]] = build
          BY <2>1, <2>2, <2>3, <3>1, <3>4, <5>2, FileFacts DEF HoldInv
        <5>. QED BY <2>1, <3>4, <5>1, <5>3 DEF Good
      <4>. QED BY <1>9, <4>1, <4>2
    <3>. QED BY <3>3, <3>4
  <2>. QED BY <2>1, <2>2, <2>5 DEF ProgressInv
<1>. QED BY <1>2, <1>3, <1>4, <1>5, <1>6, <1>7, <1>8, <1>9
         DEF Next, IndexerStep, vars, StartServer, Load, Stop, CloseStore, Exit

LEMMA HoldStep ==
    TypeOK /\ LockInv /\ ProgressInv /\ HoldInv /\ [Next]_vars => HoldInv'
<1>. SUFFICES ASSUME TypeOK, LockInv, ProgressInv, HoldInv, [Next]_vars,
                     ~late', Running', server'.build = build'
              PROVE  /\ file'["meta.metadata"] = server'.loaded["meta.metadata"]
                     /\ server'.at = "serving" => file' = server'.loaded
                     /\ server'.loaded["meta.metadata"] = build' =>
                           \A f \in Files : server'.loaded[f] = build' \/ (f = "ngram.index" /\ unsaved')
  BY DEF HoldInv
<1>1. /\ build \in Nat /\ file \in [Files -> 0..build] /\ server.build \in 0..build
      /\ server.loaded \in [Files -> 0..build] /\ late \in BOOLEAN
  BY DeploymentAssumption, TypeParts DEF ServerType
<1>2. CASE UNCHANGED <<file, build, server, unsaved, late>>
  BY <1>2 DEF HoldInv, Running
<1>3. CASE OpenStore
  BY <1>1, <1>3 DEF OpenStore
<1>4. ASSUME NEW k \in Stages, BeginFile(k) \/ WriteFile(k) \/ NGramsUnsaved(k) PROVE FALSE
  BY <1>4 DEF BeginFile, WriteFile, NGramsUnsaved, Writing, LockInv, Running
<1>5. CASE StartServer
  BY <1>5, ServerAfter DEF Running
<1>6. CASE Load
  <2>1. Loadable
    BY <1>6, ServerAfter DEF Running, ServerOff
  <2>2. server' = [at |-> "serving", stage |-> 1, phase |-> "begin", build |-> build,
                   loaded |-> file, average |-> average]
    BY <1>6, <2>1, ServerAfter
  <2>3. UNCHANGED <<file, build, unsaved, late>> /\ lock = "free"
    BY <1>6 DEF Load
  <2>4. ASSUME file["meta.metadata"] = build, NEW f \in Files
        PROVE  file[f] = build \/ (f = "ngram.index" /\ unsaved)
    <3>1. build # 0 /\ \A g \in ClosedFiles : file[g] # 0
      BY <2>1, <2>4 DEF Loadable, Readable, ClosedFiles, Fields
    <3>2. indexer.at # "writing"
      BY <2>3 DEF LockInv
    <3>3. PICK k \in Stages : Program[k] = f
      BY ProgramFacts
    <3>4. Good(f)
      BY <2>3, <2>4, <3>1, <3>2, <3>3 DEF ProgressInv, Passed
    <3>. QED BY <3>1, <3>4 DEF Good
  <2>. QED BY <2>2, <2>3, <2>4
<1>7. CASE Stop
  BY <1>7, ServerAfter DEF Stop, HoldInv, Running
<1>8. ASSUME NEW k \in 1..4, CloseBegin(k) \/ CloseWrite(k)
      PROVE  /\ file'["meta.metadata"] = server'.loaded["meta.metadata"]
             /\ server'.at # "serving"
             /\ server'.loaded["meta.metadata"] = build =>
                   \A f \in Files : server'.loaded[f] = build \/ (f = "ngram.index" /\ unsaved)
  <2>1. /\ server.at = "closing" /\ server.build = build /\ ~late
        /\ server'.at = "closing" /\ server'.loaded = server.loaded
    <3>1. server'.at = "closing" /\ server'.loaded = server.loaded
      BY <1>8, ServerAfter
    <3>. QED BY <1>8, <3>1 DEF CloseBegin, CloseWrite, IsLate
  <2>2. file'["meta.metadata"] = file["meta.metadata"]
    <3>1. Closing[k] # "meta.metadata"
      BY FileFacts
    <3>. QED BY <1>1, <1>8, <3>1, FileFacts DEF CloseBegin, CloseWrite
  <2>. QED BY <2>1, <2>2 DEF HoldInv, Running
<1>9. CASE Exit
  BY <1>9, ServerAfter DEF Running, ServerOff
<1>. QED
  <2>1. ASSUME NEW k \in 1..4, CloseBegin(k) \/ CloseWrite(k) PROVE UNCHANGED <<build, unsaved>>
    BY <2>1 DEF CloseBegin, CloseWrite
  <2>. QED BY <1>2, <1>3, <1>4, <1>5, <1>6, <1>7, <1>8, <1>9, <2>1
           DEF Next, IndexerStep, vars, StartIndexer, FinishIndexer, IndexerDies, CloseStore

LEMMA CutStep ==
    TypeOK /\ LockInv /\ LoadedInv /\ ProgressInv /\ CutInv /\ [Next]_vars => CutInv'
<1>. SUFFICES ASSUME TypeOK, LockInv, LoadedInv, ProgressInv, CutInv, [Next]_vars, ~late', ~cut',
                     NEW j \in Stages, Passed(j)', Program[j] \in ClosedFiles, file'[Program[j]] = 0
              PROVE  Open(Program[j])'
  BY DEF CutInv
<1>1. /\ build \in Nat /\ file \in [Files -> 0..build] /\ late \in BOOLEAN /\ cut \in BOOLEAN
  BY DeploymentAssumption, TypeParts
<1>2. Program[j] \in Files /\ Program[j] # "meta.metadata" /\ Program[j] # "ngram.index"
  BY FileFacts
<1>3. ASSUME ~late, ~cut, Passed(j), file[Program[j]] = 0 PROVE Open(Program[j])
  BY <1>3 DEF CutInv
<1>4. CASE UNCHANGED <<file, build, indexer, server, late, cut>>
  BY <1>3, <1>4 DEF Passed, Open
<1>5. CASE StartIndexer
  BY <1>3, <1>5, IndexerAfter DEF StartIndexer, Passed, Open
<1>6. CASE OpenStore
  <2>1. indexer'.at = "writing" /\ indexer'.stage = 1
    BY <1>6, IndexerAfter DEF OpenStore, LockInv
  <2>. QED BY <2>1 DEF Passed, Stages
<1>7. CASE FinishIndexer
  <2>1. indexer.at = "writing" /\ indexer.stage = 11 /\ UNCHANGED <<file, build, server, late, cut>>
    BY <1>7 DEF FinishIndexer
  <2>2. Passed(j)
    BY <2>1 DEF Passed, Stages
  <2>. QED BY <1>3, <2>1, <2>2 DEF Open
<1>8. ASSUME NEW k \in Stages, BeginFile(k) \/ WriteFile(k) \/ NGramsUnsaved(k)
      PROVE  Open(Program[j])'
  <2>1. /\ indexer.at = "writing" /\ indexer.stage = k /\ build # 0
        /\ UNCHANGED <<build, server, late, cut>>
    BY <1>8 DEF BeginFile, WriteFile, NGramsUnsaved, Writing, LockInv
  <2>2. indexer'.at = "writing" /\ (indexer'.stage = k \/ (indexer'.stage = k + 1 /\ ~BeginFile(k)))
    <3>1. CASE BeginFile(k)
      BY <3>1, IndexerAfter
    <3>2. CASE ~BeginFile(k)
      BY <1>8, <3>2, IndexerAfter
    <3>. QED BY <3>1, <3>2
  <2>3. j < k
    <3>1. j < k \/ (j = k /\ ~BeginFile(k))
      BY <2>2 DEF Passed, Stages
    <3>2. WriteFile(k) => file'[Program[k]] # 0
      BY <1>1, <2>1, ProgramFacts DEF WriteFile
    <3>3. NGramsUnsaved(k) => Program[k] = "ngram.index"
      BY DEF NGramsUnsaved
    <3>. QED BY <1>2, <1>8, <3>1, <3>2, <3>3
  <2>4. Passed(j) /\ Program[j] # Program[k]
    BY <2>1, <2>3, ProgramFacts DEF Passed, Stages
  <2>5. file'[Program[j]] = file[Program[j]]
    BY <1>1, <1>2, <1>8, <2>4 DEF BeginFile, WriteFile, NGramsUnsaved
  <2>. QED BY <1>3, <2>1, <2>4, <2>5 DEF Open
<1>9. CASE IndexerDies
  <2>1. UNCHANGED <<file, build, server, late, cut>> /\ indexer'.at # "writing"
    BY <1>9, IndexerAfter DEF IndexerDies
  <2>2. build # 0 /\ file["meta.metadata"] = build
    BY <2>1 DEF Passed
  <2>3. Passed(j)
    <3>1. indexer.stage \in 1..11 /\ ~late
      BY <2>1, TypeParts DEF IndexerType
    <3>2. indexer.at = "writing" => indexer.stage = 11
      BY <2>2, <3>1 DEF ProgressInv
    <3>. QED BY <2>2, <3>2 DEF Passed, Stages
  <2>. QED BY <1>3, <2>1, <2>3 DEF Open
<1>10. CASE StartServer \/ Load \/ Stop \/ Exit
  <2>1. UNCHANGED <<file, build, indexer, late>> /\ (server.at # "closing" \/ server.phase = "begin")
          /\ ~cut
    BY <1>1, <1>10, TypeParts DEF StartServer, Load, Stop, Exit, ServerType
  <2>2. Passed(j) /\ ~Open(Program[j])
    BY <2>1 DEF Passed, Open
  <2>. QED BY <1>3, <2>1, <2>2
<1>11. ASSUME NEW k \in 1..4, CloseBegin(k) \/ CloseWrite(k) PROVE Open(Program[j])'
  <2>1. /\ UNCHANGED <<build, indexer, cut>> /\ ~late /\ server.build = build
        /\ server.at = "closing" /\ server.stage = k
    BY <1>11 DEF CloseBegin, CloseWrite, IsLate
  <2>2. Closing[k] \in ClosedFiles /\ Closing[k] \in Files /\ Closing[k] # "meta.metadata"
    BY FileFacts
  <2>3. \A f \in Files : f # Closing[k] => file'[f] = file[f]
    BY <1>1, <1>11 DEF CloseBegin, CloseWrite
  <2>4. Passed(j)
    BY <2>1, <2>2, <2>3, FileFacts DEF Passed
  <2>5. CASE Program[j] # Closing[k]
    <3>1. Open(Program[j])
      BY <1>2, <1>3, <2>1, <2>3, <2>4, <2>5
    <3>2. PICK i \in 1..4 : server.stage = i /\ Program[j] = Closing[i]
      BY <3>1 DEF Open
    <3>. QED BY <2>1, <2>5, <3>2
  <2>6. CASE Program[j] = Closing[k]
    <3>1. CASE CloseBegin(k)
      <4>1. server' = [at |-> "closing", stage |-> k, phase |-> "write", build |-> server.build,
                       loaded |-> server.loaded, average |-> server.average]
        BY <3>1, ServerAfter
      <4>2. server'.at = "closing" /\ server'.phase = "write" /\ server'.build = build' /\ server'.stage = k
        BY <2>1, <4>1
      <4>. QED BY <2>6, <4>2 DEF Open
    <3>2. CASE CloseWrite(k)
      <4>1. file'[Closing[k]] = server.loaded[Closing[k]]
        BY <1>1, <2>2, <3>2 DEF CloseWrite
      <4>2. server.loaded[Closing[k]] # 0
        BY <2>1, <2>2 DEF LoadedInv, Running
      <4>. QED BY <2>6, <4>1, <4>2
    <3>. QED BY <1>11, <3>1, <3>2
  <2>. QED BY <2>5, <2>6
<1>. QED BY <1>4, <1>5, <1>6, <1>7, <1>8, <1>9, <1>10, <1>11 DEF Next, IndexerStep, vars, CloseStore

LEMMA AverageStep ==
    TypeOK /\ LockInv /\ LoadedInv /\ AverageInv /\ [Next]_vars => AverageInv'
<1>. SUFFICES ASSUME TypeOK, LockInv, LoadedInv, AverageInv, [Next]_vars, NEW field \in Fields
              PROVE  /\ Within(file'[Metadata[field]], average'[field])
                     /\ Running' => Within(server'.loaded[Metadata[field]], server'.average[field])
  BY DEF AverageInv
<1>. DEFINE m == Metadata[field]
<1>1. /\ build \in Nat /\ MaxBuilds \in Nat /\ build <= MaxBuilds /\ file \in [Files -> 0..build]
      /\ average \in [Fields -> Nat \X (Nat \ {0})]
      /\ server.loaded \in [Files -> 0..build]
      /\ server.average \in [Fields -> Nat \X (Nat \ {0})]
  BY DeploymentAssumption, TypeParts DEF ServerType
<1>2. m \in Files /\ m \in ClosedFiles
  BY FileFacts
<1>3. /\ Within(file[m], average[field])
      /\ Running => Within(server.loaded[m], server.average[field])
  BY DEF AverageInv
<1>. HIDE DEF m
<1>4. CASE UNCHANGED <<file, average, server>>
  BY <1>3, <1>4 DEF Running, m
<1>5. ASSUME NEW k \in Stages, BeginFile(k) \/ WriteFile(k)
      PROVE  Within(file'[m], average'[field]) /\ UNCHANGED server
  <2>1. UNCHANGED server /\ build # 0
    BY <1>5 DEF BeginFile, WriteFile, Writing, LockInv
  <2>2. CASE Program[k] # m
    <3>1. file'[m] = file[m] /\ average'[field] = average[field]
      BY <1>1, <1>2, <1>5, <2>2 DEF BeginFile, WriteFile, m
    <3>. QED BY <1>3, <2>1, <3>1
  <2>3. CASE Program[k] = m /\ BeginFile(k)
    <3>1. file'[m] = 0
      BY <1>1, <1>2, <2>3 DEF BeginFile
    <3>. QED BY <2>1, <3>1 DEF Within
  <2>4. CASE Program[k] = m /\ WriteFile(k)
    <3>1. file'[m] = build /\ average'[field] = AverageAfter(build, <<0, 1>>)
      BY <1>1, <1>2, <2>4 DEF WriteFile, m
    <3>2. build \in 1..MaxBuilds
      BY <1>1, <2>1
    <3>3. <<0, 1>> \in Nat \X (Nat \ {0})
      OBVIOUS
    <3>4. Within(build, AverageAfter(build, <<0, 1>>))
      BY <3>2, <3>3, AverageWithin
    <3>. QED BY <2>1, <3>1, <3>4
  <2>. QED BY <1>5, <2>2, <2>3, <2>4
<1>6. CASE StartServer
  BY <1>3, <1>6, ServerAfter DEF StartServer, Running, m
<1>7. CASE Load
  <2>1. CASE Loadable
    <3>1. server'.loaded = file /\ server'.average = average
      BY <1>7, <2>1, ServerAfter
    <3>. QED BY <1>3, <1>7, <3>1 DEF Load, m
  <2>2. CASE ~Loadable
    BY <1>3, <1>7, <2>2, ServerAfter DEF Load, Running, ServerOff, m
  <2>. QED BY <2>1, <2>2
<1>8. CASE Stop
  BY <1>3, <1>8, ServerAfter DEF Stop, Running, m
<1>9. ASSUME NEW k \in 1..4, CloseBegin(k) \/ CloseWrite(k)
      PROVE  /\ Within(file'[m], average'[field])
             /\ server'.loaded = server.loaded /\ server'.average = server.average /\ Running
  <2>1. server'.loaded = server.loaded /\ server'.average = server.average
    BY <1>9, ServerAfter
  <2>2. Running
    BY <1>9 DEF CloseBegin, CloseWrite, Running
  <2>3. CASE Closing[k] # m
    <3>1. file'[m] = file[m] /\ average'[field] = average[field]
      BY <1>1, <1>2, <1>9, <2>3 DEF CloseBegin, CloseWrite, m
    <3>. QED BY <1>3, <2>1, <2>2, <3>1
  <2>4. CASE Closing[k] = m /\ CloseBegin(k)
    <3>1. file'[m] = 0
      BY <1>1, <1>2, <2>4 DEF CloseBegin
    <3>. QED BY <2>1, <2>2, <3>1 DEF Within
  <2>5. CASE Closing[k] = m /\ CloseWrite(k)
    <3>. DEFINE b == server.loaded[m]
    <3>1. file'[m] = b /\ average'[field] = AverageAfter(b, server.average[field])
      BY <1>1, <1>2, <2>5 DEF CloseWrite, m
    <3>2. b \in 1..MaxBuilds
      BY <1>1, <1>2, <2>2 DEF LoadedInv
    <3>3. server.average[field] \in Nat \X (Nat \ {0}) /\ Within(b, server.average[field])
      BY <1>1, <1>3, <2>2
    <3>4. Within(b, AverageAfter(b, server.average[field]))
      BY <3>2, <3>3, AverageWithin
    <3>. QED BY <2>1, <2>2, <3>1, <3>4
  <2>. QED BY <1>9, <2>3, <2>4, <2>5
<1>10. CASE Exit
  BY <1>3, <1>10, ServerAfter DEF Exit, Running, ServerOff, m
<1>. QED BY <1>3, <1>4, <1>5, <1>6, <1>7, <1>8, <1>9, <1>10
         DEF Next, IndexerStep, vars, StartIndexer, OpenStore, FinishIndexer, IndexerDies,
             NGramsUnsaved, CloseStore, Running, m

----------------------------------------------------------------------------
(* The theorems *)

LEMMA InvInit == Init => IInv
<1>. SUFFICES ASSUME Init PROVE IInv
  OBVIOUS
<1>1. /\ build = 0 /\ file = [f \in Files |-> 0] /\ lock = "free"
      /\ indexer = [at |-> "off", stage |-> 1, phase |-> "begin"]
      /\ server.at = "off" /\ server.phase = "begin"
  BY DEF Init, NotRunning, ServerOff
<1>2. TypeOK
  BY TypeInit
<1>3. LockInv
  BY <1>1 DEF LockInv, Running
<1>4. LoadedInv /\ HoldInv
  BY <1>1 DEF LoadedInv, HoldInv, Running
<1>5. ProgressInv /\ CutInv
  BY <1>1 DEF ProgressInv, CutInv, Passed
<1>6. AverageInv
  <2>1. \A field \in Fields : file[Metadata[field]] = 0
    BY <1>1, FileFacts
  <2>. QED BY <1>1, <2>1 DEF AverageInv, Within, Running
<1>. QED BY <1>2, <1>3, <1>4, <1>5, <1>6 DEF IInv

LEMMA InvStep == IInv /\ [Next]_vars => IInv'
BY TypeStep, LockStep, LoadedStep, ProgressStep, HoldStep, CutStep, AverageStep DEF IInv

\* Through all steps of both programs, and all deaths, the inductive invariant holds.
THEOREM Inductive == Spec => []IInv
BY InvInit, InvStep, PTL DEF Spec

\* Files, averages and both processes stay of their types: no server rewrites a file
\* that it did not load, and no average is divided by zero.
THEOREM TypeCorrect == Spec => []TypeOK
<1>1. IInv => TypeOK
  BY DEF IInv
<1>. QED BY <1>1, Inductive, PTL

\* Whatever is killed when, a server with the metadata of the last build serves that
\* build whole.
THEOREM ServesWholeAlways == Spec => []ServesWhole
<1>1. IInv => ServesWhole
  <2>. SUFFICES ASSUME TypeOK, LockInv, HoldInv, server.at = "serving",
                       server.loaded["meta.metadata"] = build, ~late
                PROVE  /\ file = server.loaded
                       /\ \A f \in Files : server.loaded[f] = build \/ (f = "ngram.index" /\ unsaved)
    BY DEF IInv, ServesWhole
  <2>1. Running /\ server.build = build
    BY DEF Running, LockInv
  <2>. QED BY <2>1 DEF HoldInv
<1>. QED BY <1>1, Inductive, PTL

\* Whatever is killed when, the server starts after a finished build, with the stated
\* exceptions.
THEOREM StartsAfterBuildAlways == Spec => []StartsAfterBuild
<1>1. IInv => StartsAfterBuild
  <2>. SUFFICES ASSUME TypeOK, LockInv, ProgressInv, CutInv, build # 0,
                       file["meta.metadata"] = build, server.at # "closing", ~unsaved, ~cut, ~late
                PROVE  Loadable
    BY DEF IInv, StartsAfterBuild
  <2>1. build \in 1..MaxBuilds /\ file \in [Files -> 0..build] /\ MetadataSize \in [1..MaxBuilds -> Nat]
    BY DeploymentAssumption, TypeParts
  <2>2. \A k \in Stages : Passed(k)
    <3>1. indexer.at = "writing" => indexer.stage = 11
      BY TypeParts DEF ProgressInv, IndexerType
    <3>. QED BY <3>1 DEF Passed, Stages
  <2>3. ASSUME NEW f \in Files PROVE file[f] = build
    <3>1. PICK k \in Stages : Program[k] = f
      BY ProgramFacts
    <3>2. Good(f)
      BY <2>2, <3>1 DEF ProgressInv
    <3>3. ~Open(f)
      BY DEF Open
    <3>. QED BY <2>2, <3>1, <3>2, <3>3 DEF Good, CutInv
  <2>4. \A field \in Fields : SizeFile[field] \in Files /\ Metadata[field] \in Files
    BY FileFacts
  <2>5. MetadataSize[build] <= MetadataSize[build]
    BY <2>1
  <2>. QED BY <2>1, <2>3, <2>4, <2>5, FileFacts DEF Loadable, Readable
<1>. QED BY <1>1, Inductive, PTL

\* However often the server is stopped, the average stays within its limits.
THEOREM AverageStaysAlways == Spec => []AverageStays
<1>1. IInv => AverageStays
  BY DEF IInv, AverageInv, Within, AverageStays
<1>. QED BY <1>1, Inductive, PTL

=============================================================================
