------------------------------ MODULE SpimiInvert ------------------------------
(***************************************************************************)
(* SpimiInvert and Merge of pkg/index/indexer.go at the level of the       *)
(* tokens, for one field: how the words of the documents become the        *)
(* posting lists of the merged index.                                      *)
(*                                                                         *)
(* SpimiBatchIndex models who runs when and what can fail; here nothing    *)
(* fails.  Several calls of SpimiInvert run at once and share the term IDs *)
(* and the numbering of the blocks; Merge starts when all have returned    *)
(* (MergeRunsAlone of SpimiBatchIndex).  A block file is its content: the  *)
(* terms in the order of their appending, their posting lists and the      *)
(* field lengths.                                                          *)
(***************************************************************************)
EXTENDS Integers, SequencesExt

CONSTANTS
  Words,       \* the tokens that Tokenize yields
  Batches,     \* call -> the documents handed to it, each [id, words]
  MaxPosting   \* maxDynamicPostingListSize

\* A document is in one batch, once, and has its ID alone (DocumentIDs and
\* CompleteOnSuccess of SpimiBatchIndex).
ASSUME BatchesAssumption ==
  /\ IsFiniteSet(Words)
  /\ \A c \in DOMAIN Batches : Batches[c] \in Seq([id : Nat, words : Seq(Words)])
  /\ \A c, e \in DOMAIN Batches : \A i \in DOMAIN Batches[c] : \A j \in DOMAIN Batches[e] :
       Batches[c][i].id = Batches[e][j].id => c = e /\ i = j
  /\ MaxPosting \in Nat \ {0}

Calls == DOMAIN Batches
DocsOf(c) == Range(Batches[c])
Docs == UNION {DocsOf(c) : c \in Calls}

\* lenDF: document ID -> number of words, for the documents that have any.
LenDF(c) ==
  LET doc(d) == CHOOSE x \in DocsOf(c) : x.id = d
  IN [d \in {x.id : x \in {y \in DocsOf(c) : y.words # <<>>}} |-> Len(doc(d).words)]

VARIABLES
  StrToID,                  \* TermIDMap: word -> term ID, for the words seen
  pc,                       \* of a call: "parse", "invert" or "done"
  node, nextWord,           \* of a call: the document it parses, its next word
  tokenStream,              \* of a call: the pairs <<term ID, doc ID>> parsed
  taken,                    \* of a call: how many of them the loop has taken
  termToPostingMap,         \* of a call: term ID -> posting list
  postingSize,              \* of a call: tokens since the last flush
  blocks,                   \* the block files, in the order of their registration
  cursor,                   \* of a block: the next of its terms to be merged
  lastTerm, lastPosting,    \* Merge: the term being gathered, -1 at first
  mergedIndex,              \* the terms and posting lists appended to the merged index
  merging                   \* "no", "yes" or "done"

invertVars == <<StrToID, pc, node, nextWord, tokenStream, taken, termToPostingMap, postingSize, blocks>>
mergeVars == <<cursor, lastTerm, lastPosting, mergedIndex, merging>>
vars == <<invertVars, mergeVars>>

EmptyMap == [t \in {} |-> <<>>]

Init ==
  /\ StrToID = [w \in {} |-> 0]
  /\ pc = [c \in Calls |-> "parse"]
  /\ node = [c \in Calls |-> 1]
  /\ nextWord = [c \in Calls |-> 1]
  /\ tokenStream = [c \in Calls |-> <<>>]
  /\ taken = [c \in Calls |-> 0]
  /\ termToPostingMap = [c \in Calls |-> EmptyMap]
  /\ postingSize = [c \in Calls |-> 0]
  /\ blocks = <<>>
  /\ cursor = <<>>
  /\ lastTerm = -1
  /\ lastPosting = <<>>
  /\ mergedIndex = <<>>
  /\ merging = "no"

\* sort.Ints
Sorted(s) ==
  LET order == CHOOSE p \in Bijection(DOMAIN s, DOMAIN s) :
                 \A i, j \in DOMAIN s : i < j => s[p[i]] <= s[p[j]]
  IN  [i \in DOMAIN s |-> s[order[i]]]

------------------------------------------------------------------------------
(* SpimiInvert. *)

WithEntry(map, key, value) ==
  [k \in DOMAIN map \cup {key} |-> IF k = key THEN value ELSE map[k]]

\* (A mutated form: the map is looked at before the lock is taken, and a word
\* that another call has added meanwhile is added again.)
GetIDAnew(word) == WithEntry(StrToID, word, Cardinality(DOMAIN StrToID))

\* IDMap.GetID: a new word takes the next ID.
GetID(word) ==
  IF word \in DOMAIN StrToID THEN StrToID
  ELSE WithEntry(StrToID, word, Cardinality(DOMAIN StrToID))

WordsOf(c) == Batches[c][node[c]].words

\* SpimiParseOSMNode takes the lock for every word.
ParseWord(c) ==
  LET word == WordsOf(c)[nextWord[c]] IN
  /\ pc[c] = "parse"
  /\ node[c] <= Len(Batches[c])
  /\ nextWord[c] <= Len(WordsOf(c))
  /\ StrToID' = GetID(word)
  /\ tokenStream' = [tokenStream EXCEPT ![c] = Append(@, <<StrToID'[word], Batches[c][node[c]].id>>)]
  /\ nextWord' = [nextWord EXCEPT ![c] = @ + 1]
  /\ UNCHANGED <<pc, node, taken, termToPostingMap, postingSize, blocks, mergeVars>>

\* SpimiParseOSMNodes goes on to the next document.
EndNode(c) ==
  /\ pc[c] = "parse"
  /\ node[c] <= Len(Batches[c])
  /\ nextWord[c] > Len(WordsOf(c))
  /\ node' = [node EXCEPT ![c] = @ + 1]
  /\ nextWord' = [nextWord EXCEPT ![c] = 1]
  /\ UNCHANGED <<StrToID, pc, tokenStream, taken, termToPostingMap, postingSize, blocks, mergeVars>>

EndParse(c) ==
  /\ pc[c] = "parse"
  /\ node[c] > Len(Batches[c])
  /\ pc' = [pc EXCEPT ![c] = "invert"]
  /\ UNCHANGED <<StrToID, node, nextWord, tokenStream, taken, termToPostingMap, postingSize,
                 blocks, mergeVars>>

\* (A mutated form: the terms are left in the order of the map.)
TermsUnsorted(map) == Reverse(Sorted(SetToSeq(DOMAIN map)))

\* The terms of the posting map, sorted.
TermsOf(map) == Sorted(SetToSeq(DOMAIN map))

\* The posting list that the map has for a term, the empty one if it has none.
ListOf(map, term) == IF term \in DOMAIN map THEN map[term] ELSE <<>>

\* A block in which the given terms are appended in their order, each with its
\* sorted posting list.
BlockOf(c, terms, map) ==
  [terms    |-> terms,
   postings |-> [t \in Range(terms) |-> Sorted(ListOf(map, t))],
   lens     |-> LenDF(c)]

\* The block written when the posting map is full: the loop over "range terms"
\* yields the indices of the terms, not the terms.
EarlyBlock(c, map) == BlockOf(c, [i \in DOMAIN TermsOf(map) |-> i - 1], map)

\* (A mutated form: the flushed postings stay in the map.)
MapKept(map) == map

MapAfterFlush(map) == EmptyMap

\* The loop over the tokens.  A token that fills the map flushes it.
TakeToken(c) ==
  LET token == tokenStream[c][taken[c] + 1]
      term == token[1]
      old == termToPostingMap[c]
      map == WithEntry(old, term, Append(ListOf(old, term), token[2]))
      full == postingSize[c] + 1 >= MaxPosting
  IN
  /\ pc[c] = "invert"
  /\ taken[c] < Len(tokenStream[c])
  /\ taken' = [taken EXCEPT ![c] = @ + 1]
  /\ postingSize' = [postingSize EXCEPT ![c] = IF full THEN 0 ELSE @ + 1]
  /\ termToPostingMap' = [termToPostingMap EXCEPT ![c] = IF full THEN MapAfterFlush(map) ELSE map]
  /\ blocks' = IF full THEN Append(blocks, EarlyBlock(c, map)) ELSE blocks
  /\ UNCHANGED <<StrToID, pc, node, nextWord, tokenStream, mergeVars>>

\* The last block, which may be empty.
LastBlock(c) ==
  /\ pc[c] = "invert"
  /\ taken[c] = Len(tokenStream[c])
  /\ blocks' = Append(blocks, BlockOf(c, TermsOf(termToPostingMap[c]), termToPostingMap[c]))
  /\ pc' = [pc EXCEPT ![c] = "done"]
  /\ UNCHANGED <<StrToID, node, nextWord, tokenStream, taken, termToPostingMap, postingSize, mergeVars>>

------------------------------------------------------------------------------
(* Merge. *)

\* The heap: the blocks that still have a term, each with its next one.
InHeap == {b \in DOMAIN cursor : cursor[b] <= Len(blocks[b].terms)}
NextTerm(b) == blocks[b].terms[cursor[b]]

StartMerge ==
  /\ merging = "no"
  /\ \A c \in Calls : pc[c] = "done"
  /\ merging' = "yes"
  /\ cursor' = [b \in DOMAIN blocks |-> 1]
  /\ UNCHANGED <<lastTerm, lastPosting, mergedIndex, invertVars>>

\* (A mutated form: the heap yields any of its blocks.)
AnyOfHeap == InHeap

\* The blocks that the heap may yield: those with the smallest term.
TopOfHeap == {b \in InHeap : \A a \in InHeap : NextTerm(b) <= NextTerm(a)}

\* What AppendPostingList does with the term gathered.
Gathered ==
  IF lastTerm = -1 THEN mergedIndex
  ELSE Append(mergedIndex, [term |-> lastTerm, postings |-> Sorted(lastPosting)])

\* The heap yields a term of a block: its postings join those of the term
\* being gathered, or end it.
MergeNext(b) ==
  /\ merging = "yes"
  /\ b \in TopOfHeap
  /\ cursor' = [cursor EXCEPT ![b] = @ + 1]
  /\ IF NextTerm(b) = lastTerm
       THEN /\ lastPosting' = lastPosting \o blocks[b].postings[NextTerm(b)]
            /\ UNCHANGED <<lastTerm, mergedIndex>>
       ELSE /\ mergedIndex' = Gathered
            /\ lastTerm' = NextTerm(b)
            /\ lastPosting' = blocks[b].postings[NextTerm(b)]
  /\ UNCHANGED <<merging, invertVars>>

\* (A mutated form: the term gathered last is forgotten.)
NothingGathered == mergedIndex

LastGathered == Gathered

\* The heap is empty.
EndMerge ==
  /\ merging = "yes"
  /\ InHeap = {}
  /\ mergedIndex' = LastGathered
  /\ merging' = "done"
  /\ UNCHANGED <<cursor, lastTerm, lastPosting, invertVars>>

\* MergeFieldLengths: the lengths of a document add up over the blocks.
FieldLength(d) ==
  SumFunction([b \in DOMAIN blocks |-> IF d \in DOMAIN blocks[b].lens THEN blocks[b].lens[d] ELSE 0])

Invert(c) == ParseWord(c) \/ EndNode(c) \/ EndParse(c) \/ TakeToken(c) \/ LastBlock(c)
Merge == StartMerge \/ (\E b \in DOMAIN cursor : MergeNext(b)) \/ EndMerge
Returned == merging = "done" /\ UNCHANGED vars

Next == (\E c \in Calls : Invert(c)) \/ Merge \/ Returned
Spec == Init /\ [][Next]_vars

------------------------------------------------------------------------------
(* Properties. *)

TermIDs == 0 .. Cardinality(Words) - 1
DocIDs == {doc.id : doc \in Docs}
IsPostingMap(m) == DOMAIN m \subseteq TermIDs /\ m \in [DOMAIN m -> Seq(DocIDs)]

\* Every variable stays in its set; the IDs of the words seen are 0, 1, 2...,
\* and no two words share one.
TypeOK ==
  /\ DOMAIN StrToID \subseteq Words
  /\ StrToID \in Bijection(DOMAIN StrToID, 0 .. Cardinality(DOMAIN StrToID) - 1)
  /\ pc \in [Calls -> {"parse", "invert", "done"}]
  /\ node \in [Calls -> Nat \ {0}]
  /\ nextWord \in [Calls -> Nat \ {0}]
  /\ tokenStream \in [Calls -> Seq(TermIDs \X DocIDs)]
  /\ taken \in [Calls -> Nat]
  /\ DOMAIN termToPostingMap = Calls /\ \A c \in Calls : IsPostingMap(termToPostingMap[c])
  /\ postingSize \in [Calls -> 0 .. MaxPosting - 1]
  /\ \A b \in Range(blocks) :
       /\ DOMAIN b = {"terms", "postings", "lens"}
       /\ b.terms \in Seq(TermIDs)
       /\ IsPostingMap(b.postings)
       /\ DOMAIN b.lens \subseteq DocIDs /\ b.lens \in [DOMAIN b.lens -> Nat]
  /\ cursor \in Seq(Nat \ {0})
  /\ lastTerm \in TermIDs \cup {-1}
  /\ lastPosting \in Seq(DocIDs)
  /\ mergedIndex \in Seq([term : TermIDs, postings : Seq(DocIDs)])
  /\ merging \in {"no", "yes", "done"}

\* Every block holds its terms and its posting lists in ascending order, the
\* early ones too: the k-way merge relies on the first, and the intersection of
\* posting lists in the searcher on the second.
Ascending(s) == \A i \in 1 .. Len(s) - 1 : s[i] <= s[i + 1]

BlocksSorted ==
  \A b \in Range(blocks) :
    /\ \A i \in 1 .. Len(b.terms) - 1 : b.terms[i] < b.terms[i + 1]
    /\ \A t \in Range(b.terms) : Ascending(b.postings[t])

\* Merge appends every term at most once and in ascending order, though several
\* blocks have it: a term appended again would replace the posting list.
EachTermOnce ==
  \A i, j \in 1 .. Len(mergedIndex) : i < j => mergedIndex[i].term < mergedIndex[j].term

\* How often a document is posted for a word, and how often it should be.
Posted(word, d) ==
  LET lists == {e \in Range(mergedIndex) : word \in DOMAIN StrToID /\ e.term = StrToID[word]}
  IN  IF lists = {} THEN 0
      ELSE Cardinality({i \in DOMAIN (CHOOSE e \in lists : TRUE).postings :
                          (CHOOSE e \in lists : TRUE).postings[i] = d})
Occurrences(word, doc) == Cardinality({i \in DOMAIN doc.words : doc.words[i] = word})

\* The merged index never posts a document for a word more often than the
\* document has it.
NothingInvented ==
  \A word \in Words : \A doc \in Docs : Posted(word, doc.id) <= Occurrences(word, doc)

\* A batch of documents that never fills the posting map is inverted without
\* loss, whatever the other calls do: each of its documents is posted for each
\* word as often as it has the word, and its field length is its word count.
FitsOneBlock(c) == SumFunction([i \in DOMAIN Batches[c] |-> Len(Batches[c][i].words)]) < MaxPosting

InvertedWithoutLoss ==
  merging = "done" =>
    \A c \in {x \in Calls : FitsOneBlock(x)} : \A doc \in DocsOf(c) :
      /\ \A word \in Words : Posted(word, doc.id) = Occurrences(word, doc)
      /\ FieldLength(doc.id) = Len(doc.words)

(***************************************************************************)
(* What the repository says and the code does not keep.                    *)
(***************************************************************************)
\* indexer.go:687 "SpimiInvert is a function to invert a batch of nodes into a
\* posting list & write it to inverted index file": every word of every document
\* is in the merged index, also when a batch takes several blocks.
EveryWordPosted ==
  merging = "done" =>
    \A doc \in Docs : \A word \in Words : Posted(word, doc.id) = Occurrences(word, doc)

\* inverted_index.go:22 "docID -> termCount (jumlah term di dalam document)":
\* the field length of a document is the number of its terms.
FieldLengthIsTermCount ==
  merging = "done" => \A doc \in Docs : FieldLength(doc.id) = Len(doc.words)
==============================================================================
