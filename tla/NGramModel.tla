----------------------------- MODULE NGramModel -----------------------------
(***************************************************************************)
(* The n-gram language model of pkg/searcher/ngram_lm.go: the counts the   *)
(* indexer makes, and the probabilities the spell corrector compares.      *)
(*                                                                         *)
(* A term is its word: the code's IDs and words correspond one to one.     *)
(* Probabilities are compared by their logarithms, scaled to integers.     *)
(***************************************************************************)
EXTENDS Integers, Sequences, FiniteSets, SequencesExt

CONSTANTS Corpus,                    \* the tokenized documents
          StartToken, EndToken, UnknownToken,
          CountThreshold,            \* COUNT_THRESOLD_NGRAM
          NGramData,                 \* the counts, as saved and loaded
          Log                        \* scaled logarithms of the positive integers

ASSUME NGramAssumption ==
    /\ \A doc \in Range(Corpus) :
          {StartToken, EndToken, UnknownToken} \cap Range(doc) = {}
    /\ CountThreshold \in Nat

----------------------------------------------------------------------------
(* Counting *)

Occurrences(word, docs) ==
    Cardinality(UNION {{<<d, i>> : i \in {i \in DOMAIN docs[d] : docs[d][i] = word}} : d \in DOMAIN docs})

\* countWords runs twice on the same documents, so no word is ever rare.
wordCounts(word) == 2 * Occurrences(word, Corpus)

getWordsWithNPlusFreq ==
    {word \in UNION {Range(doc) : doc \in Range(Corpus)} : wordCounts(word) >= CountThreshold}

PreProcessData ==
    LET known(word) == IF word \in getWordsWithNPlusFreq THEN word ELSE UnknownToken
    IN  [d \in DOMAIN Corpus |-> [i \in DOMAIN Corpus[d] |-> known(Corpus[d][i])]]

addStartEndToken(doc, n) == [i \in 1..n |-> StartToken] \o doc \o <<EndToken>>

\* The n-grams of the data, one per place.
Places(n) ==
    LET padded == [d \in DOMAIN Corpus |-> addStartEndToken(PreProcessData[d], n)]
    IN  UNION {{<<d, i, SubSeq(padded[d], i, i + n - 1)>> : i \in 1..(Len(padded[d]) - n + 1)} :
               d \in DOMAIN Corpus}

\* MakeCountMatrix: how often each n-gram occurs, for n from 1 to 4.
MakeCountMatrix ==
    [n \in 1..4 |-> LET places == Places(n)
                    IN  [gram \in {place[3] : place \in places} |->
                            Cardinality({place \in places : place[3] = gram})]]

ASSUME NGramDataAssumption ==
    NGramData = [counts |-> MakeCountMatrix, TotalWordFreq |-> Cardinality(Places(1))]

Count(gram) ==
    IF gram \in DOMAIN NGramData.counts[Len(gram)] THEN NGramData.counts[Len(gram)][gram] ELSE 0

----------------------------------------------------------------------------
(* Estimating *)

\* A probability as numerator and denominator; 0 if the context never occurred.
estimateProbability(nextWord, previousNGram) ==
    [numerator |-> Count(Append(previousNGram, nextWord)),
     denominator |-> IF previousNGram = <<>> THEN NGramData.TotalWordFreq ELSE Count(previousNGram)]

\* The context loses its first word, at a discount of 2/5, until the probability
\* is positive.  A word that never occurred has no context left to lose: panic.
Unseen(word) == Count(<<word>>) = 0

stupidBackoff(nextWord, prevNgrams) ==
    LET shorter(j) == SubSeq(prevNgrams, j + 1, Len(prevNgrams))
        positive(j) == Count(Append(shorter(j), nextWord)) > 0
        scaled(j, p) == j * (Log[2] - Log[5]) + Log[p.numerator] - Log[p.denominator]
        at(j) == scaled(j, estimateProbability(nextWord, shorter(j)))
    IN  at(CHOOSE j \in 0..Len(prevNgrams) : positive(j) /\ \A i \in 0..(j - 1) : ~positive(i))

estimateQueryProbability(query) ==
    FoldLeftDomain(LAMBDA sum, i :
                      IF i < 5 THEN sum ELSE sum + stupidBackoff(query[i], SubSeq(query, i - 3, i - 1)),
                   0, query)

EstimateQueriesProbabilities(queries) ==
    FoldLeft(LAMBDA all, query : Append(all, estimateQueryProbability(addStartEndToken(query, 4))),
             <<>>, queries)

=============================================================================
