------------------------------ MODULE Searcher ------------------------------
(***************************************************************************)
(* The queries of the server: pkg/searcher (searcher.go and                *)
(* spell_corrector.go), the readers of the merged indexes, and the HTTP    *)
(* handlers in front of them.                                              *)
(*                                                                         *)
(* Handlers run concurrently, one request per client at a time.  They      *)
(* share the maps of term and feature IDs and, for each field, one open    *)
(* index file, whose position every GetPostingList moves without a lock:   *)
(* the seek and the read are two steps.                                    *)
(*                                                                         *)
(* An index file is a sequence of bytes, the encoded posting lists one     *)
(* after the other.  The index is the one the indexer built of Docs.       *)
(***************************************************************************)
EXTENDS NGramModel, Compress, Functions

CONSTANTS Clients,
          Docs,          \* the documents in the order of their IDs, from 0
          Requests,      \* Requests[c]: the requests that client c may send
          Terms,         \* the words in the order of their IDs, as loaded
          TagIDs,        \* the OSM features in the order of their IDs, as loaded
          Misspellings,  \* word -> what the transducer finds within one and two edits
          Completions,   \* word -> the words with that prefix, in the transducer's order
          Around,        \* documents with their features, nearest first
          IndexFile, PostingMetadata,  \* of each field, as merged and loaded
          MaxRequests    \* bound

Fields == {"name", "address"}
DocIDs == 0..(Len(Docs) - 1)
FieldOf(d, field) == Docs[d + 1][field]
TextOf(d) == FieldOf(d, "name") \o FieldOf(d, "address")

ASSUME SearcherAssumption ==
    /\ Corpus = [i \in DOMAIN Docs |-> TextOf(i - 1)]
    /\ IsInjective(Terms) /\ IsInjective(TagIDs)
    /\ {StartToken, EndToken, UnknownToken} \cup UNION {Range(doc) : doc \in Range(Corpus)}
          \subseteq Range(Terms)
    /\ MaxRequests \in Nat

Operators == {"AND", "OR", "NOT", "(", ")"}

\* Words are strings.  The transducer knows the words of the vocabulary only.
ASSUME WordsAssumption ==
    /\ Docs \in Seq([Fields -> Seq(STRING)])
    /\ Terms \in Seq(STRING) /\ TagIDs \in Seq(STRING)
    /\ Operators \cap Range(Terms) = {}
    /\ Around \in Seq([id : DocIDs, tags : SUBSET STRING]) \ {<<>>}
    /\ \A word \in DOMAIN Misspellings :
          /\ Misspellings[word] \in [one : Seq(STRING), two : Seq(STRING)]
          /\ Range(Misspellings[word].one) \cup Range(Misspellings[word].two) \subseteq Range(Terms)
    /\ \A word \in DOMAIN Completions :
          /\ Completions[word] \in Seq(STRING)
          /\ Range(Completions[word]) \subseteq Range(Terms)

\* A negative offset is rejected like a text that is empty.  No word is an operator: in
\* the code words are numbers from 0 and operators are negative.
ASSUME RequestsAssumption ==
    /\ DOMAIN Requests = Clients
    /\ \A c \in Clients : \A req \in Requests[c] :
        /\ req.op \in {"search", "autocomplete", "reverse", "places"}
        /\ req.op # "reverse" => req.k \in Int /\ req.offset \in Nat
        /\ req.op = "places" => req.feature \in STRING
        /\ req.op \in {"search", "autocomplete"} =>
              req.words \in Seq(STRING) /\ Operators \cap Range(req.words) = {}
        /\ req.op = "search" => Range(req.words) \ Range(Terms) \subseteq DOMAIN Misspellings
        /\ req.op = "autocomplete" /\ req.words # <<>> => Last(req.words) \in DOMAIN Completions

VARIABLES termIDs,   \* TermIDMap: the words in the order of their IDs
          features,  \* OSMFeatureMap, likewise
          position,  \* of each index file
          call,      \* the request each client has under way
          reply,     \* the last answer of each client
          requests   \* so far

vars == <<termIDs, features, position, call, reply, requests>>

Idle == [at |-> "idle"]
Unanswered == [code |-> 0]

Init ==
    /\ termIDs = Terms
    /\ features = TagIDs
    /\ position = [field \in Fields |-> 0]
    /\ call = [c \in Clients |-> Idle]
    /\ reply = [c \in Clients |-> Unanswered]
    /\ requests = 0

\* (A mutated form: no look-up.)
GetIDAgain(ids, str) == Append(ids, str)

\* IDMap.GetID, under its lock: an unknown string gets the next ID.
GetID(ids, str) == IF str \in Range(ids) THEN ids ELSE Append(ids, str)

GetIDs(ids, words) == FoldLeft(GetID, ids, words)

\* BuildVocabulary runs once, when the indexes are loaded.
IsInVocabulary(word) == word \in Range(Terms)

----------------------------------------------------------------------------
(* Index files *)

Times(word, d, field) == Cardinality({i \in DOMAIN FieldOf(d, field) : FieldOf(d, field)[i] = word})

\* A word's posting list: a document as often as the word occurs in the field.
PostingList(field, word) ==
    FlattenSeq([i \in DOMAIN Docs |-> [n \in 1..Times(word, i - 1, field) |-> i - 1]])

\* The merged file has the lists in the order of the term IDs, without gaps.
FirstLists(field, n) ==
    FlattenSeq([t \in 1..n |-> EncodePostingsList(PostingList(field, Terms[t]))])

ASSUME IndexAssumption ==
    /\ IndexFile = [field \in Fields |-> FirstLists(field, Len(Terms))]
    /\ PostingMetadata =
          [field \in Fields |->
              [t \in {t \in DOMAIN Terms : PostingList(field, Terms[t]) # <<>>} |->
                  [start |-> Len(FirstLists(field, t - 1)),
                   length |-> Len(EncodePostingsList(PostingList(field, Terms[t])))]]]

HasPostings(field, word) == \E t \in DOMAIN PostingMetadata[field] : Terms[t] = word

MetadataOf(field, word) == PostingMetadata[field][CHOOSE t \in DOMAIN Terms : Terms[t] = word]

\* (A mutated form: one byte late.)
BytesAfter(field, from, n) ==
    [i \in 1..n |-> IF from + i < Len(IndexFile[field]) THEN IndexFile[field][from + i + 1] ELSE 0]

\* What a read of n bytes at a position yields: beyond the end of the file the buffer
\* keeps its zero bytes, which decode as document 0.
BytesAt(field, from, n) ==
    [i \in 1..n |-> IF from + i <= Len(IndexFile[field]) THEN IndexFile[field][from + i] ELSE 0]

\* A document without a word in a field has no length there, and does not count in the
\* average, which is kept as a sum and a count.
LenFieldInDoc(field, d) == IF d \in DocIDs THEN Len(FieldOf(d, field)) ELSE 0

AverageFieldLength ==
    [field \in Fields |->
        [sum |-> FoldLeft(LAMBDA sum, doc : sum + Len(doc[field]), 0, Docs),
         count |-> Cardinality({d \in DocIDs : FieldOf(d, field) # <<>>})]]

----------------------------------------------------------------------------
(* Spell correction *)

\* Words within one edit are found twice, and never a word of the vocabulary itself.
GetWordCandidates(word) == Misspellings[word].one \o Misspellings[word].two

\* append shares the array of the product unless it is full, and arrays grow to 1, 2,
\* 4 and 8 words: then all candidates made of one product end in the last alternative.
Grows(length) == length \in {0, 1, 2, 4, 8}

Extended(products, alternatives) ==
    LET extended(product) ==
            [i \in DOMAIN alternatives |->
                Append(product, IF Grows(Len(product)) THEN alternatives[i] ELSE Last(alternatives))]
    IN  FlattenSeq([p \in DOMAIN products |-> extended(products[p])])

GetCorrectQueryCandidates(allPossibleQueryTerms) ==
    FoldLeft(Extended, << <<>> >>, allPossibleQueryTerms)

\* A word that the corpus does not have makes the estimate of its query panic.
Estimable(queries) == \A query \in Range(queries) : \A word \in Range(query) : ~Unseen(word)

\* (A mutated form: the last candidate is taken.)
LastCandidate(queries) == {Last(queries)}

\* The first query with the highest probability.
MostProbable(queries) ==
    LET first(e) == {i \in DOMAIN queries : /\ \A j \in DOMAIN queries : e[j] <= e[i]
                                           /\ \A j \in 1..(i - 1) : e[j] < e[i]}
    IN  {queries[i] : i \in first(EstimateQueriesProbabilities(queries))}

\* The three most probable queries.  sort.Slice is stable up to twelve elements.
GetMatchedWordsAutocomplete(queries) ==
    LET number == IF Len(queries) < 3 THEN Len(queries) ELSE 3
        before(e, i, j) == e[i] > e[j] \/ (e[i] = e[j] /\ i < j /\ Len(queries) <= 12)
        best(e) == {p \in [1..number -> DOMAIN queries] :
                       /\ \A m, n \in 1..number : m < n => p[m] # p[n] /\ ~before(e, p[n], p[m])
                       /\ \A i \in DOMAIN queries \ Range(p) : \A n \in 1..number : ~before(e, i, p[n])}
    IN  {[n \in 1..number |-> queries[p[n]]] : p \in best(EstimateQueriesProbabilities(queries))}

----------------------------------------------------------------------------
(* Boolean queries *)

Precedence ==
    [op \in Operators |-> CASE op = "NOT" -> 3 [] op = "AND" -> 2 [] op = "OR" -> 1 [] OTHER -> 0]

\* How many entries at the top of the stack satisfy P, down to the first that does not.
TopRun(P(_), stack) ==
    CHOOSE n \in 0..Len(stack) :
        /\ \A i \in (Len(stack) - n + 1)..Len(stack) : P(stack[i])
        /\ n < Len(stack) => ~P(stack[Len(stack) - n])

PopTo(s, n, extra) ==
    [output |-> s.output \o Reverse(SubSeq(s.stack, Len(s.stack) - n + 1, Len(s.stack))),
     stack |-> SubSeq(s.stack, 1, Len(s.stack) - n - extra)]

Shunted(s, token) ==
    LET push(to) == [to EXCEPT !.stack = Append(@, token)]
    IN  CASE token = "(" -> push(s)
          [] token = ")" -> PopTo(s, TopRun(LAMBDA op : op # "(", s.stack), 1)
          [] token \in Operators \ {"(", ")"} ->
                 push(PopTo(s, TopRun(LAMBDA op : Precedence[token] < Precedence[op], s.stack), 0))
          [] OTHER -> [s EXCEPT !.output = Append(@, token)]

shuntingYardRPN(tokens) ==
    LET end(s) == s.output \o Reverse(s.stack)
    IN  end(FoldLeft(Shunted, [output |-> <<>>, stack |-> <<>>], tokens))

Conjunction(words) ==
    FlattenSeq([i \in DOMAIN words |-> IF i = Len(words) THEN <<words[i]>> ELSE <<words[i], "AND">>])

\* One turn of the loop of the intersection, if it has not ended.
Merged(a, b, s) ==
    IF s.i > Len(a) \/ s.j > Len(b) THEN s
    ELSE IF a[s.i] < b[s.j] THEN [s EXCEPT !.i = @ + 1]
    ELSE IF b[s.j] < a[s.i] THEN [s EXCEPT !.j = @ + 1]
    ELSE [i |-> s.i + 1, j |-> s.j + 1, result |-> Append(s.result, a[s.i])]

PostingListIntersection2(a, b) ==
    FoldLeft(LAMBDA s, any : Merged(a, b, s), [i |-> 1, j |-> 1, result |-> <<>>], a \o b).result

\* OR and NOT are consumed without effect.  postings[i] was read for the i-th word.
Processed(postings, s, token) ==
    LET pop2(stack) == SubSeq(stack, 1, Len(stack) - 2)
    IN  CASE token = "AND" ->
                 [s EXCEPT !.stack = Append(pop2(@), PostingListIntersection2(@[Len(@) - 1], @[Len(@)]))]
          [] token \in {"OR", "NOT"} -> s
          [] OTHER -> [stack |-> Append(s.stack, postings[s.read + 1]), read |-> s.read + 1]

\* (A mutated form: AND is consumed without effect too.)
processQueryLoosely(rpn, postings) == Last(postings)

processQuery(rpn, postings) ==
    Last(FoldLeft(LAMBDA s, token : Processed(postings, s, token), [stack |-> <<>>, read |-> 0], rpn).stack)

----------------------------------------------------------------------------
(* Scores, in thousandths *)

CountIn(list, d) == Cardinality({i \in DOMAIN list : list[i] = d})

\* weightTD / (K1_BM25F + weightTD), with the length normalisation by NAME_B that both
\* fields get.
Saturation(boost, field, d, tf) ==
    LET of(weight, average) ==
            (1000 * weight)
                \div (10 * (5 * average.sum + 95 * LenFieldInDoc(field, d) * average.count) + weight)
        with(average) == of(100 * boost * tf * average.sum, average)
    IN  IF tf = 0 THEN 0 ELSE with(AverageFieldLength[field])

\* Negative for a term in more than half of the documents.
Idf(df) == Log[2 * (Len(Docs) - df) + 1] - Log[2 * df + 1]

SumOver(S, f(_)) == FoldLeft(LAMBDA sum, x : sum + f(x), 0, SetToSeq(S))

SumAlong(s, f(_)) == FoldLeft(LAMBDA sum, x : sum + f(x), 0, s)

\* names[t] and addresses[t]: the postings of each term of the query.
FoundFor(t, names, addresses) == Range(names[t]) \cup Range(addresses[t])

BM25Field(queryTerms, names, addresses, d) ==
    SumAlong(queryTerms, LAMBDA t :
        Idf(Cardinality(FoundFor(t, names, addresses)))
            * (Saturation(20, "name", d, CountIn(names[t], d))
                   + Saturation(1, "address", d, CountIn(addresses[t], d))))

\* The IDs that are found, with their scores.
scoreBM25Field(queryTerms, names, addresses) ==
    {[id |-> d, score |-> BM25Field(queryTerms, names, addresses, d)] :
        d \in UNION {FoundFor(t, names, addresses) : t \in Range(queryTerms)}}

\* A document counts as often as it is in the intersection.
BM25FAutocomplete(names, intersected, d) ==
    CountIn(intersected, d) * SumOver(DOMAIN names, LAMBDA t :
        Idf(Cardinality(Range(names[t]))) * Saturation(20, "name", d, CountIn(names[t], d)))

scoreBM25FAutocomplete(names, intersected) ==
    {[id |-> d, score |-> BM25FAutocomplete(names, intersected, d)] : d \in Range(intersected)}

\* Documents are collected from a map: those of equal score come in any order.
Rankings(scored) ==
    LET descending(r) == \A i, j \in DOMAIN r : i < j => r[j].score <= r[i].score
        all(docs) == {r \in SetToSeqs(docs) : descending(r)}
    IN  {[i \in DOMAIN r |-> r[i].id] : r \in UNION {all(docs) : docs \in {scored}}}

\* The documents at offset, offset + 1, ... offset + k - 1.
Page(ids, k, offset) ==
    SubSeq(ids, offset + 1, IF offset + k < Len(ids) THEN offset + k ELSE Len(ids))

----------------------------------------------------------------------------
(* Handlers *)

\* "required" rejects a latitude or longitude of zero, and top_k must be 1 to 100.
ValidPosition(p) == p.lat # 0 /\ p.lon # 0

Answer(c, answer) ==
    /\ reply' = [reply EXCEPT ![c] = answer]
    /\ call' = [call EXCEPT ![c] = Idle]

Panic(c) == Answer(c, [code |-> 500, req |-> call[c].req])

Receive(c, req, valid, at) ==
    /\ call[c] = Idle
    /\ requests < MaxRequests
    /\ requests' = requests + 1
    /\ IF valid
       THEN /\ call' = [call EXCEPT ![c] = [at |-> at, req |-> req]]
            /\ reply' = [reply EXCEPT ![c] = Unanswered]
       ELSE Answer(c, [code |-> 400])
    /\ UNCHANGED <<termIDs, features, position>>

ValidSearch(req) == req.text /\ req.k \in 1..100 /\ ValidPosition(req.at)

search(c, req) == req.op = "search" /\ Receive(c, req, ValidSearch(req), "correct")

autocomplete(c, req) == req.op = "autocomplete" /\ Receive(c, req, ValidSearch(req), "complete")

reverseGeocoding(c, req) == req.op = "reverse" /\ Receive(c, req, ValidPosition(req.at), "nearest")

nearbyPlaces(c, req) ==
    req.op = "places" /\ Receive(c, req, ValidPosition(req.at) /\ req.k \in 1..100, "nearby")

----------------------------------------------------------------------------
(* Searcher *)

Step(c, at) == call[c].at = at

\* reads: the posting lists still to be read, got: those that have been, torn: whether
\* another request moved the position of one of them.
\* FreeFormQuery up to its loop over the corrected terms.
Alternatives(words) ==
    [i \in DOMAIN words |-> IF IsInVocabulary(words[i]) THEN <<words[i]>> ELSE GetWordCandidates(words[i])]

ReadsOfTerms(terms) ==
    FlattenSeq([i \in DOMAIN terms |-> << <<"name", terms[i]>>, <<"address", terms[i]>> >>])

FreeFormQuery(c) ==
    /\ Step(c, "correct")
    /\ \E candidates \in {GetCorrectQueryCandidates(Alternatives(call[c].req.words))} :
          \/ (candidates = <<>> \/ ~Estimable(candidates)) /\ Panic(c)
          \/ /\ candidates # <<>> /\ Estimable(candidates)
             /\ \E terms \in MostProbable(candidates) :
                    call' = [call EXCEPT ![c] = [at |-> "read", req |-> @.req, torn |-> FALSE, got |-> <<>>,
                                                 terms |-> terms, reads |-> ReadsOfTerms(terms)]]
             /\ UNCHANGED reply
    /\ UNCHANGED <<termIDs, features, position, requests>>

\* A matched query is read twice, for its scores and for its conjunction.
ReadsOf(query) == [i \in DOMAIN query |-> <<"name", query[i]>>]

Completed(words) ==
    [i \in DOMAIN words |-> IF i < Len(words) THEN <<words[i]>> ELSE Completions[words[i]]]

\* Every word of the query gets an ID; only the last one is completed, and an error
\* is returned if nothing completes it.
Autocomplete(c) ==
    LET words == call[c].req.words
    IN  /\ Step(c, "complete")
        /\ termIDs' = GetIDs(termIDs, words)
        /\ \E candidates \in {GetCorrectQueryCandidates(Completed(words))} :
              \/ (words = <<>> \/ candidates = <<>> \/ ~Estimable(candidates)) /\ Panic(c)
              \/ /\ words # <<>> /\ candidates # <<>> /\ Estimable(candidates)
                 /\ \E queries \in GetMatchedWordsAutocomplete(candidates) :
                        call' = [call EXCEPT ![c] =
                                    [at |-> "read", req |-> @.req, torn |-> FALSE, got |-> <<>>,
                                     queries |-> queries, found |-> <<>>,
                                     reads |-> ReadsOf(Head(queries)) \o ReadsOf(Head(queries))]]
                 /\ UNCHANGED reply
        /\ UNCHANGED <<features, position, requests>>

\* GetPostingList of a term without postings does not touch the file.
SkipRead(c) ==
    /\ Step(c, "read")
    /\ call[c].reads # <<>>
    /\ ~HasPostings(Head(call[c].reads)[1], Head(call[c].reads)[2])
    /\ call' = [call EXCEPT ![c].reads = Tail(@), ![c].got = Append(@, <<>>)]
    /\ UNCHANGED <<termIDs, features, position, reply, requests>>

Seek(c) ==
    /\ Step(c, "read")
    /\ call[c].reads # <<>>
    /\ LET next == Head(call[c].reads)
       IN  /\ HasPostings(next[1], next[2])
           /\ position' = [position EXCEPT ![next[1]] = MetadataOf(next[1], next[2]).start]
    /\ call' = [call EXCEPT ![c].at = "readfile"]
    /\ UNCHANGED <<termIDs, features, reply, requests>>

\* (Mutated forms: the position moves by what was asked for; a read up to the end of
\* the file is an error.)
ReadUnclipped(c) ==
    /\ Step(c, "readfile")
    /\ LET next == Head(call[c].reads)
       IN  position' = [position EXCEPT ![next[1]] = @ + MetadataOf(next[1], next[2]).length]
    /\ Answer(c, [code |-> 400])
    /\ UNCHANGED <<termIDs, features, requests>>
ReadToEndFails(c) ==
    LET next == Head(call[c].reads)
        from == position[next[1]]
        n == MetadataOf(next[1], next[2]).length
    IN  /\ Step(c, "readfile")
        /\ IF from + n >= Len(IndexFile[next[1]])
           THEN Answer(c, [code |-> 500, req |-> call[c].req,
                           torn |-> from # MetadataOf(next[1], next[2]).start])
           ELSE call' = [call EXCEPT ![c].at = "read", ![c].reads = Tail(@),
                                     ![c].got = Append(@, DecodePostingsList(BytesAt(next[1], from, n)))] /\ UNCHANGED reply
        /\ UNCHANGED <<termIDs, features, position, requests>>

\* A read at the end of the file is an error.
Read(c) ==
    LET next == Head(call[c].reads)
        field == next[1]
        from == position[field]
        n == MetadataOf(field, next[2]).length
        upTo == IF from + n < Len(IndexFile[field]) THEN from + n ELSE Len(IndexFile[field])
    IN  /\ Step(c, "readfile")
        /\ position' = [position EXCEPT ![field] = upTo]
        /\ IF from = Len(IndexFile[field])
           THEN Answer(c, [code |-> 500, req |-> call[c].req,
                          torn |-> from # MetadataOf(field, next[2]).start])
           ELSE /\ call' = [call EXCEPT ![c].at = "read", ![c].reads = Tail(@),
                                        ![c].got = Append(@, DecodePostingsList(BytesAt(field, from, n))),
                                        ![c].torn = @ \/ from # MetadataOf(field, next[2]).start]
                /\ UNCHANGED reply
        /\ UNCHANGED <<termIDs, features, requests>>

\* The documents of the page are looked up: an ID that no document has, from a torn
\* read, is an error.
Answered(c, ids) ==
    LET docs == Page(ids, call[c].req.k, call[c].req.offset)
    IN  Answer(c, IF Range(docs) \subseteq DocIDs
                  THEN [code |-> 200, req |-> call[c].req, torn |-> call[c].torn, docs |-> docs]
                  ELSE [code |-> 500, req |-> call[c].req, torn |-> call[c].torn])

\* The posting lists of the maps by term: a repeated term has its last list.
LastRead(terms, got, start, stride) ==
    [t \in Range(terms) |->
        got[start + stride * (CHOOSE i \in DOMAIN terms :
                                terms[i] = t /\ \A j \in DOMAIN terms : terms[j] = t => j <= i)]]

ScoreDocs(c) ==
    LET terms == call[c].terms
        got == call[c].got
    IN  /\ Step(c, "read") /\ call[c].req.op = "search" /\ call[c].reads = <<>>
        /\ \E ids \in Rankings(scoreBM25Field(terms, LastRead(terms, got, -1, 2),
                                              LastRead(terms, got, 0, 2))) :
              Answered(c, ids)
        /\ UNCHANGED <<termIDs, features, position, requests>>

\* One matched query of Autocomplete: its documents follow those of the queries before.
ScoreMatched(c) ==
    LET query == Head(call[c].queries)
        n == Len(query)
        intersected == processQuery(shuntingYardRPN(Conjunction(query)),
                                    SubSeq(call[c].got, n + 1, 2 * n))
    IN  /\ Step(c, "read") /\ call[c].req.op = "autocomplete" /\ call[c].reads = <<>>
        /\ \E ids \in Rankings(scoreBM25FAutocomplete(LastRead(query, call[c].got, 0, 1), intersected)) :
              LET found == call[c].found \o ids
                  rest == Tail(call[c].queries)
              IN  IF rest = <<>> THEN Answered(c, found)
                  ELSE /\ call' = [call EXCEPT ![c].queries = rest, ![c].found = found, ![c].got = <<>>,
                                               ![c].reads = ReadsOf(Head(rest)) \o ReadsOf(Head(rest))]
                       /\ UNCHANGED reply
        /\ UNCHANGED <<termIDs, features, position, requests>>

\* The nearest document of the R-tree.
ReverseGeocoding(c) ==
    /\ Step(c, "nearest")
    /\ Answer(c, [code |-> 200, req |-> call[c].req, docs |-> <<Head(Around).id>>])
    /\ UNCHANGED <<termIDs, features, position, requests>>

\* A feature nobody has gets an ID, and no document.
NearestNeighboursRadiusWithFeatureFilter(c) ==
    LET req == call[c].req
        near == FlattenSeq([i \in DOMAIN Around |->
                               IF req.feature \in Around[i].tags THEN <<Around[i].id>> ELSE <<>>])
        from == IF Len(near) > req.offset THEN SubSeq(near, req.offset + 1, Len(near)) ELSE near
    IN  /\ Step(c, "nearby")
        /\ features' = GetID(features, req.feature)
        /\ Answer(c, [code |-> 200, req |-> req,
                      docs |-> Page(from, req.k, 0)])
        /\ UNCHANGED <<termIDs, position, requests>>

Handle(c) ==
    \/ FreeFormQuery(c) \/ Autocomplete(c)
    \/ SkipRead(c) \/ Seek(c) \/ Read(c) \/ ScoreDocs(c) \/ ScoreMatched(c)
    \/ ReverseGeocoding(c) \/ NearestNeighboursRadiusWithFeatureFilter(c)

Next ==
    \E c \in Clients :
        \/ \E req \in Requests[c] : \/ search(c, req) \/ autocomplete(c, req)
                                    \/ reverseGeocoding(c, req) \/ nearbyPlaces(c, req)
        \/ Handle(c)

Spec == Init /\ [][Next]_vars

----------------------------------------------------------------------------
(* Properties *)

\* Positions lie in their files, and nobody reads, or looks for, more than there is.
TypeOK ==
    /\ \A field \in Fields : position[field] \in 0..Len(IndexFile[field])
    /\ \A c \in Clients :
          /\ reply[c].code \in {0, 200, 400, 500}
          /\ call[c] # Idle => call[c].req \in Requests[c]
          /\ Step(c, "readfile") => Head(call[c].reads)[1] \in Fields
          /\ "docs" \in DOMAIN reply[c] => Range(reply[c].docs) \subseteq DocIDs
    /\ requests \in 0..MaxRequests

\* The IDs stay a bijection that extends the one the indexes were built with, though
\* queries of unknown words and features add to it: an ID in an index file never
\* comes to mean another word (GetID, Autocomplete, searcher.go:690).
IDsKept ==
    /\ IsInjective(termIDs) /\ IsPrefix(Terms, termIDs)
    /\ IsInjective(features) /\ IsPrefix(TagIDs, features)

Done(c, op) == reply[c].code = 200 /\ reply[c].req.op = op

\* The alternatives of a word, as what they are for.
Meant(word) == IF word \in Range(Terms) THEN {word} ELSE Range(GetWordCandidates(word))

\* The queries a user can have meant, and the most probable of them.
MeantQueries(words) ==
    {q \in [DOMAIN words -> UNION {Meant(word) : word \in Range(words)}] :
        \A i \in DOMAIN words : q[i] \in Meant(words[i])}

Best(words) ==
    LET estimates(queries) == [q \in queries |-> EstimateQueriesProbabilities(<<q>>)[1]]
        highest(e) == {q \in DOMAIN e : \A other \in DOMAIN e : e[other] <= e[q]}
    IN  highest(estimates(MeantQueries(words)))

RelevanceOf(query) ==
    scoreBM25Field(query, [t \in Range(query) |-> PostingList("name", t)],
                   [t \in Range(query) |-> PostingList("address", t)])

\* What can be looked up: every word can be meant as something, and the corpus has it.
Answerable(words) == \A word \in Range(words) : Meant(word) # {} /\ \A w \in Meant(word) : ~Unseen(w)

\* The searches of up to three words, each with an answer it should have.
CorrectAnswers ==
    UNION {{<<req, Page(ranking, req.k, req.offset)>> :
              ranking \in UNION {Rankings(RelevanceOf(query)) : query \in Best(req.words)}} :
           req \in {r \in UNION Range(Requests) :
                      r.op = "search" /\ Len(r.words) <= 3 /\ Answerable(r.words)}}

\* A search of up to three words answers with the page asked for of the documents that
\* have a word of the query the user most probably meant, best first; unless another
\* request moved the position of an index file between its seek and its read
\* (FreeFormQuery, GetPostingList).
SearchExact ==
    \A c \in Clients :
        Done(c, "search") /\ ~reply[c].torn /\ Len(reply[c].req.words) <= 3 =>
            <<reply[c].req, reply[c].docs>> \in CorrectAnswers

\* With four words the candidates end in the last alternative of the fourth; still every
\* document found has a word that the user can have meant by one of the query.
SearchSound ==
    \A c \in Clients :
        Done(c, "search") /\ ~reply[c].torn =>
            \A d \in Range(reply[c].docs) : \E word \in Range(reply[c].req.words) :
                Meant(word) \cap Range(TextOf(d)) # {}

\* An autocompletion finds documents whose name has all words of the query, the last
\* one completed, and all of them if there is room for them, no more than three completions
\* and no fourth word, with which the candidates end in the same completion (Autocomplete, shuntingYardRPN, processQuery, PostingListIntersection2).
CompletionExact ==
    \A c \in Clients :
        Done(c, "autocomplete") /\ ~reply[c].torn =>
            LET req == reply[c].req
                matches == {d \in DocIDs : /\ Range(Front(req.words)) \subseteq Range(FieldOf(d, "name"))
                                           /\ Range(Completions[Last(req.words)])
                                                \cap Range(FieldOf(d, "name")) # {}}
            IN  /\ Range(reply[c].docs) \subseteq matches
                /\ /\ Len(req.words) <= 3 /\ Len(Completions[Last(req.words)]) <= 3
                   /\ req.offset = 0 /\ Len(reply[c].docs) < req.k
                   => Range(reply[c].docs) = matches

\* A 500 has a reason in the request itself, or a read that another request disturbed:
\* no word that could be meant, a word to complete that nothing completes, no word at
\* all, or a word before the last that no document has.
ServerErrorsExplained ==
    \A c \in Clients :
        reply[c].code = 500 =>
            LET words == reply[c].req.words
            IN  \/ "torn" \in DOMAIN reply[c] /\ reply[c].torn
                \/ reply[c].req.op = "search" /\ ~Answerable(words)
                \/ /\ reply[c].req.op = "autocomplete"
                   /\ \/ words = <<>>
                      \/ Completions[Last(words)] = <<>>
                      \/ \E word \in Range(Front(words)) : Unseen(word)
                      \/ \E word \in Range(Completions[Last(words)]) : Unseen(word)

=============================================================================
