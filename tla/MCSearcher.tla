----------------------------- MODULE MCSearcher -----------------------------
(* Instances of Searcher. *)
EXTENDS Searcher

CONSTANTS c1, c2

\* 1000 times the natural logarithms of 1, 2, ...
MCLog == <<0, 693, 1099, 1386, 1609, 1792, 1946, 2079, 2197, 2303, 2398, 2485, 2565, 2639, 2708, 2773, 2833, 2890, 2944, 2996,
           3045, 3091, 3135, 3178, 3219, 3258, 3296, 3332, 3367, 3401, 3434, 3466, 3497, 3526, 3555, 3584, 3611, 3638, 3664, 3689>>

Doc(name, address) == [name |-> name, address |-> address]
MCDocs == <<Doc(<<"jalan", "monas">>, <<"jakarta">>), Doc(<<"monas">>, <<"jalan", "jakarta">>),
            Doc(<<"jakarta", "jaya", "jaya">>, <<>>), Doc(<<"toko">>, <<"jalan">>)>>
MCCorpus == [i \in DOMAIN MCDocs |-> MCDocs[i].name \o MCDocs[i].address]
MCTerms == <<"jalan", "monas", "jakarta", "jaya", "toko", "<UNK>", "<s>", "</s>">>
MCNGramData == [counts |-> MakeCountMatrix, TotalWordFreq |-> Cardinality(Places(1))]
MCIndexFile == [field \in Fields |-> FirstLists(field, Len(Terms))]
MCPostingMetadata ==
    [field \in Fields |->
        [t \in {t \in DOMAIN Terms : PostingList(field, Terms[t]) # <<>>} |->
            [start |-> Len(FirstLists(field, t - 1)), length |-> Len(EncodePostingsList(PostingList(field, Terms[t])))]]]
MCTagIDs == <<"amenity=cafe", "tourism=museum">>

MCMisspellings == [jaln |-> [one |-> <<"jalan">>, two |-> <<"jalan", "jaya">>],
                   xyz |-> [one |-> <<>>, two |-> <<>>],
                   s |-> [one |-> <<>>, two |-> <<"<s>">>]]
MCCompletions == [ja |-> <<"jakarta", "jalan", "jaya">>, mon |-> <<"monas">>, qq |-> <<>>]

Obj(id, tags) == [id |-> id, tags |-> tags]
MCAround == <<Obj(2, {"amenity=cafe"}), Obj(0, {"tourism=museum"}), Obj(3, {"amenity=cafe"})>>

Here == [lat |-> 6, lon |-> 9]
OnEquator == [lat |-> 0, lon |-> 9]
Query(op, words, k, offset) ==
    [op |-> op, words |-> words, text |-> TRUE, k |-> k, offset |-> offset, at |-> Here]
PlacesWith(feature, k, offset) ==
    [op |-> "places", feature |-> feature, k |-> k, offset |-> offset, at |-> Here]

\* The first client sends the long requests, the second the short ones.
MCRequests ==
    (c1 :> {Query("search", <<"monas", "toko", "jaya", "jaln">>, 4, 0),
            Query("search", <<"jaln", "monas">>, 2, 0),
            Query("autocomplete", <<"ja">>, 5, 0), Query("autocomplete", <<"qq">>, 2, 0),
            Query("autocomplete", <<"zz", "mon">>, 2, 0), Query("autocomplete", <<>>, 2, 0)}) @@
    (c2 :> {Query("search", <<"jakarta">>, 1, 1), Query("search", <<"toko">>, 3, 0),
            Query("search", <<"xyz">>, 1, 0), Query("search", <<"s">>, 3, 0),
            Query("search", <<"toko">>, 101, 0), Query("autocomplete", <<"jalan", "mon">>, 2, 0),
            Query("autocomplete", <<"mon">>, 0, 0),
            [op |-> "reverse", at |-> Here], [op |-> "reverse", at |-> OnEquator],
            PlacesWith("amenity=fuel", 1, 0), PlacesWith("amenity=fuel", 0, 0), PlacesWith("amenity=cafe", 1, 1)})
=============================================================================
