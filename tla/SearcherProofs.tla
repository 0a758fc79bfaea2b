--------------------------- MODULE SearcherProofs ---------------------------
(***************************************************************************)
(* Theorems about Searcher, for any documents, requests and interleaving.  *)
(*                                                                         *)
(* First what each algorithm computes: IDs, candidates, the code of the    *)
(* posting lists and their place in the index files, the intersection,     *)
(* the polish form and its evaluation, rankings and estimates.  Each loop  *)
(* is a fold of the model: it is replaced by the table of its              *)
(* intermediate results, about which induction is over a number.  Then     *)
(* the inductive invariant, which says of every request under way which    *)
(* lists it has read and still reads, what they are unless a read was      *)
(* torn, and what its matched queries have found; one lemma for each       *)
(* action; and the invariants of the runs.                                 *)
(***************************************************************************)
EXTENDS Searcher, DataLemmas

------------------------------------------------------------------------------
(* The maps of IDs. *)

\* An ID is given once, and those given before stay (GetID).
LEMMA IDGiven ==
  ASSUME NEW V, NEW ids \in Seq(V), NEW str \in V, IsInjective(ids)
  PROVE  LET new == GetID(ids, str)
         IN  /\ new \in Seq(V) /\ IsInjective(new)
             /\ Len(ids) <= Len(new) /\ \A i \in 1 .. Len(ids) : new[i] = ids[i]
<1>1. /\ Len(ids) \in Nat /\ DOMAIN ids = 1 .. Len(ids)
      /\ \A i \in DOMAIN ids : ids[i] \in V
  BY SeqParts
<1>2. CASE str \in Range(ids)
  BY <1>1, <1>2 DEF GetID
<1>3. CASE str \notin Range(ids)
  <2> DEFINE new == Append(ids, str)
  <2>1. GetID(ids, str) = new
    BY <1>3 DEF GetID
  <2>2. /\ new \in Seq(V) /\ Len(new) = Len(ids) + 1 /\ DOMAIN new = 1 .. Len(ids) + 1
        /\ \A i \in 1 .. Len(ids) : new[i] = ids[i]
        /\ new[Len(ids) + 1] = str
    BY <1>1
  <2> HIDE DEF new
  <2>3. ASSUME NEW i \in 1 .. Len(ids) PROVE new[i] # str
    <3>1. ids[i] \in Range(ids)
      BY <1>1 DEF Range
    <3> QED
      BY <1>3, <2>2, <3>1
  <2>4. ASSUME NEW i \in DOMAIN new, NEW j \in DOMAIN new, new[i] = new[j]
        PROVE  i = j
    <3>1. CASE i \in 1 .. Len(ids) /\ j \in 1 .. Len(ids)
      BY <1>1, <2>2, <2>4, <3>1 DEF IsInjective
    <3>2. CASE i \in 1 .. Len(ids) /\ j = Len(ids) + 1
      BY <2>2, <2>3, <2>4, <3>2
    <3>3. CASE i = Len(ids) + 1 /\ j \in 1 .. Len(ids)
      BY <2>2, <2>3, <2>4, <3>3
    <3>4. \A x \in DOMAIN new : x \in 1 .. Len(ids) \/ x = Len(ids) + 1
      BY <1>1, <2>2
    <3> QED
      BY <3>1, <3>2, <3>3, <3>4
  <2>5. IsInjective(new) /\ Len(ids) <= Len(new)
    BY <1>1, <2>2, <2>4 DEF IsInjective
  <2> QED
    BY <2>1, <2>2, <2>5
<1> QED
  BY <1>2, <1>3

\* The IDs extend others and are one to one.
Extends(ids, of) ==
  /\ IsInjective(ids)
  /\ Len(of) <= Len(ids) /\ \A i \in 1 .. Len(of) : ids[i] = of[i]

GetIDsByTable(ids, words, W, f) ==
  /\ f[0] = ids
  /\ \A i \in 1 .. Len(words) : f[i] = GetID(f[i - 1], words[i])
  /\ \A i \in 0 .. Len(words) : f[i] \in W
  /\ GetIDs(ids, words) = f[Len(words)]

\* The fold of GetIDs as a table with one entry for each word.
LEMMA GetIDsBy ==
  ASSUME NEW W, NEW words, Len(words) \in Nat, DOMAIN words = 1 .. Len(words), NEW ids, ids \in W,
         \A w \in W : \A i \in 1 .. Len(words) : GetID(w, words[i]) \in W
  PROVE  \E f : GetIDsByTable(ids, words, W, f)
<1> DEFINE n == Len(words)
           F == [p \in W \X (1 .. n) |-> GetID(p[1], words[p[2]])]
           Table(h) == h = [s \in SUBSET (1 .. n) |->
                              IF s = {} THEN ids ELSE GetID(h[s \ {Max(s)}], words[Max(s)])]
           h0 == CHOOSE h : Table(h)
<1>1. n \in Nat /\ DOMAIN words = 1 .. n
  OBVIOUS
<1>2. GetIDs(ids, words) = h0[1 .. n]
  BY <1>1 DEF GetIDs, FoldLeft, MapThenFoldSet
<1>3. PICK g : IsFold(F, ids, n, g) /\ \A s \in SUBSET (1 .. n) : g[s] \in W
  <2>1. \A w \in W : \A i \in 1 .. n : F[<<w, i>>] \in W
    OBVIOUS
  <2>2. n \in Nat
    BY <1>1
  <2> HIDE DEF n, F
  <2> QED
    BY <2>1, <2>2, FoldTyped
<1>4. Table(g)
  <2>1. ASSUME NEW s \in SUBSET (1 .. n), s # {}
        PROVE  F[<<g[s \ {Max(s)}], Max(s)>>] = GetID(g[s \ {Max(s)}], words[Max(s)])
    <3>1. n \in Nat
      BY <1>1
    <3> HIDE DEF n
    <3>2. Max(s) \in s /\ s \ {Max(s)} \in SUBSET (1 .. n)
      BY <2>1, <3>1, LastPlace
    <3>3. Max(s) \in 1 .. n /\ g[s \ {Max(s)}] \in W
      BY <1>3, <3>2
    <3> QED
      BY <3>3
  <2> HIDE DEF n, F
  <2>2. g = [s \in SUBSET (1 .. n) |-> IF s = {} THEN ids ELSE F[<<g[s \ {Max(s)}], Max(s)>>]]
    BY <1>3 DEF IsFold
  <2>3. \A s \in SUBSET (1 .. n) :
          (IF s = {} THEN ids ELSE F[<<g[s \ {Max(s)}], Max(s)>>])
            = (IF s = {} THEN ids ELSE GetID(g[s \ {Max(s)}], words[Max(s)]))
    BY <2>1
  <2> QED
    BY <2>2, <2>3
<1>5. Table(h0)
  <2> HIDE DEF Table
  <2> QED
    BY <1>4
<1> HIDE DEF h0
<1>6. \A s \in SUBSET (1 .. n) :
        h0[s] = IF s = {} THEN ids ELSE GetID(h0[s \ {Max(s)}], words[Max(s)])
  BY <1>5
<1> DEFINE f == [i \in 0 .. n |-> h0[1 .. i]]
<1>7. f[0] = ids /\ f[n] = h0[1 .. n]
  <2>1. 1 .. 0 = {} /\ 0 \in 0 .. n /\ n \in 0 .. n
    BY <1>1
  <2>2. f[0] = h0[1 .. 0] /\ f[n] = h0[1 .. n]
    BY <2>1
  <2> HIDE DEF n, f
  <2> QED
    BY <1>6, <2>1, <2>2
<1>8. ASSUME NEW i \in 1 .. n PROVE f[i] = GetID(f[i - 1], words[i])
  <2>1. f[i] = h0[1 .. i] /\ f[i - 1] = h0[1 .. i - 1]
    BY <1>1
  <2>2. n \in Nat
    BY <1>1
  <2> HIDE DEF n, f
  <2>3. /\ 1 .. i \in SUBSET (1 .. n) /\ 1 .. i # {} /\ (1 .. i) \ {i} = 1 .. i - 1
        /\ Max(1 .. i) = i
    BY <2>2, FirstPlaces
  <2> QED
    BY <1>6, <2>1, <2>3
<1>9. \A i \in 0 .. n : f[i] \in W
  <2> DEFINE T == {i \in Nat : i <= n => f[i] \in W}
  <2>0. n \in Nat /\ \A w \in W : \A i \in 1 .. n : GetID(w, words[i]) \in W
    BY <1>1
  <2> HIDE DEF n, f
  <2>1. 0 \in T
    BY <1>7
  <2>2. ASSUME NEW i \in Nat, i \in T PROVE i + 1 \in T
    <3>1. SUFFICES ASSUME i + 1 <= n PROVE f[i + 1] \in W
      OBVIOUS
    <3>2. i + 1 \in 1 .. n /\ (i + 1) - 1 = i /\ f[i] \in W
      BY <2>0, <2>2, <3>1
    <3>3. f[i + 1] = GetID(f[(i + 1) - 1], words[i + 1])
      BY <1>8, <3>2
    <3> QED
      BY <2>0, <3>2, <3>3
  <2>3. Nat \subseteq T
    <3> HIDE DEF T
    <3> QED
      BY <2>1, <2>2, NatInductive
  <2>4. \A i \in 0 .. n : i \in Nat /\ i <= n
    BY <2>0
  <2> QED
    BY <2>3, <2>4
<1> HIDE DEF f
<1> QED
  BY <1>2, <1>7, <1>8, <1>9 DEF GetIDsByTable

\* A query's words get IDs without disturbing those given before (Autocomplete,
\* searcher.go:690).
LEMMA IDsGiven ==
  ASSUME NEW V, NEW ids \in Seq(V), NEW words \in Seq(V), NEW of \in Seq(V), Extends(ids, of)
  PROVE  LET all == GetIDs(ids, words)
         IN  all \in Seq(V) /\ Extends(all, of)
<1> DEFINE n == Len(words)
           W == {s \in Seq(V) : Extends(s, of)}
<1>1. n \in Nat /\ \A i \in 1 .. n : words[i] \in V
  BY SeqParts
<1>d. Len(words) \in Nat /\ DOMAIN words = 1 .. Len(words)
  BY SeqParts
<1>2. ASSUME NEW w \in W, NEW i \in 1 .. n PROVE GetID(w, words[i]) \in W
  <2>1. w \in Seq(V) /\ Extends(w, of) /\ words[i] \in V
    BY <1>1
  <2>2. IsInjective(w)
    BY <2>1 DEF Extends
  <2> DEFINE new == GetID(w, words[i])
  <2>3. /\ new \in Seq(V) /\ IsInjective(new)
        /\ Len(w) <= Len(new) /\ \A j \in 1 .. Len(w) : new[j] = w[j]
    BY <2>1, <2>2, IDGiven
  <2>4. Len(of) \in Nat /\ Len(w) \in Nat /\ Len(new) \in Nat
    BY <2>1, <2>3, SeqParts
  <2> HIDE DEF new
  <2>5. Extends(new, of)
    BY <2>1, <2>3, <2>4 DEF Extends
  <2> QED
    BY <2>3, <2>5 DEF new
<1>3. ids \in W /\ \A w \in W : \A i \in 1 .. Len(words) : GetID(w, words[i]) \in W
  BY <1>2
<1>4. PICK f : GetIDsByTable(ids, words, W, f)
  <2> HIDE DEF W
  <2> QED
    BY <1>d, <1>3, GetIDsBy
<1>5. f[Len(words)] \in W
  <2>1. Len(words) \in 0 .. Len(words)
    BY <1>1
  <2> HIDE DEF W
  <2> QED
    BY <1>4, <2>1 DEF GetIDsByTable
<1>6. GetIDs(ids, words) = f[Len(words)]
  BY <1>4 DEF GetIDsByTable
<1> QED
  BY <1>5, <1>6

\* Extends is what IDsKept asks for, element by element.
LEMMA ExtendsIsPrefix ==
  ASSUME NEW V, NEW ids \in Seq(V), NEW of \in Seq(V)
  PROVE  Extends(ids, of) <=> IsInjective(ids) /\ IsPrefix(of, ids)
<1>1. Len(of) \in Nat /\ Len(ids) \in Nat /\ DOMAIN of = 1 .. Len(of)
  BY SeqParts
<1>2. SubSeq(of, 1, Len(of)) = [i \in 1 .. Len(of) |-> of[i]]
  BY <1>1
<1>3. Len(of) <= Len(ids) => SubSeq(ids, 1, Len(of)) = [i \in 1 .. Len(of) |-> ids[i]]
  BY <1>1
<1> QED
  BY <1>2, <1>3 DEF Extends, IsPrefix

\* The maps of IDs extend those loaded, one to one.
Maps ==
  /\ termIDs \in Seq(STRING) /\ Extends(termIDs, Terms)
  /\ features \in Seq(STRING) /\ Extends(features, TagIDs)

------------------------------------------------------------------------------
(* The candidates of a query. *)

\* Every extended product is a product with an alternative, shared arrays or not.
LEMMA ExtendedIs ==
  ASSUME NEW V, NEW products \in Seq(Seq(V)), NEW alternatives \in Seq(V)
  PROVE  /\ Extended(products, alternatives) \in Seq(Seq(V))
         /\ \A x \in Range(Extended(products, alternatives)) :
               \E p \in Range(products) : \E a \in Range(alternatives) : x = Append(p, a)
         /\ products # <<>> /\ alternatives # <<>> => Extended(products, alternatives) # <<>>
<1> DEFINE n == Len(products)
           m == Len(alternatives)
           one(product) == [i \in DOMAIN alternatives |->
                              Append(product, IF Grows(Len(product)) THEN alternatives[i]
                                                                     ELSE Last(alternatives))]
           all == [p \in DOMAIN products |-> one(products[p])]
<1>1. /\ n \in Nat /\ DOMAIN products = 1 .. n /\ \A p \in 1 .. n : products[p] \in Seq(V)
      /\ m \in Nat /\ DOMAIN alternatives = 1 .. m /\ \A i \in 1 .. m : alternatives[i] \in V
  BY SeqParts
<1>2. ASSUME NEW product \in Seq(V)
      PROVE  /\ one(product) \in Seq(Seq(V)) /\ Len(one(product)) = m
             /\ \A x \in Range(one(product)) : \E a \in Range(alternatives) : x = Append(product, a)
  <2>1. ASSUME NEW i \in 1 .. m
        PROVE  \E a \in Range(alternatives) : one(product)[i] = Append(product, a)
    <3>1. alternatives[i] \in Range(alternatives)
      BY <1>1 DEF Range
    <3>2. Last(alternatives) \in Range(alternatives)
      <4>1. m \in 1 .. m
        BY <1>1
      <4> QED
        BY <1>1, <4>1 DEF Range, Last
    <3>3. one(product)[i] = Append(product, IF Grows(Len(product)) THEN alternatives[i]
                                                                  ELSE Last(alternatives))
      BY <1>1
    <3> HIDE DEF one
    <3> QED
      BY <3>1, <3>2, <3>3
  <2>2. \A a \in Range(alternatives) : Append(product, a) \in Seq(V)
    <3>1. Range(alternatives) \subseteq V
      BY SeqParts
    <3> QED
      BY <3>1
  <2>3. one(product) = [i \in 1 .. m |-> one(product)[i]]
    BY <1>1
  <2> HIDE DEF one
  <2>4. one(product) \in Seq(Seq(V)) /\ Len(one(product)) = m /\ DOMAIN one(product) = 1 .. m
    <3>1. \A i \in 1 .. m : one(product)[i] \in Seq(V)
      BY <2>1, <2>2
    <3>2. m \in Nat
      BY <1>1
    <3> HIDE DEF m
    <3> QED
      BY <2>3, <3>1, <3>2, IsSeq
  <2>5. \A x \in Range(one(product)) : \E a \in Range(alternatives) : x = Append(product, a)
    BY <2>1, <2>4 DEF Range
  <2> QED
    BY <2>4, <2>5
<1>3. Extended(products, alternatives) = FlattenSeq(all)
  BY DEF Extended
<1>4. DOMAIN all = 1 .. n /\ \A p \in 1 .. n : all[p] = one(products[p])
  BY <1>1
<1>5. all \in Seq(Seq(Seq(V))) /\ Len(all) = n
  <2>1. all = [p \in 1 .. n |-> all[p]]
    BY <1>1
  <2>2. \A p \in 1 .. n : all[p] \in Seq(Seq(V))
    <3> HIDE DEF one, all
    <3> QED
      BY <1>1, <1>2, <1>4
  <2>3. n \in Nat
    BY <1>1
  <2> HIDE DEF all, n, one
  <2> QED
    BY <2>1, <2>2, <2>3, IsSeq
<1> HIDE DEF all, one
<1>6. /\ FlattenSeq(all) \in Seq(Seq(V))
      /\ \A x \in Range(FlattenSeq(all)) : \E j \in DOMAIN all : x \in Range(all[j])
      /\ \A j \in DOMAIN all : /\ Range(all[j]) \subseteq Range(FlattenSeq(all))
                               /\ Len(all[j]) <= Len(FlattenSeq(all))
  BY <1>5, FlattenRange
<1>7. ASSUME NEW x \in Range(FlattenSeq(all))
      PROVE  \E p \in Range(products) : \E a \in Range(alternatives) : x = Append(p, a)
  <2>1. PICK j \in 1 .. n : x \in Range(all[j])
    BY <1>4, <1>6
  <2>2. products[j] \in Range(products) /\ products[j] \in Seq(V) /\ all[j] = one(products[j])
    BY <1>1, <1>4 DEF Range
  <2> QED
    BY <1>2, <2>1, <2>2
<1>8. ASSUME products # <<>>, alternatives # <<>>
      PROVE  FlattenSeq(all) # <<>>
  <2>1. n # 0 /\ m # 0
    BY <1>1, <1>8
  <2>2. 1 \in 1 .. n /\ m > 0
    BY <1>1, <2>1
  <2>3. Len(all[1]) = m /\ m <= Len(FlattenSeq(all))
    BY <1>1, <1>2, <1>4, <1>6, <2>2
  <2>4. Len(<<>>) = 0
    OBVIOUS
  <2> HIDE DEF m
  <2> QED
    BY <1>1, <2>2, <2>3, <2>4
<1> QED
  BY <1>3, <1>6, <1>7, <1>8

CandidatesByTable(all, W, f) ==
  /\ f[0] = <<<<>>>>
  /\ \A i \in 1 .. Len(all) : f[i] = Extended(f[i - 1], all[i])
  /\ \A i \in 0 .. Len(all) : f[i] \in W
  /\ GetCorrectQueryCandidates(all) = f[Len(all)]

\* The fold of GetCorrectQueryCandidates as a table with one entry for each word.
LEMMA CandidatesBy ==
  ASSUME NEW W, NEW all, Len(all) \in Nat, DOMAIN all = 1 .. Len(all), <<<<>>>> \in W,
         \A w \in W : \A i \in 1 .. Len(all) : Extended(w, all[i]) \in W
  PROVE  \E f : CandidatesByTable(all, W, f)
<1> DEFINE n == Len(all)
           F == [p \in W \X (1 .. n) |-> Extended(p[1], all[p[2]])]
           Table(h) == h = [s \in SUBSET (1 .. n) |->
                              IF s = {} THEN <<<<>>>> ELSE Extended(h[s \ {Max(s)}], all[Max(s)])]
           h0 == CHOOSE h : Table(h)
<1>1. n \in Nat /\ DOMAIN all = 1 .. n
  OBVIOUS
<1>2. GetCorrectQueryCandidates(all) = h0[1 .. n]
  BY <1>1 DEF GetCorrectQueryCandidates, FoldLeft, MapThenFoldSet
<1>3. PICK g : IsFold(F, <<<<>>>>, n, g) /\ \A s \in SUBSET (1 .. n) : g[s] \in W
  <2>1. \A w \in W : \A i \in 1 .. n : F[<<w, i>>] \in W
    OBVIOUS
  <2>2. n \in Nat
    BY <1>1
  <2> HIDE DEF n, F
  <2> QED
    BY <2>1, <2>2, FoldTyped
<1>4. Table(g)
  <2>1. ASSUME NEW s \in SUBSET (1 .. n), s # {}
        PROVE  F[<<g[s \ {Max(s)}], Max(s)>>] = Extended(g[s \ {Max(s)}], all[Max(s)])
    <3>1. n \in Nat
      BY <1>1
    <3> HIDE DEF n
    <3>2. Max(s) \in s /\ s \ {Max(s)} \in SUBSET (1 .. n)
      BY <2>1, <3>1, LastPlace
    <3>3. Max(s) \in 1 .. n /\ g[s \ {Max(s)}] \in W
      BY <1>3, <3>2
    <3> QED
      BY <3>3
  <2> HIDE DEF n, F
  <2>2. g = [s \in SUBSET (1 .. n) |-> IF s = {} THEN <<<<>>>> ELSE F[<<g[s \ {Max(s)}], Max(s)>>]]
    BY <1>3 DEF IsFold
  <2>3. \A s \in SUBSET (1 .. n) :
          (IF s = {} THEN <<<<>>>> ELSE F[<<g[s \ {Max(s)}], Max(s)>>])
            = (IF s = {} THEN <<<<>>>> ELSE Extended(g[s \ {Max(s)}], all[Max(s)]))
    BY <2>1
  <2> QED
    BY <2>2, <2>3
<1>5. Table(h0)
  <2> HIDE DEF Table
  <2> QED
    BY <1>4
<1> HIDE DEF h0
<1>6. \A s \in SUBSET (1 .. n) :
        h0[s] = IF s = {} THEN <<<<>>>> ELSE Extended(h0[s \ {Max(s)}], all[Max(s)])
  BY <1>5
<1> DEFINE f == [i \in 0 .. n |-> h0[1 .. i]]
<1>7. f[0] = <<<<>>>> /\ f[n] = h0[1 .. n]
  <2>1. 1 .. 0 = {} /\ 0 \in 0 .. n /\ n \in 0 .. n
    BY <1>1
  <2>2. f[0] = h0[1 .. 0] /\ f[n] = h0[1 .. n]
    BY <2>1
  <2> HIDE DEF n, f
  <2> QED
    BY <1>6, <2>1, <2>2
<1>8. ASSUME NEW i \in 1 .. n PROVE f[i] = Extended(f[i - 1], all[i])
  <2>1. f[i] = h0[1 .. i] /\ f[i - 1] = h0[1 .. i - 1]
    BY <1>1
  <2>2. n \in Nat
    BY <1>1
  <2> HIDE DEF n, f
  <2>3. /\ 1 .. i \in SUBSET (1 .. n) /\ 1 .. i # {} /\ (1 .. i) \ {i} = 1 .. i - 1
        /\ Max(1 .. i) = i
    BY <2>2, FirstPlaces
  <2> QED
    BY <1>6, <2>1, <2>3
<1>9. \A i \in 0 .. n : f[i] \in W
  <2> DEFINE T == {i \in Nat : i <= n => f[i] \in W}
  <2>0. n \in Nat /\ \A w \in W : \A i \in 1 .. n : Extended(w, all[i]) \in W
    BY <1>1
  <2> HIDE DEF n, f
  <2>1. 0 \in T
    BY <1>7
  <2>2. ASSUME NEW i \in Nat, i \in T PROVE i + 1 \in T
    <3>1. SUFFICES ASSUME i + 1 <= n PROVE f[i + 1] \in W
      OBVIOUS
    <3>2. i + 1 \in 1 .. n /\ (i + 1) - 1 = i /\ f[i] \in W
      BY <2>0, <2>2, <3>1
    <3>3. f[i + 1] = Extended(f[(i + 1) - 1], all[i + 1])
      BY <1>8, <3>2
    <3> QED
      BY <2>0, <3>2, <3>3
  <2>3. Nat \subseteq T
    <3> HIDE DEF T
    <3> QED
      BY <2>1, <2>2, NatInductive
  <2>4. \A i \in 0 .. n : i \in Nat /\ i <= n
    BY <2>0
  <2> QED
    BY <2>3, <2>4
<1> HIDE DEF f
<1> QED
  BY <1>2, <1>7, <1>8, <1>9 DEF CandidatesByTable

\* A candidate has an alternative of each word, in order.
LEMMA CandidatesAre ==
  ASSUME NEW V, NEW all \in Seq(Seq(V))
  PROVE  LET candidates == GetCorrectQueryCandidates(all)
         IN  /\ candidates \in Seq(Seq(V))
             /\ \A query \in Range(candidates) :
                   Len(query) = Len(all) /\ \A i \in 1 .. Len(all) : query[i] \in Range(all[i])
             /\ (\A i \in 1 .. Len(all) : all[i] # <<>>) => candidates # <<>>
<1> DEFINE n == Len(all)
           W == Seq(Seq(V))
<1>1. n \in Nat /\ DOMAIN all = 1 .. n /\ \A i \in 1 .. n : all[i] \in Seq(V)
  BY SeqParts
<1>d. Len(all) \in Nat /\ DOMAIN all = 1 .. Len(all)
  BY SeqParts
<1>2. <<<<>>>> \in W /\ \A w \in W : \A i \in 1 .. Len(all) : Extended(w, all[i]) \in W
  BY <1>1, ExtendedIs
<1>3. PICK f : CandidatesByTable(all, W, f)
  <2> HIDE DEF W
  <2> QED
    BY <1>d, <1>2, CandidatesBy
<1>4. /\ f[0] = <<<<>>>> /\ \A i \in 1 .. n : f[i] = Extended(f[i - 1], all[i])
      /\ \A i \in 0 .. n : f[i] \in Seq(Seq(V)) /\ GetCorrectQueryCandidates(all) = f[n]
  BY <1>1, <1>3 DEF CandidatesByTable
<1> DEFINE Fits(i, q) == Len(q) = i /\ \A j \in 1 .. i : q[j] \in Range(all[j])
           At(i) == /\ \A q \in Range(f[i]) : Fits(i, q)
                    /\ (\A j \in 1 .. i : all[j] # <<>>) => f[i] # <<>>
           T == {i \in Nat : i <= n => At(i)}
<1>5. 0 \in T
  <2>1. Range(<<<<>>>>) = {<<>>} /\ <<<<>>>> # <<>>
    BY DEF Range
  <2>2. At(0)
    BY <1>4, <2>1
  <2> QED
    BY <2>2
<1>6. ASSUME NEW i \in Nat, i \in T PROVE i + 1 \in T
  <2>1. SUFFICES ASSUME i + 1 <= n PROVE At(i + 1)
    OBVIOUS
  <2>2. i \in 0 .. n /\ i + 1 \in 1 .. n /\ (i + 1) - 1 = i /\ i <= n
    BY <1>1, <2>1
  <2>3. f[i + 1] = Extended(f[i], all[i + 1]) /\ f[i] \in Seq(Seq(V)) /\ all[i + 1] \in Seq(V)
    <3>1. f[i + 1] = Extended(f[(i + 1) - 1], all[i + 1])
      BY <1>4, <2>2
    <3> QED
      BY <1>1, <1>4, <2>2, <3>1
  <2>4. At(i)
    BY <1>6, <2>2
  <2>5. /\ \A x \in Range(f[i + 1]) :
              \E p \in Range(f[i]) : \E a \in Range(all[i + 1]) : x = Append(p, a)
        /\ f[i] # <<>> /\ all[i + 1] # <<>> => f[i + 1] # <<>>
    <3> HIDE DEF n, At, T
    <3>1. /\ Extended(f[i], all[i + 1]) \in Seq(Seq(V))
          /\ \A x \in Range(Extended(f[i], all[i + 1])) :
                \E p \in Range(f[i]) : \E a \in Range(all[i + 1]) : x = Append(p, a)
          /\ f[i] # <<>> /\ all[i + 1] # <<>> => Extended(f[i], all[i + 1]) # <<>>
      BY <2>3, ExtendedIs
    <3> QED
      BY <2>3, <3>1
  <2>6. ASSUME NEW q \in Range(f[i + 1]) PROVE Fits(i + 1, q)
    <3>1. PICK p \in Range(f[i]) : \E a \in Range(all[i + 1]) : q = Append(p, a)
      BY <2>5
    <3>2. PICK a \in Range(all[i + 1]) : q = Append(p, a)
      BY <3>1
    <3>3. p \in Seq(V) /\ Len(p) = i /\ \A j \in 1 .. i : p[j] \in Range(all[j])
      <4>1. Range(f[i]) \subseteq Seq(V)
        BY <2>3, SeqParts
      <4> QED
        BY <2>4, <4>1
    <3>a. a \in V
      BY <2>3, SeqParts
    <3>b. /\ Append(p, a) \in Seq(V) /\ Len(Append(p, a)) = Len(p) + 1
          /\ \A j \in 1 .. Len(p) : Append(p, a)[j] = p[j]
          /\ Append(p, a)[Len(p) + 1] = a
      BY <3>3, <3>a, AppendParts
    <3>4. Len(q) = i + 1 /\ q[i + 1] = a /\ \A j \in 1 .. i : q[j] = p[j]
      BY <3>2, <3>3, <3>b
    <3>5. \A j \in 1 .. i + 1 : j \in 1 .. i \/ j = i + 1
      OBVIOUS
    <3> QED
      BY <3>2, <3>3, <3>4, <3>5
  <2>7. ASSUME \A j \in 1 .. i + 1 : all[j] # <<>> PROVE f[i + 1] # <<>>
    <3>1. i + 1 \in 1 .. i + 1 /\ \A j \in 1 .. i : j \in 1 .. i + 1
      OBVIOUS
    <3> QED
      BY <2>4, <2>5, <2>7, <3>1
  <2> QED
    BY <2>6, <2>7
<1>7. Nat \subseteq T
  <2> HIDE DEF T
  <2> QED
    BY <1>5, <1>6, NatInductive
<1>8. At(n)
  BY <1>1, <1>7
<1>9. f[n] \in Seq(Seq(V)) /\ GetCorrectQueryCandidates(all) = f[n]
  <2>1. n \in 0 .. n
    BY <1>1
  <2> QED
    BY <1>4, <2>1
<1> QED
  BY <1>8, <1>9

------------------------------------------------------------------------------
(* The code of the posting lists. *)

\* A number is its last digit and what precedes it, which is smaller.
LEMMA Digits ==
  ASSUME NEW b \in Nat \ {0, 1}, NEW x \in Nat
  PROVE  /\ x \div b \in Nat /\ x % b \in 0 .. b - 1
         /\ x = (b * (x \div b)) + (x % b)
         /\ x >= b => x \div b < x
<1>1. x \div b \in Nat /\ x % b \in 0 .. b - 1 /\ x = (b * (x \div b)) + (x % b)
  OBVIOUS
<1>2. x >= b => x \div b < x
  OBVIOUS
<1> QED
  BY <1>1, <1>2

\* g is the code of the first numbers.
Codes(k, g) ==
  g = [x \in 0 .. k |-> IF x < Base THEN <<x>> ELSE <<(x % Base) + Base>> \o g[x \div Base]]

\* Two tables of the codes of the first numbers agree.
LEMMA CodesAgree ==
  ASSUME NEW k \in Nat, NEW g, Codes(k, g), NEW m \in Nat, NEW h, Codes(m, h)
  PROVE  \A x \in Nat : x <= k /\ x <= m => g[x] = h[x]
<1>0. Base \in Nat \ {0, 1}
  BY CompressAssumption
<1> DEFINE Bad == {x \in Nat : x <= k /\ x <= m /\ g[x] # h[x]}
<1>1. SUFFICES ASSUME Bad # {} PROVE FALSE
  OBVIOUS
<1>2. PICK x \in Bad : \A y \in Bad : x <= y
  <2>1. Bad \subseteq Nat
    OBVIOUS
  <2> HIDE DEF Bad
  <2> QED
    BY <1>1, <2>1, LeastNumber
<1>3. x \in Nat /\ x <= k /\ x <= m /\ x \in 0 .. k /\ x \in 0 .. m
  OBVIOUS
<1>4. /\ g[x] = IF x < Base THEN <<x>> ELSE <<(x % Base) + Base>> \o g[x \div Base]
      /\ h[x] = IF x < Base THEN <<x>> ELSE <<(x % Base) + Base>> \o h[x \div Base]
  BY <1>3 DEF Codes
<1>5. CASE x < Base
  BY <1>4, <1>5
<1>6. CASE ~ (x < Base)
  <2>1. x >= Base
    BY <1>0, <1>3, <1>6
  <2>2. x \div Base \in Nat /\ x \div Base < x
    BY <1>0, <1>3, <2>1, Digits
  <2> DEFINE y == x \div Base
  <2>3. y \in Nat /\ y <= k /\ y <= m /\ ~ (x <= y)
    <3>1. y \in Nat /\ y < x
      BY <2>2
    <3> HIDE DEF y
    <3> QED
      BY <1>3, <3>1
  <2>4. y \notin Bad
    BY <1>2, <2>3
  <2>5. g[y] = h[y]
    <3> HIDE DEF y
    <3> QED
      BY <2>3, <2>4
  <2> QED
    BY <1>4, <1>6, <2>5
<1> QED
  BY <1>5, <1>6

\* There is a table of the codes of the first n numbers.
LEMMA CodesExist ==
  ASSUME NEW n \in Nat
  PROVE  \E g : Codes(n, g)
<1>0. Base \in Nat \ {0, 1}
  BY CompressAssumption
<1> DEFINE T == {k \in Nat : \E g : Codes(k, g)}
<1>1. 0 \in T
  <2> DEFINE g == [x \in 0 .. 0 |-> <<x>>]
  <2>1. \A x \in 0 .. 0 : x < Base
    BY <1>0
  <2>2. Codes(0, g)
    BY <2>1 DEF Codes
  <2> QED
    BY <2>2
<1>2. ASSUME NEW k \in Nat, k \in T PROVE k + 1 \in T
  <2>1. PICK g : Codes(k, g)
    BY <1>2
  <2> DEFINE Coded(x) == IF x < Base THEN <<x>> ELSE <<(x % Base) + Base>> \o g[x \div Base]
             h == [x \in 0 .. k + 1 |-> Coded(x)]
  <2>2. \A x \in 0 .. k : g[x] = Coded(x)
    BY <2>1 DEF Codes
  <2>3. ASSUME NEW x \in 0 .. k + 1, ~ (x < Base)
        PROVE  h[x \div Base] = g[x \div Base]
    <3>1. x \in Nat /\ x >= Base
      BY <1>0, <2>3
    <3>2. x \div Base \in Nat /\ x \div Base < x
      BY <1>0, <3>1, Digits
    <3> DEFINE y == x \div Base
    <3>3. y \in 0 .. k /\ y \in 0 .. k + 1
      <4>1. y \in Nat /\ y < x
        BY <3>2
      <4> HIDE DEF y, h, Coded
      <4> QED
        BY <4>1
    <3>4. h[y] = Coded(y) /\ g[y] = Coded(y)
      <4> HIDE DEF y, Coded
      <4> QED
        BY <2>2, <3>3
    <3> QED
      BY <3>4
  <2>4. h = [x \in 0 .. k + 1 |-> IF x < Base THEN <<x>> ELSE <<(x % Base) + Base>> \o h[x \div Base]]
    <3>1. \A x \in 0 .. k + 1 :
            Coded(x) = IF x < Base THEN <<x>> ELSE <<(x % Base) + Base>> \o h[x \div Base]
      <4> HIDE DEF h
      <4> QED
        BY <2>3
    <3>2. h = [x \in 0 .. k + 1 |-> Coded(x)]
      OBVIOUS
    <3> HIDE DEF h, Coded
    <3> QED
      BY <3>1, <3>2
  <2>5. Codes(k + 1, h)
    <3> HIDE DEF h
    <3> QED
      BY <2>4 DEF Codes
  <2>6. \E j : Codes(k + 1, j)
    <3> HIDE DEF h
    <3> QED
      BY <2>5
  <2> QED
    BY <2>6
<1>3. Nat \subseteq T
  <2> HIDE DEF T
  <2> QED
    BY <1>1, <1>2, NatInductive
<1> QED
  BY <1>3

CodeTable(f) ==
  f = [x \in Nat |-> IF x < Base THEN <<x>> ELSE <<(x % Base) + Base>> \o f[x \div Base]]

\* The code of a number: its last digit, marked unless it is the only one, then the code of the
\* rest (encodeUVarint).
LEMMA EncodedIs ==
  \A x \in Nat :
     encodeUVarint[x] = IF x < Base THEN <<x>> ELSE <<(x % Base) + Base>> \o encodeUVarint[x \div Base]
<1>0. Base \in Nat \ {0, 1}
  BY CompressAssumption
<1> DEFINE upTo(k) == CHOOSE g : Codes(k, g)
           f == [x \in Nat |-> upTo(x)[x]]
<1>1. \A k \in Nat : Codes(k, upTo(k))
  <2>1. ASSUME NEW k \in Nat PROVE Codes(k, upTo(k))
    BY CodesExist
  <2> QED
    BY <2>1
<1>2. ASSUME NEW x \in Nat
      PROVE  f[x] = IF x < Base THEN <<x>> ELSE <<(x % Base) + Base>> \o f[x \div Base]
  <2>1. f[x] = upTo(x)[x]
    OBVIOUS
  <2> HIDE DEF upTo
  <2>2. x \in 0 .. x
    OBVIOUS
  <2>3. upTo(x)[x] = IF x < Base THEN <<x>> ELSE <<(x % Base) + Base>> \o upTo(x)[x \div Base]
    BY <1>1, <2>2 DEF Codes
  <2>4. CASE x < Base
    BY <2>1, <2>3, <2>4
  <2>5. CASE ~ (x < Base)
    <3>1. x >= Base
      BY <1>0, <2>5
    <3> DEFINE y == x \div Base
    <3>2. y \in Nat /\ y < x
      BY <1>0, <3>1, Digits
    <3> HIDE DEF y
    <3>3. y <= x /\ y <= y
      BY <3>2
    <3>4. upTo(x)[y] = upTo(y)[y]
      <4>1. Codes(x, upTo(x)) /\ Codes(y, upTo(y))
        BY <1>1, <3>2
      <4> QED
        BY <3>2, <3>3, <4>1, CodesAgree
    <3>5. f[y] = upTo(y)[y]
      BY <3>2
    <3> QED
      BY <2>1, <2>3, <2>5, <3>4, <3>5 DEF y
  <2> QED
    BY <2>4, <2>5
<1>3. CodeTable(f)
  <2>1. f = [x \in Nat |-> f[x]]
    OBVIOUS
  <2> HIDE DEF f
  <2> QED
    BY <1>2, <2>1 DEF CodeTable
<1>4. encodeUVarint = CHOOSE g : CodeTable(g)
  BY DEF encodeUVarint, CodeTable
<1>5. CodeTable(encodeUVarint)
  <2> HIDE DEF f
  <2> QED
    BY <1>3, <1>4
<1> QED
  BY <1>5 DEF CodeTable

\* A code is a sequence of bytes and not empty.
LEMMA EncodedType ==
  \A x \in Nat : encodeUVarint[x] \in Seq(Nat) /\ encodeUVarint[x] # <<>>
<1>0. Base \in Nat \ {0, 1}
  BY CompressAssumption
<1> DEFINE Bad == {x \in Nat : ~ (encodeUVarint[x] \in Seq(Nat) /\ encodeUVarint[x] # <<>>)}
<1>1. SUFFICES ASSUME Bad # {} PROVE FALSE
  OBVIOUS
<1>2. PICK x \in Bad : \A y \in Bad : x <= y
  <2>1. Bad \subseteq Nat
    OBVIOUS
  <2> HIDE DEF Bad
  <2> QED
    BY <1>1, <2>1, LeastNumber
<1>3. x \in Nat
  OBVIOUS
<1>4. encodeUVarint[x] = IF x < Base THEN <<x>> ELSE <<(x % Base) + Base>> \o encodeUVarint[x \div Base]
  BY <1>3, EncodedIs
<1>5. CASE x < Base
  <2>1. encodeUVarint[x] = <<x>>
    BY <1>4, <1>5
  <2>2. <<x>> \in Seq(Nat) /\ <<x>> # <<>>
    BY <1>3
  <2> QED
    BY <2>1, <2>2
<1>6. CASE ~ (x < Base)
  <2>1. x >= Base
    BY <1>0, <1>3, <1>6
  <2> DEFINE y == x \div Base
             d == (x % Base) + Base
  <2>2. y \in Nat /\ y < x /\ d \in Nat
    <3>1. x \div Base \in Nat /\ x % Base \in 0 .. Base - 1 /\ (x >= Base => x \div Base < x)
      <4> HIDE DEF Bad
      <4> QED
        BY <1>0, <1>3, Digits
    <3> HIDE DEF Bad
    <3> QED
      BY <1>0, <2>1, <3>1
  <2>3. encodeUVarint[x] = <<d>> \o encodeUVarint[y]
    BY <1>4, <1>6
  <2> HIDE DEF y, d
  <2>4. y \notin Bad
    BY <1>2, <1>3, <2>2
  <2>5. encodeUVarint[y] \in Seq(Nat) /\ encodeUVarint[y] # <<>>
    BY <2>2, <2>4
  <2>6. <<d>> \in Seq(Nat) /\ Len(<<d>>) = 1
    BY <2>2
  <2>7. encodeUVarint[x] \in Seq(Nat) /\ Len(encodeUVarint[x]) = 1 + Len(encodeUVarint[y])
    BY <2>3, <2>5, <2>6, ConcatParts
  <2>8. Len(encodeUVarint[y]) \in Nat
    BY <2>5
  <2>9. encodeUVarint[x] # <<>>
    BY <2>7, <2>8
  <2> QED
    BY <2>7, <2>9
<1> QED
  BY <1>5, <1>6


NothingDecoded == [numbers |-> <<>>, value |-> 0, place |-> 1]
Decoding == [numbers : Seq(Nat), value : Nat, place : Nat]
Decoded(buf) == FoldLeft(DecodedByte, NothingDecoded, buf)

DecodedByTable(buf, W, f) ==
  /\ f[0] = NothingDecoded
  /\ \A i \in 1 .. Len(buf) : f[i] = DecodedByte(f[i - 1], buf[i])
  /\ \A i \in 0 .. Len(buf) : f[i] \in W
  /\ Decoded(buf) = f[Len(buf)]

\* The fold of DecodePostingsList as a table with one entry for each byte.
LEMMA DecodedBy ==
  ASSUME NEW W, NEW buf, Len(buf) \in Nat, DOMAIN buf = 1 .. Len(buf), NothingDecoded \in W,
         \A w \in W : \A i \in 1 .. Len(buf) : DecodedByte(w, buf[i]) \in W
  PROVE  \E f : DecodedByTable(buf, W, f)
<1> DEFINE n == Len(buf)
           F == [p \in W \X (1 .. n) |-> DecodedByte(p[1], buf[p[2]])]
           Table(h) == h = [s \in SUBSET (1 .. n) |->
                              IF s = {} THEN NothingDecoded ELSE DecodedByte(h[s \ {Max(s)}], buf[Max(s)])]
           h0 == CHOOSE h : Table(h)
<1>1. n \in Nat /\ DOMAIN buf = 1 .. n
  OBVIOUS
<1>2. Decoded(buf) = h0[1 .. n]
  BY <1>1 DEF Decoded, FoldLeft, MapThenFoldSet
<1>3. PICK g : IsFold(F, NothingDecoded, n, g) /\ \A s \in SUBSET (1 .. n) : g[s] \in W
  <2>1. \A w \in W : \A i \in 1 .. n : F[<<w, i>>] \in W
    OBVIOUS
  <2>2. n \in Nat
    BY <1>1
  <2> HIDE DEF n, F
  <2> QED
    BY <2>1, <2>2, FoldTyped
<1>4. Table(g)
  <2>1. ASSUME NEW s \in SUBSET (1 .. n), s # {}
        PROVE  F[<<g[s \ {Max(s)}], Max(s)>>] = DecodedByte(g[s \ {Max(s)}], buf[Max(s)])
    <3>1. n \in Nat
      BY <1>1
    <3> HIDE DEF n
    <3>2. Max(s) \in s /\ s \ {Max(s)} \in SUBSET (1 .. n)
      BY <2>1, <3>1, LastPlace
    <3>3. Max(s) \in 1 .. n /\ g[s \ {Max(s)}] \in W
      BY <1>3, <3>2
    <3> QED
      BY <3>3
  <2> HIDE DEF n, F
  <2>2. g = [s \in SUBSET (1 .. n) |-> IF s = {} THEN NothingDecoded ELSE F[<<g[s \ {Max(s)}], Max(s)>>]]
    BY <1>3 DEF IsFold
  <2>3. \A s \in SUBSET (1 .. n) :
          (IF s = {} THEN NothingDecoded ELSE F[<<g[s \ {Max(s)}], Max(s)>>])
            = (IF s = {} THEN NothingDecoded ELSE DecodedByte(g[s \ {Max(s)}], buf[Max(s)]))
    BY <2>1
  <2> QED
    BY <2>2, <2>3
<1>5. Table(h0)
  <2> HIDE DEF Table
  <2> QED
    BY <1>4
<1> HIDE DEF h0
<1>6. \A s \in SUBSET (1 .. n) :
        h0[s] = IF s = {} THEN NothingDecoded ELSE DecodedByte(h0[s \ {Max(s)}], buf[Max(s)])
  BY <1>5
<1> DEFINE f == [i \in 0 .. n |-> h0[1 .. i]]
<1>7. f[0] = NothingDecoded /\ f[n] = h0[1 .. n]
  <2>1. 1 .. 0 = {} /\ 0 \in 0 .. n /\ n \in 0 .. n
    BY <1>1
  <2>2. f[0] = h0[1 .. 0] /\ f[n] = h0[1 .. n]
    BY <2>1
  <2> HIDE DEF n, f
  <2> QED
    BY <1>6, <2>1, <2>2
<1>8. ASSUME NEW i \in 1 .. n PROVE f[i] = DecodedByte(f[i - 1], buf[i])
  <2>1. f[i] = h0[1 .. i] /\ f[i - 1] = h0[1 .. i - 1]
    BY <1>1
  <2>2. n \in Nat
    BY <1>1
  <2> HIDE DEF n, f
  <2>3. /\ 1 .. i \in SUBSET (1 .. n) /\ 1 .. i # {} /\ (1 .. i) \ {i} = 1 .. i - 1
        /\ Max(1 .. i) = i
    BY <2>2, FirstPlaces
  <2> QED
    BY <1>6, <2>1, <2>3
<1>9. \A i \in 0 .. n : f[i] \in W
  <2> DEFINE T == {i \in Nat : i <= n => f[i] \in W}
  <2>0. n \in Nat /\ \A w \in W : \A i \in 1 .. n : DecodedByte(w, buf[i]) \in W
    BY <1>1
  <2> HIDE DEF n, f
  <2>1. 0 \in T
    BY <1>7
  <2>2. ASSUME NEW i \in Nat, i \in T PROVE i + 1 \in T
    <3>1. SUFFICES ASSUME i + 1 <= n PROVE f[i + 1] \in W
      OBVIOUS
    <3>2. i + 1 \in 1 .. n /\ (i + 1) - 1 = i /\ f[i] \in W
      BY <2>0, <2>2, <3>1
    <3>3. f[i + 1] = DecodedByte(f[(i + 1) - 1], buf[i + 1])
      BY <1>8, <3>2
    <3> QED
      BY <2>0, <3>2, <3>3
  <2>3. Nat \subseteq T
    <3> HIDE DEF T
    <3> QED
      BY <2>1, <2>2, NatInductive
  <2>4. \A i \in 0 .. n : i \in Nat /\ i <= n
    BY <2>0
  <2> QED
    BY <2>3, <2>4
<1> HIDE DEF f
<1> QED
  BY <1>2, <1>7, <1>8, <1>9 DEF DecodedByTable

\* A byte below the base ends a number, one of at least the base adds a digit to it
\* (DecodePostingsList).
LEMMA DecodedByteIs ==
  ASSUME NEW s \in Decoding, NEW byte \in Nat
  PROVE  /\ DecodedByte(s, byte) \in Decoding
         /\ byte < Base => DecodedByte(s, byte) =
               [numbers |-> Append(s.numbers, s.value + (byte * s.place)), value |-> 0, place |-> 1]
         /\ byte >= Base => DecodedByte(s, byte) =
               [numbers |-> s.numbers, value |-> s.value + ((byte - Base) * s.place), place |-> s.place * Base]
<1>0. Base \in Nat \ {0, 1}
  BY CompressAssumption
<1>1. s.numbers \in Seq(Nat) /\ s.value \in Nat /\ s.place \in Nat
      /\ s = [numbers |-> s.numbers, value |-> s.value, place |-> s.place]
  BY DEF Decoding
<1>2. CASE byte < Base
  <2>1. DecodedByte(s, byte) =
          [numbers |-> Append(s.numbers, s.value + (byte * s.place)), value |-> 0, place |-> 1]
    BY <1>2 DEF DecodedByte
  <2>2. s.value + (byte * s.place) \in Nat
    BY <1>1
  <2>3. Append(s.numbers, s.value + (byte * s.place)) \in Seq(Nat)
    BY <1>1, <2>2
  <2>4. ~ (byte >= Base)
    BY <1>0, <1>2
  <2> QED
    BY <2>1, <2>3, <2>4 DEF Decoding
<1>3. CASE ~ (byte < Base)
  <2>1. DecodedByte(s, byte) =
          [s EXCEPT !.value = @ + (byte - Base) * s.place, !.place = @ * Base]
    BY <1>3 DEF DecodedByte
  <2>2. DecodedByte(s, byte) =
          [numbers |-> s.numbers, value |-> s.value + ((byte - Base) * s.place), place |-> s.place * Base]
    BY <1>1, <2>1
  <2>3. byte - Base \in Nat
    BY <1>0, <1>3
  <2>4. s.value + ((byte - Base) * s.place) \in Nat /\ s.place * Base \in Nat
    BY <1>0, <1>1, <2>3
  <2> QED
    BY <1>1, <1>3, <2>2, <2>4 DEF Decoding
<1> QED
  BY <1>2, <1>3

\* s[0], s[1], ... are the states of the decoder along buf.
Decodes(buf, s) ==
  /\ s[0] = NothingDecoded
  /\ \A i \in 1 .. Len(buf) : s[i] = DecodedByte(s[i - 1], buf[i])
  /\ \A i \in 0 .. Len(buf) : s[i] \in Decoding

\* There is a table of the decoding of any bytes, and its last entry has the numbers decoded.
LEMMA DecodesExists ==
  ASSUME NEW buf \in Seq(Nat)
  PROVE  \E s : Decodes(buf, s) /\ DecodePostingsList(buf) = s[Len(buf)].numbers
<1>1. Len(buf) \in Nat /\ DOMAIN buf = 1 .. Len(buf) /\ \A i \in 1 .. Len(buf) : buf[i] \in Nat
  BY SeqParts
<1>2. NothingDecoded \in Decoding
  BY DEF NothingDecoded, Decoding
<1>3. \A w \in Decoding : \A i \in 1 .. Len(buf) : DecodedByte(w, buf[i]) \in Decoding
  BY <1>1, DecodedByteIs
<1>4. PICK s : DecodedByTable(buf, Decoding, s)
  <2>1. Len(buf) \in Nat /\ DOMAIN buf = 1 .. Len(buf)
    BY <1>1
  <2> QED
    BY <1>2, <1>3, <2>1, DecodedBy
<1>5. Decodes(buf, s) /\ Decoded(buf) = s[Len(buf)]
  BY <1>4 DEF Decodes, DecodedByTable
<1>6. DecodePostingsList(buf) = Decoded(buf).numbers
  BY DEF DecodePostingsList, Decoded, NothingDecoded
<1> QED
  BY <1>5, <1>6

\* Whatever bytes are read, numbers are decoded: a torn read yields numbers too.
LEMMA DecodedType ==
  ASSUME NEW buf \in Seq(Nat)
  PROVE  DecodePostingsList(buf) \in Seq(Nat)
<1>1. PICK s : Decodes(buf, s) /\ DecodePostingsList(buf) = s[Len(buf)].numbers
  BY DecodesExists
<1>2. Len(buf) \in 0 .. Len(buf)
  BY SeqParts
<1>3. s[Len(buf)] \in Decoding
  BY <1>1, <1>2 DEF Decodes
<1> QED
  BY <1>1, <1>3 DEF Decoding

\* The bytes of buf after the first o are code.
Holds(buf, o, code) ==
  o + Len(code) <= Len(buf) /\ \A i \in 1 .. Len(code) : buf[o + i] = code[i]

\* What the decoder makes of one number x: the bytes of the rest of x follow the first.
NumberDecoded(s, o, x, end) ==
  s[end] = [numbers |-> Append(s[o].numbers, s[o].value + (x * s[o].place)), value |-> 0, place |-> 1]

\* A digit and the digits after it, at their places, make up the number at its place.
LEMMA PlaceValue ==
  ASSUME NEW b \in Nat, NEW q \in Nat, NEW r \in Nat, NEW v \in Nat, NEW p \in Nat,
         NEW x, x = (b * q) + r
  PROVE  (v + (r * p)) + (q * (p * b)) = v + (x * p)
<1>1. (v + (r * p)) + (q * (p * b)) = v + (((b * q) + r) * p)
  OBVIOUS
<1> QED
  BY <1>1

\* Decoding the code of a number adds that number, wherever the code stands in the buffer.
LEMMA OneDecoded ==
  ASSUME NEW buf \in Seq(Nat), NEW s, Decodes(buf, s), NEW z \in Nat
  PROVE  \A o \in Nat : Holds(buf, o, encodeUVarint[z]) =>
            NumberDecoded(s, o, z, o + Len(encodeUVarint[z]))
<1>0. Base \in Nat \ {0, 1}
  BY CompressAssumption
<1> DEFINE Good(x) == \A o \in Nat : Holds(buf, o, encodeUVarint[x]) =>
                         NumberDecoded(s, o, x, o + Len(encodeUVarint[x]))
           Bad == {x \in Nat : ~ Good(x)}
<1>1. SUFFICES ASSUME Bad # {} PROVE FALSE
  OBVIOUS
<1>2. PICK x \in Bad : \A y \in Bad : x <= y
  <2>1. Bad \subseteq Nat
    OBVIOUS
  <2> HIDE DEF Bad
  <2> QED
    BY <1>1, <2>1, LeastNumber
<1>3. x \in Nat /\ ~ Good(x)
  OBVIOUS
<1> HIDE DEF Bad
<1>4. PICK o \in Nat : Holds(buf, o, encodeUVarint[x]) /\ ~ NumberDecoded(s, o, x, o + Len(encodeUVarint[x]))
  BY <1>3
<1>5. encodeUVarint[x] = IF x < Base THEN <<x>> ELSE <<(x % Base) + Base>> \o encodeUVarint[x \div Base]
  BY <1>3, EncodedIs
<1>6. Len(buf) \in Nat
  BY SeqParts
<1>7. CASE x < Base
  <2>1. encodeUVarint[x] = <<x>> /\ Len(<<x>>) = 1 /\ <<x>>[1] = x
    BY <1>5, <1>7
  <2>2. o + 1 <= Len(buf) /\ buf[o + 1] = x
    BY <1>4, <2>1 DEF Holds
  <2>3. o + 1 \in 1 .. Len(buf) /\ (o + 1) - 1 = o /\ o \in 0 .. Len(buf)
    BY <1>6, <2>2
  <2>4. s[o + 1] = DecodedByte(s[o], x) /\ s[o] \in Decoding
    BY <2>2, <2>3 DEF Decodes
  <2>5. s[o + 1] = [numbers |-> Append(s[o].numbers, s[o].value + (x * s[o].place)), value |-> 0, place |-> 1]
    BY <1>3, <1>7, <2>4, DecodedByteIs
  <2> QED
    BY <1>4, <2>1, <2>5 DEF NumberDecoded
<1>8. CASE ~ (x < Base)
  <2> DEFINE y == x \div Base
             r == x % Base
             d == r + Base
             m == Len(encodeUVarint[y])
  <2>1. x >= Base
    BY <1>0, <1>3, <1>8
  <2>2. y \in Nat /\ r \in 0 .. Base - 1 /\ x = (Base * y) + r /\ y < x
    <3>1. x \div Base \in Nat /\ x % Base \in 0 .. Base - 1 /\ (x >= Base => x \div Base < x)
          /\ x = (Base * (x \div Base)) + (x % Base)
      BY <1>0, <1>3, Digits
    <3> QED
      BY <2>1, <3>1
  <2>3. encodeUVarint[x] = <<d>> \o encodeUVarint[y]
    BY <1>5, <1>8
  <2> HIDE DEF y, r
  <2>4. r \in Nat /\ d \in Nat /\ d >= Base /\ d - Base = r
    BY <1>0, <2>2
  <2> HIDE DEF d
  <2>5. Good(y)
    <3>1. y \notin Bad
      BY <1>2, <1>3, <2>2
    <3> QED
      BY <2>2, <3>1 DEF Bad
  <2>6. encodeUVarint[y] \in Seq(Nat) /\ m \in Nat
    BY <2>2, EncodedType
  <2>7. /\ Len(encodeUVarint[x]) = 1 + m /\ encodeUVarint[x][1] = d
        /\ \A i \in 1 .. m : encodeUVarint[x][1 + i] = encodeUVarint[y][i]
    <3>1. <<d>> \in Seq(Nat) /\ Len(<<d>>) = 1 /\ <<d>>[1] = d /\ 1 \in 1 .. 1
      BY <2>4
    <3>2. /\ encodeUVarint[x] \in Seq(Nat)
          /\ Len(encodeUVarint[x]) = Len(<<d>>) + Len(encodeUVarint[y])
          /\ \A i \in 1 .. Len(<<d>>) : encodeUVarint[x][i] = <<d>>[i]
          /\ \A i \in 1 .. Len(encodeUVarint[y]) : encodeUVarint[x][Len(<<d>>) + i] = encodeUVarint[y][i]
      BY <2>3, <2>6, <3>1, ConcatParts
    <3> QED
      BY <3>1, <3>2
  <2> HIDE DEF m
  <2>8. /\ o + (1 + m) <= Len(buf) /\ buf[o + 1] = d
        /\ \A i \in 1 .. m : buf[o + (1 + i)] = encodeUVarint[y][i]
    <3>1. 1 \in 1 .. 1 + m /\ \A i \in 1 .. m : 1 + i \in 1 .. 1 + m
      BY <2>6
    <3> QED
      BY <1>4, <2>7, <3>1 DEF Holds
  <2>9. /\ o + 1 \in Nat /\ (o + 1) + m <= Len(buf)
        /\ \A i \in 1 .. m : buf[(o + 1) + i] = encodeUVarint[y][i]
    <3>1. o + 1 \in Nat /\ (o + 1) + m = o + (1 + m)
      BY <2>6
    <3>2. ASSUME NEW i \in 1 .. m PROVE buf[(o + 1) + i] = encodeUVarint[y][i]
      <4>1. (o + 1) + i = o + (1 + i)
        BY <2>6
      <4> QED
        BY <2>8, <4>1
    <3> QED
      BY <2>8, <3>1, <3>2
  <2>10. Holds(buf, o + 1, encodeUVarint[y])
    BY <2>9 DEF Holds, m
  <2>11. NumberDecoded(s, o + 1, y, (o + 1) + m)
    BY <2>5, <2>9, <2>10 DEF m
  <2>12. o + 1 \in 1 .. Len(buf) /\ (o + 1) - 1 = o /\ o \in 0 .. Len(buf)
    BY <1>6, <2>6, <2>9
  <2>13. s[o + 1] = DecodedByte(s[o], d) /\ s[o] \in Decoding
    BY <2>8, <2>12 DEF Decodes
  <2>14. s[o + 1] = [numbers |-> s[o].numbers, value |-> s[o].value + (r * s[o].place), place |-> s[o].place * Base]
    BY <2>4, <2>13, DecodedByteIs
  <2>15. s[(o + 1) + m] = [numbers |-> Append(s[o].numbers,
                              (s[o].value + (r * s[o].place)) + (y * (s[o].place * Base))), value |-> 0, place |-> 1]
    BY <2>11, <2>14 DEF NumberDecoded
  <2>16. (s[o].value + (r * s[o].place)) + (y * (s[o].place * Base)) = s[o].value + (x * s[o].place)
    <3>1. s[o].value \in Nat /\ s[o].place \in Nat
      BY <2>13 DEF Decoding
    <3>2. Base \in Nat /\ y \in Nat /\ r \in Nat
      BY <1>0, <2>2, <2>4
    <3>3. x = (Base * y) + r
      BY <2>2
    <3> DEFINE v == s[o].value
               p == s[o].place
    <3>4. v \in Nat /\ p \in Nat
      BY <3>1
    <3> HIDE DEF v, p, Good
    <3>5. (v + (r * p)) + (y * (p * Base)) = v + (x * p)
      BY <3>2, <3>3, <3>4, PlaceValue
    <3> QED
      BY <3>5 DEF v, p
  <2>17. (o + 1) + m = o + Len(encodeUVarint[x])
    BY <2>6, <2>7
  <2>18. NumberDecoded(s, o, x, o + Len(encodeUVarint[x]))
    BY <2>15, <2>16, <2>17 DEF NumberDecoded
  <2> QED
    BY <1>4, <2>18
<1> QED
  BY <1>7, <1>8

\* Decoding what was encoded yields the list.
THEOREM RoundTrip ==
  ASSUME NEW list \in Seq(Nat)
  PROVE  /\ EncodePostingsList(list) \in Seq(Nat)
         /\ DecodePostingsList(EncodePostingsList(list)) = list
         /\ list # <<>> => EncodePostingsList(list) # <<>>
<1> DEFINE n == Len(list)
           codes == [i \in DOMAIN list |-> encodeUVarint[list[i]]]
           buf == EncodePostingsList(list)
<1>1. n \in Nat /\ DOMAIN list = 1 .. n /\ \A i \in 1 .. n : list[i] \in Nat
  BY SeqParts
<1>2. codes \in Seq(Seq(Nat)) /\ Len(codes) = n /\ DOMAIN codes = 1 .. n
      /\ \A i \in 1 .. n : codes[i] = encodeUVarint[list[i]]
  <2>1. \A i \in 1 .. n : codes[i] \in Seq(Nat)
    BY <1>1, EncodedType
  <2>2. codes = [i \in 1 .. n |-> codes[i]] /\ \A i \in 1 .. n : codes[i] = encodeUVarint[list[i]]
    BY <1>1
  <2>3. n \in Nat
    BY <1>1
  <2> HIDE DEF codes, n
  <2> QED
    BY <2>1, <2>2, <2>3, IsSeq
<1>3. buf = FlattenSeq(codes)
  BY DEF EncodePostingsList
<1> HIDE DEF codes, buf
<1>4. /\ buf \in Seq(Nat)
      /\ \A j \in 1 .. n : Len(codes[j]) <= Len(buf)
  BY <1>2, <1>3, FlattenRange
<1>5. list # <<>> => buf # <<>>
  <2>1. SUFFICES ASSUME list # <<>>, buf = <<>> PROVE FALSE
    OBVIOUS
  <2>2. 1 \in 1 .. n
    BY <1>1, <2>1
  <2>3. codes[1] \in Seq(Nat) /\ codes[1] # <<>> /\ Len(codes[1]) <= Len(buf)
    BY <1>1, <1>2, <1>4, <2>2, EncodedType
  <2>4. Len(codes[1]) \in Nat /\ Len(codes[1]) # 0 /\ Len(buf) = 0
    BY <2>1, <2>3
  <2> QED
    BY <2>3, <2>4
<1>6. PICK s : Decodes(buf, s) /\ DecodePostingsList(buf) = s[Len(buf)].numbers
  BY <1>4, DecodesExists
<1>7. PICK f : Flattened(codes, f) /\ buf = f[Len(codes)]
  BY <1>2, <1>3, FlattenIs
<1> DEFINE Through(i) == /\ s[Len(f[i])].value = 0 /\ s[Len(f[i])].place = 1
                      /\ s[Len(f[i])].numbers = SubSeq(list, 1, i)
           T == {i \in Nat : i <= n => Through(i)}
<1>8. 0 \in T
  <2>1. f[0] = <<>> /\ Len(<<>>) = 0 /\ SubSeq(list, 1, 0) = <<>>
    BY <1>7 DEF Flattened
  <2>2. s[0] = NothingDecoded
    BY <1>6 DEF Decodes
  <2>4. s[0].value = 0 /\ s[0].place = 1 /\ s[0].numbers = <<>>
    BY <2>2 DEF NothingDecoded
  <2>5. Len(f[0]) = 0
    BY <2>1
  <2>3. Through(0)
    BY <2>1, <2>4, <2>5
  <2> QED
    BY <2>3
<1>9. ASSUME NEW i \in Nat, i \in T PROVE i + 1 \in T
  <2>1. SUFFICES ASSUME i + 1 <= n PROVE Through(i + 1)
    OBVIOUS
  <2>2. i \in 0 .. n /\ i + 1 \in 1 .. n /\ i + 1 \in 0 .. n /\ n \in 0 .. n /\ (i + 1) - 1 = i /\ i <= n
    BY <1>1, <2>1
  <2> DEFINE o == Len(f[i])
             code == encodeUVarint[list[i + 1]]
  <2>3. f[i + 1] = f[i] \o code
    <3>1. f[i + 1] = f[(i + 1) - 1] \o codes[i + 1]
      BY <1>2, <1>7, <2>2 DEF Flattened
    <3> QED
      BY <1>2, <2>2, <3>1
  <2>4. f[i] \in Seq(Nat) /\ code \in Seq(Nat) /\ o \in Nat /\ Len(code) \in Nat
    <3>1. f[i] \in Seq(Nat)
      BY <1>2, <1>7, <2>2, FlattenedType
    <3>2. code \in Seq(Nat)
      BY <1>1, <2>2, EncodedType
    <3> QED
      BY <3>1, <3>2
  <2>5. /\ Len(f[i + 1]) = o + Len(code)
        /\ \A j \in 1 .. Len(code) : f[i + 1][o + j] = code[j]
    <3>1. /\ f[i + 1] \in Seq(Nat) /\ Len(f[i + 1]) = Len(f[i]) + Len(code)
          /\ \A j \in 1 .. Len(code) : f[i + 1][Len(f[i]) + j] = code[j]
      <4> HIDE DEF code
      <4> QED
        BY <2>3, <2>4, ConcatParts
    <3> QED
      BY <3>1
  <2>6. /\ Len(f[i + 1]) <= Len(buf)
        /\ \A j \in 1 .. Len(f[i + 1]) : buf[j] = f[i + 1][j]
    <3>1. i + 1 \in 0 .. Len(codes)
      BY <1>2, <2>2
    <3>2. /\ f[i + 1] \in Seq(Nat) /\ f[Len(codes)] \in Seq(Nat) /\ Len(f[i + 1]) <= Len(f[Len(codes)])
          /\ \A j \in 1 .. Len(f[i + 1]) : f[Len(codes)][j] = f[i + 1][j]
      <4> HIDE DEF Through, T, o, code
      <4>1. PICK m : m = i + 1
        OBVIOUS
      <4>2. m \in 0 .. Len(codes) /\ codes \in Seq(Seq(Nat)) /\ Flattened(codes, f)
        BY <1>2, <1>7, <3>1, <4>1
      <4>3. /\ f[m] \in Seq(Nat) /\ f[Len(codes)] \in Seq(Nat) /\ Len(f[m]) <= Len(f[Len(codes)])
            /\ \A j \in 1 .. Len(f[m]) : f[Len(codes)][j] = f[m][j]
        BY <4>2, FlattenedPrefix
      <4> QED
        BY <4>1, <4>3
    <3> QED
      BY <1>7, <3>2
  <2>7. Holds(buf, o, code)
    <3>1. \A j \in 1 .. Len(code) : o + j \in 1 .. Len(f[i + 1])
      <4> HIDE DEF code, o, Through, T
      <4> QED
        BY <2>4, <2>5
    <3> HIDE DEF code, o
    <3> QED
      BY <2>5, <2>6, <3>1 DEF Holds
  <2>8. NumberDecoded(s, o, list[i + 1], o + Len(code))
    <3>1. list[i + 1] \in Nat
      BY <1>1, <2>2
    <3> QED
      BY <1>4, <1>6, <2>4, <2>7, <3>1, OneDecoded
  <2>9. s[o].value = 0 /\ s[o].place = 1 /\ s[o].numbers = SubSeq(list, 1, i)
    BY <1>9, <2>2
  <2>10. list[i + 1] \in Nat /\ 0 + (list[i + 1] * 1) = list[i + 1]
    BY <1>1, <2>2
  <2>11. s[o + Len(code)] = [numbers |-> Append(SubSeq(list, 1, i), list[i + 1]), value |-> 0, place |-> 1]
    <3> HIDE DEF code, o
    <3> QED
      BY <2>8, <2>9, <2>10 DEF NumberDecoded
  <2>12. Append(SubSeq(list, 1, i), list[i + 1]) = SubSeq(list, 1, i + 1)
    BY <1>1, <2>2
  <2> HIDE DEF code, o
  <2>13. s[Len(f[i + 1])] = [numbers |-> SubSeq(list, 1, i + 1), value |-> 0, place |-> 1]
    BY <2>5, <2>11, <2>12
  <2> QED
    BY <2>13
<1>10. Nat \subseteq T
  <2> HIDE DEF T
  <2> QED
    BY <1>8, <1>9, NatInductive
<1>11. Through(n)
  BY <1>1, <1>10
<1>12. SubSeq(list, 1, n) = list
  BY <1>1
<1>13. DecodePostingsList(buf) = list
  BY <1>2, <1>6, <1>7, <1>11, <1>12
<1> QED
  BY <1>4, <1>5, <1>13 DEF buf

------------------------------------------------------------------------------
(* The index files. *)

\* Fields are sequences of words.
LEMMA FieldType ==
  ASSUME NEW d \in DocIDs, NEW field \in Fields
  PROVE  FieldOf(d, field) \in Seq(STRING)
<1>1. Docs \in Seq([Fields -> Seq(STRING)])
  BY WordsAssumption
<1>2. d + 1 \in 1 .. Len(Docs) /\ DOMAIN Docs = 1 .. Len(Docs)
      /\ \A i \in DOMAIN Docs : Docs[i] \in [Fields -> Seq(STRING)]
  <2>1. Len(Docs) \in Nat /\ DOMAIN Docs = 1 .. Len(Docs)
        /\ \A i \in DOMAIN Docs : Docs[i] \in [Fields -> Seq(STRING)]
    BY <1>1, SeqParts
  <2> QED
    BY <2>1 DEF DocIDs
<1>3. Docs[d + 1] \in [Fields -> Seq(STRING)]
  BY <1>2
<1> QED
  BY <1>3 DEF FieldOf

\* How often a word occurs is a number, positive if it does.
LEMMA TimesType ==
  ASSUME NEW word, NEW d \in DocIDs, NEW field \in Fields
  PROVE  /\ Times(word, d, field) \in Nat
         /\ Times(word, d, field) # 0 => word \in Range(FieldOf(d, field))
<1> DEFINE s == FieldOf(d, field)
           S == {i \in DOMAIN s : s[i] = word}
<1>1. s \in Seq(STRING)
  BY FieldType
<1>2. Len(s) \in Nat /\ DOMAIN s = 1 .. Len(s)
  BY <1>1, SeqParts
<1> HIDE DEF s
<1>3. IsFiniteSet(S) /\ Cardinality(S) \in Nat
  <2>1. S \subseteq 1 .. Len(s)
    BY <1>2
  <2> HIDE DEF S
  <2> QED
    BY <1>2, <2>1, FirstCount, FS_Subset, FS_CardinalityType
<1>4. Times(word, d, field) = Cardinality(S)
  BY DEF Times, s
<1>5. Cardinality(S) # 0 => S # {}
  BY FS_EmptySet
<1>6. S # {} => word \in Range(s)
  BY DEF Range
<1> QED
  BY <1>3, <1>4, <1>5, <1>6 DEF s

\* A posting list names documents that have the word in the field.
LEMMA PostingListIs ==
  ASSUME NEW field \in Fields, NEW word
  PROVE  /\ PostingList(field, word) \in Seq(Nat)
         /\ \A d \in Range(PostingList(field, word)) :
               d \in DocIDs /\ word \in Range(FieldOf(d, field))
<1> DEFINE one(i) == [n \in 1 .. Times(word, i - 1, field) |-> i - 1]
           all == [i \in DOMAIN Docs |-> one(i)]
<1>1. Len(Docs) \in Nat /\ DOMAIN Docs = 1 .. Len(Docs)
  BY WordsAssumption, SeqParts
<1>2. ASSUME NEW i \in 1 .. Len(Docs)
      PROVE  /\ one(i) \in Seq(Nat)
             /\ \A d \in Range(one(i)) : d \in DocIDs /\ word \in Range(FieldOf(d, field))
  <2> DEFINE d == i - 1
             n == Times(word, d, field)
  <2>1. d \in DocIDs /\ d \in Nat
    BY <1>1 DEF DocIDs
  <2> HIDE DEF d
  <2>2. n \in Nat /\ (n # 0 => word \in Range(FieldOf(d, field)))
    BY <2>1, TimesType
  <2>3. one(i) = [j \in 1 .. n |-> d]
    BY DEF d
  <2> HIDE DEF n, one
  <2>4. one(i) \in Seq(Nat)
    BY <2>1, <2>2, <2>3
  <2>5. ASSUME NEW e \in Range(one(i)) PROVE e = d /\ n # 0
    <3>1. PICK j \in 1 .. n : one(i)[j] = e
      BY <2>3 DEF Range
    <3> QED
      BY <2>2, <2>3, <3>1
  <2> QED
    BY <2>1, <2>2, <2>4, <2>5
<1>3. all \in Seq(Seq(Nat)) /\ DOMAIN all = 1 .. Len(Docs) /\ \A i \in 1 .. Len(Docs) : all[i] = one(i)
  <2>1. all = [i \in 1 .. Len(Docs) |-> all[i]] /\ \A i \in 1 .. Len(Docs) : all[i] = one(i)
    BY <1>1
  <2>2. \A i \in 1 .. Len(Docs) : all[i] \in Seq(Nat)
    BY <1>2, <2>1
  <2> HIDE DEF all, one
  <2> QED
    BY <1>1, <2>1, <2>2, IsSeq
<1>4. PostingList(field, word) = FlattenSeq(all)
  BY DEF PostingList
<1> HIDE DEF all, one
<1>5. /\ FlattenSeq(all) \in Seq(Nat)
      /\ \A x \in Range(FlattenSeq(all)) : \E j \in DOMAIN all : x \in Range(all[j])
  BY <1>3, FlattenRange
<1> QED
  BY <1>2, <1>3, <1>4, <1>5

\* The words have distinct places.
LEMMA TermsType ==
  /\ Terms \in Seq(STRING) /\ Len(Terms) \in Nat /\ DOMAIN Terms = 1 .. Len(Terms)
  /\ \A t, u \in DOMAIN Terms : Terms[t] = Terms[u] => t = u
<1>1. Terms \in Seq(STRING)
  BY WordsAssumption
<1>2. Len(Terms) \in Nat /\ DOMAIN Terms = 1 .. Len(Terms)
  BY <1>1, SeqParts
<1>3. IsInjective(Terms)
  BY SearcherAssumption
<1> QED
  BY <1>1, <1>2, <1>3 DEF IsInjective

\* The code of a term's list.
Code(field, t) == EncodePostingsList(PostingList(field, Terms[t]))

\* The code of a word's posting list decodes to the list, and is empty only if the list is.
LEMMA CodeType ==
  ASSUME NEW field \in Fields, NEW t
  PROVE  /\ Code(field, t) \in Seq(Nat) /\ Len(Code(field, t)) \in Nat
         /\ DecodePostingsList(Code(field, t)) = PostingList(field, Terms[t])
         /\ PostingList(field, Terms[t]) # <<>> => Code(field, t) # <<>>
<1>1. PostingList(field, Terms[t]) \in Seq(Nat)
  BY PostingListIs
<1>2. /\ Code(field, t) \in Seq(Nat)
      /\ DecodePostingsList(Code(field, t)) = PostingList(field, Terms[t])
      /\ PostingList(field, Terms[t]) # <<>> => Code(field, t) # <<>>
  BY <1>1, RoundTrip DEF Code
<1> QED
  BY <1>2

\* f[n] is what the first n lists take in the file.
Written(field, f) ==
  /\ Flattened([t \in 1 .. Len(Terms) |-> Code(field, t)], f)
  /\ \A n \in 0 .. Len(Terms) : FirstLists(field, n) = f[n]

\* The codes of the first n words as a sequence.
LEMMA CodesType ==
  ASSUME NEW field \in Fields, NEW n \in Nat
  PROVE  LET codes == [t \in 1 .. n |-> Code(field, t)]
         IN  /\ codes \in Seq(Seq(Nat)) /\ Len(codes) = n
             /\ \A t \in 1 .. n : codes[t] = Code(field, t)
<1> DEFINE codes == [t \in 1 .. n |-> Code(field, t)]
<1>1. \A t \in 1 .. n : Code(field, t) \in Seq(Nat)
  BY CodeType
<1>2. codes = [t \in 1 .. n |-> codes[t]] /\ \A t \in 1 .. n : codes[t] = Code(field, t)
  OBVIOUS
<1>3. \A t \in 1 .. n : codes[t] \in Seq(Nat)
  BY <1>1, <1>2
<1> HIDE DEF codes
<1>4. codes \in Seq(Seq(Nat)) /\ Len(codes) = n
  BY <1>2, <1>3, IsSeq
<1> QED
  BY <1>2, <1>4 DEF codes

\* There is a table of the starts of the codes in the file.
LEMMA WrittenExists ==
  ASSUME NEW field \in Fields
  PROVE  \E f : Written(field, f)
<1> DEFINE codes(n) == [t \in 1 .. n |-> Code(field, t)]
           N == Len(Terms)
<1>1. N \in Nat
  BY TermsType
<1>2. \A n \in Nat : /\ codes(n) \in Seq(Seq(Nat)) /\ Len(codes(n)) = n
                     /\ \A t \in 1 .. n : codes(n)[t] = Code(field, t)
  BY CodesType
<1>3. \A n \in Nat : FirstLists(field, n) = FlattenSeq(codes(n))
  BY DEF FirstLists, Code
<1> HIDE DEF codes
<1>4. PICK f : Flattened(codes(N), f) /\ FlattenSeq(codes(N)) = f[Len(codes(N))]
  BY <1>1, <1>2, FlattenIs
<1>5. ASSUME NEW n \in 0 .. N PROVE FirstLists(field, n) = f[n]
  <2>1. n \in Nat /\ n <= N
    BY <1>1
  <2>2. codes(n) \in Seq(Seq(Nat)) /\ Len(codes(n)) = n
    BY <1>2, <2>1
  <2>3. PICK g : Flattened(codes(n), g) /\ FlattenSeq(codes(n)) = g[Len(codes(n))]
    BY <2>2, FlattenIs
  <2>4. \A i \in 1 .. n : codes(n)[i] = codes(N)[i]
    <3>1. \A i \in 1 .. n : i \in 1 .. N
      BY <1>1, <2>1
    <3> QED
      BY <1>1, <1>2, <2>1, <3>1
  <2>5. g[n] = f[n]
    <3>1. codes(N) \in Seq(Seq(Nat)) /\ Len(codes(N)) = N
      BY <1>1, <1>2
    <3>2. n <= Len(codes(n)) /\ n <= Len(codes(N))
      BY <2>1, <2>2, <3>1
    <3>3. Len(codes(n)) \in Nat /\ Len(codes(N)) \in Nat
      BY <1>1, <2>1, <2>2, <3>1
    <3> HIDE DEF N
    <3>4. Flattened(codes(n), g) /\ Flattened(codes(N), f) /\ g[n] = f[n]
      BY <1>4, <2>1, <2>3, <2>4, <3>2, <3>3, FlattenedUnique
    <3> QED
      BY <3>4
  <2> QED
    BY <1>3, <2>1, <2>2, <2>3, <2>5
<1> QED
  BY <1>4, <1>5 DEF Written, codes

\* The whole of what an index file has for a word.
LEMMA ListIsThere ==
  ASSUME NEW field \in Fields, NEW word, HasPostings(field, word)
  PROVE  LET start == MetadataOf(field, word).start
             length == MetadataOf(field, word).length
         IN  /\ start \in Nat /\ length \in Nat /\ length # 0
             /\ IndexFile[field] \in Seq(Nat) /\ Len(IndexFile[field]) \in Nat
             /\ start + length <= Len(IndexFile[field])
             /\ DecodePostingsList(BytesAt(field, start, length)) = PostingList(field, word)
<1> DEFINE N == Len(Terms)
           codes == [t \in 1 .. N |-> Code(field, t)]
<1>1. PICK f : Written(field, f)
  BY WrittenExists
<1>2. N \in Nat /\ DOMAIN Terms = 1 .. N
  BY TermsType
<1>3. codes \in Seq(Seq(Nat)) /\ Len(codes) = N /\ \A t \in 1 .. N : codes[t] = Code(field, t)
  BY <1>2, CodesType
<1>4. Flattened(codes, f) /\ \A n \in 0 .. N : FirstLists(field, n) = f[n]
  BY <1>1 DEF Written
<1>5. IndexFile[field] = f[N]
  <2>1. IndexFile[field] = FirstLists(field, N)
    BY IndexAssumption
  <2>2. N \in 0 .. N
    BY <1>2
  <2> QED
    BY <1>4, <2>1, <2>2
<1>6. PICK t \in DOMAIN PostingMetadata[field] : Terms[t] = word
  BY DEF HasPostings
<1>7. /\ DOMAIN PostingMetadata[field] = {u \in DOMAIN Terms : PostingList(field, Terms[u]) # <<>>}
      /\ \A u \in DOMAIN PostingMetadata[field] :
            PostingMetadata[field][u] = [start |-> Len(FirstLists(field, u - 1)), length |-> Len(Code(field, u))]
  <2>1. PostingMetadata[field] =
          [u \in {u \in DOMAIN Terms : PostingList(field, Terms[u]) # <<>>} |->
              [start |-> Len(FirstLists(field, u - 1)), length |-> Len(Code(field, u))]]
    BY IndexAssumption DEF Code
  <2> QED
    BY <2>1
<1> HIDE DEF codes
<1>8. t \in 1 .. N /\ PostingList(field, Terms[t]) # <<>> /\ t - 1 \in 0 .. N /\ t \in 0 .. N
  <2>1. t \in 1 .. N /\ PostingList(field, Terms[t]) # <<>>
    BY <1>2, <1>6, <1>7
  <2> HIDE DEF N
  <2> QED
    BY <1>2, <2>1
<1>9. (CHOOSE u \in DOMAIN Terms : Terms[u] = word) = t
  BY <1>2, <1>6, <1>8, TermsType
<1>10. MetadataOf(field, word).start = Len(f[t - 1]) /\ MetadataOf(field, word).length = Len(Code(field, t))
  <2>1. MetadataOf(field, word) = [start |-> Len(FirstLists(field, t - 1)), length |-> Len(Code(field, t))]
    BY <1>6, <1>7, <1>9 DEF MetadataOf
  <2> QED
    BY <1>4, <1>8, <2>1
<1> DEFINE o == Len(f[t - 1])
           code == Code(field, t)
<1>11. /\ code \in Seq(Nat) /\ Len(code) \in Nat /\ code # <<>>
       /\ DecodePostingsList(code) = PostingList(field, word)
  BY <1>6, <1>8, CodeType
<1>12. f[t - 1] \in Seq(Nat) /\ o \in Nat
  <2>1. f[t - 1] \in Seq(Nat)
    BY <1>3, <1>4, <1>8, FlattenedType
  <2> QED
    BY <2>1
<1>13. f[t] = f[t - 1] \o code
  <2>1. f[t] = f[t - 1] \o codes[t]
    BY <1>3, <1>4, <1>8 DEF Flattened
  <2> QED
    BY <1>3, <1>8, <2>1
<1> HIDE DEF code
<1>14. /\ Len(f[t]) = o + Len(code)
       /\ \A i \in 1 .. Len(code) : f[t][o + i] = code[i]
  <2>1. PICK s : s = f[t - 1]
    OBVIOUS
  <2>2. PICK r : r = f[t]
    OBVIOUS
  <2>3. s \in Seq(Nat) /\ code \in Seq(Nat) /\ r = s \o code
    BY <1>11, <1>12, <1>13, <2>1, <2>2
  <2>4. /\ r \in Seq(Nat) /\ Len(r) = Len(s) + Len(code)
        /\ \A i \in 1 .. Len(code) : r[Len(s) + i] = code[i]
    BY <2>3, ConcatParts
  <2> QED
    BY <2>1, <2>2, <2>4
<1>15. /\ f[t] \in Seq(Nat) /\ f[N] \in Seq(Nat) /\ Len(f[t]) <= Len(f[N])
       /\ \A j \in 1 .. Len(f[t]) : f[N][j] = f[t][j]
  <2>1. t \in 0 .. Len(codes)
    BY <1>3, <1>8
  <2>2. /\ f[t] \in Seq(Nat) /\ f[Len(codes)] \in Seq(Nat) /\ Len(f[t]) <= Len(f[Len(codes)])
        /\ \A j \in 1 .. Len(f[t]) : f[Len(codes)][j] = f[t][j]
    BY <1>3, <1>4, <2>1, FlattenedPrefix
  <2> QED
    BY <1>3, <2>2
<1>16. Len(f[N]) \in Nat
  BY <1>15
<1> HIDE DEF o, N
<1>17. o + Len(code) <= Len(f[N])
  BY <1>14, <1>15
<1>18. BytesAt(field, o, Len(code)) = code
  <2>1. ASSUME NEW i \in 1 .. Len(code)
        PROVE  o + i <= Len(f[N]) /\ f[N][o + i] = code[i]
    <3>1. o + i \in 1 .. Len(f[t]) /\ o + i <= Len(f[N])
      BY <1>11, <1>12, <1>14, <1>16, <1>17
    <3> QED
      BY <1>14, <1>15, <3>1
  <2>2. BytesAt(field, o, Len(code)) = [i \in 1 .. Len(code) |-> code[i]]
    BY <1>5, <2>1 DEF BytesAt
  <2>3. code = [i \in 1 .. Len(code) |-> code[i]]
    BY <1>11
  <2> QED
    BY <2>2, <2>3
<1>19. Len(code) # 0
  BY <1>11
<1> QED
  BY <1>5, <1>10, <1>11, <1>12, <1>15, <1>16, <1>17, <1>18, <1>19 DEF o, code


\* Length and elements of a part of a sequence.
LEMMA SubSeqParts ==
  ASSUME NEW V, NEW s \in Seq(V), NEW a \in Nat, NEW b \in Nat, a >= 1, a <= b + 1, b <= Len(s),
         NEW r, r = SubSeq(s, a, b)
  PROVE  /\ r \in Seq(V) /\ Len(r) = b - a + 1
         /\ \A j \in 1 .. b - a + 1 : r[j] = s[a + j - 1]
<1>1. Len(s) \in Nat /\ \A i \in 1 .. Len(s) : s[i] \in V
  BY SeqParts
<1>2. r \in Seq(V) /\ Len(r) = b - a + 1
  BY <1>1
<1>3. \A j \in 1 .. b - a + 1 : r[j] = s[a + j - 1]
  BY <1>1
<1> QED
  BY <1>2, <1>3

\* Length and elements of the first part of a sequence.
LEMMA FirstParts ==
  ASSUME NEW V, NEW s \in Seq(V), NEW m \in Nat, m <= Len(s), NEW r, r = SubSeq(s, 1, m)
  PROVE  r \in Seq(V) /\ Len(r) = m /\ \A j \in 1 .. m : r[j] = s[j]
<1>1. /\ r \in Seq(V) /\ Len(r) = m - 1 + 1
      /\ \A j \in 1 .. m - 1 + 1 : r[j] = s[1 + j - 1]
  <2>1. 1 >= 1 /\ 1 <= m + 1
    OBVIOUS
  <2> QED
    BY <2>1, SubSeqParts
<1>2. m - 1 + 1 = m /\ \A j \in 1 .. m : 1 + j - 1 = j
  OBVIOUS
<1> QED
  BY <1>1, <1>2

\* Head, length and elements of the tail.
LEMMA TailParts ==
  ASSUME NEW V, NEW s \in Seq(V), s # <<>>, NEW r, r = Tail(s)
  PROVE  /\ r \in Seq(V) /\ Len(r) = Len(s) - 1 /\ Head(s) = s[1] /\ Head(s) \in V
         /\ \A j \in 1 .. Len(s) - 1 : r[j] = s[j + 1]
<1>1. Len(s) \in Nat /\ Len(s) # 0 /\ \A i \in 1 .. Len(s) : s[i] \in V
  BY SeqParts
<1>2. Head(s) = s[1] /\ s[1] \in V
  BY <1>1
<1>3. r \in Seq(V) /\ Len(r) = Len(s) - 1
  BY <1>1
<1>4. \A j \in 1 .. Len(s) - 1 : r[j] = s[j + 1]
  BY <1>1
<1> QED
  BY <1>2, <1>3, <1>4
------------------------------------------------------------------------------
(* The intersection of posting lists. *)

Ascending(list) == \A i, j \in DOMAIN list : i <= j => list[i] <= list[j]

Unmerged == [i |-> 1, j |-> 1, result |-> <<>>]
Merge(a, b) == FoldLeft(LAMBDA s, any : Merged(a, b, s), Unmerged, a \o b)

MergeByTable(a, b, W, f) ==
  /\ f[0] = Unmerged
  /\ \A i \in 1 .. Len(a \o b) : f[i] = Merged(a, b, f[i - 1])
  /\ \A i \in 0 .. Len(a \o b) : f[i] \in W
  /\ Merge(a, b) = f[Len(a \o b)]

\* The loop of the intersection as a table with one entry for each turn.
LEMMA MergeBy ==
  ASSUME NEW W, NEW a, NEW b, Len(a \o b) \in Nat, DOMAIN (a \o b) = 1 .. Len(a \o b), Unmerged \in W,
         \A w \in W : \A i \in 1 .. Len(a \o b) : Merged(a, b, w) \in W
  PROVE  \E f : MergeByTable(a, b, W, f)
<1> DEFINE n == Len(a \o b)
           F == [p \in W \X (1 .. n) |-> Merged(a, b, p[1])]
           Table(h) == h = [s \in SUBSET (1 .. n) |->
                              IF s = {} THEN Unmerged ELSE Merged(a, b, h[s \ {Max(s)}])]
           h0 == CHOOSE h : Table(h)
<1>1. n \in Nat /\ DOMAIN (a \o b) = 1 .. n
  OBVIOUS
<1>2. Merge(a, b) = h0[1 .. n]
  BY <1>1 DEF Merge, FoldLeft, MapThenFoldSet
<1>3. PICK g : IsFold(F, Unmerged, n, g) /\ \A s \in SUBSET (1 .. n) : g[s] \in W
  <2>1. \A w \in W : \A i \in 1 .. n : F[<<w, i>>] \in W
    OBVIOUS
  <2>2. n \in Nat
    BY <1>1
  <2> HIDE DEF n, F
  <2> QED
    BY <2>1, <2>2, FoldTyped
<1>4. Table(g)
  <2>1. ASSUME NEW s \in SUBSET (1 .. n), s # {}
        PROVE  F[<<g[s \ {Max(s)}], Max(s)>>] = Merged(a, b, g[s \ {Max(s)}])
    <3>1. n \in Nat
      BY <1>1
    <3> HIDE DEF n
    <3>2. Max(s) \in s /\ s \ {Max(s)} \in SUBSET (1 .. n)
      BY <2>1, <3>1, LastPlace
    <3>3. Max(s) \in 1 .. n /\ g[s \ {Max(s)}] \in W
      BY <1>3, <3>2
    <3> QED
      BY <3>3
  <2> HIDE DEF n, F
  <2>2. g = [s \in SUBSET (1 .. n) |-> IF s = {} THEN Unmerged ELSE F[<<g[s \ {Max(s)}], Max(s)>>]]
    BY <1>3 DEF IsFold
  <2>3. \A s \in SUBSET (1 .. n) :
          (IF s = {} THEN Unmerged ELSE F[<<g[s \ {Max(s)}], Max(s)>>])
            = (IF s = {} THEN Unmerged ELSE Merged(a, b, g[s \ {Max(s)}]))
    BY <2>1
  <2> QED
    BY <2>2, <2>3
<1>5. Table(h0)
  <2> HIDE DEF Table
  <2> QED
    BY <1>4
<1> HIDE DEF h0
<1>6. \A s \in SUBSET (1 .. n) :
        h0[s] = IF s = {} THEN Unmerged ELSE Merged(a, b, h0[s \ {Max(s)}])
  BY <1>5
<1> DEFINE f == [i \in 0 .. n |-> h0[1 .. i]]
<1>7. f[0] = Unmerged /\ f[n] = h0[1 .. n]
  <2>1. 1 .. 0 = {} /\ 0 \in 0 .. n /\ n \in 0 .. n
    BY <1>1
  <2>2. f[0] = h0[1 .. 0] /\ f[n] = h0[1 .. n]
    BY <2>1
  <2> HIDE DEF n, f
  <2> QED
    BY <1>6, <2>1, <2>2
<1>8. ASSUME NEW i \in 1 .. n PROVE f[i] = Merged(a, b, f[i - 1])
  <2>1. f[i] = h0[1 .. i] /\ f[i - 1] = h0[1 .. i - 1]
    BY <1>1
  <2>2. n \in Nat
    BY <1>1
  <2> HIDE DEF n, f
  <2>3. /\ 1 .. i \in SUBSET (1 .. n) /\ 1 .. i # {} /\ (1 .. i) \ {i} = 1 .. i - 1
        /\ Max(1 .. i) = i
    BY <2>2, FirstPlaces
  <2> QED
    BY <1>6, <2>1, <2>3
<1>9. \A i \in 0 .. n : f[i] \in W
  <2> DEFINE T == {i \in Nat : i <= n => f[i] \in W}
  <2>0. n \in Nat /\ \A w \in W : \A i \in 1 .. n : Merged(a, b, w) \in W
    BY <1>1
  <2> HIDE DEF n, f
  <2>1. 0 \in T
    BY <1>7
  <2>2. ASSUME NEW i \in Nat, i \in T PROVE i + 1 \in T
    <3>1. SUFFICES ASSUME i + 1 <= n PROVE f[i + 1] \in W
      OBVIOUS
    <3>2. i + 1 \in 1 .. n /\ (i + 1) - 1 = i /\ f[i] \in W
      BY <2>0, <2>2, <3>1
    <3>3. f[i + 1] = Merged(a, b, f[(i + 1) - 1])
      BY <1>8, <3>2
    <3> QED
      BY <2>0, <3>2, <3>3
  <2>3. Nat \subseteq T
    <3> HIDE DEF T
    <3> QED
      BY <2>1, <2>2, NatInductive
  <2>4. \A i \in 0 .. n : i \in Nat /\ i <= n
    BY <2>0
  <2> QED
    BY <2>3, <2>4
<1> HIDE DEF f
<1> QED
  BY <1>2, <1>7, <1>8, <1>9 DEF MergeByTable

Merging == [i : Nat, j : Nat, result : Seq(Nat)]

\* What the loop has done after k turns.
MergedTo(a, b, k, s) ==
  /\ s \in Merging /\ s.i >= 1 /\ s.j >= 1
  /\ \A x \in DOMAIN a : x < s.i /\ a[x] \in Range(b) => a[x] \in Range(s.result)
  /\ \A y \in DOMAIN b : y < s.j /\ b[y] \in Range(a) => b[y] \in Range(s.result)
  /\ \A r \in Range(s.result) : r \in Range(b) /\ \E x \in DOMAIN a : x < s.i /\ a[x] = r
  /\ Ascending(s.result)
  /\ s.i > Len(a) \/ s.j > Len(b) \/ s.i + s.j >= k + 2

\* Append adds one element.
LEMMA AppendRange ==
  ASSUME NEW V, NEW s \in Seq(V), NEW x \in V
  PROVE  Range(Append(s, x)) = Range(s) \cup {x}
<1> DEFINE r == Append(s, x)
<1>1. /\ r \in Seq(V) /\ Len(r) = Len(s) + 1
      /\ \A i \in 1 .. Len(s) : r[i] = s[i]
      /\ r[Len(s) + 1] = x
  BY AppendParts
<1> HIDE DEF r
<1>2. Len(s) \in Nat /\ DOMAIN s = 1 .. Len(s) /\ DOMAIN r = 1 .. Len(s) + 1
  BY <1>1
<1>3. ASSUME NEW i \in DOMAIN r
      PROVE  r[i] \in Range(s) \cup {x}
  <2>1. CASE i = Len(s) + 1
    BY <1>1, <2>1
  <2>2. CASE i # Len(s) + 1
    <3>1. i \in DOMAIN s /\ r[i] = s[i]
      BY <1>1, <1>2, <2>2
    <3> QED
      BY <3>1 DEF Range
  <2> QED
    BY <2>1, <2>2
<1>4. ASSUME NEW i \in DOMAIN s
      PROVE  s[i] \in Range(r)
  <2>1. i \in DOMAIN r /\ r[i] = s[i]
    BY <1>1, <1>2
  <2> QED
    BY <2>1 DEF Range
<1>5. x \in Range(r)
  <2>1. Len(s) + 1 \in DOMAIN r
    BY <1>2
  <2> QED
    BY <1>1, <2>1 DEF Range
<1>6. Range(r) = Range(s) \cup {x}
  BY <1>3, <1>4, <1>5 DEF Range
<1> QED
  BY <1>6 DEF r

\* Append keeps a list in order if the element is as large as any before.
LEMMA AppendAscending ==
  ASSUME NEW s \in Seq(Nat), NEW x \in Nat, Ascending(s), \A r \in Range(s) : r <= x
  PROVE  Ascending(Append(s, x))
<1> DEFINE r == Append(s, x)
<1>1. /\ r \in Seq(Nat) /\ Len(r) = Len(s) + 1
      /\ \A i \in 1 .. Len(s) : r[i] = s[i]
      /\ r[Len(s) + 1] = x
  BY AppendParts
<1> HIDE DEF r
<1>2. Len(s) \in Nat /\ DOMAIN s = 1 .. Len(s) /\ DOMAIN r = 1 .. Len(s) + 1
  BY <1>1
<1>3. ASSUME NEW i \in DOMAIN r, NEW j \in DOMAIN r, i <= j
      PROVE  r[i] <= r[j]
  <2>1. CASE j # Len(s) + 1
    <3>1. i \in DOMAIN s /\ j \in DOMAIN s /\ r[i] = s[i] /\ r[j] = s[j]
      BY <1>1, <1>2, <1>3, <2>1
    <3> QED
      BY <1>3, <3>1 DEF Ascending
  <2>2. CASE j = Len(s) + 1 /\ i # Len(s) + 1
    <3>1. i \in DOMAIN s /\ r[i] = s[i] /\ r[j] = x
      BY <1>1, <1>2, <2>2
    <3>2. s[i] \in Range(s)
      BY <3>1 DEF Range
    <3> QED
      BY <3>1, <3>2
  <2>3. CASE j = Len(s) + 1 /\ i = Len(s) + 1
    BY <1>1, <2>3
  <2> QED
    BY <2>1, <2>2, <2>3
<1>4. Ascending(r)
  BY <1>3 DEF Ascending
<1> QED
  BY <1>4 DEF r

\* One turn of the intersection keeps what its loop maintains (PostingListIntersection2).
LEMMA MergedTurn ==
  ASSUME NEW a \in Seq(Nat), NEW b \in Seq(Nat), Ascending(a), Ascending(b),
         NEW k \in Nat, NEW s, MergedTo(a, b, k, s)
  PROVE  MergedTo(a, b, k + 1, Merged(a, b, s))
<1>1. /\ s \in Merging /\ s.i \in Nat /\ s.j \in Nat /\ s.i >= 1 /\ s.j >= 1 /\ s.result \in Seq(Nat)
      /\ s = [i |-> s.i, j |-> s.j, result |-> s.result]
  BY DEF MergedTo, Merging
<1>2. /\ \A x \in DOMAIN a : x < s.i /\ a[x] \in Range(b) => a[x] \in Range(s.result)
      /\ \A y \in DOMAIN b : y < s.j /\ b[y] \in Range(a) => b[y] \in Range(s.result)
      /\ \A r \in Range(s.result) : r \in Range(b) /\ \E x \in DOMAIN a : x < s.i /\ a[x] = r
      /\ Ascending(s.result)
      /\ s.i > Len(a) \/ s.j > Len(b) \/ s.i + s.j >= k + 2
  BY DEF MergedTo
<1>3. /\ Len(a) \in Nat /\ DOMAIN a = 1 .. Len(a) /\ \A x \in DOMAIN a : a[x] \in Nat
      /\ Len(b) \in Nat /\ DOMAIN b = 1 .. Len(b) /\ \A y \in DOMAIN b : b[y] \in Nat
  BY SeqParts
<1>4. CASE s.i > Len(a) \/ s.j > Len(b)
  <2>1. Merged(a, b, s) = s
    BY <1>4 DEF Merged
  <2> QED
    BY <1>1, <1>2, <1>4, <2>1 DEF MergedTo
<1>5. CASE ~ (s.i > Len(a) \/ s.j > Len(b))
  <2>1. s.i \in DOMAIN a /\ s.j \in DOMAIN b /\ a[s.i] \in Nat /\ b[s.j] \in Nat
    BY <1>1, <1>3, <1>5
  <2>p. s.i + s.j >= k + 2
    BY <1>2, <1>5
  <2>2. CASE a[s.i] < b[s.j]
    <3> DEFINE t == [i |-> s.i + 1, j |-> s.j, result |-> s.result]
    <3>1. Merged(a, b, s) = t
      BY <1>1, <1>5, <2>2 DEF Merged
    <3>2. t \in Merging /\ t.i = s.i + 1 /\ t.j = s.j /\ t.result = s.result
      BY <1>1 DEF Merging
    <3> HIDE DEF t
    <3>3. ASSUME NEW x \in DOMAIN a, x < s.i + 1, a[x] \in Range(b)
          PROVE  a[x] \in Range(s.result)
      <4>1. CASE x < s.i
        BY <1>2, <3>3, <4>1
      <4>2. CASE x = s.i
        <5>1. PICK y \in DOMAIN b : b[y] = a[x]
          BY <3>3 DEF Range
        <5>2. ~ (s.j <= y)
          BY <1>3, <2>1, <2>2, <4>2, <5>1 DEF Ascending
        <5>3. y < s.j
          BY <1>1, <1>3, <5>2
        <5>4. b[y] \in Range(a)
          BY <5>1 DEF Range
        <5> QED
          BY <1>2, <5>1, <5>3, <5>4
      <4> QED
        BY <1>1, <1>3, <3>3, <4>1, <4>2
    <3>4. \A r \in Range(s.result) : r \in Range(b) /\ \E x \in DOMAIN a : x < s.i + 1 /\ a[x] = r
      <4>1. \A x \in DOMAIN a : x < s.i => x < s.i + 1
        BY <1>1, <1>3
      <4> QED
        BY <1>2, <4>1
    <3>5. t.i >= 1 /\ t.j >= 1 /\ t.i + t.j >= k + 1 + 2
      BY <1>1, <2>p, <3>2
    <3>6. MergedTo(a, b, k + 1, t)
      BY <1>2, <3>2, <3>3, <3>4, <3>5 DEF MergedTo
    <3> QED
      BY <3>1, <3>6
  <2>3. CASE b[s.j] < a[s.i]
    <3> DEFINE t == [i |-> s.i, j |-> s.j + 1, result |-> s.result]
    <3>0. ~ (a[s.i] < b[s.j])
      BY <2>1, <2>3
    <3>1. Merged(a, b, s) = t
      BY <1>1, <1>5, <2>3, <3>0 DEF Merged
    <3>2. t \in Merging /\ t.i = s.i /\ t.j = s.j + 1 /\ t.result = s.result
      BY <1>1 DEF Merging
    <3> HIDE DEF t
    <3>3. ASSUME NEW y \in DOMAIN b, y < s.j + 1, b[y] \in Range(a)
          PROVE  b[y] \in Range(s.result)
      <4>1. CASE y < s.j
        BY <1>2, <3>3, <4>1
      <4>2. CASE y = s.j
        <5>1. PICK x \in DOMAIN a : a[x] = b[y]
          BY <3>3 DEF Range
        <5>2. ~ (s.i <= x)
          BY <1>3, <2>1, <2>3, <4>2, <5>1 DEF Ascending
        <5>3. x < s.i
          BY <1>1, <1>3, <5>2
        <5>4. a[x] \in Range(b)
          BY <5>1 DEF Range
        <5> QED
          BY <1>2, <5>1, <5>3, <5>4
      <4> QED
        BY <1>1, <1>3, <3>3, <4>1, <4>2
    <3>5. t.i >= 1 /\ t.j >= 1 /\ t.i + t.j >= k + 1 + 2
      BY <1>1, <2>p, <3>2
    <3>6. MergedTo(a, b, k + 1, t)
      BY <1>2, <3>2, <3>3, <3>5 DEF MergedTo
    <3> QED
      BY <3>1, <3>6
  <2>4. CASE a[s.i] = b[s.j]
    <3> DEFINE new == Append(s.result, a[s.i])
               t == [i |-> s.i + 1, j |-> s.j + 1, result |-> new]
    <3>0. ~ (a[s.i] < b[s.j]) /\ ~ (b[s.j] < a[s.i])
      BY <2>1, <2>4
    <3>1. Merged(a, b, s) = t
      BY <1>1, <1>5, <2>4, <3>0 DEF Merged
    <3>n. new \in Seq(Nat) /\ Range(new) = Range(s.result) \cup {a[s.i]}
      BY <1>1, <2>1, AppendRange
    <3>a. Ascending(new)
      <4>1. ASSUME NEW r \in Range(s.result) PROVE r <= a[s.i]
        <5>1. PICK x \in DOMAIN a : x < s.i /\ a[x] = r
          BY <1>2
        <5>2. x <= s.i
          BY <1>1, <1>3, <5>1
        <5> QED
          BY <2>1, <5>1, <5>2 DEF Ascending
      <4> QED
        BY <1>1, <1>2, <2>1, <4>1, AppendAscending
    <3> HIDE DEF new
    <3>2. t \in Merging /\ t.i = s.i + 1 /\ t.j = s.j + 1 /\ t.result = new
      BY <1>1, <3>n DEF Merging
    <3> HIDE DEF t
    <3>3. ASSUME NEW x \in DOMAIN a, x < s.i + 1, a[x] \in Range(b)
          PROVE  a[x] \in Range(new)
      <4>1. CASE x < s.i
        BY <1>2, <3>3, <3>n, <4>1
      <4>2. CASE x = s.i
        BY <3>n, <4>2
      <4> QED
        BY <1>1, <1>3, <3>3, <4>1, <4>2
    <3>4. ASSUME NEW y \in DOMAIN b, y < s.j + 1, b[y] \in Range(a)
          PROVE  b[y] \in Range(new)
      <4>1. CASE y < s.j
        BY <1>2, <3>4, <3>n, <4>1
      <4>2. CASE y = s.j
        BY <2>4, <3>n, <4>2
      <4> QED
        BY <1>1, <1>3, <3>4, <4>1, <4>2
    <3>5. ASSUME NEW r \in Range(new)
          PROVE  r \in Range(b) /\ \E x \in DOMAIN a : x < s.i + 1 /\ a[x] = r
      <4>1. CASE r \in Range(s.result)
        <5>1. \A x \in DOMAIN a : x < s.i => x < s.i + 1
          BY <1>1, <1>3
        <5> QED
          BY <1>2, <4>1, <5>1
      <4>2. CASE r = a[s.i]
        <5>1. r \in Range(b)
          BY <2>1, <2>4, <4>2 DEF Range
        <5>2. s.i < s.i + 1
          BY <1>1
        <5> QED
          BY <2>1, <4>2, <5>1, <5>2
      <4> QED
        BY <3>n, <4>1, <4>2
    <3>6. t.i >= 1 /\ t.j >= 1 /\ t.i + t.j >= k + 1 + 2
      BY <1>1, <2>p, <3>2
    <3>7. MergedTo(a, b, k + 1, t)
      BY <3>2, <3>3, <3>4, <3>5, <3>6, <3>a DEF MergedTo
    <3> QED
      BY <3>1, <3>7
  <2> QED
    BY <2>1, <2>2, <2>3, <2>4
<1> QED
  BY <1>4, <1>5

\* Of lists in order it has what is in both, in order.
LEMMA IntersectionIs ==
  ASSUME NEW a \in Seq(Nat), NEW b \in Seq(Nat), Ascending(a), Ascending(b)
  PROVE  LET both == PostingListIntersection2(a, b)
         IN  both \in Seq(Nat) /\ Ascending(both) /\ Range(both) = Range(a) \cap Range(b)
<1> DEFINE c == a \o b
           n == Len(c)
           W == UNION {{s \in Merging : MergedTo(a, b, k, s)} : k \in Nat}
<1>1. /\ Len(a) \in Nat /\ DOMAIN a = 1 .. Len(a) /\ \A x \in DOMAIN a : a[x] \in Nat
      /\ Len(b) \in Nat /\ DOMAIN b = 1 .. Len(b) /\ \A y \in DOMAIN b : b[y] \in Nat
  BY SeqParts
<1>2. n \in Nat /\ DOMAIN c = 1 .. n /\ n = Len(a) + Len(b)
  <2>1. c \in Seq(Nat) /\ Len(c) = Len(a) + Len(b)
    BY ConcatParts
  <2> HIDE DEF c
  <2> QED
    BY <2>1, SeqParts
<1>3. MergedTo(a, b, 0, Unmerged) /\ Unmerged \in Merging
  <2>1. /\ Unmerged \in Merging /\ Unmerged.i = 1 /\ Unmerged.j = 1 /\ Unmerged.result = <<>>
    BY DEF Unmerged, Merging
  <2>2. Range(<<>>) = {} /\ Ascending(<<>>)
    BY DEF Range, Ascending
  <2>3. \A x : x \in DOMAIN a \/ x \in DOMAIN b => ~ (x < 1)
    BY <1>1
  <2> QED
    BY <2>1, <2>2, <2>3 DEF MergedTo
<1>4. Unmerged \in W /\ \A w \in W : \A i \in 1 .. Len(a \o b) : Merged(a, b, w) \in W
  <2>1. Unmerged \in W
    BY <1>3
  <2>2. ASSUME NEW w \in W PROVE Merged(a, b, w) \in W
    <3>1. PICK k \in Nat : MergedTo(a, b, k, w)
      OBVIOUS
    <3>2. MergedTo(a, b, k + 1, Merged(a, b, w))
      BY <3>1, MergedTurn
    <3>3. Merged(a, b, w) \in Merging /\ k + 1 \in Nat
      BY <3>2 DEF MergedTo
    <3> QED
      BY <3>2, <3>3
  <2> HIDE DEF W
  <2> QED
    BY <2>1, <2>2
<1>5. PICK f : MergeByTable(a, b, W, f)
  <2>1. Len(a \o b) \in Nat /\ DOMAIN (a \o b) = 1 .. Len(a \o b)
    BY <1>2
  <2> HIDE DEF W
  <2> QED
    BY <1>4, <2>1, MergeBy
<1>6. /\ f[0] = Unmerged /\ \A i \in 1 .. n : f[i] = Merged(a, b, f[i - 1])
      /\ Merge(a, b) = f[n]
  <2> HIDE DEF W
  <2> QED
    BY <1>5 DEF MergeByTable
<1>7. MergedTo(a, b, n, f[n])
  <2> DEFINE T == {i \in Nat : i <= n => MergedTo(a, b, i, f[i])}
  <2> HIDE DEF n, c, W
  <2>1. 0 \in T
    BY <1>3, <1>6
  <2>2. ASSUME NEW i \in Nat, i \in T PROVE i + 1 \in T
    <3>1. SUFFICES ASSUME i + 1 <= n PROVE MergedTo(a, b, i + 1, f[i + 1])
      OBVIOUS
    <3>2. i + 1 \in 1 .. n /\ (i + 1) - 1 = i /\ MergedTo(a, b, i, f[i])
      BY <1>2, <2>2, <3>1
    <3>3. PICK s : s = f[i]
      OBVIOUS
    <3>4. MergedTo(a, b, i + 1, Merged(a, b, s))
      BY <3>2, <3>3, MergedTurn
    <3> QED
      BY <1>6, <3>2, <3>3, <3>4
  <2>3. Nat \subseteq T
    <3> HIDE DEF T
    <3> QED
      BY <2>1, <2>2, NatInductive
  <2> QED
    BY <1>2, <2>3
<1>8. PICK s : s = f[n]
  OBVIOUS
<1>9. PostingListIntersection2(a, b) = s.result
  BY <1>6, <1>8 DEF PostingListIntersection2, Merge, Unmerged
<1> HIDE DEF n, c, W
<1>10. /\ s \in Merging /\ s.i \in Nat /\ s.j \in Nat /\ s.result \in Seq(Nat)
  BY <1>7, <1>8 DEF MergedTo, Merging
<1>11. /\ \A x \in DOMAIN a : x < s.i /\ a[x] \in Range(b) => a[x] \in Range(s.result)
       /\ \A y \in DOMAIN b : y < s.j /\ b[y] \in Range(a) => b[y] \in Range(s.result)
       /\ \A r \in Range(s.result) : r \in Range(b) /\ \E x \in DOMAIN a : x < s.i /\ a[x] = r
       /\ Ascending(s.result)
       /\ s.i > Len(a) \/ s.j > Len(b) \/ s.i + s.j >= n + 2
  BY <1>7, <1>8 DEF MergedTo
<1>12. s.i > Len(a) \/ s.j > Len(b)
  BY <1>1, <1>2, <1>10, <1>11
<1>13. ASSUME NEW r \in Range(a), r \in Range(b)
       PROVE  r \in Range(s.result)
  <2>1. PICK x \in DOMAIN a : a[x] = r
    BY DEF Range
  <2>2. PICK y \in DOMAIN b : b[y] = r
    BY <1>13 DEF Range
  <2>3. x < s.i \/ y < s.j
    BY <1>1, <1>10, <1>12
  <2> QED
    BY <1>11, <1>13, <2>1, <2>2, <2>3
<1>14. ASSUME NEW r \in Range(s.result)
       PROVE  r \in Range(a) /\ r \in Range(b)
  <2>1. PICK x \in DOMAIN a : a[x] = r
    BY <1>11
  <2> QED
    BY <1>11, <2>1 DEF Range
<1> QED
  BY <1>9, <1>10, <1>11, <1>13, <1>14

------------------------------------------------------------------------------
(* Posting lists are in order and complete. *)

\* Two ascending lists, the second above the first, are ascending one after the other.
LEMMA ConcatAscending ==
  ASSUME NEW s \in Seq(Nat), NEW t \in Seq(Nat), Ascending(s), Ascending(t),
         \A x \in Range(s) : \A y \in Range(t) : x <= y
  PROVE  Ascending(s \o t)
<1> DEFINE r == s \o t
<1>1. /\ r \in Seq(Nat) /\ Len(r) = Len(s) + Len(t)
      /\ \A i \in 1 .. Len(s) : r[i] = s[i]
      /\ \A i \in 1 .. Len(t) : r[Len(s) + i] = t[i]
  BY ConcatParts
<1> HIDE DEF r
<1>2. /\ Len(s) \in Nat /\ Len(t) \in Nat /\ DOMAIN s = 1 .. Len(s) /\ DOMAIN t = 1 .. Len(t)
      /\ DOMAIN r = 1 .. Len(s) + Len(t)
  BY <1>1
<1>3. ASSUME NEW i \in DOMAIN r, ~ (i <= Len(s))
      PROVE  i - Len(s) \in DOMAIN t /\ r[i] = t[i - Len(s)]
  <2>1. i - Len(s) \in 1 .. Len(t) /\ Len(s) + (i - Len(s)) = i
    BY <1>2, <1>3
  <2>2. PICK j : j = i - Len(s)
    OBVIOUS
  <2>3. r[Len(s) + j] = t[j]
    BY <1>1, <2>1, <2>2
  <2> QED
    BY <1>2, <2>1, <2>2, <2>3
<1>4. ASSUME NEW i \in DOMAIN r, i <= Len(s)
      PROVE  i \in DOMAIN s /\ r[i] = s[i]
  BY <1>1, <1>2, <1>4
<1>5. ASSUME NEW i \in DOMAIN r, NEW j \in DOMAIN r, i <= j
      PROVE  r[i] <= r[j]
  <2>1. CASE j <= Len(s)
    <3>1. i <= Len(s)
      BY <1>2, <1>5, <2>1
    <3> QED
      BY <1>4, <1>5, <2>1, <3>1 DEF Ascending
  <2>2. CASE i <= Len(s) /\ ~ (j <= Len(s))
    <3>1. s[i] \in Range(s) /\ t[j - Len(s)] \in Range(t)
      BY <1>3, <1>4, <2>2 DEF Range
    <3> QED
      BY <1>3, <1>4, <2>2, <3>1
  <2>3. CASE ~ (i <= Len(s)) /\ ~ (j <= Len(s))
    <3>1. i - Len(s) <= j - Len(s)
      BY <1>2, <1>5
    <3> QED
      BY <1>3, <2>3, <3>1 DEF Ascending
  <2> QED
    BY <2>1, <2>2, <2>3
<1>6. Ascending(r)
  BY <1>5 DEF Ascending
<1> QED
  BY <1>6 DEF r

\* Ascending lists one after the other, each above those before, are ascending.
LEMMA FlattenAscending ==
  ASSUME NEW seqs \in Seq(Seq(Nat)), \A i \in DOMAIN seqs : Ascending(seqs[i]),
         \A i, j \in DOMAIN seqs : i < j => \A x \in Range(seqs[i]) : \A y \in Range(seqs[j]) : x <= y
  PROVE  Ascending(FlattenSeq(seqs))
<1> DEFINE n == Len(seqs)
<1>1. n \in Nat /\ DOMAIN seqs = 1 .. n /\ \A i \in 1 .. n : seqs[i] \in Seq(Nat)
  BY SeqParts
<1>2. PICK f : Flattened(seqs, f) /\ FlattenSeq(seqs) = f[Len(seqs)]
  BY FlattenIs
<1> DEFINE T == {i \in Nat : i <= n => Ascending(f[i])}
<1> HIDE DEF n
<1>3. 0 \in T
  BY <1>2 DEF Flattened, Ascending
<1>4. ASSUME NEW i \in Nat, i \in T PROVE i + 1 \in T
  <2>1. SUFFICES ASSUME i + 1 <= n PROVE Ascending(f[i + 1])
    OBVIOUS
  <2>2. i + 1 \in 1 .. n /\ (i + 1) - 1 = i /\ Ascending(f[i]) /\ i \in 0 .. n
    BY <1>1, <1>4, <2>1
  <2>3. f[i + 1] = f[i] \o seqs[i + 1] /\ seqs[i + 1] \in Seq(Nat) /\ Ascending(seqs[i + 1])
    <3>1. f[i + 1] = f[(i + 1) - 1] \o seqs[i + 1]
      BY <1>2, <2>2 DEF Flattened, n
    <3> QED
      BY <1>1, <2>2, <3>1
  <2>4. /\ f[i] \in Seq(Nat)
        /\ \A x \in Range(f[i]) : \E j \in 1 .. i : x \in Range(seqs[j])
    <3>1. i \in 0 .. Len(seqs)
      BY <2>2 DEF n
    <3> QED
      BY <1>2, <3>1, FlattenedRange
  <2>5. ASSUME NEW x \in Range(f[i]), NEW y \in Range(seqs[i + 1]) PROVE x <= y
    <3>1. PICK j \in 1 .. i : x \in Range(seqs[j])
      BY <2>4
    <3>2. j \in DOMAIN seqs /\ i + 1 \in DOMAIN seqs /\ j < i + 1
      BY <1>1, <2>2
    <3> QED
      BY <3>1, <3>2
  <2>6. PICK u, v : u = f[i] /\ v = seqs[i + 1]
    OBVIOUS
  <2>7. Ascending(u \o v)
    BY <2>2, <2>3, <2>4, <2>5, <2>6, ConcatAscending
  <2> QED
    BY <2>3, <2>6, <2>7
<1>5. Nat \subseteq T
  <2> HIDE DEF T
  <2> QED
    BY <1>3, <1>4, NatInductive
<1> QED
  BY <1>1, <1>2, <1>5 DEF n

\* A word of a field occurs in it.
LEMMA TimesPositive ==
  ASSUME NEW word, NEW d \in DocIDs, NEW field \in Fields, word \in Range(FieldOf(d, field))
  PROVE  Times(word, d, field) # 0
<1> DEFINE s == FieldOf(d, field)
           S == {i \in DOMAIN s : s[i] = word}
<1>1. s \in Seq(STRING)
  BY FieldType
<1>2. Len(s) \in Nat /\ DOMAIN s = 1 .. Len(s)
  BY <1>1, SeqParts
<1>3. S # {}
  BY DEF Range
<1> HIDE DEF s
<1>4. IsFiniteSet(S)
  <2>1. S \subseteq 1 .. Len(s)
    BY <1>2
  <2> HIDE DEF S
  <2> QED
    BY <1>2, <2>1, FirstCount, FS_Subset
<1>5. Times(word, d, field) = Cardinality(S)
  BY DEF Times, s
<1> HIDE DEF S
<1> QED
  BY <1>3, <1>4, <1>5, FS_EmptySet

\* A posting list is ascending and has the documents whose field has the word.
LEMMA PostingListInOrder ==
  ASSUME NEW field \in Fields, NEW word
  PROVE  /\ PostingList(field, word) \in Seq(Nat) /\ Ascending(PostingList(field, word))
         /\ Range(PostingList(field, word)) = {d \in DocIDs : word \in Range(FieldOf(d, field))}
<1> DEFINE one(i) == [n \in 1 .. Times(word, i - 1, field) |-> i - 1]
           all == [i \in DOMAIN Docs |-> one(i)]
<1>1. Len(Docs) \in Nat /\ DOMAIN Docs = 1 .. Len(Docs)
  BY WordsAssumption, SeqParts
<1>2. ASSUME NEW i \in 1 .. Len(Docs)
      PROVE  /\ one(i) \in Seq(Nat) /\ Ascending(one(i))
             /\ \A e \in Range(one(i)) : e = i - 1
             /\ word \in Range(FieldOf(i - 1, field)) => i - 1 \in Range(one(i))
  <2> DEFINE d == i - 1
             n == Times(word, d, field)
  <2>1. d \in DocIDs /\ d \in Nat
    BY <1>1 DEF DocIDs
  <2> HIDE DEF d
  <2>2. n \in Nat /\ (word \in Range(FieldOf(d, field)) => n # 0)
    BY <2>1, TimesType, TimesPositive
  <2>3. one(i) = [j \in 1 .. n |-> d]
    BY DEF d
  <2> HIDE DEF n, one
  <2>4. one(i) \in Seq(Nat)
    BY <2>1, <2>2, <2>3
  <2>5. DOMAIN one(i) = 1 .. n /\ \A j \in 1 .. n : one(i)[j] = d
    BY <2>3
  <2>6. ASSUME NEW e \in Range(one(i)) PROVE e = d
    BY <2>5 DEF Range
  <2>7. Ascending(one(i))
    BY <2>1, <2>5 DEF Ascending
  <2>8. ASSUME n # 0 PROVE d \in Range(one(i))
    <3>1. 1 \in 1 .. n
      BY <2>2, <2>8
    <3> QED
      BY <2>5, <3>1 DEF Range
  <2> QED
    BY <2>2, <2>4, <2>6, <2>7, <2>8 DEF d
<1>3. all \in Seq(Seq(Nat)) /\ DOMAIN all = 1 .. Len(Docs) /\ \A i \in 1 .. Len(Docs) : all[i] = one(i)
  <2>1. all = [i \in 1 .. Len(Docs) |-> all[i]] /\ \A i \in 1 .. Len(Docs) : all[i] = one(i)
    BY <1>1
  <2>2. \A i \in 1 .. Len(Docs) : all[i] \in Seq(Nat)
    BY <1>2, <2>1
  <2> HIDE DEF all, one
  <2> QED
    BY <1>1, <2>1, <2>2, IsSeq
<1>4. PostingList(field, word) = FlattenSeq(all)
  BY DEF PostingList
<1> HIDE DEF all, one
<1>5. \A j \in DOMAIN all : Range(all[j]) \subseteq Range(FlattenSeq(all))
  BY <1>3, FlattenRange
<1>6. Ascending(FlattenSeq(all))
  <2>1. \A i \in DOMAIN all : Ascending(all[i])
    BY <1>2, <1>3
  <2>2. ASSUME NEW i \in DOMAIN all, NEW j \in DOMAIN all, i < j,
               NEW x \in Range(all[i]), NEW y \in Range(all[j])
        PROVE  x <= y
    <3>1. x = i - 1 /\ y = j - 1
      BY <1>2, <1>3
    <3> QED
      BY <1>1, <1>3, <2>2, <3>1
  <2>3. \A i, j \in DOMAIN all : i < j => \A x \in Range(all[i]) : \A y \in Range(all[j]) : x <= y
    BY <2>2
  <2> QED
    BY <1>3, <2>1, <2>3, FlattenAscending
<1>7. ASSUME NEW d \in DocIDs, word \in Range(FieldOf(d, field))
      PROVE  d \in Range(PostingList(field, word))
  <2>1. d \in Int /\ d + 1 \in 1 .. Len(Docs) /\ (d + 1) - 1 = d
    BY <1>1 DEF DocIDs
  <2>2. PICK i : i = d + 1
    OBVIOUS
  <2>3. i \in 1 .. Len(Docs) /\ i - 1 = d
    BY <2>1, <2>2
  <2>4. d \in Range(all[i])
    BY <1>2, <1>3, <1>7, <2>3
  <2> QED
    BY <1>3, <1>4, <1>5, <2>3, <2>4
<1>8. /\ PostingList(field, word) \in Seq(Nat)
      /\ \A d \in Range(PostingList(field, word)) : d \in DocIDs /\ word \in Range(FieldOf(d, field))
  BY PostingListIs
<1> QED
  BY <1>4, <1>6, <1>7, <1>8

------------------------------------------------------------------------------
(* The conjunction of the words of a query, in reverse Polish notation. *)

\* AND is not above itself, so it pops no AND.
LEMMA PrecedenceOfAnd == Precedence["AND"] = 2
<1>1. /\ "AND" \in Operators /\ "AND" # "NOT"
      /\ (CASE "AND" = "NOT" -> 3 [] "AND" = "AND" -> 2 [] "AND" = "OR" -> 1 [] OTHER -> 0) = 2
  BY DEF Operators
<1> QED
  BY <1>1 DEF Precedence

\* The tokens of a query: its words with an AND between any two.
LEMMA ConjunctionIs ==
  ASSUME NEW V, "AND" \in V, NEW query \in Seq(V), query # <<>>
  PROVE  LET n == Len(query)
             c == Conjunction(query)
         IN  /\ c \in Seq(V) /\ n \in Nat /\ n >= 1 /\ Len(c) = 2 * n - 1
             /\ \A i \in 1 .. n : c[2 * i - 1] = query[i]
             /\ \A i \in 1 .. n - 1 : c[2 * i] = "AND"
<1> DEFINE n == Len(query)
           part(i) == IF i = n THEN <<query[i]>> ELSE <<query[i], "AND">>
           seqs == [i \in DOMAIN query |-> part(i)]
<1>1. n \in Nat /\ n >= 1 /\ DOMAIN query = 1 .. n /\ \A i \in 1 .. n : query[i] \in V
  <2>1. n # 0
    BY DEF n
  <2> QED
    BY <2>1, SeqParts
<1>2. \A i \in 1 .. n : part(i) \in Seq(V)
  <2> DEFINE one(i) == <<query[i]>>
             two(i) == <<query[i], "AND">>
  <2>1. \A i \in 1 .. n : one(i) \in Seq(V) /\ two(i) \in Seq(V)
    BY <1>1
  <2>2. \A i \in 1 .. n : part(i) = IF i = n THEN one(i) ELSE two(i)
    OBVIOUS
  <2> HIDE DEF one, two, part, n
  <2> QED
    BY <2>1, <2>2
<1>3. seqs \in Seq(Seq(V)) /\ Len(seqs) = n /\ \A i \in 1 .. n : seqs[i] = part(i)
  <2>1. seqs = [i \in 1 .. n |-> seqs[i]] /\ \A i \in 1 .. n : seqs[i] = part(i)
    BY <1>1
  <2>2. \A i \in 1 .. n : seqs[i] \in Seq(V)
    BY <1>2, <2>1
  <2> HIDE DEF seqs, part, n
  <2> QED
    BY <1>1, <2>1, <2>2, IsSeq
<1>4. Conjunction(query) = FlattenSeq(seqs)
  BY DEF Conjunction
<1> HIDE DEF seqs
<1>5. PICK f : Flattened(seqs, f) /\ FlattenSeq(seqs) = f[Len(seqs)]
  BY <1>3, FlattenIs
<1>6. ASSUME NEW i \in 0 .. n PROVE f[i] \in Seq(V)
  <2>1. i \in 0 .. Len(seqs)
    BY <1>3
  <2> HIDE DEF n
  <2> QED
    BY <1>3, <1>5, <2>1, FlattenedType
<1> DEFINE At(i) == /\ Len(f[i]) = 2 * i
                    /\ \A j \in 1 .. i : f[i][2 * j - 1] = query[j] /\ f[i][2 * j] = "AND"
           T == {i \in Nat : i < n => At(i)}
<1> HIDE DEF n
<1>7. 0 \in T
  <2>1. f[0] = <<>>
    BY <1>5 DEF Flattened
  <2> QED
    BY <2>1
<1>8. ASSUME NEW i \in Nat, NEW k \in 1 .. n, k = i + 1
      PROVE  f[k] = f[i] \o part(k)
  <2>1. k \in 1 .. Len(seqs) /\ k - 1 = i
    BY <1>1, <1>3, <1>8
  <2>2. f[k] = f[k - 1] \o seqs[k]
    BY <1>5, <2>1 DEF Flattened
  <2>3. seqs[k] = part(k)
    BY <1>3, <2>1
  <2> HIDE DEF part
  <2> QED
    BY <2>1, <2>2, <2>3
<1>9. ASSUME NEW i \in Nat, i \in T PROVE i + 1 \in T
  <2>1. SUFFICES ASSUME i + 1 < n PROVE At(i + 1)
    OBVIOUS
  <2>2. PICK s : s = f[i]
    OBVIOUS
  <2>3. PICK r : r = f[i + 1]
    OBVIOUS
  <2>4. i \in 0 .. n /\ i + 1 \in 1 .. n /\ i < n /\ i + 1 # n
    BY <1>1, <2>1
  <2>5. PICK t : t = <<query[i + 1], "AND">>
    OBVIOUS
  <2>a. part(i + 1) = t /\ part(i + 1) \in Seq(V)
    BY <1>2, <2>4, <2>5
  <2>b. f[i + 1] = f[i] \o part(i + 1)
    <3>1. PICK k : k = i + 1
      OBVIOUS
    <3> HIDE DEF part
    <3>2. f[k] = f[i] \o part(k)
      BY <1>8, <2>4, <3>1
    <3> QED
      BY <3>1, <3>2
  <2>6. s \in Seq(V) /\ t \in Seq(V) /\ r = s \o t
    <3> HIDE DEF part
    <3> QED
      BY <1>6, <2>2, <2>3, <2>4, <2>a, <2>b
  <2>7. Len(s) = 2 * i /\ \A j \in 1 .. i : s[2 * j - 1] = query[j] /\ s[2 * j] = "AND"
    BY <1>9, <2>2, <2>4
  <2>8. /\ r \in Seq(V) /\ Len(r) = Len(s) + Len(t)
        /\ \A j \in 1 .. Len(s) : r[j] = s[j]
        /\ \A j \in 1 .. Len(t) : r[Len(s) + j] = t[j]
    BY <2>6, ConcatParts
  <2>9. Len(t) = 2 /\ t[1] = query[i + 1] /\ t[2] = "AND"
    BY <2>5
  <2>10. Len(r) = 2 * (i + 1) /\ r[2 * (i + 1) - 1] = query[i + 1] /\ r[2 * (i + 1)] = "AND"
    <3>1. r[2 * i + 1] = t[1] /\ r[2 * i + 2] = t[2]
      BY <2>7, <2>8, <2>9
    <3>2. 2 * (i + 1) - 1 = 2 * i + 1 /\ 2 * (i + 1) = 2 * i + 2
      OBVIOUS
    <3> QED
      BY <2>7, <2>8, <2>9, <3>1, <3>2
  <2>11. ASSUME NEW j \in 1 .. i + 1
         PROVE  r[2 * j - 1] = query[j] /\ r[2 * j] = "AND"
    <3>1. CASE j = i + 1
      BY <2>10, <3>1
    <3>2. CASE j # i + 1
      <4>1. j \in 1 .. i /\ 2 * j - 1 \in 1 .. Len(s) /\ 2 * j \in 1 .. Len(s)
        BY <2>7, <3>2
      <4> QED
        BY <2>7, <2>8, <4>1
    <3> QED
      BY <3>1, <3>2
  <2> QED
    BY <2>3, <2>10, <2>11
<1>10. Nat \subseteq T
  <2> HIDE DEF T
  <2> QED
    BY <1>7, <1>9, NatInductive
<1>11. PICK m \in Nat : m + 1 = n
  <2>1. n - 1 \in Nat /\ (n - 1) + 1 = n
    BY <1>1
  <2> QED
    BY <2>1
<1>12. PICK s : s = f[m]
  OBVIOUS
<1>13. Len(s) = 2 * m /\ \A j \in 1 .. m : s[2 * j - 1] = query[j] /\ s[2 * j] = "AND"
  BY <1>1, <1>10, <1>11, <1>12
<1>14. PICK t : t = <<query[n]>>
  OBVIOUS
<1>15. PICK c : c = Conjunction(query)
  OBVIOUS
<1>16. s \in Seq(V) /\ t \in Seq(V) /\ c = s \o t
  <2>1. f[n] = f[m] \o part(n)
    <3>1. n \in 1 .. n /\ n = m + 1
      BY <1>1, <1>11
    <3> HIDE DEF part
    <3> QED
      BY <1>8, <3>1
  <2>2. m \in 0 .. n
    BY <1>1, <1>11
  <2>3. c = f[n] /\ part(n) = t
    BY <1>3, <1>4, <1>5, <1>14, <1>15
  <2>4. t \in Seq(V)
    BY <1>1, <1>14
  <2> QED
    BY <1>6, <1>12, <2>1, <2>2, <2>3, <2>4
<1>17. /\ c \in Seq(V) /\ Len(c) = Len(s) + Len(t)
       /\ \A j \in 1 .. Len(s) : c[j] = s[j]
       /\ \A j \in 1 .. Len(t) : c[Len(s) + j] = t[j]
  BY <1>16, ConcatParts
<1>18. Len(t) = 1 /\ t[1] = query[n]
  BY <1>14
<1>19. Len(c) = 2 * n - 1 /\ c[2 * n - 1] = query[n]
  <2>1. c[2 * m + 1] = t[1]
    BY <1>13, <1>17, <1>18
  <2> QED
    BY <1>11, <1>13, <1>17, <1>18, <2>1
<1>20. ASSUME NEW j \in 1 .. m PROVE c[2 * j - 1] = query[j] /\ c[2 * j] = "AND"
  <2>1. 2 * j - 1 \in 1 .. Len(s) /\ 2 * j \in 1 .. Len(s)
    BY <1>13
  <2> QED
    BY <1>13, <1>17, <2>1
<1>21. \A j \in 1 .. n : j \in 1 .. m \/ j = n
  BY <1>11
<1>22. 1 .. n - 1 = 1 .. m
  BY <1>11
<1> QED
  BY <1>1, <1>15, <1>17, <1>19, <1>20, <1>21, <1>22 DEF n

NothingShunted == [output |-> <<>>, stack |-> <<>>]
Shunting(V) == [output : Seq(V), stack : Seq({"AND"})]
Shunt(tokens) == FoldLeft(Shunted, NothingShunted, tokens)

ShuntByTable(tokens, W, f) ==
  /\ f[0] = NothingShunted
  /\ \A i \in 1 .. Len(tokens) : f[i] = Shunted(f[i - 1], tokens[i])
  /\ \A i \in 0 .. Len(tokens) : f[i] \in W
  /\ Shunt(tokens) = f[Len(tokens)]

\* The loop of shuntingYardRPN as a table with one entry for each token.
LEMMA ShuntBy ==
  ASSUME NEW W, NEW tokens, Len(tokens) \in Nat, DOMAIN tokens = 1 .. Len(tokens), NothingShunted \in W,
         \A w \in W : \A i \in 1 .. Len(tokens) : Shunted(w, tokens[i]) \in W
  PROVE  \E f : ShuntByTable(tokens, W, f)
<1> DEFINE n == Len(tokens)
           F == [p \in W \X (1 .. n) |-> Shunted(p[1], tokens[p[2]])]
           Table(h) == h = [s \in SUBSET (1 .. n) |->
                              IF s = {} THEN NothingShunted ELSE Shunted(h[s \ {Max(s)}], tokens[Max(s)])]
           h0 == CHOOSE h : Table(h)
<1>1. n \in Nat /\ DOMAIN tokens = 1 .. n
  OBVIOUS
<1>2. Shunt(tokens) = h0[1 .. n]
  BY <1>1 DEF Shunt, FoldLeft, MapThenFoldSet
<1>3. PICK g : IsFold(F, NothingShunted, n, g) /\ \A s \in SUBSET (1 .. n) : g[s] \in W
  <2>1. \A w \in W : \A i \in 1 .. n : F[<<w, i>>] \in W
    OBVIOUS
  <2>2. n \in Nat
    BY <1>1
  <2> HIDE DEF n, F
  <2> QED
    BY <2>1, <2>2, FoldTyped
<1>4. Table(g)
  <2>1. ASSUME NEW s \in SUBSET (1 .. n), s # {}
        PROVE  F[<<g[s \ {Max(s)}], Max(s)>>] = Shunted(g[s \ {Max(s)}], tokens[Max(s)])
    <3>1. n \in Nat
      BY <1>1
    <3> HIDE DEF n
    <3>2. Max(s) \in s /\ s \ {Max(s)} \in SUBSET (1 .. n)
      BY <2>1, <3>1, LastPlace
    <3>3. Max(s) \in 1 .. n /\ g[s \ {Max(s)}] \in W
      BY <1>3, <3>2
    <3> QED
      BY <3>3
  <2> HIDE DEF n, F
  <2>2. g = [s \in SUBSET (1 .. n) |-> IF s = {} THEN NothingShunted ELSE F[<<g[s \ {Max(s)}], Max(s)>>]]
    BY <1>3 DEF IsFold
  <2>3. \A s \in SUBSET (1 .. n) :
          (IF s = {} THEN NothingShunted ELSE F[<<g[s \ {Max(s)}], Max(s)>>])
            = (IF s = {} THEN NothingShunted ELSE Shunted(g[s \ {Max(s)}], tokens[Max(s)]))
    BY <2>1
  <2> QED
    BY <2>2, <2>3
<1>5. Table(h0)
  <2> HIDE DEF Table
  <2> QED
    BY <1>4
<1> HIDE DEF h0
<1>6. \A s \in SUBSET (1 .. n) :
        h0[s] = IF s = {} THEN NothingShunted ELSE Shunted(h0[s \ {Max(s)}], tokens[Max(s)])
  BY <1>5
<1> DEFINE f == [i \in 0 .. n |-> h0[1 .. i]]
<1>7. f[0] = NothingShunted /\ f[n] = h0[1 .. n]
  <2>1. 1 .. 0 = {} /\ 0 \in 0 .. n /\ n \in 0 .. n
    BY <1>1
  <2>2. f[0] = h0[1 .. 0] /\ f[n] = h0[1 .. n]
    BY <2>1
  <2> HIDE DEF n, f
  <2> QED
    BY <1>6, <2>1, <2>2
<1>8. ASSUME NEW i \in 1 .. n PROVE f[i] = Shunted(f[i - 1], tokens[i])
  <2>1. f[i] = h0[1 .. i] /\ f[i - 1] = h0[1 .. i - 1]
    BY <1>1
  <2>2. n \in Nat
    BY <1>1
  <2> HIDE DEF n, f
  <2>3. /\ 1 .. i \in SUBSET (1 .. n) /\ 1 .. i # {} /\ (1 .. i) \ {i} = 1 .. i - 1
        /\ Max(1 .. i) = i
    BY <2>2, FirstPlaces
  <2> QED
    BY <1>6, <2>1, <2>3
<1>9. \A i \in 0 .. n : f[i] \in W
  <2> DEFINE T == {i \in Nat : i <= n => f[i] \in W}
  <2>0. n \in Nat /\ \A w \in W : \A i \in 1 .. n : Shunted(w, tokens[i]) \in W
    BY <1>1
  <2> HIDE DEF n, f
  <2>1. 0 \in T
    BY <1>7
  <2>2. ASSUME NEW i \in Nat, i \in T PROVE i + 1 \in T
    <3>1. SUFFICES ASSUME i + 1 <= n PROVE f[i + 1] \in W
      OBVIOUS
    <3>2. i + 1 \in 1 .. n /\ (i + 1) - 1 = i /\ f[i] \in W
      BY <2>0, <2>2, <3>1
    <3>3. f[i + 1] = Shunted(f[(i + 1) - 1], tokens[i + 1])
      BY <1>8, <3>2
    <3> QED
      BY <2>0, <3>2, <3>3
  <2>3. Nat \subseteq T
    <3> HIDE DEF T
    <3> QED
      BY <2>1, <2>2, NatInductive
  <2>4. \A i \in 0 .. n : i \in Nat /\ i <= n
    BY <2>0
  <2> QED
    BY <2>3, <2>4
<1> HIDE DEF f
<1> QED
  BY <1>2, <1>7, <1>8, <1>9 DEF ShuntByTable

\* A word goes to the output.
LEMMA ShuntedWord ==
  ASSUME NEW V, NEW s \in Shunting(V), NEW token \in V, token \notin Operators
  PROVE  Shunted(s, token) = [output |-> Append(s.output, token), stack |-> s.stack]
<1>1. s = [output |-> s.output, stack |-> s.stack]
  BY DEF Shunting
<1>2. token # "(" /\ token # ")" /\ token \notin Operators
  BY PrecedenceOfAnd DEF Operators
<1>3. Shunted(s, token) = [s EXCEPT !.output = Append(@, token)]
  BY <1>2 DEF Shunted
<1> QED
  BY <1>1, <1>3

\* An AND goes on the stack and removes none: the one before has its own precedence.
LEMMA ShuntedAnd ==
  ASSUME NEW V, NEW s \in Shunting(V)
  PROVE  Shunted(s, "AND") = [output |-> s.output, stack |-> Append(s.stack, "AND")]
<1>1. s = [output |-> s.output, stack |-> s.stack] /\ s.output \in Seq(V) /\ s.stack \in Seq({"AND"})
  BY DEF Shunting
<1> DEFINE k == Len(s.stack)
           run == CHOOSE n \in 0 .. k :
                    /\ \A i \in (k - n + 1) .. k : Precedence["AND"] < Precedence[s.stack[i]]
                    /\ n < k => ~ (Precedence["AND"] < Precedence[s.stack[k - n]])
<1>2. k \in Nat /\ \A i \in 1 .. k : s.stack[i] = "AND"
  BY <1>1, SeqParts
<1>3. \A i \in 1 .. k : ~ (Precedence["AND"] < Precedence[s.stack[i]])
  BY <1>2, PrecedenceOfAnd
<1> DEFINE P(n) == /\ \A i \in (k - n + 1) .. k : Precedence["AND"] < Precedence[s.stack[i]]
                   /\ n < k => ~ (Precedence["AND"] < Precedence[s.stack[k - n]])
<1> HIDE DEF k
<1>4. 0 \in 0 .. k /\ P(0)
  <2>1. (k - 0 + 1) .. k = {}
    BY <1>2
  <2>2. 0 < k => k - 0 \in 1 .. k
    BY <1>2
  <2> QED
    BY <1>2, <1>3, <2>1, <2>2
<1>5. ASSUME NEW n \in 0 .. k, P(n) PROVE n = 0
  <2>1. SUFFICES ASSUME n # 0 PROVE FALSE
    OBVIOUS
  <2>2. k \in (k - n + 1) .. k /\ k \in 1 .. k
    BY <1>2, <2>1
  <2> QED
    BY <1>3, <1>5, <2>2
<1>6. run = 0
  <2>1. run = CHOOSE n \in 0 .. k : P(n)
    OBVIOUS
  <2> HIDE DEF P, run
  <2> QED
    BY <1>4, <1>5, <2>1
<1> HIDE DEF P
<1>7. Shunted(s, "AND") = [PopTo(s, run, 0) EXCEPT !.stack = Append(@, "AND")]
  <2>1. "AND" # "(" /\ "AND" # ")" /\ "AND" \in Operators \ {"(", ")"}
    BY PrecedenceOfAnd DEF Operators
  <2> QED
    BY <2>1 DEF Shunted, TopRun, k
<1>8. PopTo(s, 0, 0) = [output |-> s.output, stack |-> s.stack]
  <2>1. SubSeq(s.stack, k - 0 + 1, k) = <<>> /\ SubSeq(s.stack, 1, k - 0 - 0) = s.stack
    BY <1>1, <1>2 DEF k
  <2>2. Reverse(<<>>) = <<>> /\ s.output \o <<>> = s.output
    BY <1>1 DEF Reverse
  <2> QED
    BY <2>1, <2>2 DEF PopTo, k
<1> HIDE DEF run
<1>9. PICK to : to = PopTo(s, run, 0)
  OBVIOUS
<1>10. to = [output |-> s.output, stack |-> s.stack] /\ Shunted(s, "AND") = [to EXCEPT !.stack = Append(@, "AND")]
  BY <1>6, <1>7, <1>8, <1>9
<1> QED
  BY <1>10

\* Numbers up to 2n - 1 are odd or even.
LEMMA OddOrEven ==
  ASSUME NEW n \in Nat, NEW k \in 1 .. 2 * n - 1
  PROVE  \E i \in 1 .. n : k = 2 * i - 1 \/ (k = 2 * i /\ i \in 1 .. n - 1)
<1>1. k \div 2 \in Nat /\ k % 2 \in 0 .. 1 /\ k = 2 * (k \div 2) + (k % 2)
  OBVIOUS
<1>2. PICK q \in Nat, r \in 0 .. 1 : k = 2 * q + r
  BY <1>1
<1>3. CASE r = 0
  <2>1. q \in 1 .. n /\ q \in 1 .. n - 1 /\ k = 2 * q
    BY <1>2, <1>3
  <2> QED
    BY <2>1
<1>4. CASE r = 1
  <2>1. q + 1 \in 1 .. n /\ k = 2 * (q + 1) - 1
    BY <1>2, <1>4
  <2> QED
    BY <2>1
<1> QED
  BY <1>2, <1>3, <1>4

\* The first o words are in the output, t operators on the stack.
ShuntedTo(query, s, o, t) ==
  /\ Len(s.output) = o /\ \A j \in 1 .. o : s.output[j] = query[j]
  /\ Len(s.stack) = t

\* What the loop maintains over words and ANDs.
LEMMA ShuntedFurther ==
  ASSUME NEW V, NEW query, NEW s \in Shunting(V), NEW o \in Nat, NEW t \in Nat, ShuntedTo(query, s, o, t),
         NEW u \in Nat, u = o + 1
  PROVE  /\ Shunted(s, "AND") \in Shunting(V)
         /\ ShuntedTo(query, Shunted(s, "AND"), o, t + 1)
         /\ query[u] \in V \ Operators =>
               /\ Shunted(s, query[u]) \in Shunting(V)
               /\ ShuntedTo(query, Shunted(s, query[u]), u, t)
<1>1. s.output \in Seq(V) /\ s.stack \in Seq({"AND"})
  BY DEF Shunting
<1>2. Len(s.output) = o /\ (\A j \in 1 .. o : s.output[j] = query[j]) /\ Len(s.stack) = t
  BY DEF ShuntedTo
<1>3. PICK a : a = Shunted(s, "AND")
  OBVIOUS
<1>4. a = [output |-> s.output, stack |-> Append(s.stack, "AND")]
  BY <1>3, ShuntedAnd
<1>5. Append(s.stack, "AND") \in Seq({"AND"}) /\ Len(Append(s.stack, "AND")) = t + 1
  BY <1>1, <1>2
<1>6. a \in Shunting(V) /\ ShuntedTo(query, a, o, t + 1)
  BY <1>1, <1>2, <1>4, <1>5 DEF Shunting, ShuntedTo
<1>7. ASSUME query[u] \in V \ Operators
      PROVE  Shunted(s, query[u]) \in Shunting(V) /\ ShuntedTo(query, Shunted(s, query[u]), u, t)
  <2>1. PICK x : x = query[u]
    OBVIOUS
  <2>2. PICK r : r = Append(s.output, x)
    OBVIOUS
  <2>3. PICK b : b = Shunted(s, x)
    OBVIOUS
  <2>4. x \in V /\ x \notin Operators
    BY <1>7, <2>1
  <2>5. b = [output |-> r, stack |-> s.stack]
    BY <2>2, <2>3, <2>4, ShuntedWord
  <2>6. /\ r \in Seq(V) /\ Len(r) = o + 1
        /\ \A i \in 1 .. o : r[i] = s.output[i]
        /\ r[o + 1] = x
    BY <1>1, <1>2, <2>2, <2>4, AppendParts
  <2>7. b \in Shunting(V)
    BY <1>1, <2>5, <2>6 DEF Shunting
  <2>8. ASSUME NEW j \in 1 .. u PROVE r[j] = query[j]
    <3>1. CASE j = u
      BY <2>1, <2>6, <3>1
    <3>2. CASE j # u
      <4>1. j \in 1 .. o
        BY <3>2
      <4> QED
        BY <1>2, <2>6, <4>1
    <3> QED
      BY <3>1, <3>2
  <2>9. ShuntedTo(query, b, u, t)
    BY <1>2, <2>5, <2>6, <2>8 DEF ShuntedTo
  <2> QED
    BY <2>1, <2>3, <2>7, <2>9
<1> QED
  BY <1>3, <1>6, <1>7

\* The polish form of a conjunction: its words, then its ANDs (shuntingYardRPN).
LEMMA RPNIs ==
  ASSUME NEW V, "AND" \in V, NEW query \in Seq(V), query # <<>>, Range(query) \cap Operators = {}
  PROVE  LET n == Len(query)
             rpn == shuntingYardRPN(Conjunction(query))
         IN  /\ n \in Nat /\ n >= 1 /\ rpn \in Seq(V) /\ Len(rpn) = 2 * n - 1
             /\ \A i \in 1 .. n : rpn[i] = query[i]
             /\ \A i \in 1 .. n - 1 : rpn[n + i] = "AND"
<1> DEFINE n == Len(query)
<1>1. PICK c : c = Conjunction(query)
  OBVIOUS
<1>2. /\ c \in Seq(V) /\ n \in Nat /\ n >= 1 /\ Len(c) = 2 * n - 1
      /\ \A i \in 1 .. n : c[2 * i - 1] = query[i]
      /\ \A i \in 1 .. n - 1 : c[2 * i] = "AND"
  BY <1>1, ConjunctionIs
<1>3. \A i \in 1 .. n : query[i] \in V \ Operators
  <2>1. DOMAIN query = 1 .. n /\ \A i \in DOMAIN query : query[i] \in V
    BY SeqParts
  <2>2. \A i \in DOMAIN query : query[i] \in Range(query)
    BY DEF Range
  <2> QED
    BY <2>1, <2>2
<1> DEFINE W == Shunting(V)
<1>4. NothingShunted \in W
  BY DEF NothingShunted, Shunting
<1> HIDE DEF n
<1>5. ASSUME NEW w \in W, NEW k \in 1 .. Len(c) PROVE Shunted(w, c[k]) \in W
  <2>1. PICK i \in 1 .. n : k = 2 * i - 1 \/ (k = 2 * i /\ i \in 1 .. n - 1)
    BY <1>2, OddOrEven
  <2>2. w.output \in Seq(V) /\ w.stack \in Seq({"AND"})
    BY DEF Shunting
  <2>3. CASE k = 2 * i - 1
    <3>1. c[k] \in V /\ c[k] \notin Operators
      BY <1>2, <1>3, <2>3
    <3>2. Shunted(w, c[k]) = [output |-> Append(w.output, c[k]), stack |-> w.stack]
      BY <3>1, ShuntedWord
    <3>3. Append(w.output, c[k]) \in Seq(V)
      BY <2>2, <3>1
    <3> QED
      BY <2>2, <3>2, <3>3 DEF Shunting
  <2>4. CASE k = 2 * i /\ i \in 1 .. n - 1
    <3>1. c[k] = "AND"
      BY <1>2, <2>4
    <3>2. Shunted(w, "AND") = [output |-> w.output, stack |-> Append(w.stack, "AND")]
      BY ShuntedAnd
    <3>3. Append(w.stack, "AND") \in Seq({"AND"})
      BY <2>2
    <3>4. Shunted(w, "AND") \in W
      BY <2>2, <3>2, <3>3 DEF Shunting
    <3> QED
      BY <3>1, <3>4
  <2> QED
    BY <2>1, <2>3, <2>4
<1>6. PICK f : ShuntByTable(c, W, f)
  <2>1. Len(c) \in Nat /\ DOMAIN c = 1 .. Len(c)
    BY <1>2, SeqParts
  <2> HIDE DEF W
  <2> QED
    BY <1>4, <1>5, <2>1, ShuntBy
<1>7. /\ f[0] = NothingShunted /\ \A i \in 1 .. Len(c) : f[i] = Shunted(f[i - 1], c[i])
      /\ \A i \in 0 .. Len(c) : f[i] \in Shunting(V)
      /\ Shunt(c) = f[Len(c)]
  BY <1>6 DEF ShuntByTable
<1> DEFINE At(i) == ShuntedTo(query, f[2 * i + 1], i + 1, i)
           T == {i \in Nat : i + 1 <= n => At(i)}
<1>8. 0 \in T
  <2>1. PICK s : s = f[0]
    OBVIOUS
  <2>2. ShuntedTo(query, s, 0, 0) /\ s \in Shunting(V)
    BY <1>4, <1>7, <2>1 DEF NothingShunted, ShuntedTo
  <2>3. ShuntedTo(query, Shunted(s, query[1]), 1, 0)
    <3>1. query[1] \in V \ Operators
      BY <1>2, <1>3
    <3>2. 1 = 0 + 1
      OBVIOUS
    <3> QED
      BY <2>2, <3>1, <3>2, ShuntedFurther
  <2>4. 1 \in 1 .. Len(c) /\ 1 - 1 = 0 /\ c[1] = query[1]
    <3>1. c[2 * 1 - 1] = query[1]
      BY <1>2
    <3> QED
      BY <1>2, <3>1
  <2>5. f[1] = Shunted(s, query[1])
    BY <1>7, <2>1, <2>4
  <2>6. At(0)
    <3>1. 2 * 0 + 1 = 1 /\ 0 + 1 = 1
      OBVIOUS
    <3> QED
      BY <2>3, <2>5, <3>1
  <2> QED
    BY <2>6
<1>9. ASSUME NEW i \in Nat, i \in T PROVE i + 1 \in T
  <2>1. SUFFICES ASSUME i + 1 + 1 <= n PROVE At(i + 1)
    OBVIOUS
  <2>2. PICK s : s = f[2 * i + 1]
    OBVIOUS
  <2>3. PICK u : u = (i + 1) + 1
    OBVIOUS
  <2>3a. PICK o : o = i + 1
    OBVIOUS
  <2>4. /\ u \in 1 .. n /\ o \in 1 .. n - 1 /\ u = o + 1 /\ u \in Nat /\ o \in Nat
    BY <1>2, <2>1, <2>3, <2>3a
  <2>5. s \in Shunting(V) /\ ShuntedTo(query, s, o, i)
    <3>1. 2 * i + 1 \in 0 .. Len(c) /\ i + 1 <= n
      BY <1>2, <2>1
    <3>2. At(i)
      BY <1>9, <3>1
    <3>3. s \in Shunting(V)
      <4>1. PICK k : k = 2 * i + 1
        OBVIOUS
      <4> QED
        BY <1>7, <2>2, <3>1, <4>1
    <3> QED
      BY <2>2, <2>3a, <3>2, <3>3
  <2>6. PICK s1 : s1 = Shunted(s, "AND")
    OBVIOUS
  <2>7. s1 \in Shunting(V) /\ ShuntedTo(query, s1, o, i + 1)
    BY <2>4, <2>5, <2>6, ShuntedFurther
  <2>8. PICK t : t = i + 1
    OBVIOUS
  <2>9. ShuntedTo(query, Shunted(s1, query[u]), u, t)
    <3>1. query[u] \in V \ Operators
      BY <1>3, <2>4
    <3>2. ShuntedTo(query, s1, o, t) /\ t \in Nat
      BY <2>7, <2>8
    <3> QED
      BY <2>4, <2>7, <3>1, <3>2, ShuntedFurther
  <2>10. s1 = f[2 * i + 2]
    <3>1. PICK k : k = 2 * i + 2
      OBVIOUS
    <3>2. k \in 1 .. Len(c) /\ k - 1 = 2 * i + 1
      BY <1>2, <2>1, <3>1
    <3>3. c[k] = "AND"
      <4>1. k = 2 * o
        BY <2>3a, <3>1
      <4> QED
        BY <1>2, <2>4, <4>1
    <3>4. f[k] = Shunted(f[k - 1], c[k])
      BY <1>7, <3>2
    <3> QED
      BY <2>2, <2>6, <3>1, <3>2, <3>3, <3>4
  <2>11. f[2 * i + 3] = Shunted(s1, query[u])
    <3>1. PICK k : k = 2 * i + 3
      OBVIOUS
    <3>2. k \in 1 .. Len(c) /\ k - 1 = 2 * i + 2
      BY <1>2, <2>1, <3>1
    <3>3. c[k] = query[u]
      <4>1. k = 2 * u - 1
        BY <2>3, <3>1
      <4> QED
        BY <1>2, <2>4, <4>1
    <3>4. f[k] = Shunted(f[k - 1], c[k])
      BY <1>7, <3>2
    <3> QED
      BY <2>10, <3>1, <3>2, <3>3, <3>4
  <2>12. 2 * (i + 1) + 1 = 2 * i + 3
    OBVIOUS
  <2> QED
    BY <2>3, <2>8, <2>9, <2>11, <2>12
<1>10. Nat \subseteq T
  <2> HIDE DEF T
  <2> QED
    BY <1>8, <1>9, NatInductive
<1>11. PICK m \in Nat : m + 1 = n
  <2>1. n - 1 \in Nat /\ (n - 1) + 1 = n
    BY <1>2
  <2> QED
    BY <2>1
<1>12. PICK s : s = f[Len(c)]
  OBVIOUS
<1>13. ShuntedTo(query, s, n, m)
  <2>1. Len(c) = 2 * m + 1
    BY <1>2, <1>11
  <2>2. At(m)
    BY <1>2, <1>10, <1>11
  <2> QED
    BY <1>11, <1>12, <2>1, <2>2
<1>14. s.output \in Seq(V) /\ s.stack \in Seq({"AND"})
  <2>1. Len(c) \in 0 .. Len(c)
    BY <1>2
  <2> QED
    BY <1>7, <1>12, <2>1 DEF Shunting
<1>15. Len(s.output) = n /\ (\A j \in 1 .. n : s.output[j] = query[j]) /\ Len(s.stack) = m
  BY <1>13 DEF ShuntedTo
<1>16. PICK t : t = Reverse(s.stack)
  OBVIOUS
<1>17. t \in Seq(V) /\ Len(t) = m /\ \A j \in 1 .. m : t[j] = "AND"
  <2>1. \A j \in 1 .. m : s.stack[j] = "AND"
    BY <1>14, <1>15, SeqParts
  <2>2. t = [j \in 1 .. m |-> s.stack[(m - j) + 1]]
    BY <1>15, <1>16 DEF Reverse
  <2>3. \A j \in 1 .. m : (m - j) + 1 \in 1 .. m
    OBVIOUS
  <2>4. \A j \in 1 .. m : t[j] = "AND"
    BY <2>1, <2>2, <2>3
  <2>5. t = [j \in 1 .. m |-> t[j]]
    BY <2>2
  <2>6. \A j \in 1 .. m : t[j] \in V
    BY <2>4
  <2> QED
    BY <2>4, <2>5, <2>6, IsSeq
<1>18. PICK r : r = shuntingYardRPN(c)
  OBVIOUS
<1>19. r = s.output \o t
  BY <1>7, <1>12, <1>16, <1>18 DEF shuntingYardRPN, Shunt, NothingShunted
<1>20. PICK o : o = s.output
  OBVIOUS
<1>21. /\ r \in Seq(V) /\ Len(r) = Len(o) + Len(t)
       /\ \A i \in 1 .. Len(o) : r[i] = o[i]
       /\ \A i \in 1 .. Len(t) : r[Len(o) + i] = t[i]
  <2>1. o \in Seq(V) /\ t \in Seq(V) /\ r = o \o t
    BY <1>14, <1>17, <1>19, <1>20
  <2> QED
    BY <2>1, ConcatParts
<1>22. Len(r) = 2 * n - 1 /\ 1 .. n - 1 = 1 .. m
  <2>1. n \in Nat /\ n = m + 1
    BY <1>2, <1>11
  <2>2. Len(r) = n + m
    <3>1. Len(r) = Len(o) + Len(t)
      BY <1>21
    <3>2. Len(o) = n /\ Len(t) = m
      BY <1>15, <1>17, <1>20
    <3> QED
      BY <3>1, <3>2
  <2>3. n + m = 2 * n - 1 /\ n - 1 = m
    BY <2>1
  <2> QED
    BY <2>2, <2>3
<1> QED
  BY <1>1, <1>2, <1>15, <1>17, <1>18, <1>20, <1>21, <1>22 DEF n

------------------------------------------------------------------------------
(* The documents of a conjunction. *)

NothingProcessed == [stack |-> <<>>, read |-> 0]
Process(rpn, postings) == FoldLeft(LAMBDA s, token : Processed(postings, s, token), NothingProcessed, rpn)

ProcessByTable(rpn, postings, f) ==
  /\ f[0] = NothingProcessed
  /\ \A i \in 1 .. Len(rpn) : f[i] = Processed(postings, f[i - 1], rpn[i])
  /\ Process(rpn, postings) = f[Len(rpn)]

\* The loop of processQuery as a table with one entry for each token.
LEMMA ProcessBy ==
  ASSUME NEW rpn, NEW postings, Len(rpn) \in Nat, DOMAIN rpn = 1 .. Len(rpn)
  PROVE  \E f : ProcessByTable(rpn, postings, f)
<1> DEFINE n == Len(rpn)
           S == SUBSET (1 .. n)
           Small(k) == {s \in S : Cardinality(s) <= k}
           After(s, g) == IF s = {} THEN NothingProcessed ELSE Processed(postings, g[s \ {Max(s)}], rpn[Max(s)])
           Part(k, g) == g = [s \in Small(k) |-> After(s, g)]
           T == {k \in Nat : \E g : Part(k, g)}
           Table(h) == h = [s \in SUBSET (1 .. n) |->
                              IF s = {} THEN NothingProcessed ELSE Processed(postings, h[s \ {Max(s)}], rpn[Max(s)])]
           h0 == CHOOSE h : Table(h)
<1>1. n \in Nat /\ DOMAIN rpn = 1 .. n
  OBVIOUS
<1>2. Process(rpn, postings) = h0[1 .. n]
  BY <1>1 DEF Process, FoldLeft, MapThenFoldSet
<1>n. n \in Nat
  BY <1>1
<1> HIDE DEF n, h0
<1>3. \A s \in S : IsFiniteSet(s) /\ Cardinality(s) \in Nat
  BY <1>n, FirstCount, FS_Subset, FS_CardinalityType
<1>4. 0 \in T
  <2> DEFINE g0 == [s \in Small(0) |-> NothingProcessed]
  <2>1. \A s \in Small(0) : s = {}
    BY <1>3, FS_EmptySet
  <2>2. Part(0, g0)
    BY <2>1
  <2> HIDE DEF Part, g0
  <2> QED
    BY <2>2
<1>5. ASSUME NEW k \in Nat, k \in T
      PROVE  k + 1 \in T
  <2>1. PICK g : Part(k, g)
    BY <1>5
  <2> DEFINE h == [s \in Small(k + 1) |-> After(s, g)]
  <2>2. ASSUME NEW s \in Small(k)
        PROVE  s \in Small(k + 1) /\ h[s] = g[s]
    <3>1. s \in Small(k + 1)
      BY <1>3
    <3>2. g[s] = After(s, g)
      <4> HIDE DEF Small, After
      <4> QED
        BY <2>1
    <3>3. h[s] = After(s, g)
      <4> HIDE DEF Small, After
      <4> QED
        BY <3>1
    <3> QED
      BY <3>1, <3>2, <3>3
  <2>3. ASSUME NEW s \in Small(k + 1), s # {}
        PROVE  s \ {Max(s)} \in Small(k)
    <3>1. s \in SUBSET (1 .. n) /\ Cardinality(s) <= k + 1
      OBVIOUS
    <3> HIDE DEF Small
    <3>2. /\ s \ {Max(s)} \in SUBSET (1 .. n) /\ Cardinality(s) \in Nat
          /\ Cardinality(s \ {Max(s)}) = Cardinality(s) - 1
      BY <1>n, <2>3, <3>1, LastPlace
    <3>3. Cardinality(s \ {Max(s)}) <= k
      BY <3>1, <3>2
    <3> QED
      BY <3>2, <3>3 DEF Small
  <2>4. ASSUME NEW s \in Small(k + 1)
        PROVE  h[s] = After(s, h)
    <3>1. h[s] = After(s, g)
      <4> HIDE DEF Small, After
      <4> QED
        OBVIOUS
    <3>2. s # {} => h[s \ {Max(s)}] = g[s \ {Max(s)}]
      <4> HIDE DEF Small, h
      <4> QED
        BY <2>2, <2>3
    <3> HIDE DEF Small, h
    <3> QED
      BY <3>1, <3>2
  <2>5. Part(k + 1, h)
    <3> HIDE DEF Small
    <3>1. h = [s \in Small(k + 1) |-> h[s]]
      OBVIOUS
    <3> HIDE DEF h, After
    <3> QED
      BY <3>1, <2>4
  <2>6. \E j : Part(k + 1, j)
    <3> HIDE DEF h, Part
    <3> QED
      BY <2>5
  <2> HIDE DEF Part
  <2> QED
    BY <2>6
<1>6. Nat \subseteq T
  <2> HIDE DEF T
  <2> QED
    BY <1>4, <1>5, NatInductive
<1>7. PICK g : Part(n, g)
  BY <1>n, <1>6
<1>8. Small(n) = S
  BY <1>n, <1>3, FirstCount, FS_Subset
<1>9. Table(g)
  <2> HIDE DEF Small
  <2> QED
    BY <1>7, <1>8
<1>10. Table(h0)
  <2> HIDE DEF Table
  <2> QED
    BY <1>9 DEF h0
<1>11. \A s \in SUBSET (1 .. n) :
        h0[s] = IF s = {} THEN NothingProcessed ELSE Processed(postings, h0[s \ {Max(s)}], rpn[Max(s)])
  BY <1>10
<1> DEFINE f == [i \in 0 .. n |-> h0[1 .. i]]
<1>12. f[0] = NothingProcessed /\ f[n] = h0[1 .. n]
  <2>1. 1 .. 0 = {} /\ 0 \in 0 .. n /\ n \in 0 .. n
    BY <1>n
  <2>2. f[0] = h0[1 .. 0] /\ f[n] = h0[1 .. n]
    BY <2>1
  <2> HIDE DEF f
  <2> QED
    BY <1>11, <2>1, <2>2
<1>13. ASSUME NEW i \in 1 .. n PROVE f[i] = Processed(postings, f[i - 1], rpn[i])
  <2>1. f[i] = h0[1 .. i] /\ f[i - 1] = h0[1 .. i - 1]
    BY <1>n
  <2> HIDE DEF f
  <2>2. /\ 1 .. i \in SUBSET (1 .. n) /\ 1 .. i # {} /\ (1 .. i) \ {i} = 1 .. i - 1
        /\ Max(1 .. i) = i
    BY <1>n, FirstPlaces
  <2> QED
    BY <1>11, <2>1, <2>2
<1> HIDE DEF f
<1> QED
  BY <1>2, <1>12, <1>13 DEF ProcessByTable, n

\* The stack after the words, and the first k operators.
ProcessedTo(postings, n, k, s) ==
  /\ s.stack \in Seq(Seq(Nat)) /\ Len(s.stack) = n - k
  /\ \A j \in 1 .. n - k - 1 : s.stack[j] = postings[j]
  /\ Ascending(s.stack[n - k])
  /\ Range(s.stack[n - k]) = {d \in Nat : \A j \in (n - k) .. n : d \in Range(postings[j])}

\* A word pushes the list that was read for it.
LEMMA WordProcessed ==
  ASSUME NEW postings, NEW s, NEW token, token \notin Operators
  PROVE  Processed(postings, s, token) = [stack |-> Append(s.stack, postings[s.read + 1]), read |-> s.read + 1]
BY DEF Processed, Operators

\* An AND replaces the two lists on top by their intersection.
LEMMA AndProcessed ==
  ASSUME NEW postings, NEW n \in Nat, NEW k \in Nat, k + 2 <= n, NEW m, m = k + 1,
         \A j \in 1 .. n : postings[j] \in Seq(Nat) /\ Ascending(postings[j]),
         NEW s, s = [stack |-> s.stack, read |-> s.read], ProcessedTo(postings, n, k, s)
  PROVE  LET t == Processed(postings, s, "AND")
         IN  /\ t = [stack |-> t.stack, read |-> t.read]
             /\ ProcessedTo(postings, n, m, t)
<1> DEFINE l == n - k
           a == s.stack[l - 1]
           b == s.stack[l]
           both == PostingListIntersection2(a, b)
           rest == SubSeq(s.stack, 1, l - 2)
           new == Append(rest, both)
           t == [stack |-> new, read |-> s.read]
<1>1. /\ s.stack \in Seq(Seq(Nat)) /\ Len(s.stack) = l
      /\ \A j \in 1 .. l - 1 : s.stack[j] = postings[j]
      /\ Ascending(b) /\ Range(b) = {d \in Nat : \A j \in l .. n : d \in Range(postings[j])}
  BY DEF ProcessedTo
<1>2. l \in Nat /\ l >= 2 /\ l <= n /\ n - m = l - 1
  OBVIOUS
<1>3. Processed(postings, s, "AND") = t
  <2>1. Processed(postings, s, "AND") =
          [s EXCEPT !.stack = Append(SubSeq(@, 1, Len(@) - 2), PostingListIntersection2(@[Len(@) - 1], @[Len(@)]))]
    BY DEF Processed
  <2> HIDE DEF l
  <2> QED
    BY <1>1, <2>1
<1> HIDE DEF l, t
<1>4. a = postings[l - 1] /\ a \in Seq(Nat) /\ Ascending(a) /\ b \in Seq(Nat)
  <2>1. PICK i : i = l - 1
    OBVIOUS
  <2>2. i \in 1 .. l - 1 /\ i \in 1 .. n /\ l \in 1 .. l
    BY <1>2, <2>1
  <2> QED
    BY <1>1, <2>1, <2>2
<1>5. both \in Seq(Nat) /\ Ascending(both) /\ Range(both) = Range(a) \cap Range(b)
  <2> HIDE DEF a, b
  <2> QED
    BY <1>1, <1>4, IntersectionIs
<1>6. /\ rest \in Seq(Seq(Nat)) /\ Len(rest) = l - 2
      /\ \A j \in 1 .. l - 2 : rest[j] = s.stack[j]
  <2>1. PICK i \in Nat : i = l - 2
    BY <1>2
  <2>2. i <= Len(s.stack) /\ rest = SubSeq(s.stack, 1, i)
    BY <1>1, <1>2, <2>1
  <2> HIDE DEF rest
  <2>3. rest \in Seq(Seq(Nat)) /\ Len(rest) = i /\ \A j \in 1 .. i : rest[j] = s.stack[j]
    BY <1>1, <2>2, FirstParts
  <2> QED
    BY <2>1, <2>3
<1> HIDE DEF rest, both
<1>7. /\ new \in Seq(Seq(Nat)) /\ Len(new) = l - 1
      /\ \A j \in 1 .. l - 2 : new[j] = rest[j]
      /\ new[l - 1] = both
  <2>1. /\ new \in Seq(Seq(Nat)) /\ Len(new) = Len(rest) + 1
        /\ \A i \in 1 .. Len(rest) : new[i] = rest[i]
        /\ new[Len(rest) + 1] = both
    BY <1>5, <1>6, AppendParts
  <2>2. Len(rest) + 1 = l - 1
    BY <1>2, <1>6
  <2> HIDE DEF new
  <2> QED
    BY <1>6, <2>1, <2>2
<1>8. \A j \in 1 .. l - 2 : new[j] = postings[j]
  <2>1. \A j \in 1 .. l - 2 : j \in 1 .. l - 1
    BY <1>2
  <2> HIDE DEF new
  <2> QED
    BY <1>1, <1>6, <1>7, <2>1
<1>9. Range(both) = {d \in Nat : \A j \in (l - 1) .. n : d \in Range(postings[j])}
  <2>1. \A j \in (l - 1) .. n : j = l - 1 \/ j \in l .. n
    BY <1>2
  <2>2. l - 1 \in (l - 1) .. n /\ \A j \in l .. n : j \in (l - 1) .. n
    BY <1>2
  <2>3. PICK p : p = postings[l - 1]
    OBVIOUS
  <2>4. Range(a) = Range(p) /\ Range(p) \subseteq Nat
    BY <1>4, <2>3, SeqParts
  <2> HIDE DEF a, b
  <2>5. ASSUME NEW d \in Range(both), NEW j \in (l - 1) .. n PROVE d \in Nat /\ d \in Range(postings[j])
    BY <1>1, <1>5, <2>1, <2>3, <2>4
  <2>6. ASSUME NEW d \in Nat, \A j \in (l - 1) .. n : d \in Range(postings[j]) PROVE d \in Range(both)
    <3>1. d \in Range(p)
      BY <2>2, <2>3, <2>6
    <3>2. d \in Range(b)
      BY <1>1, <2>2, <2>6
    <3> QED
      BY <1>5, <2>4, <3>1, <3>2
  <2>7. l - 1 \in (l - 1) .. n
    BY <2>2
  <2> QED
    BY <2>5, <2>6, <2>7
<1>10. t.stack = new /\ t = [stack |-> t.stack, read |-> t.read]
  BY DEF t
<1> HIDE DEF new
<1>11. ProcessedTo(postings, n, m, t)
  <2>1. n - m - 1 = l - 2
    BY <1>2
  <2> QED
    BY <1>2, <1>5, <1>7, <1>8, <1>9, <1>10, <2>1 DEF ProcessedTo
<1> QED
  BY <1>3, <1>10, <1>11

\* The documents that are in the postings of all words, in order.
LEMMA ConjunctionFound ==
  ASSUME NEW V, "AND" \in V, NEW query \in Seq(V), query # <<>>, Range(query) \cap Operators = {},
         NEW postings, \A j \in 1 .. Len(query) : postings[j] \in Seq(Nat) /\ Ascending(postings[j])
  PROVE  LET found == processQuery(shuntingYardRPN(Conjunction(query)), postings)
         IN  /\ found \in Seq(Nat)
             /\ Range(found) = {d \in Nat : \A j \in 1 .. Len(query) : d \in Range(postings[j])}
<1> DEFINE n == Len(query)
<1>1. PICK rpn : rpn = shuntingYardRPN(Conjunction(query))
  OBVIOUS
<1>2. /\ n \in Nat /\ n >= 1 /\ rpn \in Seq(V) /\ Len(rpn) = 2 * n - 1
      /\ \A i \in 1 .. n : rpn[i] = query[i]
      /\ \A i \in 1 .. n - 1 : rpn[n + i] = "AND"
  BY <1>1, RPNIs
<1>3. \A i \in 1 .. n : query[i] \notin Operators
  <2>1. DOMAIN query = 1 .. n
    BY SeqParts
  <2>2. \A i \in DOMAIN query : query[i] \in Range(query)
    BY DEF Range
  <2> QED
    BY <2>1, <2>2
<1>4. \A j \in 1 .. n : postings[j] \in Seq(Nat) /\ Ascending(postings[j])
  OBVIOUS
<1> HIDE DEF n
<1>5. PICK f : ProcessByTable(rpn, postings, f)
  <2>1. Len(rpn) \in Nat /\ DOMAIN rpn = 1 .. Len(rpn)
    BY <1>2, SeqParts
  <2> QED
    BY <2>1, ProcessBy
<1>6. /\ f[0] = NothingProcessed /\ \A i \in 1 .. Len(rpn) : f[i] = Processed(postings, f[i - 1], rpn[i])
      /\ Process(rpn, postings) = f[Len(rpn)]
  BY <1>5 DEF ProcessByTable
<1> DEFINE Typed(s) == s = [stack |-> s.stack, read |-> s.read]
           Pushed(i, s) == /\ Typed(s) /\ s.read = i /\ s.stack \in Seq(Seq(Nat)) /\ Len(s.stack) = i
                           /\ \A j \in 1 .. i : s.stack[j] = postings[j]
           T == {i \in Nat : i <= n => Pushed(i, f[i])}
<1>7. 0 \in T
  <2>1. Pushed(0, NothingProcessed)
    BY DEF NothingProcessed
  <2> HIDE DEF Pushed
  <2> QED
    BY <1>6, <2>1
<1>8. ASSUME NEW i \in Nat, i \in T PROVE i + 1 \in T
  <2>1. SUFFICES ASSUME i + 1 <= n PROVE Pushed(i + 1, f[i + 1])
    OBVIOUS
  <2>2. PICK k : k = i + 1
    OBVIOUS
  <2>3. k \in 1 .. n /\ k \in 1 .. Len(rpn) /\ k - 1 = i /\ i <= n
    BY <1>2, <2>1, <2>2
  <2>4. PICK s : s = f[i]
    OBVIOUS
  <2>5. Pushed(i, s)
    BY <1>8, <2>3, <2>4
  <2>6. f[k] = Processed(postings, s, query[k])
    BY <1>2, <1>6, <2>3, <2>4
  <2>7. query[k] \notin Operators
    BY <1>3, <2>3
  <2>8. PICK p : p = postings[k]
    OBVIOUS
  <2>9. PICK new : new = Append(s.stack, p)
    OBVIOUS
  <2>10. f[k] = [stack |-> new, read |-> k]
    BY <2>2, <2>5, <2>6, <2>7, <2>8, <2>9, WordProcessed
  <2>11. s.stack \in Seq(Seq(Nat)) /\ p \in Seq(Nat)
    BY <1>4, <2>3, <2>5, <2>8
  <2>12. /\ new \in Seq(Seq(Nat)) /\ Len(new) = i + 1
         /\ \A j \in 1 .. i : new[j] = s.stack[j]
         /\ new[i + 1] = p
    <3>1. Len(s.stack) = i
      BY <2>5
    <3>2. PICK stack : stack = s.stack
      OBVIOUS
    <3>3. stack \in Seq(Seq(Nat)) /\ new = Append(stack, p)
      BY <2>9, <2>11, <3>2
    <3>4. /\ new \in Seq(Seq(Nat)) /\ Len(new) = Len(stack) + 1
          /\ \A j \in 1 .. Len(stack) : new[j] = stack[j]
          /\ new[Len(stack) + 1] = p
      BY <2>11, <3>3, AppendParts
    <3> HIDE DEF Pushed
    <3> QED
      BY <3>1, <3>2, <3>4
  <2>13. ASSUME NEW j \in 1 .. k PROVE new[j] = postings[j]
    <3>1. CASE j = k
      BY <2>2, <2>8, <2>12, <3>1
    <3>2. CASE j # k
      <4>1. j \in 1 .. i
        BY <2>2, <3>2
      <4> QED
        BY <2>5, <2>12, <4>1
    <3> QED
      BY <3>1, <3>2
  <2>14. Pushed(k, f[k])
    BY <2>2, <2>10, <2>12, <2>13
  <2> HIDE DEF Pushed
  <2> QED
    BY <2>2, <2>14
<1>9. Nat \subseteq T
  <2> HIDE DEF T
  <2> QED
    BY <1>7, <1>8, NatInductive
<1> DEFINE Reduced(k, s) == Typed(s) /\ ProcessedTo(postings, n, k, s)
           U == {k \in Nat : k + 1 <= n => Reduced(k, f[n + k])}
<1>10. 0 \in U
  <2>1. PICK s : s = f[n]
    OBVIOUS
  <2>2. Pushed(n, s)
    BY <1>2, <1>9, <2>1
  <2>3. s.stack[n] = postings[n] /\ n \in 1 .. n
    BY <1>2, <2>2
  <2>4. Range(s.stack[n]) = {d \in Nat : \A j \in n .. n : d \in Range(postings[j])}
    <3>1. \A j \in n .. n : j = n
      BY <1>2
    <3>2. PICK p : p = postings[n]
      OBVIOUS
    <3>3. Range(p) \subseteq Nat
      BY <1>4, <2>3, <3>2, SeqParts
    <3> HIDE DEF Pushed
    <3> QED
      BY <1>2, <2>3, <3>1, <3>2, <3>3
  <2>5. ProcessedTo(postings, n, 0, s)
    <3>1. n - 0 = n /\ \A j \in 1 .. n - 0 - 1 : j \in 1 .. n
      BY <1>2
    <3>2. s.stack \in Seq(Seq(Nat)) /\ Len(s.stack) = n /\ \A j \in 1 .. n : s.stack[j] = postings[j]
      BY <2>2
    <3> HIDE DEF Pushed
    <3> QED
      BY <1>4, <2>3, <2>4, <3>1, <3>2 DEF ProcessedTo
  <2>6. Typed(s) /\ n + 0 = n
    BY <1>2, <2>2
  <2> HIDE DEF Typed, Pushed
  <2> QED
    BY <2>1, <2>5, <2>6
<1>11. ASSUME NEW k \in Nat, k \in U PROVE k + 1 \in U
  <2>1. SUFFICES ASSUME k + 1 + 1 <= n PROVE Reduced(k + 1, f[n + (k + 1)])
    OBVIOUS
  <2>2. PICK s : s = f[n + k]
    OBVIOUS
  <2>3. PICK m : m = k + 1
    OBVIOUS
  <2>4. Reduced(k, s)
    BY <1>2, <1>11, <2>1, <2>2
  <2>5. PICK i : i = n + m
    OBVIOUS
  <2>6. i \in 1 .. Len(rpn) /\ i - 1 = n + k /\ m \in 1 .. n - 1 /\ k + 2 <= n
    BY <1>2, <2>1, <2>3, <2>5
  <2>7. f[i] = Processed(postings, s, "AND")
    BY <1>2, <1>6, <2>2, <2>5, <2>6
  <2>8. s = [stack |-> s.stack, read |-> s.read] /\ ProcessedTo(postings, n, k, s)
    BY <2>4
  <2>9. PICK t : t = f[i]
    OBVIOUS
  <2>10. t = [stack |-> t.stack, read |-> t.read] /\ ProcessedTo(postings, n, m, t)
    <3>1. PICK u : u = Processed(postings, s, "AND")
      OBVIOUS
    <3>2. u = [stack |-> u.stack, read |-> u.read] /\ ProcessedTo(postings, n, m, u)
      <4> HIDE DEF Reduced, Pushed, Typed
      <4> QED
        BY <1>2, <1>4, <2>3, <2>6, <2>8, <3>1, AndProcessed
    <3> QED
      BY <2>7, <2>9, <3>1, <3>2
  <2>11. Reduced(m, t)
    BY <2>10
  <2> HIDE DEF Reduced
  <2> QED
    BY <2>3, <2>5, <2>9, <2>11
<1>12. Nat \subseteq U
  <2> HIDE DEF U
  <2> QED
    BY <1>10, <1>11, NatInductive
<1>13. PICK m \in Nat : m + 1 = n
  <2>1. n - 1 \in Nat /\ (n - 1) + 1 = n
    BY <1>2
  <2> QED
    BY <2>1
<1>14. PICK s : s = f[Len(rpn)]
  OBVIOUS
<1>15. ProcessedTo(postings, n, m, s)
  <2>1. Reduced(m, f[n + m])
    BY <1>2, <1>12, <1>13
  <2>2. Len(rpn) = n + m
    BY <1>2, <1>13
  <2> QED
    BY <1>14, <2>1, <2>2
<1>16. n - m = 1
  BY <1>2, <1>13
<1>17. /\ s.stack \in Seq(Seq(Nat)) /\ Len(s.stack) = 1
       /\ Range(s.stack[1]) = {d \in Nat : \A j \in 1 .. n : d \in Range(postings[j])}
  BY <1>15, <1>16 DEF ProcessedTo
<1>18. s.stack[1] \in Seq(Nat)
  BY <1>17, SeqParts
<1>19. processQuery(rpn, postings) = s.stack[1]
  BY <1>6, <1>14, <1>17 DEF processQuery, Process, NothingProcessed, Last
<1> QED
  BY <1>1, <1>17, <1>18, <1>19 DEF n

------------------------------------------------------------------------------
(* Rankings. *)

\* As many different members as a finite set has are all of them.
LEMMA AllTaken ==
  ASSUME NEW S, IsFiniteSet(S), NEW n \in Nat, n = Cardinality(S), NEW r \in [1 .. n -> S],
         \A i, j \in 1 .. n : i # j => r[i] # r[j]
  PROVE  \A x \in S : \E i \in 1 .. n : r[i] = x
<1>1. r \in Injection(1 .. n, S)
  BY DEF Injection, IsInjective
<1>2. Cardinality(1 .. n) = Cardinality(S)
  BY FirstCount
<1>3. r \in Surjection(1 .. n, S)
  BY <1>1, <1>2, FS_Injection
<1> QED
  BY <1>3 DEF Surjection

\* A ranking has the IDs of all that is scored.
LEMMA RankingIs ==
  ASSUME NEW scored, IsFiniteSet(scored), NEW ids \in Rankings(scored)
  PROVE  /\ ids \in Seq({x.id : x \in scored})
         /\ Range(ids) = {x.id : x \in scored}
<1> DEFINE n == Cardinality(scored)
           V == {x.id : x \in scored}
<1>1. n \in Nat
  BY FS_CardinalityType
<1>2. PICK r \in SetToSeqs(scored) : ids = [i \in DOMAIN r |-> r[i].id]
  BY DEF Rankings
<1>3. r \in [1 .. n -> scored] /\ \A i, j \in 1 .. n : i # j => r[i] # r[j]
  BY <1>2 DEF SetToSeqs
<1> HIDE DEF n
<1>4. \A x \in scored : \E i \in 1 .. n : r[i] = x
  BY <1>1, <1>3, AllTaken DEF n
<1>5. ids = [i \in 1 .. n |-> r[i].id]
  BY <1>2, <1>3
<1>6. ids = [i \in 1 .. n |-> ids[i]] /\ \A i \in 1 .. n : ids[i] = r[i].id /\ ids[i] \in V
  BY <1>3, <1>5
<1> HIDE DEF V
<1>7. ids \in Seq(V) /\ DOMAIN ids = 1 .. n
  BY <1>1, <1>6, IsSeq
<1>8. \A x \in V : x \in Range(ids)
  <2>1. ASSUME NEW x \in scored PROVE x.id \in Range(ids)
    <3>1. PICK i \in 1 .. n : r[i] = x
      BY <1>4
    <3>2. ids[i] = x.id
      BY <1>6, <3>1
    <3> QED
      BY <1>7, <3>2 DEF Range
  <2> QED
    BY <2>1 DEF V
<1>9. \A x \in Range(ids) : x \in V
  BY <1>6, <1>7 DEF Range
<1> QED
  BY <1>7, <1>8, <1>9 DEF V

\* There are finitely many documents.
LEMMA DocIDsFinite == IsFiniteSet(DocIDs) /\ DocIDs \subseteq Nat
<1>1. Len(Docs) \in Nat
  BY WordsAssumption, SeqParts
<1>2. 0 \in Int /\ Len(Docs) - 1 \in Int
  BY <1>1
<1>3. IsFiniteSet(0 .. Len(Docs) - 1)
  <2>1. PICK k \in Int : k = Len(Docs) - 1
    BY <1>2
  <2>2. IsFiniteSet(0 .. k)
    BY FS_Interval
  <2> QED
    BY <2>1, <2>2
<1> QED
  BY <1>1, <1>3 DEF DocIDs

\* A search finds the documents with a term in one of the fields.
LEMMA SearchFinds ==
  ASSUME NEW terms, NEW names, NEW addresses,
         UNION {FoundFor(t, names, addresses) : t \in Range(terms)} \subseteq DocIDs,
         NEW ids \in Rankings(scoreBM25Field(terms, names, addresses))
  PROVE  LET found == UNION {FoundFor(t, names, addresses) : t \in Range(terms)}
         IN  ids \in Seq(found) /\ Range(ids) = found
<1> DEFINE found == UNION {FoundFor(t, names, addresses) : t \in Range(terms)}
           one(d) == [id |-> d, score |-> BM25Field(terms, names, addresses, d)]
           scored == {one(d) : d \in found}
           f == [d \in found |-> one(d)]
<1>1. scoreBM25Field(terms, names, addresses) = scored
  BY DEF scoreBM25Field
<1>2. IsFiniteSet(found)
  BY DocIDsFinite, FS_Subset
<1> HIDE DEF found
<1>3. {x.id : x \in scored} = found
  <2>1. \A d \in found : one(d) \in scored /\ one(d).id = d
    OBVIOUS
  <2>2. \A x \in scored : x.id \in found
    OBVIOUS
  <2> HIDE DEF one, scored
  <2> QED
    BY <2>1, <2>2
<1>4. f \in Surjection(found, scored)
  BY DEF Surjection
<1>5. IsFiniteSet(scored)
  <2> HIDE DEF f, scored
  <2> QED
    BY <1>2, <1>4, FS_Surjection
<1> HIDE DEF scored
<1>6. ids \in Rankings(scored)
  BY <1>1
<1>7. ids \in Seq({x.id : x \in scored}) /\ Range(ids) = {x.id : x \in scored}
  BY <1>5, <1>6, RankingIs
<1> QED
  BY <1>3, <1>7 DEF found

\* An autocompletion finds the documents of the intersection.
LEMMA CompletionFinds ==
  ASSUME NEW names, NEW list, Range(list) \subseteq DocIDs,
         NEW ids \in Rankings(scoreBM25FAutocomplete(names, list))
  PROVE  ids \in Seq(Range(list)) /\ Range(ids) = Range(list)
<1> DEFINE one(d) == [id |-> d, score |-> BM25FAutocomplete(names, list, d)]
           found == Range(list)
           scored == {one(d) : d \in found}
           f == [d \in found |-> one(d)]
<1>1. scoreBM25FAutocomplete(names, list) = scored
  BY DEF scoreBM25FAutocomplete
<1>2. IsFiniteSet(found)
  BY DocIDsFinite, FS_Subset
<1> HIDE DEF found
<1>3. {x.id : x \in scored} = found
  <2>1. \A d \in found : one(d) \in scored /\ one(d).id = d
    OBVIOUS
  <2>2. \A x \in scored : x.id \in found
    OBVIOUS
  <2> HIDE DEF one, scored
  <2> QED
    BY <2>1, <2>2
<1>4. f \in Surjection(found, scored)
  BY DEF Surjection
<1>5. IsFiniteSet(scored)
  <2> HIDE DEF f, scored
  <2> QED
    BY <1>2, <1>4, FS_Surjection
<1> HIDE DEF scored
<1>6. ids \in Rankings(scored)
  BY <1>1
<1>7. ids \in Seq({x.id : x \in scored}) /\ Range(ids) = {x.id : x \in scored}
  BY <1>5, <1>6, RankingIs
<1> QED
  BY <1>3, <1>7 DEF found

\* A page is a part of the documents, and all of them if it has room for more.
LEMMA PageIs ==
  ASSUME NEW V, NEW ids \in Seq(V), NEW k \in Int, NEW offset \in Nat
  PROVE  LET page == Page(ids, k, offset)
         IN  /\ Range(page) \subseteq Range(ids)
             /\ offset = 0 /\ Len(page) < k => page = ids
<1> DEFINE page == Page(ids, k, offset)
<1>1. PICK l \in Nat : l = Len(ids) /\ DOMAIN ids = 1 .. l /\ \A i \in 1 .. l : ids[i] \in V
  BY SeqParts
<1>2. PICK m \in Int : m = offset + k
  OBVIOUS
<1>3. PICK upTo \in Int : upTo = IF m < l THEN m ELSE l
  OBVIOUS
<1>4. page = SubSeq(ids, offset + 1, upTo)
  BY <1>1, <1>2, <1>3 DEF Page
<1>5. upTo <= l /\ (upTo = l \/ upTo = offset + k)
  BY <1>2, <1>3
<1> HIDE DEF page
<1>6. CASE upTo >= offset
  <2>1. PICK a \in Nat : a = offset + 1
    OBVIOUS
  <2>2. PICK b \in Nat : b = upTo
    BY <1>6
  <2>3. a >= 1 /\ a <= b + 1 /\ b <= Len(ids) /\ page = SubSeq(ids, a, b)
    BY <1>1, <1>4, <1>5, <1>6, <2>1, <2>2
  <2>4. /\ page \in Seq(V) /\ Len(page) = b - a + 1
        /\ \A j \in 1 .. b - a + 1 : page[j] = ids[a + j - 1]
    BY <2>3, SubSeqParts
  <2>5. DOMAIN page = 1 .. b - a + 1
    BY <2>4, SeqParts
  <2>6. ASSUME NEW x \in Range(page) PROVE x \in Range(ids)
    <3>1. PICK j \in 1 .. b - a + 1 : page[j] = x
      BY <2>5 DEF Range
    <3>2. PICK i : i = a + j - 1
      OBVIOUS
    <3>3. i \in 1 .. l /\ ids[i] = x
      BY <1>1, <2>3, <2>4, <3>1, <3>2
    <3> QED
      BY <1>1, <3>3 DEF Range
  <2>7. ASSUME offset = 0, Len(page) < k PROVE page = ids
    <3>1. upTo = l
      BY <1>1, <1>5, <2>1, <2>2, <2>4, <2>7
    <3>2. b - a + 1 = l /\ \A j \in 1 .. l : a + j - 1 = j
      BY <2>1, <2>2, <2>7, <3>1
    <3>3. page = [j \in 1 .. l |-> page[j]] /\ ids = [j \in 1 .. l |-> ids[j]]
      BY <1>1, <2>4, <2>5, <3>2
    <3>4. \A j \in 1 .. l : page[j] = ids[j]
      BY <2>4, <3>2
    <3> QED
      BY <3>3, <3>4
  <2> QED
    BY <2>6, <2>7 DEF page
<1>7. CASE ~ (upTo >= offset)
  <2>1. page = <<>>
    <3>1. PICK a \in Nat : a = offset + 1
      OBVIOUS
    <3>2. page = SubSeq(ids, a, upTo) /\ upTo < a
      BY <1>4, <1>7, <3>1
    <3> QED
      BY <1>1, <3>2
  <2>2. Range(page) = {}
    BY <2>1 DEF Range
  <2>3. ASSUME offset = 0, Len(page) < k PROVE FALSE
    BY <1>1, <1>5, <1>7, <2>1, <2>3
  <2> QED
    BY <2>2, <2>3 DEF page
<1> QED
  BY <1>6, <1>7

------------------------------------------------------------------------------
(* With three words or fewer, every choice of alternatives is a candidate. *)

\* A product whose array is full is extended by every alternative.
LEMMA ExtendedHas ==
  ASSUME NEW V, NEW products \in Seq(Seq(V)), NEW alternatives \in Seq(V),
         NEW product \in Range(products), Grows(Len(product)), NEW a \in Range(alternatives)
  PROVE  Append(product, a) \in Range(Extended(products, alternatives))
<1> DEFINE n == Len(products)
           m == Len(alternatives)
           one(q) == [i \in DOMAIN alternatives |->
                        Append(q, IF Grows(Len(q)) THEN alternatives[i] ELSE Last(alternatives))]
           all == [p \in DOMAIN products |-> one(products[p])]
<1>1. /\ n \in Nat /\ DOMAIN products = 1 .. n /\ \A p \in 1 .. n : products[p] \in Seq(V)
      /\ m \in Nat /\ DOMAIN alternatives = 1 .. m /\ \A i \in 1 .. m : alternatives[i] \in V
      /\ Range(alternatives) \subseteq V
  BY SeqParts
<1>2. PICK p \in 1 .. n : products[p] = product
  BY <1>1 DEF Range
<1>3. PICK i \in 1 .. m : alternatives[i] = a
  BY <1>1 DEF Range
<1>4. ASSUME NEW q \in Seq(V)
      PROVE  one(q) \in Seq(Seq(V)) /\ Len(one(q)) = m /\ DOMAIN one(q) = 1 .. m
  <2>1. one(q) = [j \in 1 .. m |-> one(q)[j]]
    BY <1>1
  <2>2. ASSUME NEW j \in 1 .. m PROVE one(q)[j] \in Seq(V)
    <3>1. alternatives[j] \in V /\ Last(alternatives) \in V
      <4>1. m \in 1 .. m
        BY <1>1
      <4> QED
        BY <1>1, <4>1 DEF Last
    <3>2. \A x \in V : Append(q, x) \in Seq(V)
      BY <1>4
    <3>3. one(q)[j] = Append(q, IF Grows(Len(q)) THEN alternatives[j] ELSE Last(alternatives))
      BY <1>1
    <3> HIDE DEF one
    <3> QED
      BY <3>1, <3>2, <3>3
  <2> HIDE DEF one, m
  <2> QED
    BY <1>1, <2>1, <2>2, IsSeq
<1>5. one(product)[i] = Append(product, a)
  BY <1>1, <1>3
<1>6. Extended(products, alternatives) = FlattenSeq(all)
  BY DEF Extended
<1>7. all \in Seq(Seq(Seq(V))) /\ DOMAIN all = 1 .. n /\ all[p] = one(product)
  <2>1. all = [x \in 1 .. n |-> all[x]] /\ \A x \in 1 .. n : all[x] = one(products[x])
    BY <1>1
  <2> HIDE DEF all, one, n
  <2>2. \A x \in 1 .. n : all[x] \in Seq(Seq(V))
    BY <1>1, <1>4, <2>1
  <2> QED
    BY <1>1, <1>2, <2>1, <2>2, IsSeq
<1> HIDE DEF all, one, n, m
<1>8. Range(all[p]) \subseteq Range(FlattenSeq(all))
  BY <1>7, FlattenRange
<1>9. product \in Seq(V)
  BY <1>1, <1>2
<1>10. Append(product, a) \in Range(one(product))
  BY <1>4, <1>5, <1>9 DEF Range
<1> QED
  BY <1>6, <1>7, <1>8, <1>10

\* A choice of one alternative of each word.
Chosen(q, all) == Len(q) = Len(all) /\ \A i \in 1 .. Len(all) : q[i] \in Range(all[i])

\* With at most three words every choice of an alternative for each is a candidate
\* (GetCorrectQueryCandidates): no array is shared.
LEMMA CandidatesExact ==
  ASSUME NEW V, NEW all \in Seq(Seq(V)), Len(all) <= 3, NEW query \in Seq(V), Chosen(query, all)
  PROVE  query \in Range(GetCorrectQueryCandidates(all))
<1> DEFINE n == Len(all)
           W == Seq(Seq(V))
<1>1. n \in Nat /\ DOMAIN all = 1 .. n /\ \A i \in 1 .. n : all[i] \in Seq(V)
  BY SeqParts
<1>d. Len(all) \in Nat /\ DOMAIN all = 1 .. Len(all)
  BY SeqParts
<1>2. <<<<>>>> \in W /\ \A w \in W : \A i \in 1 .. Len(all) : Extended(w, all[i]) \in W
  BY <1>1, ExtendedIs
<1>3. PICK f : CandidatesByTable(all, W, f)
  <2> HIDE DEF W
  <2> QED
    BY <1>d, <1>2, CandidatesBy
<1>4. /\ f[0] = <<<<>>>> /\ \A i \in 1 .. n : f[i] = Extended(f[i - 1], all[i])
      /\ \A i \in 0 .. n : f[i] \in Seq(Seq(V))
      /\ GetCorrectQueryCandidates(all) = f[n]
  BY <1>1, <1>3 DEF CandidatesByTable
<1>5. Len(query) = n /\ \A i \in 1 .. n : query[i] \in Range(all[i])
  BY DEF Chosen
<1> DEFINE Firsts(i) == SubSeq(query, 1, i)
           T == {i \in Nat : i <= n => Firsts(i) \in Range(f[i])}
<1> HIDE DEF n, W
<1>6. 0 \in T
  <2>1. Firsts(0) = <<>>
    OBVIOUS
  <2>2. Range(<<<<>>>>) = {<<>>}
    BY DEF Range
  <2> QED
    BY <1>4, <2>1, <2>2
<1>7. ASSUME NEW i \in Nat, i \in T PROVE i + 1 \in T
  <2>1. SUFFICES ASSUME i + 1 <= n PROVE Firsts(i + 1) \in Range(f[i + 1])
    OBVIOUS
  <2>2. PICK k \in 1 .. n : k = i + 1
    BY <1>1, <2>1
  <2>3. i <= n /\ i \in 0 .. n /\ i \in {0, 1, 2} /\ k - 1 = i
    BY <1>1, <2>1, <2>2 DEF n
  <2>4. PICK p : p = Firsts(i)
    OBVIOUS
  <2>5. p \in Seq(V) /\ Len(p) = i /\ \A j \in 1 .. i : p[j] = query[j]
    <3>1. i <= Len(query)
      BY <1>5, <2>3
    <3> QED
      BY <2>4, <3>1, FirstParts
  <2>6. f[k] = Extended(f[i], all[k]) /\ f[i] \in Seq(Seq(V)) /\ all[k] \in Seq(V)
    BY <1>1, <1>4, <2>3
  <2>7. p \in Range(f[i]) /\ query[k] \in Range(all[k]) /\ Grows(Len(p))
    BY <1>5, <1>7, <2>3, <2>4, <2>5 DEF Grows
  <2>8. Append(p, query[k]) \in Range(f[k])
    BY <2>6, <2>7, ExtendedHas
  <2>9. PICK q : q = Firsts(k)
    OBVIOUS
  <2>10. q \in Seq(V) /\ Len(q) = k /\ \A j \in 1 .. k : q[j] = query[j]
    <3>1. k <= Len(query) /\ k \in Nat
      BY <1>5, <1>1
    <3> QED
      BY <2>9, <3>1, FirstParts
  <2>11. PICK r : r = Append(p, query[k])
    OBVIOUS
  <2>12. r \in Seq(V) /\ Len(r) = k /\ \A j \in 1 .. k : r[j] = query[j]
    <3>1. query[k] \in V
      BY <1>5, SeqParts
    <3>2. /\ Append(p, query[k]) \in Seq(V) /\ Len(Append(p, query[k])) = Len(p) + 1
          /\ \A j \in 1 .. Len(p) : Append(p, query[k])[j] = p[j]
          /\ Append(p, query[k])[Len(p) + 1] = query[k]
      BY <2>5, <3>1, AppendParts
    <3>3. \A j \in 1 .. k : j \in 1 .. i \/ j = i + 1
      BY <2>2
    <3> QED
      BY <2>2, <2>5, <2>11, <3>2, <3>3
  <2>13. q = r
    <3>1. DOMAIN q = 1 .. k /\ DOMAIN r = 1 .. k
      BY <2>10, <2>12, SeqParts
    <3>2. q = [j \in 1 .. k |-> q[j]] /\ r = [j \in 1 .. k |-> r[j]]
      BY <2>10, <2>12, <3>1
    <3> QED
      BY <2>10, <2>12, <3>2
  <2> QED
    BY <2>2, <2>8, <2>9, <2>11, <2>13
<1>8. Nat \subseteq T
  <2> HIDE DEF T
  <2> QED
    BY <1>6, <1>7, NatInductive
<1>9. Firsts(n) \in Range(f[n])
  BY <1>1, <1>8
<1>10. Firsts(n) = query
  BY <1>5
<1> QED
  BY <1>4, <1>9, <1>10

\* One product has as many extensions as there are alternatives.
LEMMA ExtendedOne ==
  ASSUME NEW V, NEW products \in Seq(Seq(V)), Len(products) = 1, NEW alternatives \in Seq(V)
  PROVE  Len(Extended(products, alternatives)) = Len(alternatives)
<1> DEFINE m == Len(alternatives)
           one(q) == [i \in DOMAIN alternatives |->
                        Append(q, IF Grows(Len(q)) THEN alternatives[i] ELSE Last(alternatives))]
           all == [p \in DOMAIN products |-> one(products[p])]
           s == one(products[1])
<1>1. /\ DOMAIN products = 1 .. 1 /\ products[1] \in Seq(V)
      /\ m \in Nat /\ DOMAIN alternatives = 1 .. m /\ \A i \in 1 .. m : alternatives[i] \in V
  BY SeqParts
<1>2. s \in Seq(Seq(V)) /\ Len(s) = m
  <2>1. s = [j \in 1 .. m |-> s[j]]
    BY <1>1
  <2>2. ASSUME NEW j \in 1 .. m PROVE s[j] \in Seq(V)
    <3>1. alternatives[j] \in V /\ Last(alternatives) \in V
      <4>1. m \in 1 .. m
        BY <1>1
      <4> QED
        BY <1>1, <4>1 DEF Last
    <3>2. \A x \in V : Append(products[1], x) \in Seq(V)
      BY <1>1
    <3>3. s[j] = Append(products[1], IF Grows(Len(products[1])) THEN alternatives[j] ELSE Last(alternatives))
      BY <1>1
    <3> HIDE DEF s
    <3> QED
      BY <3>1, <3>2, <3>3
  <2> HIDE DEF s, m
  <2> QED
    BY <1>1, <2>1, <2>2, IsSeq
<1>3. Extended(products, alternatives) = FlattenSeq(all)
  BY DEF Extended
<1>4. all = [p \in 1 .. 1 |-> all[p]] /\ all[1] = s
  BY <1>1
<1> HIDE DEF all, s
<1>5. all \in Seq(Seq(Seq(V))) /\ Len(all) = 1
  <2>1. \A p \in 1 .. 1 : all[p] \in Seq(Seq(V))
    BY <1>2, <1>4
  <2> QED
    BY <1>4, <2>1, IsSeq
<1>6. PICK f : Flattened(all, f) /\ FlattenSeq(all) = f[Len(all)]
  BY <1>5, FlattenIs
<1>7. f[0] = <<>> /\ f[1] = f[1 - 1] \o all[1]
  BY <1>5, <1>6 DEF Flattened
<1>8. f[1] = <<>> \o s
  <2>1. 1 - 1 = 0
    OBVIOUS
  <2>2. f[1 - 1] = f[0]
    BY <2>1
  <2> QED
    BY <1>4, <1>7, <2>2
<1>9. Len(<<>> \o s) = m
  BY <1>2
<1> QED
  BY <1>3, <1>5, <1>6, <1>8, <1>9

\* Only the last word has more alternatives than one.
LEMMA CandidatesCount ==
  ASSUME NEW V, NEW all \in Seq(Seq(V)), all # <<>>, \A i \in 1 .. Len(all) - 1 : Len(all[i]) = 1
  PROVE  Len(GetCorrectQueryCandidates(all)) = Len(all[Len(all)])
<1> DEFINE n == Len(all)
           W == Seq(Seq(V))
<1>1. n \in Nat /\ n # 0 /\ DOMAIN all = 1 .. n /\ \A i \in 1 .. n : all[i] \in Seq(V)
  BY SeqParts
<1>d. Len(all) \in Nat /\ DOMAIN all = 1 .. Len(all)
  BY SeqParts
<1>2. <<<<>>>> \in W /\ \A w \in W : \A i \in 1 .. Len(all) : Extended(w, all[i]) \in W
  BY <1>1, ExtendedIs
<1>3. PICK f : CandidatesByTable(all, W, f)
  <2> HIDE DEF W
  <2> QED
    BY <1>d, <1>2, CandidatesBy
<1>4. /\ f[0] = <<<<>>>> /\ \A i \in 1 .. n : f[i] = Extended(f[i - 1], all[i])
      /\ \A i \in 0 .. n : f[i] \in Seq(Seq(V))
      /\ GetCorrectQueryCandidates(all) = f[n]
  BY <1>1, <1>3 DEF CandidatesByTable
<1> DEFINE T == {i \in Nat : i < n => Len(f[i]) = 1}
<1>5. \A i \in 1 .. n - 1 : Len(all[i]) = 1
  OBVIOUS
<1> HIDE DEF n, W
<1>6. 0 \in T
  BY <1>4
<1>7. ASSUME NEW i \in Nat, i \in T PROVE i + 1 \in T
  <2>1. SUFFICES ASSUME i + 1 < n PROVE Len(f[i + 1]) = 1
    OBVIOUS
  <2>2. PICK k \in 1 .. n : k = i + 1
    BY <1>1, <2>1
  <2>3. i < n /\ i \in 0 .. n /\ k - 1 = i /\ k \in 1 .. n - 1
    BY <1>1, <2>1, <2>2
  <2>4. f[k] = Extended(f[i], all[k]) /\ f[i] \in Seq(Seq(V)) /\ all[k] \in Seq(V) /\ Len(f[i]) = 1
    BY <1>1, <1>4, <1>7, <2>3
  <2>5. Len(f[k]) = Len(all[k])
    BY <2>4, ExtendedOne
  <2> QED
    BY <1>5, <2>2, <2>3, <2>5
<1>8. Nat \subseteq T
  <2> HIDE DEF T
  <2> QED
    BY <1>6, <1>7, NatInductive
<1>9. PICK i \in Nat : i + 1 = n
  <2>1. n - 1 \in Nat /\ (n - 1) + 1 = n
    BY <1>1
  <2> QED
    BY <2>1
<1>10. Len(f[i]) = 1 /\ f[n] = Extended(f[i], all[n]) /\ f[i] \in Seq(Seq(V)) /\ all[n] \in Seq(V)
  <2>1. i < n /\ n - 1 = i /\ i \in 0 .. n /\ n \in 1 .. n
    BY <1>1, <1>9
  <2> QED
    BY <1>1, <1>4, <1>8, <2>1
<1>11. Len(f[n]) = Len(all[n])
  BY <1>10, ExtendedOne
<1> QED
  BY <1>4, <1>11 DEF n

------------------------------------------------------------------------------
(* The most probable candidates. *)

Estimate(query) == estimateQueryProbability(addStartEndToken(query, 4))

EstimatesByTable(queries, W, f) ==
  /\ f[0] = <<>>
  /\ \A i \in 1 .. Len(queries) : f[i] = Append(f[i - 1], Estimate(queries[i]))
  /\ \A i \in 0 .. Len(queries) : f[i] \in W
  /\ EstimateQueriesProbabilities(queries) = f[Len(queries)]

\* The fold of the estimates as a table with one entry for each query.
LEMMA EstimatesBy ==
  ASSUME NEW W, NEW queries, Len(queries) \in Nat, DOMAIN queries = 1 .. Len(queries), <<>> \in W,
         \A w \in W : \A i \in 1 .. Len(queries) : Append(w, Estimate(queries[i])) \in W
  PROVE  \E f : EstimatesByTable(queries, W, f)
<1> DEFINE n == Len(queries)
           F == [p \in W \X (1 .. n) |-> Append(p[1], Estimate(queries[p[2]]))]
           Table(h) == h = [s \in SUBSET (1 .. n) |->
                              IF s = {} THEN <<>> ELSE Append(h[s \ {Max(s)}], Estimate(queries[Max(s)]))]
           h0 == CHOOSE h : Table(h)
<1>1. n \in Nat /\ DOMAIN queries = 1 .. n
  OBVIOUS
<1>2. EstimateQueriesProbabilities(queries) = h0[1 .. n]
  BY <1>1 DEF EstimateQueriesProbabilities, Estimate, FoldLeft, MapThenFoldSet
<1>3. PICK g : IsFold(F, <<>>, n, g) /\ \A s \in SUBSET (1 .. n) : g[s] \in W
  <2>1. \A w \in W : \A i \in 1 .. n : F[<<w, i>>] \in W
    OBVIOUS
  <2>2. n \in Nat
    BY <1>1
  <2> HIDE DEF n, F
  <2> QED
    BY <2>1, <2>2, FoldTyped
<1>4. Table(g)
  <2>1. ASSUME NEW s \in SUBSET (1 .. n), s # {}
        PROVE  F[<<g[s \ {Max(s)}], Max(s)>>] = Append(g[s \ {Max(s)}], Estimate(queries[Max(s)]))
    <3>1. n \in Nat
      BY <1>1
    <3> HIDE DEF n
    <3>2. Max(s) \in s /\ s \ {Max(s)} \in SUBSET (1 .. n)
      BY <2>1, <3>1, LastPlace
    <3>3. Max(s) \in 1 .. n /\ g[s \ {Max(s)}] \in W
      BY <1>3, <3>2
    <3> QED
      BY <3>3
  <2> HIDE DEF n, F
  <2>2. g = [s \in SUBSET (1 .. n) |-> IF s = {} THEN <<>> ELSE F[<<g[s \ {Max(s)}], Max(s)>>]]
    BY <1>3 DEF IsFold
  <2>3. \A s \in SUBSET (1 .. n) :
          (IF s = {} THEN <<>> ELSE F[<<g[s \ {Max(s)}], Max(s)>>])
            = (IF s = {} THEN <<>> ELSE Append(g[s \ {Max(s)}], Estimate(queries[Max(s)])))
    BY <2>1
  <2> QED
    BY <2>2, <2>3
<1>5. Table(h0)
  <2> HIDE DEF Table
  <2> QED
    BY <1>4
<1> HIDE DEF h0
<1>6. \A s \in SUBSET (1 .. n) :
        h0[s] = IF s = {} THEN <<>> ELSE Append(h0[s \ {Max(s)}], Estimate(queries[Max(s)]))
  BY <1>5
<1> DEFINE f == [i \in 0 .. n |-> h0[1 .. i]]
<1>7. f[0] = <<>> /\ f[n] = h0[1 .. n]
  <2>1. 1 .. 0 = {} /\ 0 \in 0 .. n /\ n \in 0 .. n
    BY <1>1
  <2>2. f[0] = h0[1 .. 0] /\ f[n] = h0[1 .. n]
    BY <2>1
  <2> HIDE DEF n, f
  <2> QED
    BY <1>6, <2>1, <2>2
<1>8. ASSUME NEW i \in 1 .. n PROVE f[i] = Append(f[i - 1], Estimate(queries[i]))
  <2>1. f[i] = h0[1 .. i] /\ f[i - 1] = h0[1 .. i - 1]
    BY <1>1
  <2>2. n \in Nat
    BY <1>1
  <2> HIDE DEF n, f
  <2>3. /\ 1 .. i \in SUBSET (1 .. n) /\ 1 .. i # {} /\ (1 .. i) \ {i} = 1 .. i - 1
        /\ Max(1 .. i) = i
    BY <2>2, FirstPlaces
  <2> QED
    BY <1>6, <2>1, <2>3
<1>9. \A i \in 0 .. n : f[i] \in W
  <2> DEFINE T == {i \in Nat : i <= n => f[i] \in W}
  <2>0. n \in Nat /\ \A w \in W : \A i \in 1 .. n : Append(w, Estimate(queries[i])) \in W
    BY <1>1
  <2> HIDE DEF n, f
  <2>1. 0 \in T
    BY <1>7
  <2>2. ASSUME NEW i \in Nat, i \in T PROVE i + 1 \in T
    <3>1. SUFFICES ASSUME i + 1 <= n PROVE f[i + 1] \in W
      OBVIOUS
    <3>2. i + 1 \in 1 .. n /\ (i + 1) - 1 = i /\ f[i] \in W
      BY <2>0, <2>2, <3>1
    <3>3. f[i + 1] = Append(f[(i + 1) - 1], Estimate(queries[i + 1]))
      BY <1>8, <3>2
    <3> QED
      BY <2>0, <3>2, <3>3
  <2>3. Nat \subseteq T
    <3> HIDE DEF T
    <3> QED
      BY <2>1, <2>2, NatInductive
  <2>4. \A i \in 0 .. n : i \in Nat /\ i <= n
    BY <2>0
  <2> QED
    BY <2>3, <2>4
<1> HIDE DEF f
<1> QED
  BY <1>2, <1>7, <1>8, <1>9 DEF EstimatesByTable

\* A query is estimated by itself.
LEMMA EstimatesAre ==
  ASSUME NEW V, NEW queries \in Seq(V), NEW e, e = EstimateQueriesProbabilities(queries)
  PROVE  Len(e) = Len(queries) /\ \A i \in DOMAIN queries : e[i] = Estimate(queries[i])
<1> DEFINE n == Len(queries)
           E == {Estimate(queries[i]) : i \in 1 .. n}
           W == Seq(E)
<1>1. n \in Nat /\ DOMAIN queries = 1 .. n /\ Len(queries) \in Nat /\ DOMAIN queries = 1 .. Len(queries)
  BY SeqParts
<1>2. \A i \in 1 .. n : Estimate(queries[i]) \in E
  OBVIOUS
<1>3. <<>> \in W /\ \A w \in W : \A i \in 1 .. Len(queries) : Append(w, Estimate(queries[i])) \in W
  <2>1. \A i \in 1 .. Len(queries) : Estimate(queries[i]) \in E
    BY <1>2
  <2> HIDE DEF E, n
  <2> QED
    BY <2>1
<1>4. PICK f : EstimatesByTable(queries, W, f)
  <2> HIDE DEF W
  <2> QED
    BY <1>1, <1>3, EstimatesBy
<1>5. /\ f[0] = <<>> /\ \A i \in 1 .. n : f[i] = Append(f[i - 1], Estimate(queries[i]))
      /\ \A i \in 0 .. n : f[i] \in Seq(E)
      /\ e = f[n]
  BY <1>1, <1>4 DEF EstimatesByTable
<1> DEFINE At(i) == Len(f[i]) = i /\ \A j \in 1 .. i : f[i][j] = Estimate(queries[j])
           T == {i \in Nat : i <= n => At(i)}
<1> HIDE DEF n, W, E
<1>6. 0 \in T
  BY <1>5
<1>7. ASSUME NEW i \in Nat, i \in T PROVE i + 1 \in T
  <2>1. SUFFICES ASSUME i + 1 <= n PROVE At(i + 1)
    OBVIOUS
  <2>2. PICK k \in 1 .. n : k = i + 1
    BY <1>1, <2>1
  <2>3. i <= n /\ i \in 0 .. n /\ k - 1 = i
    BY <1>1, <2>1, <2>2
  <2>4. PICK s : s = f[i]
    OBVIOUS
  <2>5. PICK x \in E : x = Estimate(queries[k])
    BY <1>2
  <2>6. s \in Seq(E) /\ Len(s) = i /\ \A j \in 1 .. i : s[j] = Estimate(queries[j])
    BY <1>5, <1>7, <2>3, <2>4
  <2>7. f[k] = Append(s, x)
    BY <1>5, <2>3, <2>4, <2>5
  <2>8. /\ Append(s, x) \in Seq(E) /\ Len(Append(s, x)) = Len(s) + 1
        /\ \A j \in 1 .. Len(s) : Append(s, x)[j] = s[j]
        /\ Append(s, x)[Len(s) + 1] = x
    BY <2>6, AppendParts
  <2>9. \A j \in 1 .. k : j \in 1 .. i \/ j = k
    BY <2>2
  <2>10. Len(f[k]) = k /\ \A j \in 1 .. k : f[k][j] = Estimate(queries[j])
    BY <2>2, <2>5, <2>6, <2>7, <2>8, <2>9
  <2> QED
    BY <2>2, <2>10
<1>8. Nat \subseteq T
  <2> HIDE DEF T
  <2> QED
    BY <1>6, <1>7, NatInductive
<1>9. At(n)
  BY <1>1, <1>8
<1> QED
  BY <1>1, <1>5, <1>9 DEF n

\* The query that is searched is a candidate that no other is more probable than.
LEMMA MostProbableIs ==
  ASSUME NEW V, NEW queries \in Seq(V), NEW query \in MostProbable(queries)
  PROVE  /\ query \in Range(queries)
         /\ \A other \in Range(queries) : Estimate(other) <= Estimate(query)
<1>1. PICK e : e = EstimateQueriesProbabilities(queries)
  OBVIOUS
<1>2. PICK i \in DOMAIN queries : queries[i] = query /\ \A j \in DOMAIN queries : e[j] <= e[i]
  BY <1>1 DEF MostProbable
<1>3. \A j \in DOMAIN queries : e[j] = Estimate(queries[j])
  BY <1>1, EstimatesAre
<1>4. query \in Range(queries)
  BY <1>2 DEF Range
<1>5. ASSUME NEW other \in Range(queries) PROVE Estimate(other) <= Estimate(query)
  <2>1. PICK j \in DOMAIN queries : queries[j] = other
    BY DEF Range
  <2> QED
    BY <1>2, <1>3, <2>1
<1> QED
  BY <1>4, <1>5

\* The queries that are completed are candidates, and all of them if there are three or fewer.
LEMMA MatchedAre ==
  ASSUME NEW V, NEW queries \in Seq(V), queries # <<>>, NEW all \in GetMatchedWordsAutocomplete(queries)
  PROVE  /\ all \in Seq(V) /\ all # <<>> /\ Range(all) \subseteq Range(queries)
         /\ Len(queries) <= 3 => Range(all) = Range(queries)
<1> DEFINE number == IF Len(queries) < 3 THEN Len(queries) ELSE 3
<1>1. PICK n \in Nat : n = Len(queries)
  BY SeqParts
<1>2. DOMAIN queries = 1 .. n /\ n # 0 /\ \A i \in 1 .. n : queries[i] \in V
  BY <1>1, SeqParts
<1>3. PICK k \in Nat : k = number /\ k # 0 /\ k <= n /\ (n <= 3 => k = n)
  BY <1>1, <1>2
<1>4. PICK p : /\ p \in [1 .. number -> DOMAIN queries]
               /\ \A m, j \in 1 .. number : m < j => p[m] # p[j]
               /\ all = [m \in 1 .. number |-> queries[p[m]]]
  BY DEF GetMatchedWordsAutocomplete
<1>5. /\ p \in [1 .. k -> 1 .. n] /\ \A m, j \in 1 .. k : m < j => p[m] # p[j]
      /\ all = [m \in 1 .. k |-> queries[p[m]]]
  <2> HIDE DEF number
  <2> QED
    BY <1>2, <1>3, <1>4
<1>6. /\ all = [m \in 1 .. k |-> all[m]]
      /\ \A m \in 1 .. k : all[m] = queries[p[m]] /\ all[m] \in V /\ all[m] \in Range(queries)
  BY <1>2, <1>5 DEF Range
<1>7. all \in Seq(V) /\ Len(all) = k /\ DOMAIN all = 1 .. k
  BY <1>6, IsSeq
<1>8. all # <<>> /\ Range(all) \subseteq Range(queries)
  BY <1>3, <1>6, <1>7 DEF Range
<1>9. ASSUME n <= 3, NEW x \in Range(queries) PROVE x \in Range(all)
  <2>1. PICK i \in 1 .. n : queries[i] = x
    BY <1>2 DEF Range
  <2>2. IsFiniteSet(1 .. n) /\ Cardinality(1 .. n) = n
    BY FirstCount
  <2>3. p \in [1 .. n -> 1 .. n] /\ \A m, j \in 1 .. n : m # j => p[m] # p[j]
    <3>1. \A m, j \in 1 .. n : m # j => m < j \/ j < m
      OBVIOUS
    <3> QED
      BY <1>3, <1>5, <1>9, <3>1
  <2>4. \A y \in 1 .. n : \E m \in 1 .. n : p[m] = y
    <3>1. PICK S : S = 1 .. n
      OBVIOUS
    <3>2. IsFiniteSet(S) /\ n = Cardinality(S) /\ p \in [1 .. n -> S]
      BY <2>2, <2>3, <3>1
    <3>3. n \in Nat /\ \A m, j \in 1 .. n : m # j => p[m] # p[j]
      BY <2>3
    <3>4. \A y \in S : \E m \in 1 .. n : p[m] = y
      BY <3>2, <3>3, AllTaken
    <3> QED
      BY <3>1, <3>4
  <2>5. PICK m \in 1 .. n : p[m] = i
    BY <2>4
  <2> QED
    BY <1>3, <1>6, <1>7, <1>9, <2>1, <2>5 DEF Range
<1> QED
  BY <1>1, <1>7, <1>8, <1>9

------------------------------------------------------------------------------
(* The posting lists that a request reads. *)

\* A search reads both lists of each term.
LEMMA ReadsOfTermsAre ==
  ASSUME NEW terms \in Seq(STRING)
  PROVE  LET n == Len(terms)
             all == ReadsOfTerms(terms)
         IN  /\ all \in Seq(Fields \X STRING) /\ n \in Nat /\ Len(all) = 2 * n
             /\ \A i \in 1 .. n : all[2 * i - 1] = <<"name", terms[i]>> /\ all[2 * i] = <<"address", terms[i]>>
<1> DEFINE n == Len(terms)
           V == Fields \X STRING
           part(i) == << <<"name", terms[i]>>, <<"address", terms[i]>> >>
           seqs == [i \in DOMAIN terms |-> part(i)]
<1>1. n \in Nat /\ DOMAIN terms = 1 .. n /\ \A i \in 1 .. n : terms[i] \in STRING
  BY SeqParts
<1>2. \A i \in 1 .. n : part(i) \in Seq(V)
  <2>1. \A i \in 1 .. n : <<"name", terms[i]>> \in V /\ <<"address", terms[i]>> \in V
    BY <1>1 DEF Fields
  <2> HIDE DEF V
  <2> QED
    BY <2>1
<1>3. seqs \in Seq(Seq(V)) /\ Len(seqs) = n /\ \A i \in 1 .. n : seqs[i] = part(i)
  <2>1. seqs = [i \in 1 .. n |-> seqs[i]] /\ \A i \in 1 .. n : seqs[i] = part(i)
    BY <1>1
  <2>2. \A i \in 1 .. n : seqs[i] \in Seq(V)
    <3> HIDE DEF seqs, part, n, V
    <3> QED
      BY <1>2, <2>1
  <2> HIDE DEF seqs, part, n, V
  <2> QED
    BY <1>1, <2>1, <2>2, IsSeq
<1>4. ReadsOfTerms(terms) = FlattenSeq(seqs)
  BY DEF ReadsOfTerms
<1> HIDE DEF seqs, V
<1>5. PICK f : Flattened(seqs, f) /\ FlattenSeq(seqs) = f[Len(seqs)]
  BY <1>3, FlattenIs
<1>6. ASSUME NEW i \in 0 .. n PROVE f[i] \in Seq(V)
  <2>1. i \in 0 .. Len(seqs)
    BY <1>3
  <2> HIDE DEF n
  <2> QED
    BY <1>3, <1>5, <2>1, FlattenedType
<1> DEFINE At(i) == /\ Len(f[i]) = 2 * i
                    /\ \A j \in 1 .. i : /\ f[i][2 * j - 1] = <<"name", terms[j]>>
                                         /\ f[i][2 * j] = <<"address", terms[j]>>
           T == {i \in Nat : i <= n => At(i)}
<1> HIDE DEF n
<1>7. 0 \in T
  <2>1. f[0] = <<>>
    BY <1>5 DEF Flattened
  <2> QED
    BY <2>1
<1>8. ASSUME NEW i \in Nat, NEW k \in 1 .. n, k = i + 1
      PROVE  f[k] = f[i] \o part(k)
  <2>1. k \in 1 .. Len(seqs) /\ k - 1 = i
    BY <1>1, <1>3, <1>8
  <2>2. f[k] = f[k - 1] \o seqs[k]
    BY <1>5, <2>1 DEF Flattened
  <2>3. seqs[k] = part(k)
    BY <1>3, <2>1
  <2> HIDE DEF part
  <2> QED
    BY <2>1, <2>2, <2>3
<1>9. ASSUME NEW i \in Nat, i \in T PROVE i + 1 \in T
  <2>1. SUFFICES ASSUME i + 1 <= n PROVE At(i + 1)
    <3> HIDE DEF At
    <3> QED
      OBVIOUS
  <2>2. PICK s : s = f[i]
    OBVIOUS
  <2>3. PICK k : k = i + 1
    OBVIOUS
  <2>4. i \in 0 .. n /\ k \in 1 .. n /\ i <= n
    BY <1>1, <2>1, <2>3
  <2>5. PICK t : t = part(k)
    OBVIOUS
  <2>6. PICK x : x = <<"name", terms[k]>>
    OBVIOUS
  <2>7. PICK y : y = <<"address", terms[k]>>
    OBVIOUS
  <2>8. t = <<x, y>>
    BY <2>5, <2>6, <2>7
  <2>9. PICK r : r = f[k]
    OBVIOUS
  <2>10. s \in Seq(V) /\ t \in Seq(V) /\ r = s \o t
    <3>1. f[k] = f[i] \o part(k)
      <4> HIDE DEF part
      <4> QED
        BY <1>8, <2>3, <2>4
    <3>2. part(k) \in Seq(V)
      BY <1>2, <2>4
    <3> HIDE DEF part
    <3> QED
      BY <1>6, <2>2, <2>4, <2>5, <2>9, <3>1, <3>2
  <2>11. /\ Len(s) = 2 * i
         /\ \A j \in 1 .. i : s[2 * j - 1] = <<"name", terms[j]>> /\ s[2 * j] = <<"address", terms[j]>>
    BY <1>9, <2>2, <2>4
  <2>12. /\ r \in Seq(V) /\ Len(r) = Len(s) + Len(t)
         /\ \A j \in 1 .. Len(s) : r[j] = s[j]
         /\ \A j \in 1 .. Len(t) : r[Len(s) + j] = t[j]
    BY <2>10, ConcatParts
  <2>13. Len(t) = 2 /\ t[1] = x /\ t[2] = y
    BY <2>8
  <2>14. r[(2 * i) + 1] = x /\ r[(2 * i) + 2] = y /\ Len(r) = (2 * i) + 2
    <3>1. 1 \in 1 .. Len(t) /\ 2 \in 1 .. Len(t)
      BY <2>13
    <3>2. r[Len(s) + 1] = t[1] /\ r[Len(s) + 2] = t[2]
      BY <2>12, <3>1
    <3> QED
      BY <2>11, <2>12, <2>13, <3>2
  <2>15. Len(r) = 2 * k /\ r[2 * k - 1] = x /\ r[2 * k] = y
    <3>1. 2 * k - 1 = (2 * i) + 1 /\ 2 * k = (2 * i) + 2
      BY <2>3
    <3> QED
      BY <2>14, <3>1
  <2>16. ASSUME NEW j \in 1 .. k
         PROVE  r[2 * j - 1] = <<"name", terms[j]>> /\ r[2 * j] = <<"address", terms[j]>>
    <3>1. CASE j = k
      BY <2>6, <2>7, <2>15, <3>1
    <3>2. CASE j # k
      <4>1. j \in 1 .. i /\ 2 * j - 1 \in 1 .. Len(s) /\ 2 * j \in 1 .. Len(s)
        BY <2>3, <2>11, <3>2
      <4> QED
        BY <2>11, <2>12, <4>1
    <3> QED
      BY <3>1, <3>2
  <2>17. At(k)
    BY <2>9, <2>15, <2>16
  <2> QED
    BY <2>3, <2>17
<1>10. Nat \subseteq T
  <2> HIDE DEF T
  <2> QED
    BY <1>7, <1>9, NatInductive
<1>11. At(n)
  BY <1>1, <1>10
<1>12. ReadsOfTerms(terms) = f[n] /\ f[n] \in Seq(V)
  BY <1>1, <1>3, <1>4, <1>5, <1>6
<1> QED
  BY <1>1, <1>11, <1>12 DEF n, V

\* A matched query is read twice.
LEMMA ReadsOfAre ==
  ASSUME NEW query \in Seq(STRING)
  PROVE  LET n == Len(query)
             all == ReadsOf(query) \o ReadsOf(query)
         IN  /\ all \in Seq(Fields \X STRING) /\ n \in Nat /\ Len(all) = 2 * n
             /\ \A i \in 1 .. n : all[i] = <<"name", query[i]>> /\ all[n + i] = <<"name", query[i]>>
<1> DEFINE n == Len(query)
           V == Fields \X STRING
<1>1. n \in Nat /\ DOMAIN query = 1 .. n /\ \A i \in 1 .. n : query[i] \in STRING
  BY SeqParts
<1>2. PICK s : s = ReadsOf(query)
  OBVIOUS
<1>3. s = [i \in 1 .. n |-> s[i]] /\ \A i \in 1 .. n : s[i] = <<"name", query[i]>>
  BY <1>1, <1>2 DEF ReadsOf
<1>4. \A i \in 1 .. n : s[i] \in V
  <2>1. \A i \in 1 .. n : <<"name", query[i]>> \in V
    BY <1>1 DEF Fields
  <2> HIDE DEF V, n
  <2> QED
    BY <1>3, <2>1
<1> HIDE DEF n, V
<1>5. s \in Seq(V) /\ Len(s) = n
  BY <1>1, <1>3, <1>4, IsSeq
<1>6. PICK r : r = s \o s
  OBVIOUS
<1>7. /\ r \in Seq(V) /\ Len(r) = Len(s) + Len(s)
      /\ \A i \in 1 .. Len(s) : r[i] = s[i]
      /\ \A i \in 1 .. Len(s) : r[Len(s) + i] = s[i]
  <2>1. PICK t \in Seq(V) : t = s
    BY <1>5
  <2>2. s \in Seq(V) /\ r = s \o t
    BY <1>5, <1>6, <2>1
  <2>3. /\ r \in Seq(V) /\ Len(r) = Len(s) + Len(t)
        /\ \A i \in 1 .. Len(s) : r[i] = s[i]
        /\ \A i \in 1 .. Len(t) : r[Len(s) + i] = t[i]
    BY <2>2, ConcatParts
  <2> QED
    BY <2>1, <2>3
<1>8. r \in Seq(V) /\ Len(r) = 2 * n /\ \A i \in 1 .. n : r[i] = s[i] /\ r[n + i] = s[i]
  BY <1>1, <1>5, <1>7
<1> QED
  BY <1>1, <1>2, <1>3, <1>6, <1>8 DEF n, V

\* Of the lists that were read, each term has its own.
LEMMA LastReadIs ==
  ASSUME NEW terms \in Seq(STRING), NEW field, NEW got, NEW start, NEW stride,
         \A i \in DOMAIN terms : got[start + (stride * i)] = PostingList(field, terms[i])
  PROVE  LastRead(terms, got, start, stride) = [t \in Range(terms) |-> PostingList(field, t)]
<1>1. PICK n \in Nat : n = Len(terms) /\ DOMAIN terms = 1 .. n
  BY SeqParts
<1> DEFINE last(t, i) == terms[i] = t /\ \A j \in DOMAIN terms : terms[j] = t => j <= i
<1>2. ASSUME NEW t \in Range(terms)
      PROVE  \E i \in DOMAIN terms : last(t, i)
  <2> DEFINE T == {k \in Nat : k < n /\ terms[n - k] = t}
  <2>1. PICK m \in 1 .. n : terms[m] = t
    BY <1>1 DEF Range
  <2>2. T # {}
    <3>1. n - m \in Nat /\ n - m < n /\ n - (n - m) = m
      BY <1>1
    <3> QED
      BY <2>1, <3>1
  <2>3. PICK k \in T : \A y \in T : k <= y
    <3>1. T \subseteq Nat
      OBVIOUS
    <3> HIDE DEF T
    <3> QED
      BY <2>2, <3>1, LeastNumber
  <2>4. PICK i \in 1 .. n : i = n - k /\ terms[i] = t
    <3>1. n - k \in 1 .. n
      BY <1>1
    <3> QED
      BY <3>1
  <2>5. ASSUME NEW j \in 1 .. n, terms[j] = t PROVE j <= i
    <3>1. n - j \in Nat /\ n - j < n /\ n - (n - j) = j
      BY <1>1
    <3>2. n - j \in T
      BY <2>5, <3>1
    <3>3. k <= n - j /\ k \in Nat
      BY <2>3, <3>2
    <3> QED
      BY <1>1, <2>4, <3>3
  <2> QED
    BY <1>1, <2>4, <2>5
<1>3. ASSUME NEW t \in Range(terms)
      PROVE  got[start + (stride * (CHOOSE i \in DOMAIN terms : last(t, i)))] = PostingList(field, t)
  <2>1. PICK i \in DOMAIN terms : i = (CHOOSE j \in DOMAIN terms : last(t, j)) /\ last(t, i)
    <3> HIDE DEF last
    <3> QED
      BY <1>2
  <2>2. terms[i] = t
    BY <2>1
  <2> HIDE DEF last
  <2> QED
    BY <2>1, <2>2
<1>4. LastRead(terms, got, start, stride)
        = [t \in Range(terms) |-> got[start + (stride * (CHOOSE i \in DOMAIN terms : last(t, i)))]]
  BY DEF LastRead
<1> HIDE DEF last
<1> QED
  BY <1>3, <1>4

------------------------------------------------------------------------------
(* What the words of a request can mean. *)

\* The alternatives of a word are what it can mean, and none only if it can mean nothing.
LEMMA AlternativesAre ==
  ASSUME NEW c \in Clients, NEW req \in Requests[c], req.op = "search"
  PROVE  LET words == req.words
             all == Alternatives(words)
         IN  /\ words \in Seq(STRING) /\ req.k \in Int /\ req.offset \in Nat
             /\ all \in Seq(Seq(STRING)) /\ Len(all) = Len(words)
             /\ \A i \in 1 .. Len(words) :
                   Range(all[i]) = Meant(words[i]) /\ (all[i] = <<>> => Meant(words[i]) = {})
<1>1. PICK words : words = req.words
  OBVIOUS
<1>2. /\ words \in Seq(STRING) /\ req.k \in Int /\ req.offset \in Nat
      /\ Range(words) \ Range(Terms) \subseteq DOMAIN Misspellings
  BY <1>1, RequestsAssumption
<1>3. PICK n \in Nat : n = Len(words) /\ DOMAIN words = 1 .. n /\ \A i \in 1 .. n : words[i] \in STRING
  BY <1>2, SeqParts
<1> DEFINE one(i) == IF IsInVocabulary(words[i]) THEN <<words[i]>> ELSE GetWordCandidates(words[i])
           all == [i \in 1 .. n |-> one(i)]
<1>4. Alternatives(words) = all
  BY <1>3 DEF Alternatives
<1>5. ASSUME NEW i \in 1 .. n
      PROVE  /\ one(i) \in Seq(STRING) /\ Range(one(i)) = Meant(words[i])
             /\ one(i) = <<>> => Meant(words[i]) = {}
  <2>1. PICK word \in STRING : word = words[i]
    BY <1>3
  <2>2. word \in Range(words)
    BY <1>3, <2>1 DEF Range
  <2>3. CASE word \in Range(Terms)
    <3>1. one(i) = <<word>> /\ Meant(word) = {word}
      BY <2>1, <2>3 DEF IsInVocabulary, Meant
    <3>2. <<word>> \in Seq(STRING) /\ Range(<<word>>) = {word} /\ <<word>> # <<>>
      BY <2>1 DEF Range
    <3> HIDE DEF one
    <3> QED
      BY <2>1, <3>1, <3>2
  <2>4. CASE word \notin Range(Terms)
    <3>1. one(i) = GetWordCandidates(word) /\ Meant(word) = Range(GetWordCandidates(word))
      BY <2>1, <2>4 DEF IsInVocabulary, Meant
    <3>2. Misspellings[word].one \in Seq(STRING) /\ Misspellings[word].two \in Seq(STRING)
      BY <1>2, <2>2, <2>4, WordsAssumption
    <3>3. GetWordCandidates(word) \in Seq(STRING)
      BY <3>2 DEF GetWordCandidates
    <3>4. Range(<<>>) = {}
      BY DEF Range
    <3> HIDE DEF one
    <3> QED
      BY <2>1, <3>1, <3>3, <3>4
  <2> QED
    BY <2>3, <2>4
<1>6. all = [i \in 1 .. n |-> all[i]] /\ \A i \in 1 .. n : all[i] = one(i)
  OBVIOUS
<1> HIDE DEF all, one
<1>7. \A i \in 1 .. n : all[i] \in Seq(STRING)
  BY <1>5, <1>6
<1>8. all \in Seq(Seq(STRING)) /\ Len(all) = n
  BY <1>6, <1>7, IsSeq
<1> QED
  BY <1>1, <1>2, <1>3, <1>4, <1>5, <1>6, <1>8

\* The candidates for the words of a search are queries the user can have meant.
LEMMA CandidatesMeant ==
  ASSUME NEW c \in Clients, NEW req \in Requests[c], req.op = "search"
  PROVE  LET words == req.words
             candidates == GetCorrectQueryCandidates(Alternatives(words))
         IN  /\ candidates \in Seq(Seq(STRING))
             /\ \A query \in Range(candidates) :
                   Len(query) = Len(words) /\ \A i \in 1 .. Len(words) : query[i] \in Meant(words[i])
             /\ (\A i \in 1 .. Len(words) : Meant(words[i]) # {}) => candidates # <<>>
             /\ Len(words) <= 3 =>
                   \A query \in Seq(STRING) :
                      Len(query) = Len(words) /\ (\A i \in 1 .. Len(words) : query[i] \in Meant(words[i]))
                         => query \in Range(candidates)
<1>1. PICK words : words = req.words
  OBVIOUS
<1>2. PICK all : all = Alternatives(words)
  OBVIOUS
<1>3. /\ all \in Seq(Seq(STRING)) /\ Len(all) = Len(words)
      /\ \A i \in 1 .. Len(words) : Range(all[i]) = Meant(words[i]) /\ (all[i] = <<>> => Meant(words[i]) = {})
  BY <1>1, <1>2, AlternativesAre
<1>4. PICK candidates : candidates = GetCorrectQueryCandidates(all)
  OBVIOUS
<1>5. /\ candidates \in Seq(Seq(STRING))
      /\ \A query \in Range(candidates) :
            Len(query) = Len(all) /\ \A i \in 1 .. Len(all) : query[i] \in Range(all[i])
      /\ (\A i \in 1 .. Len(all) : all[i] # <<>>) => candidates # <<>>
  BY <1>3, <1>4, CandidatesAre
<1>6. ASSUME Len(words) <= 3, NEW query \in Seq(STRING), Len(query) = Len(words),
             \A i \in 1 .. Len(words) : query[i] \in Meant(words[i])
      PROVE  query \in Range(candidates)
  <2>1. Chosen(query, all)
    BY <1>3, <1>6 DEF Chosen
  <2>2. Len(all) <= 3
    BY <1>3, <1>6
  <2> QED
    BY <1>3, <1>4, <2>1, <2>2, CandidatesExact
<1>7. (\A i \in 1 .. Len(words) : Meant(words[i]) # {}) => candidates # <<>>
  BY <1>3, <1>5
<1>8. \A query \in Range(candidates) :
         Len(query) = Len(words) /\ \A i \in 1 .. Len(words) : query[i] \in Meant(words[i])
  BY <1>3, <1>5
<1> QED
  BY <1>1, <1>2, <1>4, <1>5, <1>6, <1>7, <1>8

\* A search without a candidate, or with one that has no estimate, cannot be answered.
LEMMA SearchPanics ==
  ASSUME NEW c \in Clients, NEW req \in Requests[c], req.op = "search", NEW candidates,
         candidates = GetCorrectQueryCandidates(Alternatives(req.words)),
         candidates = <<>> \/ ~ Estimable(candidates)
  PROVE  ~ Answerable(req.words)
<1>1. PICK words : words = req.words
  OBVIOUS
<1>2. words \in Seq(STRING)
  BY <1>1, AlternativesAre
<1>3. PICK n \in Nat : n = Len(words) /\ DOMAIN words = 1 .. n /\ \A i \in 1 .. n : words[i] \in Range(words)
  <2>1. DOMAIN words = 1 .. Len(words) /\ Len(words) \in Nat
    BY <1>2, SeqParts
  <2>2. \A i \in DOMAIN words : words[i] \in Range(words)
    BY DEF Range
  <2> QED
    BY <2>1, <2>2
<1>4. /\ candidates \in Seq(Seq(STRING))
      /\ \A query \in Range(candidates) : Len(query) = n /\ \A i \in 1 .. n : query[i] \in Meant(words[i])
      /\ (\A i \in 1 .. n : Meant(words[i]) # {}) => candidates # <<>>
  BY <1>1, <1>3, CandidatesMeant
<1>5. CASE candidates = <<>>
  <2>1. PICK i \in 1 .. n : Meant(words[i]) = {}
    BY <1>4, <1>5
  <2> QED
    BY <1>1, <1>3, <2>1 DEF Answerable
<1>6. CASE ~ Estimable(candidates)
  <2>1. PICK query \in Range(candidates) : \E word \in Range(query) : Unseen(word)
    BY <1>6 DEF Estimable
  <2>2. query \in Seq(STRING)
    BY <1>4, SeqParts
  <2>3. DOMAIN query = 1 .. n
    BY <1>4, <2>2, SeqParts
  <2>4. PICK i \in 1 .. n : Unseen(query[i])
    BY <2>1, <2>3 DEF Range
  <2>5. query[i] \in Meant(words[i]) /\ words[i] \in Range(words)
    BY <1>3, <1>4
  <2> QED
    BY <1>1, <2>4, <2>5 DEF Answerable
<1> QED
  BY <1>5, <1>6

\* The terms of a search are the query the user most probably meant.
LEMMA TermsMeant ==
  ASSUME NEW c \in Clients, NEW req \in Requests[c], req.op = "search", NEW candidates,
         candidates = GetCorrectQueryCandidates(Alternatives(req.words)),
         candidates # <<>>, Estimable(candidates), NEW terms \in MostProbable(candidates)
  PROVE  /\ terms \in Seq(STRING) /\ Len(terms) = Len(req.words)
         /\ \A i \in 1 .. Len(req.words) : terms[i] \in Meant(req.words[i])
         /\ Len(req.words) <= 3 => Answerable(req.words) /\ terms \in Best(req.words)
<1>1. PICK words : words = req.words
  OBVIOUS
<1>2. words \in Seq(STRING)
  BY <1>1, AlternativesAre
<1>3. PICK n \in Nat : n = Len(words) /\ DOMAIN words = 1 .. n
  BY <1>2, SeqParts
<1>4. /\ candidates \in Seq(Seq(STRING))
      /\ \A query \in Range(candidates) : Len(query) = n /\ \A i \in 1 .. n : query[i] \in Meant(words[i])
      /\ n <= 3 => \A query \in Seq(STRING) :
                      Len(query) = n /\ (\A i \in 1 .. n : query[i] \in Meant(words[i]))
                         => query \in Range(candidates)
  BY <1>1, <1>3, CandidatesMeant
<1>5. /\ terms \in Range(candidates)
      /\ \A other \in Range(candidates) : Estimate(other) <= Estimate(terms)
  BY <1>4, MostProbableIs
<1>6. Range(candidates) \subseteq Seq(STRING)
  BY <1>4, SeqParts
<1>7. terms \in Seq(STRING) /\ Len(terms) = n /\ \A i \in 1 .. n : terms[i] \in Meant(words[i])
  BY <1>4, <1>5, <1>6
<1>8. DOMAIN terms = 1 .. n /\ \A i \in 1 .. n : terms[i] \in STRING
  BY <1>7, SeqParts
<1>9. ASSUME n <= 3 PROVE Answerable(words)
  <2>1. ASSUME NEW word \in Range(words), NEW w \in Meant(word), w \in STRING
        PROVE  ~ Unseen(w)
    <3>1. PICK i \in 1 .. n : words[i] = word
      BY <1>3 DEF Range
    <3> DEFINE query == [j \in 1 .. n |-> IF j = i THEN w ELSE terms[j]]
    <3>2. query = [j \in 1 .. n |-> query[j]]
      OBVIOUS
    <3>3. \A j \in 1 .. n : query[j] \in STRING /\ query[j] \in Meant(words[j])
      BY <1>7, <1>8, <2>1, <3>1
    <3>4. query[i] = w
      OBVIOUS
    <3> HIDE DEF query
    <3>5. query \in Seq(STRING) /\ Len(query) = n /\ DOMAIN query = 1 .. n
      BY <3>2, <3>3, IsSeq
    <3>6. query \in Range(candidates)
      BY <1>4, <1>9, <3>3, <3>5
    <3>7. w \in Range(query)
      BY <3>4, <3>5 DEF Range
    <3> QED
      BY <3>6, <3>7 DEF Estimable
  <2>2. ASSUME NEW word \in Range(words) PROVE Meant(word) # {} /\ Meant(word) \subseteq STRING
    <3>1. PICK i \in 1 .. n : words[i] = word
      BY <1>3 DEF Range
    <3>2. PICK all : all = Alternatives(words)
      OBVIOUS
    <3>3. all \in Seq(Seq(STRING)) /\ Len(all) = n /\ Range(all[i]) = Meant(words[i])
      BY <1>1, <1>3, <3>2, AlternativesAre
    <3>4. all[i] \in Seq(STRING)
      BY <3>3, SeqParts
    <3>5. Range(all[i]) \subseteq STRING
      BY <3>4, SeqParts
    <3> QED
      BY <1>7, <3>1, <3>3, <3>5
  <2> QED
    BY <2>1, <2>2 DEF Answerable
<1>10. ASSUME n <= 3 PROVE terms \in Best(words)
  <2> DEFINE queries == MeantQueries(words)
             e == [q \in queries |-> EstimateQueriesProbabilities(<<q>>)[1]]
             U == UNION {Meant(word) : word \in Range(words)}
  <2>1. \A i \in 1 .. n : Meant(words[i]) \subseteq U
    <3>1. \A i \in 1 .. n : words[i] \in Range(words)
      BY <1>3 DEF Range
    <3> QED
      BY <3>1
  <2>2. terms \in queries
    <3> HIDE DEF U, e, queries
    <3>1. terms = [i \in 1 .. n |-> terms[i]]
      BY <1>7, <1>8
    <3>2. \A i \in 1 .. n : terms[i] \in U
      BY <1>7, <2>1
    <3>3. terms \in [1 .. n -> U]
      BY <3>1, <3>2
    <3> QED
      BY <1>3, <1>7, <3>3 DEF MeantQueries, U, queries
  <2>3. ASSUME NEW q \in queries PROVE e[q] = Estimate(q)
    <3>1. PICK one : one = <<q>>
      OBVIOUS
    <3>2. one \in Seq({q}) /\ Len(one) = 1 /\ DOMAIN one = 1 .. 1 /\ one[1] = q
      BY <3>1
    <3>3. PICK f : f = EstimateQueriesProbabilities(one)
      OBVIOUS
    <3>4. \A i \in DOMAIN one : f[i] = Estimate(one[i])
      BY <3>2, <3>3, EstimatesAre
    <3>5. f[1] = Estimate(q)
      BY <3>2, <3>4
    <3> HIDE DEF queries
    <3> QED
      BY <3>1, <3>3, <3>5
  <2>4. ASSUME NEW q \in queries PROVE Estimate(q) <= Estimate(terms)
    <3>1. q \in [1 .. n -> U] /\ \A i \in 1 .. n : q[i] \in Meant(words[i])
      BY <1>3 DEF MeantQueries
    <3>2. \A i \in 1 .. n : q[i] \in STRING
      <4>1. \A i \in 1 .. n : Meant(words[i]) \subseteq STRING
        <5>1. PICK all : all = Alternatives(words)
          OBVIOUS
        <5>2. all \in Seq(Seq(STRING)) /\ Len(all) = n /\ \A i \in 1 .. n : Range(all[i]) = Meant(words[i])
          BY <1>1, <1>3, <5>1, AlternativesAre
        <5>3. \A i \in 1 .. n : all[i] \in Seq(STRING)
          BY <5>2, SeqParts
        <5>4. \A i \in 1 .. n : Range(all[i]) \subseteq STRING
          BY <5>3, SeqParts
        <5> QED
          BY <5>2, <5>4
      <4> QED
        BY <3>1, <4>1
    <3>3. q = [i \in 1 .. n |-> q[i]]
      BY <3>1
    <3>4. q \in Seq(STRING) /\ Len(q) = n
      BY <3>2, <3>3, IsSeq
    <3>5. q \in Range(candidates)
      BY <1>4, <1>10, <3>1, <3>4
    <3> QED
      BY <1>5, <3>5
  <2>5. e[terms] = Estimate(terms) /\ \A other \in queries : e[other] <= e[terms]
    <3> HIDE DEF e, queries
    <3> QED
      BY <2>2, <2>3, <2>4
  <2>6. Best(words) = {q \in queries : \A other \in queries : e[other] <= e[q]}
    BY DEF Best
  <2> HIDE DEF e, queries
  <2> QED
    BY <2>2, <2>5, <2>6
<1> QED
  BY <1>1, <1>3, <1>7, <1>9, <1>10

------------------------------------------------------------------------------
(* What the last word of a request can be completed to. *)

\* A query with the words before the last, and a completion of that one.
Completes(query, words) ==
  /\ query \in Seq(STRING) /\ Len(query) = Len(words)
  /\ \A i \in 1 .. Len(words) - 1 : query[i] = words[i]
  /\ query[Len(words)] \in Range(Completions[words[Len(words)]])

\* What an autocompletion that has words asks for.
LEMMA CompletedAre ==
  ASSUME NEW c \in Clients, NEW req \in Requests[c], req.op = "autocomplete", req.words # <<>>
  PROVE  LET words == req.words
             n == Len(words)
             all == Completed(words)
         IN  /\ words \in Seq(STRING) /\ req.k \in Int /\ req.offset \in Nat
             /\ n \in Nat /\ n # 0 /\ DOMAIN words = 1 .. n /\ \A i \in 1 .. n : words[i] \in Range(words)
             /\ Range(words) \cap Operators = {}
             /\ Completions[words[n]] \in Seq(STRING) /\ Range(Completions[words[n]]) \subseteq Range(Terms)
             /\ all \in Seq(Seq(STRING)) /\ Len(all) = n
             /\ all[n] = Completions[words[n]] /\ \A i \in 1 .. n - 1 : all[i] = <<words[i]>>
<1>1. PICK words : words = req.words
  OBVIOUS
<1>2. /\ words \in Seq(STRING) /\ req.k \in Int /\ req.offset \in Nat
      /\ Operators \cap Range(words) = {}
  BY <1>1, RequestsAssumption
<1>3. PICK n \in Nat : n = Len(words) /\ DOMAIN words = 1 .. n /\ \A i \in 1 .. n : words[i] \in STRING
  BY <1>2, SeqParts
<1>4. n # 0
  BY <1>1, <1>2, <1>3
<1>5. PICK last : last = Completions[words[n]]
  OBVIOUS
<1>6. last \in Seq(STRING) /\ Range(last) \subseteq Range(Terms)
  <2>1. Last(words) \in DOMAIN Completions
    BY <1>1, RequestsAssumption
  <2>2. Last(words) = words[n]
    BY <1>3 DEF Last
  <2> QED
    BY <1>5, <2>1, <2>2, WordsAssumption
<1> DEFINE one(i) == IF i < Len(words) THEN <<words[i]>> ELSE Completions[words[i]]
           all == [i \in 1 .. n |-> one(i)]
<1>7. Completed(words) = all
  BY <1>3 DEF Completed
<1>8. one(n) = last /\ \A i \in 1 .. n - 1 : one(i) = <<words[i]>>
  BY <1>3, <1>5
<1>9. all = [i \in 1 .. n |-> all[i]] /\ \A i \in 1 .. n : all[i] = one(i)
  OBVIOUS
<1>10. all[n] = last /\ \A i \in 1 .. n - 1 : all[i] = <<words[i]>>
  <2>1. n \in 1 .. n /\ \A i \in 1 .. n - 1 : i \in 1 .. n
    BY <1>4
  <2> HIDE DEF one, all
  <2> QED
    BY <1>8, <1>9, <2>1
<1> HIDE DEF one, all
<1>11. \A i \in 1 .. n : all[i] \in Seq(STRING)
  <2>1. \A i \in 1 .. n : <<words[i]>> \in Seq(STRING)
    BY <1>3
  <2>2. \A i \in 1 .. n : i \in 1 .. n - 1 \/ i = n
    OBVIOUS
  <2> QED
    BY <1>6, <1>10, <2>1, <2>2
<1>12. all \in Seq(Seq(STRING)) /\ Len(all) = n
  BY <1>9, <1>11, IsSeq
<1>13. \A i \in 1 .. n : words[i] \in Range(words)
  BY <1>3 DEF Range
<1> QED
  BY <1>1, <1>2, <1>3, <1>4, <1>5, <1>6, <1>7, <1>10, <1>12, <1>13

\* The candidates of an autocompletion: each completes the query, one for each completion of
\* its last word.
LEMMA CompletionsMeant ==
  ASSUME NEW c \in Clients, NEW req \in Requests[c], req.op = "autocomplete", req.words # <<>>
  PROVE  LET words == req.words
             n == Len(words)
             candidates == GetCorrectQueryCandidates(Completed(words))
         IN  /\ candidates \in Seq(Seq(STRING))
             /\ \A query \in Range(candidates) : Completes(query, words)
             /\ Completions[words[n]] # <<>> => candidates # <<>>
             /\ Len(candidates) = Len(Completions[words[n]])
             /\ n <= 3 => \A query : Completes(query, words) => query \in Range(candidates)
<1>1. PICK words : words = req.words
  OBVIOUS
<1>2. PICK n : n = Len(words)
  OBVIOUS
<1>3. PICK all : all = Completed(words)
  OBVIOUS
<1>4. /\ n \in Nat /\ n # 0 /\ DOMAIN words = 1 .. n /\ \A i \in 1 .. n : words[i] \in Range(words)
      /\ Completions[words[n]] \in Seq(STRING)
      /\ all \in Seq(Seq(STRING)) /\ Len(all) = n
      /\ all[n] = Completions[words[n]] /\ \A i \in 1 .. n - 1 : all[i] = <<words[i]>>
  BY <1>1, <1>2, <1>3, CompletedAre
<1>5. PICK candidates : candidates = GetCorrectQueryCandidates(all)
  OBVIOUS
<1>6. /\ candidates \in Seq(Seq(STRING))
      /\ \A query \in Range(candidates) :
            Len(query) = Len(all) /\ \A i \in 1 .. Len(all) : query[i] \in Range(all[i])
      /\ (\A i \in 1 .. Len(all) : all[i] # <<>>) => candidates # <<>>
  BY <1>4, <1>5, CandidatesAre
<1>7. \A i \in 1 .. n - 1 : Len(all[i]) = 1 /\ all[i] # <<>> /\ Range(all[i]) = {words[i]}
  <2>1. \A x : Len(<<x>>) = 1 /\ <<x>> # <<>> /\ Range(<<x>>) = {x}
    BY DEF Range
  <2> QED
    BY <1>4, <2>1
<1>8. ASSUME NEW query \in Range(candidates) PROVE Completes(query, words)
  <2>1. query \in Seq(STRING)
    BY <1>6, SeqParts
  <2>2. Len(query) = n /\ \A i \in 1 .. n : query[i] \in Range(all[i])
    BY <1>4, <1>6
  <2>3. n \in 1 .. n /\ \A i \in 1 .. n - 1 : i \in 1 .. n
    BY <1>4
  <2> QED
    BY <1>2, <1>4, <1>7, <2>1, <2>2, <2>3 DEF Completes
<1>9. ASSUME Completions[words[n]] # <<>> PROVE candidates # <<>>
  <2>1. \A i \in 1 .. n : i \in 1 .. n - 1 \/ i = n
    BY <1>4
  <2> QED
    BY <1>4, <1>6, <1>7, <1>9, <2>1
<1>10. Len(candidates) = Len(Completions[words[n]])
  <2>1. all # <<>> /\ \A i \in 1 .. Len(all) - 1 : Len(all[i]) = 1
    BY <1>4, <1>7
  <2>2. Len(GetCorrectQueryCandidates(all)) = Len(all[Len(all)])
    BY <1>4, <2>1, CandidatesCount
  <2> QED
    BY <1>4, <1>5, <2>2
<1>11. ASSUME n <= 3, NEW query, Completes(query, words) PROVE query \in Range(candidates)
  <2>1. query \in Seq(STRING) /\ Len(query) = n
    BY <1>2, <1>11 DEF Completes
  <2>2. \A i \in 1 .. n : query[i] \in Range(all[i])
    <3>1. \A i \in 1 .. n : i \in 1 .. n - 1 \/ i = n
      BY <1>4
    <3> QED
      BY <1>2, <1>4, <1>7, <1>11, <3>1 DEF Completes
  <2>3. Chosen(query, all) /\ Len(all) <= 3
    BY <1>4, <1>11, <2>1, <2>2 DEF Chosen
  <2> QED
    BY <1>4, <1>5, <2>1, <2>3, CandidatesExact
<1> QED
  BY <1>1, <1>2, <1>3, <1>5, <1>6, <1>8, <1>9, <1>10, <1>11

\* The words before the last.
LEMMA FrontIs ==
  ASSUME NEW words \in Seq(STRING), words # <<>>
  PROVE  /\ Last(words) = words[Len(words)]
         /\ Range(Front(words)) = {words[i] : i \in 1 .. Len(words) - 1}
<1>1. PICK n \in Nat : n = Len(words) /\ n # 0
  BY SeqParts
<1>2. PICK m \in Nat : m + 1 = n /\ m = n - 1
  <2>1. n - 1 \in Nat
    BY <1>1
  <2> QED
    BY <2>1
<1>3. PICK front : front = SubSeq(words, 1, m)
  OBVIOUS
<1>4. Front(words) = front
  BY <1>1, <1>2, <1>3 DEF Front
<1>5. front \in Seq(STRING) /\ Len(front) = m /\ \A j \in 1 .. m : front[j] = words[j]
  <2>1. m <= Len(words)
    BY <1>1, <1>2
  <2> QED
    BY <1>3, <2>1, FirstParts
<1>6. DOMAIN front = 1 .. m
  BY <1>5, SeqParts
<1>7. Range(front) = {words[i] : i \in 1 .. m}
  BY <1>5, <1>6 DEF Range
<1> QED
  BY <1>1, <1>2, <1>4, <1>7 DEF Last

\* A completion without a candidate, or with one that has no estimate, has a reason.
LEMMA CompletionPanics ==
  ASSUME NEW c \in Clients, NEW req \in Requests[c], req.op = "autocomplete", req.words # <<>>,
         NEW candidates, candidates = GetCorrectQueryCandidates(Completed(req.words)),
         candidates = <<>> \/ ~ Estimable(candidates)
  PROVE  \/ Completions[Last(req.words)] = <<>>
         \/ \E word \in Range(Front(req.words)) : Unseen(word)
         \/ \E word \in Range(Completions[Last(req.words)]) : Unseen(word)
<1>1. PICK words : words = req.words
  OBVIOUS
<1>2. PICK n : n = Len(words)
  OBVIOUS
<1>3. words \in Seq(STRING) /\ n \in Nat /\ n # 0
  BY <1>1, <1>2, CompletedAre
<1>4. /\ candidates \in Seq(Seq(STRING))
      /\ \A query \in Range(candidates) : Completes(query, words)
      /\ Completions[words[n]] # <<>> => candidates # <<>>
  BY <1>1, <1>2, CompletionsMeant
<1>5. Last(words) = words[n] /\ Range(Front(words)) = {words[i] : i \in 1 .. n - 1}
  BY <1>1, <1>2, <1>3, FrontIs
<1>6. CASE candidates = <<>>
  BY <1>1, <1>4, <1>5, <1>6
<1>7. CASE ~ Estimable(candidates)
  <2>1. PICK query \in Range(candidates) : \E word \in Range(query) : Unseen(word)
    BY <1>7 DEF Estimable
  <2>2. Completes(query, words)
    BY <1>4
  <2>3. query \in Seq(STRING) /\ Len(query) = n
    BY <1>2, <2>2 DEF Completes
  <2>4. DOMAIN query = 1 .. n
    BY <2>3, SeqParts
  <2>5. PICK i \in 1 .. n : Unseen(query[i])
    BY <2>1, <2>4 DEF Range
  <2>6. CASE i = n
    <3>1. query[i] \in Range(Completions[words[n]])
      BY <1>2, <2>2, <2>6 DEF Completes
    <3> QED
      BY <1>1, <1>5, <2>5, <3>1
  <2>7. CASE i # n
    <3>1. i \in 1 .. n - 1
      BY <1>3, <2>7
    <3>2. query[i] = words[i]
      BY <1>2, <2>2, <3>1 DEF Completes
    <3>3. words[i] \in Range(Front(words))
      BY <1>5, <3>1
    <3> QED
      BY <1>1, <2>5, <3>2, <3>3
  <2> QED
    BY <2>6, <2>7
<1> QED
  BY <1>6, <1>7

\* The documents whose name has the words.
Matches(query) == {d \in DocIDs : \A i \in 1 .. Len(query) : query[i] \in Range(FieldOf(d, "name"))}

\* The documents that CompletionExact asks for.
Wanted(words) ==
  {d \in DocIDs : /\ Range(Front(words)) \subseteq Range(FieldOf(d, "name"))
                  /\ Range(Completions[Last(words)]) \cap Range(FieldOf(d, "name")) # {}}

\* What a query that completes the words finds is wanted.
LEMMA CompletesWanted ==
  ASSUME NEW c \in Clients, NEW req \in Requests[c], req.op = "autocomplete", req.words # <<>>,
         NEW query, Completes(query, req.words)
  PROVE  /\ query \in Seq(STRING) /\ query # <<>> /\ Range(query) \cap Operators = {}
         /\ Matches(query) \subseteq Wanted(req.words)
<1>1. PICK words : words = req.words
  OBVIOUS
<1>2. PICK n : n = Len(words)
  OBVIOUS
<1>3. /\ words \in Seq(STRING) /\ n \in Nat /\ n # 0 /\ \A i \in 1 .. n : words[i] \in Range(words)
      /\ Range(words) \cap Operators = {}
      /\ Range(Completions[words[n]]) \subseteq Range(Terms)
  BY <1>1, <1>2, CompletedAre
<1>4. /\ query \in Seq(STRING) /\ Len(query) = n
      /\ \A i \in 1 .. n - 1 : query[i] = words[i]
      /\ query[n] \in Range(Completions[words[n]])
  BY <1>1, <1>2 DEF Completes
<1>5. Last(words) = words[n] /\ Range(Front(words)) = {words[i] : i \in 1 .. n - 1}
  BY <1>1, <1>2, <1>3, FrontIs
<1>6. DOMAIN query = 1 .. n /\ query # <<>>
  BY <1>3, <1>4, SeqParts
<1>7. \A i \in 1 .. n : i \in 1 .. n - 1 \/ i = n
  BY <1>3
<1>8. Range(query) \cap Operators = {}
  <2>1. Operators \cap Range(Terms) = {}
    BY WordsAssumption
  <2>2. \A i \in 1 .. n : query[i] \notin Operators
    <3>1. \A i \in 1 .. n - 1 : i \in 1 .. n
      BY <1>3
    <3> QED
      BY <1>3, <1>4, <1>7, <2>1, <3>1
  <2> QED
    BY <1>6, <2>2 DEF Range
<1>9. ASSUME NEW d \in Matches(query) PROVE d \in Wanted(words)
  <2>1. d \in DocIDs /\ \A i \in 1 .. n : query[i] \in Range(FieldOf(d, "name"))
    BY <1>4, <1>9 DEF Matches
  <2>2. n \in 1 .. n /\ \A i \in 1 .. n - 1 : i \in 1 .. n
    BY <1>3
  <2>3. \A i \in 1 .. n - 1 : words[i] \in Range(FieldOf(d, "name"))
    BY <1>4, <2>1, <2>2
  <2>4. Range(Front(words)) \subseteq Range(FieldOf(d, "name"))
    BY <1>5, <2>3
  <2>5. query[n] \in Range(Completions[Last(words)]) \cap Range(FieldOf(d, "name"))
    BY <1>4, <1>5, <2>1, <2>2
  <2> QED
    BY <2>1, <2>4, <2>5 DEF Wanted
<1> QED
  BY <1>1, <1>4, <1>6, <1>8, <1>9

\* With up to three words, a document that is wanted matches a candidate.
LEMMA WantedMatches ==
  ASSUME NEW c \in Clients, NEW req \in Requests[c], req.op = "autocomplete", req.words # <<>>,
         Len(req.words) <= 3, NEW d \in Wanted(req.words)
  PROVE  \E query \in Range(GetCorrectQueryCandidates(Completed(req.words))) : d \in Matches(query)
<1>1. PICK words : words = req.words
  OBVIOUS
<1>2. PICK n : n = Len(words)
  OBVIOUS
<1>3. /\ words \in Seq(STRING) /\ n \in Nat /\ n # 0 /\ Completions[words[n]] \in Seq(STRING)
      /\ DOMAIN words = 1 .. n
  BY <1>1, <1>2, CompletedAre
<1>4. \A query : Completes(query, words) => query \in Range(GetCorrectQueryCandidates(Completed(words)))
  BY <1>1, <1>2, CompletionsMeant
<1>5. Last(words) = words[n] /\ Range(Front(words)) = {words[i] : i \in 1 .. n - 1}
  BY <1>1, <1>2, <1>3, FrontIs
<1>6. /\ d \in DocIDs /\ Range(Front(words)) \subseteq Range(FieldOf(d, "name"))
      /\ Range(Completions[words[n]]) \cap Range(FieldOf(d, "name")) # {}
  BY <1>1, <1>5 DEF Wanted
<1>7. PICK w \in Range(Completions[words[n]]) : w \in Range(FieldOf(d, "name"))
  BY <1>6
<1>8. w \in STRING
  BY <1>3, <1>7, SeqParts
<1> DEFINE query == [i \in 1 .. n |-> IF i = n THEN w ELSE words[i]]
<1>9. /\ query = [i \in 1 .. n |-> query[i]] /\ query[n] = w
      /\ \A i \in 1 .. n - 1 : query[i] = words[i]
  BY <1>3
<1>10. \A i \in 1 .. n : query[i] \in STRING
  <2>1. \A i \in 1 .. n : words[i] \in STRING
    BY <1>3, SeqParts
  <2> QED
    BY <1>8, <2>1
<1> HIDE DEF query
<1>11. query \in Seq(STRING) /\ Len(query) = n
  BY <1>3, <1>9, <1>10, IsSeq
<1>12. Completes(query, words)
  BY <1>2, <1>7, <1>9, <1>11 DEF Completes
<1>13. \A i \in 1 .. n : query[i] \in Range(FieldOf(d, "name"))
  <2>1. \A i \in 1 .. n : i \in 1 .. n - 1 \/ i = n
    BY <1>3
  <2>2. \A i \in 1 .. n - 1 : words[i] \in Range(FieldOf(d, "name"))
    BY <1>5, <1>6
  <2> QED
    BY <1>7, <1>9, <2>1, <2>2
<1>14. d \in Matches(query)
  BY <1>6, <1>11, <1>13 DEF Matches
<1> QED
  BY <1>1, <1>4, <1>12, <1>14

------------------------------------------------------------------------------
(* The requests under way. *)

\* The lists that have been read and those still to be read are all of them, in order,
\* and as long as no read is torn, those read are the lists of their words.
ReadsFit(a, all) ==
  /\ a.at \in {"read", "readfile"} /\ a.torn \in BOOLEAN
  /\ a.got \in Seq(Seq(Nat)) /\ a.reads \in Seq(Fields \X STRING)
  /\ Len(a.got) + Len(a.reads) = Len(all)
  /\ \A i \in 1 .. Len(a.reads) : a.reads[i] = all[Len(a.got) + i]
  /\ ~ a.torn => \A i \in 1 .. Len(a.got) : a.got[i] = PostingList(all[i][1], all[i][2])
  /\ a.at = "readfile" => a.reads # <<>> /\ HasPostings(Head(a.reads)[1], Head(a.reads)[2])

Searching(a) ==
  /\ a = [at |-> a.at, req |-> a.req, torn |-> a.torn, got |-> a.got, terms |-> a.terms, reads |-> a.reads]
  /\ a.req.op = "search"
  /\ LET candidates == GetCorrectQueryCandidates(Alternatives(a.req.words))
     IN  candidates # <<>> /\ Estimable(candidates) /\ a.terms \in MostProbable(candidates)
  /\ ReadsFit(a, ReadsOfTerms(a.terms))

Found(queries) == UNION {Matches(query) : query \in Range(queries)}

\* What has been found and what the queries left find is what all of them find.
QueriesFit(a, all) ==
  /\ a.queries \in Seq(Seq(STRING)) /\ a.queries # <<>> /\ Range(a.queries) \subseteq Range(all)
  /\ ~ a.torn => a.found \in Seq(DocIDs) /\ Range(a.found) \cup Found(a.queries) = Found(all)

Completing(a) ==
  /\ a = [at |-> a.at, req |-> a.req, torn |-> a.torn, got |-> a.got,
          queries |-> a.queries, found |-> a.found, reads |-> a.reads]
  /\ a.req.op = "autocomplete" /\ a.req.words # <<>>
  /\ LET candidates == GetCorrectQueryCandidates(Completed(a.req.words))
     IN  candidates # <<>> /\ \E all \in GetMatchedWordsAutocomplete(candidates) : QueriesFit(a, all)
  /\ ReadsFit(a, ReadsOf(Head(a.queries)) \o ReadsOf(Head(a.queries)))

Waiting(a) ==
  /\ a = [at |-> a.at, req |-> a.req]
  /\ <<a.at, a.req.op>> \in {<<"correct", "search">>, <<"complete", "autocomplete">>,
                             <<"nearest", "reverse">>, <<"nearby", "places">>}

CallFits(c, a) ==
  \/ a = Idle
  \/ a.req \in Requests[c] /\ (Waiting(a) \/ Searching(a) \/ Completing(a))

\* The answers that SearchExact and SearchSound, and that CompletionExact ask for.
SearchAnswer(req, docs) ==
  /\ Len(req.words) <= 3 => <<req, docs>> \in CorrectAnswers
  /\ \A d \in Range(docs) : \E word \in Range(req.words) : Meant(word) \cap Range(TextOf(d)) # {}

CompletionAnswer(req, docs) ==
  /\ Range(docs) \subseteq Wanted(req.words)
  /\ /\ Len(req.words) <= 3 /\ Len(Completions[Last(req.words)]) <= 3
     /\ req.offset = 0 /\ Len(docs) < req.k
     => Range(docs) = Wanted(req.words)

Explained(r) ==
  LET words == r.req.words
  IN  \/ "torn" \in DOMAIN r /\ r.torn
      \/ r.req.op = "search" /\ ~ Answerable(words)
      \/ /\ r.req.op = "autocomplete"
         /\ \/ words = <<>>
            \/ Completions[Last(words)] = <<>>
            \/ \E word \in Range(Front(words)) : Unseen(word)
            \/ \E word \in Range(Completions[Last(words)]) : Unseen(word)

ReplyFits(r) ==
  /\ r.code \in {0, 200, 400, 500}
  /\ "docs" \in DOMAIN r => Range(r.docs) \subseteq DocIDs
  /\ r.code = 200 /\ r.req.op = "search" /\ ~ r.torn => SearchAnswer(r.req, r.docs)
  /\ r.code = 200 /\ r.req.op = "autocomplete" /\ ~ r.torn => CompletionAnswer(r.req, r.docs)
  /\ r.code = 500 => Explained(r)

\* No answer, and a request that is rejected, fit.
LEMMA NoReply ==
  ReplyFits(Unanswered) /\ ReplyFits([code |-> 400])
<1>1. Unanswered.code = 0 /\ DOMAIN Unanswered = {"code"}
  BY DEF Unanswered
<1>2. ReplyFits(Unanswered)
  <2> HIDE DEF Unanswered
  <2> QED
    BY <1>1 DEF ReplyFits
<1>3. PICK r : r = [code |-> 400]
  OBVIOUS
<1>4. r.code = 400 /\ DOMAIN r = {"code"}
  BY <1>3
<1>5. ReplyFits(r)
  BY <1>4 DEF ReplyFits
<1> QED
  BY <1>2, <1>3, <1>5

\* A word that has no postings has an empty list.
LEMMA NoPostings ==
  ASSUME NEW field \in Fields, NEW word, ~ HasPostings(field, word)
  PROVE  PostingList(field, word) = <<>>
<1>1. /\ PostingList(field, word) \in Seq(Nat)
      /\ Range(PostingList(field, word)) = {d \in DocIDs : word \in Range(FieldOf(d, field))}
  BY PostingListInOrder
<1>2. PICK list : list = PostingList(field, word)
  OBVIOUS
<1>3. SUFFICES ASSUME list # <<>> PROVE FALSE
  BY <1>2
<1>4. list[1] \in Range(list)
  <2>1. DOMAIN list = 1 .. Len(list) /\ Len(list) # 0 /\ Len(list) \in Nat
    BY <1>1, <1>2, <1>3, SeqParts
  <2> QED
    BY <2>1 DEF Range
<1>5. PICK d \in DocIDs : word \in Range(FieldOf(d, field))
  BY <1>1, <1>2, <1>4
<1>6. word \in Range(Terms)
  <2>1. FieldOf(d, "name") \in Seq(STRING) /\ FieldOf(d, "address") \in Seq(STRING)
    BY FieldType DEF Fields
  <2>2. Range(TextOf(d)) = Range(FieldOf(d, "name")) \cup Range(FieldOf(d, "address"))
    BY <2>1, ConcatRange DEF TextOf
  <2>3. word \in Range(TextOf(d))
    BY <1>5, <2>2 DEF Fields
  <2>4. PICK i : i = d + 1
    OBVIOUS
  <2>5. i \in DOMAIN Docs /\ i - 1 = d
    <3>1. Len(Docs) \in Nat /\ DOMAIN Docs = 1 .. Len(Docs)
      BY WordsAssumption, SeqParts
    <3> QED
      BY <1>5, <2>4, <3>1 DEF DocIDs
  <2>6. Corpus[i] = TextOf(d) /\ i \in DOMAIN Corpus
    BY <2>5, SearcherAssumption
  <2>7. TextOf(d) \in Range(Corpus)
    BY <2>6 DEF Range
  <2> QED
    BY <2>3, <2>7, SearcherAssumption
<1>7. PICK t \in DOMAIN Terms : Terms[t] = word
  BY <1>6 DEF Range
<1>8. t \in DOMAIN PostingMetadata[field]
  <2>1. PostingList(field, Terms[t]) # <<>>
    BY <1>2, <1>3, <1>7
  <2> QED
    BY <1>7, <2>1, IndexAssumption
<1> QED
  BY <1>7, <1>8 DEF HasPostings

\* One list more is read.
LEMMA ReadFurther ==
  ASSUME NEW a, NEW all \in Seq(Fields \X STRING), ReadsFit(a, all), a.reads # <<>>,
         NEW list \in Seq(Nat), NEW b, b.at = "read", b.torn \in BOOLEAN,
         b.got = Append(a.got, list), b.reads = Tail(a.reads),
         ~ b.torn => ~ a.torn /\ list = PostingList(Head(a.reads)[1], Head(a.reads)[2])
  PROVE  ReadsFit(b, all)
<1>1. PICK got : got = a.got
  OBVIOUS
<1>2. PICK reads : reads = a.reads
  OBVIOUS
<1>3. PICK V : V = Fields \X STRING
  OBVIOUS
<1>4. /\ got \in Seq(Seq(Nat)) /\ reads \in Seq(V) /\ reads # <<>>
      /\ Len(got) + Len(reads) = Len(all)
      /\ \A i \in 1 .. Len(reads) : reads[i] = all[Len(got) + i]
      /\ ~ a.torn => \A i \in 1 .. Len(got) : got[i] = PostingList(all[i][1], all[i][2])
  BY <1>1, <1>2, <1>3 DEF ReadsFit
<1>5. PICK rest : rest = Tail(reads)
  OBVIOUS
<1>6. /\ rest \in Seq(V) /\ Len(rest) = Len(reads) - 1 /\ Head(reads) = reads[1]
      /\ \A j \in 1 .. Len(reads) - 1 : rest[j] = reads[j + 1]
  BY <1>4, <1>5, TailParts
<1>7. PICK more : more = Append(got, list)
  OBVIOUS
<1>8. /\ more \in Seq(Seq(Nat)) /\ Len(more) = Len(got) + 1
      /\ \A i \in 1 .. Len(got) : more[i] = got[i]
      /\ more[Len(got) + 1] = list
  BY <1>4, <1>7, AppendParts
<1>9. PICK m \in Nat : m = Len(got)
  BY <1>4, SeqParts
<1>10. PICK n \in Nat : n = Len(reads) /\ n # 0
  <2>1. Len(reads) \in Nat /\ Len(reads) # 0
    BY <1>4, SeqParts
  <2> QED
    BY <2>1
<1>11. Len(more) + Len(rest) = Len(all)
  <2>1. Len(more) = m + 1 /\ Len(rest) = n - 1 /\ m + n = Len(all)
    BY <1>4, <1>6, <1>8, <1>9, <1>10
  <2>2. (m + 1) + (n - 1) = m + n
    OBVIOUS
  <2> QED
    BY <2>1, <2>2
<1>12. ASSUME NEW i \in 1 .. Len(rest) PROVE rest[i] = all[Len(more) + i]
  <2>1. PICK j : j = i + 1
    OBVIOUS
  <2>2. j \in 1 .. n /\ i \in 1 .. n - 1
    BY <1>6, <1>10, <2>1
  <2>3. rest[i] = reads[j] /\ reads[j] = all[m + j]
    BY <1>4, <1>6, <1>9, <1>10, <2>1, <2>2
  <2>4. m + j = Len(more) + i
    BY <1>8, <1>9, <2>1
  <2> QED
    BY <2>3, <2>4
<1>13. ASSUME ~ b.torn, NEW i \in 1 .. Len(more)
       PROVE  more[i] = PostingList(all[i][1], all[i][2])
  <2>1. i \in 1 .. m \/ i = m + 1
    BY <1>8, <1>9
  <2>2. CASE i \in 1 .. m
    BY <1>4, <1>8, <1>9, <1>13, <2>2
  <2>3. CASE i = m + 1
    <3>1. reads[1] = all[i]
      BY <1>4, <1>9, <1>10, <2>3
    <3>2. more[i] = list
      BY <1>8, <1>9, <2>3
    <3> QED
      BY <1>2, <1>6, <1>13, <3>1, <3>2
  <2> QED
    BY <2>1, <2>2, <2>3
<1>14. b.got = more /\ b.reads = rest
  BY <1>1, <1>2, <1>5, <1>7
<1>15. b.at # "readfile"
  OBVIOUS
<1> QED
  BY <1>3, <1>6, <1>8, <1>11, <1>12, <1>13, <1>14, <1>15 DEF ReadsFit

------------------------------------------------------------------------------
(* What a request answers once its lists are read. *)

\* When nothing is left to read and no read was torn, the lists are those of the words.
LEMMA AllRead ==
  ASSUME NEW a, NEW all \in Seq(Fields \X STRING), ReadsFit(a, all), a.reads = <<>>, ~ a.torn
  PROVE  /\ a.got \in Seq(Seq(Nat)) /\ Len(a.got) = Len(all)
         /\ \A i \in 1 .. Len(all) : a.got[i] = PostingList(all[i][1], all[i][2])
<1>1. PICK got : got = a.got
  OBVIOUS
<1>2. /\ got \in Seq(Seq(Nat)) /\ Len(got) + Len(<<>>) = Len(all)
      /\ \A i \in 1 .. Len(got) : got[i] = PostingList(all[i][1], all[i][2])
  BY <1>1 DEF ReadsFit
<1>3. Len(got) = Len(all)
  <2>1. Len(got) \in Nat /\ Len(<<>>) = 0
    BY <1>2, SeqParts
  <2> QED
    BY <1>2, <2>1
<1> QED
  BY <1>1, <1>2, <1>3

\* The answer of a search that read all its lists undisturbed (FreeFormQuery).
LEMMA SearchDone ==
  ASSUME NEW c \in Clients, NEW a, a.req \in Requests[c], Searching(a), a.reads = <<>>, ~ a.torn,
         NEW ids \in Rankings(scoreBM25Field(a.terms, LastRead(a.terms, a.got, -1, 2),
                                             LastRead(a.terms, a.got, 0, 2))),
         NEW docs, docs = Page(ids, a.req.k, a.req.offset)
  PROVE  Range(docs) \subseteq DocIDs /\ SearchAnswer(a.req, docs)
<1>1. PICK req : req = a.req
  OBVIOUS
<1>2. PICK terms : terms = a.terms
  OBVIOUS
<1>3. PICK got : got = a.got
  OBVIOUS
<1>4. PICK words : words = req.words
  OBVIOUS
<1>5. req \in Requests[c] /\ req.op = "search"
  BY <1>1 DEF Searching
<1>6. PICK candidates : candidates = GetCorrectQueryCandidates(Alternatives(words))
  OBVIOUS
<1>7. /\ candidates = GetCorrectQueryCandidates(Alternatives(req.words))
      /\ candidates # <<>> /\ Estimable(candidates) /\ terms \in MostProbable(candidates)
  BY <1>1, <1>2, <1>4, <1>6 DEF Searching
<1>8. /\ terms \in Seq(STRING) /\ Len(terms) = Len(words)
      /\ \A i \in 1 .. Len(words) : terms[i] \in Meant(words[i])
      /\ Len(words) <= 3 => Answerable(words) /\ terms \in Best(words)
  BY <1>4, <1>5, <1>7, TermsMeant
<1>9. words \in Seq(STRING) /\ req.k \in Int /\ req.offset \in Nat
  BY <1>4, <1>5, AlternativesAre
<1>10. PICK n : n = Len(terms)
  OBVIOUS
<1>11. PICK all : all = ReadsOfTerms(terms)
  OBVIOUS
<1>12. /\ all \in Seq(Fields \X STRING) /\ n \in Nat /\ Len(all) = 2 * n
       /\ \A i \in 1 .. n : all[2 * i - 1] = <<"name", terms[i]>> /\ all[2 * i] = <<"address", terms[i]>>
  BY <1>8, <1>10, <1>11, ReadsOfTermsAre
<1>13. /\ Len(got) = Len(all)
       /\ \A i \in 1 .. Len(all) : got[i] = PostingList(all[i][1], all[i][2])
  <2>1. ReadsFit(a, all)
    BY <1>2, <1>11 DEF Searching
  <2> QED
    BY <1>3, <1>12, <2>1, AllRead
<1>14. DOMAIN terms = 1 .. n
  BY <1>8, <1>10, SeqParts
<1>15. ASSUME NEW i \in 1 .. n
       PROVE  /\ got[-1 + (2 * i)] = PostingList("name", terms[i])
              /\ got[0 + (2 * i)] = PostingList("address", terms[i])
  <2>1. PICK j : j = 2 * i - 1
    OBVIOUS
  <2>2. PICK k : k = 2 * i
    OBVIOUS
  <2>3. j \in 1 .. Len(all) /\ k \in 1 .. Len(all) /\ -1 + (2 * i) = j /\ 0 + (2 * i) = k
    BY <1>12, <2>1, <2>2
  <2>4. all[j] = <<"name", terms[i]>> /\ all[k] = <<"address", terms[i]>>
    BY <1>12, <2>1, <2>2
  <2>5. got[j] = PostingList("name", terms[i]) /\ got[k] = PostingList("address", terms[i])
    BY <1>13, <2>3, <2>4
  <2> QED
    BY <2>3, <2>5
<1>16. PICK names : names = [t \in Range(terms) |-> PostingList("name", t)]
  OBVIOUS
<1>17. PICK addresses : addresses = [t \in Range(terms) |-> PostingList("address", t)]
  OBVIOUS
<1>18. LastRead(terms, got, -1, 2) = names
  <2>1. \A i \in DOMAIN terms : got[-1 + (2 * i)] = PostingList("name", terms[i])
    BY <1>14, <1>15
  <2>2. LastRead(terms, got, -1, 2) = [t \in Range(terms) |-> PostingList("name", t)]
    BY <1>8, <2>1, LastReadIs
  <2> QED
    BY <1>16, <2>2
<1>19. LastRead(terms, got, 0, 2) = addresses
  <2>1. \A i \in DOMAIN terms : got[0 + (2 * i)] = PostingList("address", terms[i])
    BY <1>14, <1>15
  <2>2. LastRead(terms, got, 0, 2) = [t \in Range(terms) |-> PostingList("address", t)]
    BY <1>8, <2>1, LastReadIs
  <2> QED
    BY <1>17, <2>2
<1>20. ids \in Rankings(scoreBM25Field(terms, names, addresses))
  BY <1>2, <1>3, <1>18, <1>19
<1> DEFINE found == UNION {FoundFor(t, names, addresses) : t \in Range(terms)}
<1>21. ASSUME NEW t \in Range(terms), NEW d \in FoundFor(t, names, addresses)
       PROVE  d \in DocIDs /\ t \in Range(TextOf(d))
  <2>1. names[t] = PostingList("name", t) /\ addresses[t] = PostingList("address", t)
    BY <1>16, <1>17
  <2>2. d \in Range(PostingList("name", t)) \/ d \in Range(PostingList("address", t))
    BY <1>21, <2>1 DEF FoundFor
  <2>3. /\ Range(PostingList("name", t)) = {x \in DocIDs : t \in Range(FieldOf(x, "name"))}
        /\ Range(PostingList("address", t)) = {x \in DocIDs : t \in Range(FieldOf(x, "address"))}
    BY PostingListInOrder DEF Fields
  <2>4. d \in DocIDs /\ (t \in Range(FieldOf(d, "name")) \/ t \in Range(FieldOf(d, "address")))
    BY <2>2, <2>3
  <2>5. FieldOf(d, "name") \in Seq(STRING) /\ FieldOf(d, "address") \in Seq(STRING)
    BY <2>4, FieldType DEF Fields
  <2>6. Range(TextOf(d)) = Range(FieldOf(d, "name")) \cup Range(FieldOf(d, "address"))
    BY <2>5, ConcatRange DEF TextOf
  <2> QED
    BY <2>4, <2>6
<1>22. UNION {FoundFor(t, names, addresses) : t \in Range(terms)} \subseteq DocIDs
  BY <1>21
<1>23. ids \in Seq(found) /\ Range(ids) = found
  BY <1>20, <1>22, SearchFinds
<1>24. docs = Page(ids, req.k, req.offset) /\ Range(docs) \subseteq found
  <2> HIDE DEF found
  <2>1. docs = Page(ids, req.k, req.offset)
    BY <1>1
  <2>2. PICK k \in Int : k = req.k
    BY <1>9
  <2>3. PICK offset \in Nat : offset = req.offset
    BY <1>9
  <2>4. Range(Page(ids, k, offset)) \subseteq Range(ids)
    BY <1>23, <2>2, <2>3, PageIs
  <2> QED
    BY <1>23, <2>1, <2>2, <2>3, <2>4
<1>25. Range(docs) \subseteq DocIDs
  BY <1>22, <1>24
<1>26. ASSUME NEW d \in Range(docs)
       PROVE  \E word \in Range(words) : Meant(word) \cap Range(TextOf(d)) # {}
  <2>1. PICK t \in Range(terms) : d \in FoundFor(t, names, addresses)
    BY <1>24
  <2>2. t \in Range(TextOf(d))
    BY <1>21, <2>1
  <2>3. PICK i \in 1 .. n : terms[i] = t
    BY <1>14, <2>1 DEF Range
  <2>4. t \in Meant(words[i]) /\ DOMAIN words = 1 .. n
    BY <1>8, <1>9, <1>10, <2>3, SeqParts
  <2>5. words[i] \in Range(words)
    BY <2>3, <2>4 DEF Range
  <2> QED
    BY <2>2, <2>4, <2>5
<1>27. ASSUME Len(words) <= 3 PROVE <<req, docs>> \in CorrectAnswers
  <2>1. Answerable(words) /\ terms \in Best(words)
    BY <1>8, <1>27
  <2>2. RelevanceOf(terms) = scoreBM25Field(terms, names, addresses)
    BY <1>16, <1>17 DEF RelevanceOf
  <2>3. req \in UNION Range(Requests)
    <3>1. Requests[c] \in Range(Requests)
      BY RequestsAssumption DEF Range
    <3> QED
      BY <1>5, <3>1
  <2> DEFINE asked == {r \in UNION Range(Requests) :
                         r.op = "search" /\ Len(r.words) <= 3 /\ Answerable(r.words)}
             answers(r) == {<<r, Page(ranking, r.k, r.offset)>> :
                              ranking \in UNION {Rankings(RelevanceOf(query)) : query \in Best(r.words)}}
  <2>4. req \in asked
    BY <1>4, <1>5, <1>27, <2>1, <2>3
  <2>5. ids \in UNION {Rankings(RelevanceOf(query)) : query \in Best(req.words)}
    <3> HIDE DEF found, asked, answers
    <3>1. terms \in Best(req.words) /\ ids \in Rankings(RelevanceOf(terms))
      BY <1>4, <1>20, <2>1, <2>2
    <3> QED
      BY <3>1
  <2>6. <<req, docs>> \in answers(req)
    BY <1>24, <2>5
  <2>7. CorrectAnswers = UNION {answers(r) : r \in asked}
    BY DEF CorrectAnswers
  <2> HIDE DEF asked, answers
  <2> QED
    BY <2>4, <2>6, <2>7
<1> QED
  BY <1>1, <1>4, <1>25, <1>26, <1>27 DEF SearchAnswer

\* A turn of an autocompletion finds the documents that match its query.
LEMMA QueryFinds ==
  ASSUME NEW a, NEW query \in Seq(STRING), query # <<>>, Range(query) \cap Operators = {},
         ReadsFit(a, ReadsOf(query) \o ReadsOf(query)), a.reads = <<>>, ~ a.torn, NEW names,
         NEW ids \in Rankings(scoreBM25FAutocomplete(names,
                        processQuery(shuntingYardRPN(Conjunction(query)),
                                     SubSeq(a.got, Len(query) + 1, 2 * Len(query)))))
  PROVE  ids \in Seq(DocIDs) /\ Range(ids) = Matches(query)
<1>1. PICK n : n = Len(query)
  OBVIOUS
<1>2. PICK all : all = ReadsOf(query) \o ReadsOf(query)
  OBVIOUS
<1>3. /\ all \in Seq(Fields \X STRING) /\ n \in Nat /\ Len(all) = 2 * n
      /\ \A i \in 1 .. n : all[i] = <<"name", query[i]>> /\ all[n + i] = <<"name", query[i]>>
  BY <1>1, <1>2, ReadsOfAre
<1>4. PICK got : got = a.got
  OBVIOUS
<1>5. /\ got \in Seq(Seq(Nat)) /\ Len(got) = Len(all)
      /\ \A i \in 1 .. Len(all) : got[i] = PostingList(all[i][1], all[i][2])
  BY <1>2, <1>3, <1>4, AllRead
<1>6. n # 0
  BY <1>1
<1>7. PICK lists : lists = SubSeq(got, n + 1, 2 * n)
  OBVIOUS
<1>8. \A j \in 1 .. n : lists[j] = PostingList("name", query[j])
  <2>1. PICK x \in Nat : x = n + 1
    BY <1>3
  <2>2. PICK y \in Nat : y = 2 * n
    BY <1>3
  <2>3. x >= 1 /\ x <= y + 1 /\ y <= Len(got) /\ lists = SubSeq(got, x, y) /\ y - x + 1 = n
    BY <1>3, <1>5, <1>7, <2>1, <2>2
  <2>4. \A j \in 1 .. y - x + 1 : lists[j] = got[x + j - 1]
    BY <1>5, <2>3, SubSeqParts
  <2>5. ASSUME NEW j \in 1 .. n PROVE lists[j] = PostingList("name", query[j])
    <3>1. PICK k : k = n + j
      OBVIOUS
    <3>2. x + j - 1 = k /\ k \in 1 .. Len(all)
      BY <1>3, <2>1, <3>1
    <3>3. lists[j] = got[k]
      BY <2>3, <2>4, <3>2
    <3>4. all[k] = <<"name", query[j]>>
      BY <1>3, <3>1
    <3> QED
      BY <1>5, <3>2, <3>3, <3>4
  <2> QED
    BY <2>5
<1>9. \A j \in 1 .. n : lists[j] \in Seq(Nat) /\ Ascending(lists[j])
  BY <1>8, PostingListInOrder DEF Fields
<1>10. PICK V : V = STRING \cup {"AND"}
  OBVIOUS
<1>11. "AND" \in V /\ query \in Seq(V)
  <2>1. STRING \subseteq V
    BY <1>10
  <2> QED
    BY <1>10, <2>1
<1>12. PICK list : list = processQuery(shuntingYardRPN(Conjunction(query)), lists)
  OBVIOUS
<1>13. /\ list \in Seq(Nat)
       /\ Range(list) = {d \in Nat : \A j \in 1 .. n : d \in Range(lists[j])}
  <2>1. \A j \in 1 .. Len(query) : lists[j] \in Seq(Nat) /\ Ascending(lists[j])
    BY <1>1, <1>9
  <2>2. LET found == processQuery(shuntingYardRPN(Conjunction(query)), lists)
        IN  /\ found \in Seq(Nat)
            /\ Range(found) = {d \in Nat : \A j \in 1 .. Len(query) : d \in Range(lists[j])}
    BY <1>11, <2>1, ConjunctionFound
  <2> QED
    BY <1>1, <1>12, <2>2
<1>14. Range(list) = Matches(query)
  <2>1. \A j \in 1 .. n : Range(lists[j]) = {d \in DocIDs : query[j] \in Range(FieldOf(d, "name"))}
    BY <1>8, PostingListInOrder DEF Fields
  <2>2. 1 \in 1 .. n
    BY <1>3, <1>6
  <2>3. \A d : d \in Range(list) <=> d \in Nat /\ \A j \in 1 .. n : d \in Range(lists[j])
    BY <1>13
  <2>4. \A d : d \in Matches(query) <=> d \in DocIDs /\ \A j \in 1 .. n : query[j] \in Range(FieldOf(d, "name"))
    BY <1>1 DEF Matches
  <2>5. DocIDs \subseteq Nat
    BY DocIDsFinite
  <2> QED
    BY <2>1, <2>2, <2>3, <2>4, <2>5
<1>15. Range(list) \subseteq DocIDs
  BY <1>14 DEF Matches
<1>16. ids \in Rankings(scoreBM25FAutocomplete(names, list))
  BY <1>1, <1>4, <1>7, <1>12
<1>17. ids \in Seq(Range(list)) /\ Range(ids) = Range(list)
  BY <1>15, <1>16, CompletionFinds
<1> QED
  BY <1>14, <1>15, <1>17

\* After a turn, what has been found and what the queries left find is still everything.
LEMMA TurnDone ==
  ASSUME NEW queries \in Seq(Seq(STRING)), queries # <<>>, NEW all,
         NEW found \in Seq(DocIDs), Range(found) \cup Found(queries) = Found(all),
         NEW ids \in Seq(DocIDs), Range(ids) = Matches(Head(queries))
  PROVE  /\ found \o ids \in Seq(DocIDs) /\ Range(found \o ids) \cup Found(Tail(queries)) = Found(all)
         /\ Tail(queries) = <<>> => Range(found \o ids) = Found(all)
<1>0. PICK rest : rest = Tail(queries)
  OBVIOUS
<1>1. /\ rest \in Seq(Seq(STRING)) /\ Len(rest) = Len(queries) - 1 /\ Head(queries) = queries[1]
      /\ \A j \in 1 .. Len(queries) - 1 : rest[j] = queries[j + 1]
  BY <1>0, TailParts
<1>2. PICK n \in Nat : n = Len(queries) /\ n # 0 /\ DOMAIN queries = 1 .. n
  BY SeqParts
<1>3. DOMAIN rest = 1 .. n - 1
  BY <1>1, <1>2, SeqParts
<1>4. Range(queries) = {Head(queries)} \cup Range(rest)
  <2>1. ASSUME NEW x \in Range(queries) PROVE x = Head(queries) \/ x \in Range(rest)
    <3>1. PICK i \in 1 .. n : queries[i] = x
      BY <1>2 DEF Range
    <3>2. CASE i = 1
      BY <1>1, <3>1, <3>2
    <3>3. CASE i # 1
      <4>1. PICK j : j = i - 1
        OBVIOUS
      <4>2. j \in 1 .. n - 1 /\ j + 1 = i
        BY <1>2, <3>3, <4>1
      <4>3. rest[j] = x
        BY <1>1, <1>2, <3>1, <4>2
      <4> QED
        BY <1>3, <4>2, <4>3 DEF Range
    <3> QED
      BY <3>2, <3>3
  <2>2. ASSUME NEW x \in Range(rest) PROVE x \in Range(queries)
    <3>1. PICK j \in 1 .. n - 1 : rest[j] = x
      BY <1>3 DEF Range
    <3>2. PICK i : i = j + 1
      OBVIOUS
    <3>3. i \in 1 .. n /\ queries[i] = x
      BY <1>1, <1>2, <3>1, <3>2
    <3> QED
      BY <1>2, <3>3 DEF Range
  <2>3. Head(queries) \in Range(queries)
    <3>1. 1 \in 1 .. n
      BY <1>2
    <3> QED
      BY <1>1, <1>2, <3>1 DEF Range
  <2> QED
    BY <2>1, <2>2, <2>3
<1>5. Found(queries) = Matches(Head(queries)) \cup Found(rest)
  BY <1>4 DEF Found
<1>6. Range(found \o ids) = Range(found) \cup Range(ids)
  BY ConcatRange
<1>7. found \o ids \in Seq(DocIDs)
  OBVIOUS
<1>8. rest = <<>> => Found(rest) = {}
  <2>1. Range(<<>>) = {}
    BY DEF Range
  <2> QED
    BY <2>1 DEF Found
<1> QED
  BY <1>0, <1>5, <1>6, <1>7, <1>8

\* The queries of an autocompletion.
LEMMA QueriesComplete ==
  ASSUME NEW c \in Clients, NEW req \in Requests[c], req.op = "autocomplete", req.words # <<>>,
         NEW candidates, candidates = GetCorrectQueryCandidates(Completed(req.words)), candidates # <<>>,
         NEW all \in GetMatchedWordsAutocomplete(candidates)
  PROVE  /\ all \in Seq(Seq(STRING)) /\ all # <<>>
         /\ \A query \in Range(all) : Completes(query, req.words)
<1>1. /\ candidates \in Seq(Seq(STRING))
      /\ \A query \in Range(candidates) : Completes(query, req.words)
  BY CompletionsMeant
<1>2. all \in Seq(Seq(STRING)) /\ all # <<>> /\ Range(all) \subseteq Range(candidates)
  <2>1. PICK V : V = Seq(STRING)
    OBVIOUS
  <2>2. candidates \in Seq(V)
    BY <1>1, <2>1
  <2>3. all \in Seq(V) /\ all # <<>> /\ Range(all) \subseteq Range(candidates)
    BY <2>2, MatchedAre
  <2> QED
    BY <2>1, <2>3
<1> QED
  BY <1>1, <1>2

\* The answer of an autocompletion all of whose queries have been scored (Autocomplete).
LEMMA CompletionDone ==
  ASSUME NEW c \in Clients, NEW req \in Requests[c], req.op = "autocomplete", req.words # <<>>,
         NEW candidates, candidates = GetCorrectQueryCandidates(Completed(req.words)), candidates # <<>>,
         NEW all \in GetMatchedWordsAutocomplete(candidates),
         NEW found \in Seq(DocIDs), Range(found) = Found(all),
         NEW docs, docs = Page(found, req.k, req.offset)
  PROVE  Range(docs) \subseteq DocIDs /\ CompletionAnswer(req, docs)
<1>1. PICK words : words = req.words
  OBVIOUS
<1>2. PICK n : n = Len(words)
  OBVIOUS
<1>3. PICK completions : completions = Completions[words[n]]
  OBVIOUS
<1>4. /\ words \in Seq(STRING) /\ req.k \in Int /\ req.offset \in Nat /\ n \in Nat /\ n # 0
      /\ completions \in Seq(STRING)
  BY <1>1, <1>2, <1>3, CompletedAre
<1>5. /\ candidates \in Seq(Seq(STRING))
      /\ Len(candidates) = Len(completions)
  BY <1>1, <1>2, <1>3, CompletionsMeant
<1>6. \A query \in Range(all) : Matches(query) \subseteq Wanted(words)
  <2>1. ASSUME NEW query \in Range(all) PROVE Matches(query) \subseteq Wanted(req.words)
    <3>1. Completes(query, req.words)
      BY QueriesComplete
    <3> QED
      BY <3>1, CompletesWanted
  <2> QED
    BY <1>1, <2>1
<1>7. Range(found) \subseteq Wanted(words) /\ Wanted(words) \subseteq DocIDs
  BY <1>6 DEF Found, Wanted
<1>8. /\ Range(docs) \subseteq Range(found)
      /\ req.offset = 0 /\ Len(docs) < req.k => docs = found
  <2>1. PICK k \in Int : k = req.k
    BY <1>4
  <2>2. PICK offset \in Nat : offset = req.offset
    BY <1>4
  <2>3. /\ Range(Page(found, k, offset)) \subseteq Range(found)
        /\ offset = 0 /\ Len(Page(found, k, offset)) < k => Page(found, k, offset) = found
    BY PageIs
  <2> QED
    BY <2>1, <2>2, <2>3
<1>9. ASSUME Len(words) <= 3, Len(completions) <= 3, NEW d \in Wanted(words) PROVE d \in Range(found)
  <2>1. Range(all) = Range(candidates)
    <3>1. PICK V : V = Seq(STRING)
      OBVIOUS
    <3>2. candidates \in Seq(V) /\ Len(candidates) <= 3
      BY <1>5, <1>9, <3>1
    <3> QED
      BY <3>2, MatchedAre
  <2>2. \E query \in Range(GetCorrectQueryCandidates(Completed(req.words))) : d \in Matches(query)
    <3>1. Len(req.words) <= 3 /\ d \in Wanted(req.words)
      BY <1>1, <1>9
    <3> QED
      BY <3>1, WantedMatches
  <2>3. PICK query \in Range(all) : d \in Matches(query)
    BY <2>1, <2>2
  <2> QED
    BY <2>3 DEF Found
<1>10. completions = Completions[Last(words)]
  BY <1>2, <1>3 DEF Last
<1>11. ASSUME Len(words) <= 3, Len(Completions[Last(words)]) <= 3, req.offset = 0, Len(docs) < req.k
       PROVE  Range(docs) = Wanted(words)
  <2>1. docs = found
    BY <1>8, <1>11
  <2>2. Wanted(words) \subseteq Range(found)
    BY <1>9, <1>10, <1>11
  <2> QED
    BY <1>7, <2>1, <2>2
<1>12. Range(docs) \subseteq Wanted(words) /\ Range(docs) \subseteq DocIDs
  BY <1>7, <1>8
<1> QED
  BY <1>1, <1>11, <1>12 DEF CompletionAnswer

\* The documents of the R-tree, nearest first, that have a feature.
LEMMA NearbyDone ==
  ASSUME NEW feature, NEW k \in Int, NEW offset \in Nat
  PROVE  LET near == FlattenSeq([i \in DOMAIN Around |->
                                    IF feature \in Around[i].tags THEN <<Around[i].id>> ELSE <<>>])
             from == IF Len(near) > offset THEN SubSeq(near, offset + 1, Len(near)) ELSE near
         IN  Range(Page(from, k, 0)) \subseteq DocIDs
<1> DEFINE one(i) == IF feature \in Around[i].tags THEN <<Around[i].id>> ELSE <<>>
           seqs == [i \in DOMAIN Around |-> one(i)]
           near == FlattenSeq(seqs)
           from == IF Len(near) > offset THEN SubSeq(near, offset + 1, Len(near)) ELSE near
<1>1. PICK n \in Nat : /\ n = Len(Around) /\ DOMAIN Around = 1 .. n
                       /\ \A i \in 1 .. n : Around[i].id \in DocIDs
  <2>1. PICK V : V = [id : DocIDs, tags : SUBSET STRING]
    OBVIOUS
  <2>2. Around \in Seq(V)
    BY <2>1, WordsAssumption
  <2>3. Len(Around) \in Nat /\ DOMAIN Around = 1 .. Len(Around) /\ \A i \in DOMAIN Around : Around[i] \in V
    BY <2>2, SeqParts
  <2>4. \A x \in V : x.id \in DocIDs
    BY <2>1
  <2> QED
    BY <2>3, <2>4
<1>2. \A i \in 1 .. n : one(i) \in Seq(DocIDs)
  <2> DEFINE single(i) == <<Around[i].id>>
  <2>1. \A i \in 1 .. n : single(i) \in Seq(DocIDs)
    BY <1>1
  <2>2. <<>> \in Seq(DocIDs)
    OBVIOUS
  <2>3. \A i : one(i) = single(i) \/ one(i) = <<>>
    OBVIOUS
  <2> HIDE DEF one, single
  <2> QED
    BY <2>1, <2>2, <2>3
<1>3. seqs \in Seq(Seq(DocIDs))
  <2>1. seqs = [i \in 1 .. n |-> seqs[i]] /\ \A i \in 1 .. n : seqs[i] = one(i)
    BY <1>1
  <2> HIDE DEF seqs, one
  <2>2. \A i \in 1 .. n : seqs[i] \in Seq(DocIDs)
    BY <1>2, <2>1
  <2> QED
    BY <2>1, <2>2, IsSeq
<1> HIDE DEF seqs
<1>4. near \in Seq(DocIDs)
  BY <1>3, FlattenRange
<1> HIDE DEF near
<1>5. from \in Seq(DocIDs)
  <2>1. PICK b \in Nat : b = Len(near)
    BY <1>4, SeqParts
  <2>2. CASE b > offset
    <3>1. PICK a \in Nat : a = offset + 1
      OBVIOUS
    <3>2. PICK r : r = SubSeq(near, a, b)
      OBVIOUS
    <3>3. r \in Seq(DocIDs)
      <4>1. a >= 1 /\ a <= b + 1 /\ b <= Len(near)
        BY <2>1, <2>2, <3>1
      <4>2. r \in Seq(DocIDs) /\ Len(r) = b - a + 1 /\ \A j \in 1 .. b - a + 1 : r[j] = near[a + j - 1]
        BY <1>4, <3>2, <4>1, SubSeqParts
      <4> QED
        BY <4>2
    <3> QED
      BY <2>1, <2>2, <3>1, <3>2, <3>3
  <2>3. CASE ~ (b > offset)
    BY <1>4, <2>1, <2>3
  <2> QED
    BY <2>2, <2>3
<1>6. Range(from) \subseteq DocIDs
  <2> HIDE DEF from
  <2> QED
    BY <1>5, SeqParts
<1>7. Range(Page(from, k, 0)) \subseteq Range(from)
  <2> HIDE DEF from
  <2>1. PICK z \in Nat : z = 0
    OBVIOUS
  <2>2. Range(Page(from, k, z)) \subseteq Range(from)
    BY <1>5, PageIs
  <2> QED
    BY <2>1, <2>2
<1>8. Range(Page(from, k, 0)) \subseteq DocIDs
  BY <1>6, <1>7
<1> QED
  BY <1>8 DEF from, near, seqs

------------------------------------------------------------------------------
(* The inductive invariant. *)

\* Positions lie in their files.
Positioned ==
  /\ position = [field \in Fields |-> position[field]]
  /\ \A field \in Fields : position[field] \in 0 .. Len(IndexFile[field])

\* What each client has under way and was answered last.
Requested ==
  /\ call = [c \in Clients |-> call[c]] /\ reply = [c \in Clients |-> reply[c]]
  /\ \A c \in Clients : CallFits(c, call[c]) /\ ReplyFits(reply[c])

\* Every state of the server: its maps, the positions of its files, and for each client
\* a request whose stage and reads fit what it asked for, and an answer that fits it.
IInv == Maps /\ Positioned /\ Requested /\ requests \in 0 .. MaxRequests

\* A request is answered.
LEMMA Answering ==
  ASSUME Requested, NEW c \in Clients, NEW answer, ReplyFits(answer), Answer(c, answer)
  PROVE  Requested'
<1>1. /\ call = [d \in Clients |-> call[d]] /\ reply = [d \in Clients |-> reply[d]]
      /\ \A d \in Clients : CallFits(d, call[d]) /\ ReplyFits(reply[d])
  BY DEF Requested
<1>2. reply' = [reply EXCEPT ![c] = answer] /\ call' = [call EXCEPT ![c] = Idle]
  BY DEF Answer
<1>3. CallFits(c, Idle)
  BY DEF CallFits
<1>4. call' = [d \in Clients |-> call'[d]] /\ reply' = [d \in Clients |-> reply'[d]]
  BY <1>1, <1>2
<1>5. \A d \in Clients : CallFits(d, call'[d]) /\ ReplyFits(reply'[d])
  <2>1. call'[c] = Idle /\ reply'[c] = answer
    BY <1>1, <1>2
  <2>2. \A d \in Clients \ {c} : call'[d] = call[d] /\ reply'[d] = reply[d]
    BY <1>1, <1>2
  <2> QED
    BY <1>1, <1>3, <2>1, <2>2
<1> QED
  BY <1>4, <1>5 DEF Requested

\* A request goes on, or starts, and the last answer of its client changes.
LEMMA Calling ==
  ASSUME Requested, NEW c \in Clients, NEW a, CallFits(c, a), call' = [call EXCEPT ![c] = a],
         NEW answer, ReplyFits(answer), reply' = [reply EXCEPT ![c] = answer]
  PROVE  Requested'
<1>1. /\ call = [d \in Clients |-> call[d]] /\ reply = [d \in Clients |-> reply[d]]
      /\ \A d \in Clients : CallFits(d, call[d]) /\ ReplyFits(reply[d])
  BY DEF Requested
<1>2. call' = [d \in Clients |-> call'[d]] /\ reply' = [d \in Clients |-> reply'[d]]
  BY <1>1
<1>3. \A d \in Clients : CallFits(d, call'[d]) /\ ReplyFits(reply'[d])
  <2>1. call'[c] = a /\ reply'[c] = answer
    BY <1>1
  <2>2. \A d \in Clients \ {c} : call'[d] = call[d] /\ reply'[d] = reply[d]
    BY <1>1
  <2> QED
    BY <1>1, <2>1, <2>2
<1> QED
  BY <1>2, <1>3 DEF Requested

\* A request goes on.
LEMMA Continuing ==
  ASSUME Requested, NEW c \in Clients, NEW a, CallFits(c, a), call' = [call EXCEPT ![c] = a], UNCHANGED reply
  PROVE  Requested'
<1>1. reply = [d \in Clients |-> reply[d]] /\ ReplyFits(reply[c])
  BY DEF Requested
<1>2. reply' = [reply EXCEPT ![c] = reply[c]]
  BY <1>1
<1> QED
  BY <1>1, <1>2, Calling

\* How the step of one request changes what it has under way.
LEMMA CallOf ==
  ASSUME Requested, NEW c \in Clients
  PROVE  CallFits(c, call[c])
BY DEF Requested

\* A request that is at one of the places before it reads waits there.
LEMMA WaitingIs ==
  ASSUME NEW c \in Clients, NEW a, CallFits(c, a), a.at \in {"correct", "complete", "nearest", "nearby"}
  PROVE  /\ a.req \in Requests[c]
         /\ <<a.at, a.req.op>> \in {<<"correct", "search">>, <<"complete", "autocomplete">>,
                                    <<"nearest", "reverse">>, <<"nearby", "places">>}
<1>1. a # Idle
  BY DEF Idle
<1>2. ~ Searching(a) /\ ~ Completing(a)
  BY DEF Searching, Completing, ReadsFit
<1> QED
  BY <1>1, <1>2 DEF CallFits, Waiting

\* One that reads, or has read, is a search or an autocompletion.
LEMMA ReadingIs ==
  ASSUME NEW c \in Clients, NEW a, CallFits(c, a), a.at \in {"read", "readfile"}
  PROVE  a.req \in Requests[c] /\ (Searching(a) \/ Completing(a))
<1>1. a # Idle
  BY DEF Idle
<1>2. ~ Waiting(a)
  BY DEF Waiting
<1> QED
  BY <1>1, <1>2 DEF CallFits

\* A handler accepts or rejects a request.
LEMMA ReceiveFits ==
  ASSUME Requested, requests \in 0 .. MaxRequests, NEW c \in Clients, NEW req \in Requests[c], NEW valid, NEW at,
         <<at, req.op>> \in {<<"correct", "search">>, <<"complete", "autocomplete">>,
                             <<"nearest", "reverse">>, <<"nearby", "places">>},
         Receive(c, req, valid, at)
  PROVE  Requested' /\ requests' \in 0 .. MaxRequests
<1>1. requests' \in 0 .. MaxRequests
  BY SearcherAssumption DEF Receive
<1>2. CASE valid
  <2>1. PICK a : a = [at |-> at, req |-> req]
    OBVIOUS
  <2>2. call' = [call EXCEPT ![c] = a] /\ reply' = [reply EXCEPT ![c] = Unanswered]
    BY <1>2, <2>1 DEF Receive
  <2>3. a.at = at /\ a.req = req /\ a = [at |-> a.at, req |-> a.req]
    BY <2>1
  <2>4. CallFits(c, a)
    BY <2>3 DEF CallFits, Waiting
  <2>5. ReplyFits(Unanswered)
    BY NoReply
  <2> QED
    BY <1>1, <2>2, <2>4, <2>5, Calling
<1>3. CASE ~ valid
  <2>1. PICK answer : answer = [code |-> 400]
    OBVIOUS
  <2>2. Answer(c, answer)
    BY <1>3, <2>1 DEF Receive
  <2>3. ReplyFits(answer)
    BY <2>1, NoReply
  <2> QED
    BY <1>1, <2>2, <2>3, Answering
<1> QED
  BY <1>2, <1>3

------------------------------------------------------------------------------
(* Reading. *)

\* A request with the reads of all, another one read.
LEMMA ListGot ==
  ASSUME NEW c \in Clients, NEW a, CallFits(c, a), a.at \in {"read", "readfile"}, a.reads # <<>>,
         NEW list \in Seq(Nat), NEW torn \in BOOLEAN,
         ~ torn => ~ a.torn /\ list = PostingList(Head(a.reads)[1], Head(a.reads)[2]),
         NEW b, b = [a EXCEPT !.at = "read", !.reads = Tail(a.reads), !.got = Append(a.got, list), !.torn = torn]
  PROVE  CallFits(c, b)
<1>1. a.req \in Requests[c] /\ (Searching(a) \/ Completing(a))
  BY ReadingIs
<1>2. CASE Searching(a)
  <2>1. a = [at |-> a.at, req |-> a.req, torn |-> a.torn, got |-> a.got, terms |-> a.terms, reads |-> a.reads]
    BY <1>2 DEF Searching
  <2>2. /\ b = [at |-> b.at, req |-> b.req, torn |-> b.torn, got |-> b.got, terms |-> b.terms, reads |-> b.reads]
        /\ b.at = "read" /\ b.req = a.req /\ b.torn = torn /\ b.terms = a.terms
        /\ b.got = Append(a.got, list) /\ b.reads = Tail(a.reads)
    BY <2>1
  <2>3. PICK candidates : candidates = GetCorrectQueryCandidates(Alternatives(a.req.words))
    OBVIOUS
  <2>4. /\ a.req.op = "search"
        /\ candidates # <<>> /\ Estimable(candidates) /\ a.terms \in MostProbable(candidates)
        /\ ReadsFit(a, ReadsOfTerms(a.terms))
    BY <1>2, <2>3 DEF Searching
  <2>5. PICK all : all = ReadsOfTerms(a.terms)
    OBVIOUS
  <2>6. all \in Seq(Fields \X STRING)
    <3>1. a.terms \in Seq(STRING)
      <4>1. PICK terms : terms = a.terms
        OBVIOUS
      <4>2. PICK req \in Requests[c] : req = a.req
        BY <1>1
      <4>3. terms \in Seq(STRING)
        <5>1. /\ req.op = "search" /\ candidates = GetCorrectQueryCandidates(Alternatives(req.words))
              /\ candidates # <<>> /\ Estimable(candidates) /\ terms \in MostProbable(candidates)
          BY <2>3, <2>4, <4>1, <4>2
        <5> QED
          BY <5>1, TermsMeant
      <4> QED
        BY <4>1, <4>3
    <3> QED
      BY <2>5, <3>1, ReadsOfTermsAre
  <2>7. ReadsFit(a, all)
    BY <2>4, <2>5
  <2>8. b.torn \in BOOLEAN /\ (~ b.torn => ~ a.torn /\ list = PostingList(Head(a.reads)[1], Head(a.reads)[2]))
    BY <2>2
  <2>9. ReadsFit(b, all)
    BY <2>2, <2>6, <2>7, <2>8, ReadFurther
  <2>10. Searching(b)
    BY <2>2, <2>3, <2>4, <2>5, <2>9 DEF Searching
  <2> QED
    BY <1>1, <2>2, <2>10 DEF CallFits
<1>3. CASE Completing(a)
  <2>1. a = [at |-> a.at, req |-> a.req, torn |-> a.torn, got |-> a.got,
             queries |-> a.queries, found |-> a.found, reads |-> a.reads]
    BY <1>3 DEF Completing
  <2>2. /\ b = [at |-> b.at, req |-> b.req, torn |-> b.torn, got |-> b.got,
                queries |-> b.queries, found |-> b.found, reads |-> b.reads]
        /\ b.at = "read" /\ b.req = a.req /\ b.torn = torn /\ b.queries = a.queries /\ b.found = a.found
        /\ b.got = Append(a.got, list) /\ b.reads = Tail(a.reads)
    BY <2>1
  <2>3. PICK candidates : candidates = GetCorrectQueryCandidates(Completed(a.req.words))
    OBVIOUS
  <2>4. /\ a.req.op = "autocomplete" /\ a.req.words # <<>> /\ candidates # <<>>
        /\ ReadsFit(a, ReadsOf(Head(a.queries)) \o ReadsOf(Head(a.queries)))
    BY <1>3, <2>3 DEF Completing
  <2>5. PICK wanted \in GetMatchedWordsAutocomplete(candidates) : QueriesFit(a, wanted)
    BY <1>3, <2>3 DEF Completing
  <2>6. PICK all : all = ReadsOf(Head(a.queries)) \o ReadsOf(Head(a.queries))
    OBVIOUS
  <2>7. all \in Seq(Fields \X STRING)
    <3>1. PICK queries : queries = a.queries
      OBVIOUS
    <3>2. queries \in Seq(Seq(STRING)) /\ queries # <<>>
      BY <2>5, <3>1 DEF QueriesFit
    <3>3. PICK query : query = Head(queries)
      OBVIOUS
    <3>4. query \in Seq(STRING)
      BY <3>2, <3>3
    <3> QED
      BY <2>6, <3>1, <3>3, <3>4, ReadsOfAre
  <2>8. b.torn \in BOOLEAN /\ (~ b.torn => ~ a.torn /\ list = PostingList(Head(a.reads)[1], Head(a.reads)[2]))
    BY <2>2
  <2>9. ReadsFit(a, all)
    BY <2>4, <2>6
  <2>10. ReadsFit(b, all)
    BY <2>2, <2>7, <2>8, <2>9, ReadFurther
  <2>11. QueriesFit(b, wanted)
    BY <2>2, <2>5, <2>8 DEF QueriesFit
  <2>12. Completing(b)
    BY <2>2, <2>3, <2>4, <2>5, <2>6, <2>10, <2>11 DEF Completing
  <2> QED
    BY <1>1, <2>2, <2>12 DEF CallFits
<1> QED
  BY <1>1, <1>2, <1>3

\* The list that is to be read next.
LEMMA NextRead ==
  ASSUME NEW c \in Clients, NEW a, CallFits(c, a), a.at \in {"read", "readfile"}
  PROVE  /\ a.torn \in BOOLEAN
         /\ a.reads # <<>> => Head(a.reads)[1] \in Fields
         /\ a.at = "readfile" => a.reads # <<>> /\ HasPostings(Head(a.reads)[1], Head(a.reads)[2])
<1>1. PICK all : ReadsFit(a, all)
  BY ReadingIs DEF Searching, Completing
<1>2. PICK reads : reads = a.reads
  OBVIOUS
<1>3. /\ reads \in Seq(Fields \X STRING) /\ a.torn \in BOOLEAN
      /\ a.at = "readfile" => reads # <<>> /\ HasPostings(Head(reads)[1], Head(reads)[2])
  BY <1>1, <1>2 DEF ReadsFit
<1>4. ASSUME reads # <<>> PROVE Head(reads)[1] \in Fields
  <2>1. Head(reads) \in Fields \X STRING
    BY <1>3, <1>4
  <2> QED
    BY <2>1
<1> QED
  BY <1>2, <1>3, <1>4

\* A term without postings has the empty list.
LEMMA SkipReadFits ==
  ASSUME IInv, NEW c \in Clients, SkipRead(c)
  PROVE  IInv'
<1>1. Requested /\ Positioned /\ Maps /\ requests \in 0 .. MaxRequests
  BY DEF IInv
<1>2. PICK a : a = call[c]
  OBVIOUS
<1>3. CallFits(c, a) /\ a.at = "read" /\ a.reads # <<>>
  BY <1>1, <1>2, CallOf DEF SkipRead, Step
<1>4. ~ HasPostings(Head(a.reads)[1], Head(a.reads)[2])
  BY <1>2 DEF SkipRead
<1>5. a.torn \in BOOLEAN /\ Head(a.reads)[1] \in Fields
  BY <1>3, NextRead
<1>6. PostingList(Head(a.reads)[1], Head(a.reads)[2]) = <<>>
  BY <1>4, <1>5, NoPostings
<1>7. PICK b : b = [a EXCEPT !.at = "read", !.reads = Tail(a.reads), !.got = Append(a.got, <<>>), !.torn = a.torn]
  OBVIOUS
<1>8. CallFits(c, b)
  <2>1. PICK list \in Seq(Nat) : list = <<>>
    <3>1. <<>> \in Seq(Nat)
      OBVIOUS
    <3> QED
      BY <3>1
  <2>2. PICK torn \in BOOLEAN : torn = a.torn
    BY <1>5
  <2>3. ~ torn => ~ a.torn /\ list = PostingList(Head(a.reads)[1], Head(a.reads)[2])
    BY <1>6, <2>1, <2>2
  <2>4. b = [a EXCEPT !.at = "read", !.reads = Tail(a.reads), !.got = Append(a.got, list), !.torn = torn]
    BY <1>7, <2>1, <2>2
  <2> QED
    BY <1>3, <2>3, <2>4, ListGot
<1>9. call' = [call EXCEPT ![c] = b]
  <2>1. call' = [call EXCEPT ![c].reads = Tail(@), ![c].got = Append(@, <<>>)]
    BY DEF SkipRead
  <2>2. b = [a EXCEPT !.reads = Tail(a.reads), !.got = Append(a.got, <<>>)]
    <3>1. Searching(a) \/ Completing(a)
      BY <1>3, ReadingIs
    <3> QED
      BY <1>3, <1>7, <3>1 DEF Searching, Completing
  <2>3. call = [d \in Clients |-> call[d]]
    BY <1>1 DEF Requested
  <2> QED
    BY <1>2, <2>1, <2>2, <2>3
<1>10. Requested'
  BY <1>1, <1>8, <1>9, Continuing DEF SkipRead
<1>11. Maps' /\ Positioned' /\ (requests \in 0 .. MaxRequests)'
  BY <1>1 DEF SkipRead, Maps, Positioned
<1> QED
  BY <1>10, <1>11 DEF IInv

\* A seek moves the position to the start of a list.
LEMMA SeekFits ==
  ASSUME IInv, NEW c \in Clients, Seek(c)
  PROVE  IInv'
<1>1. Requested /\ Positioned /\ Maps /\ requests \in 0 .. MaxRequests
  BY DEF IInv
<1>2. PICK a : a = call[c]
  OBVIOUS
<1>3. CallFits(c, a) /\ a.at = "read" /\ a.reads # <<>>
  BY <1>1, <1>2, CallOf DEF Seek, Step
<1>4. PICK field : field = Head(a.reads)[1]
  OBVIOUS
<1>5. PICK word : word = Head(a.reads)[2]
  OBVIOUS
<1>6. HasPostings(field, word) /\ position' = [position EXCEPT ![field] = MetadataOf(field, word).start]
  BY <1>2, <1>4, <1>5 DEF Seek
<1>7. field \in Fields
  BY <1>3, <1>4, NextRead
<1>8. PICK start : start = MetadataOf(field, word).start
  OBVIOUS
<1>9. start \in 0 .. Len(IndexFile[field])
  <2>1. PICK length : length = MetadataOf(field, word).length
    OBVIOUS
  <2>2. /\ start \in Nat /\ length \in Nat /\ Len(IndexFile[field]) \in Nat
        /\ start + length <= Len(IndexFile[field])
    BY <1>6, <1>7, <1>8, <2>1, ListIsThere
  <2>3. PICK l \in Nat : l = Len(IndexFile[field])
    BY <2>2
  <2>4. start <= l
    BY <2>2, <2>3
  <2> QED
    BY <2>2, <2>3, <2>4
<1>10. Positioned'
  <2>1. position = [f \in Fields |-> position[f]] /\ \A f \in Fields : position[f] \in 0 .. Len(IndexFile[f])
    BY <1>1 DEF Positioned
  <2>2. position' = [position EXCEPT ![field] = start]
    BY <1>6, <1>8
  <2>3. position' = [f \in Fields |-> position'[f]]
    BY <2>1, <2>2
  <2>4. \A f \in Fields : position'[f] = IF f = field THEN start ELSE position[f]
    BY <2>1, <2>2
  <2>5. \A f \in Fields : position'[f] \in 0 .. Len(IndexFile[f])
    BY <1>9, <2>1, <2>4
  <2> QED
    BY <2>3, <2>5 DEF Positioned
<1>11. PICK b : b = [a EXCEPT !.at = "readfile"]
  OBVIOUS
<1>12. call' = [call EXCEPT ![c] = b]
  <2>1. call = [d \in Clients |-> call[d]]
    BY <1>1 DEF Requested
  <2>2. call' = [call EXCEPT ![c].at = "readfile"]
    BY DEF Seek
  <2> QED
    BY <1>2, <1>11, <2>1, <2>2
<1>13. ASSUME NEW all, ReadsFit(a, all), b.at = "readfile", b.torn = a.torn, b.got = a.got, b.reads = a.reads
       PROVE  ReadsFit(b, all)
  <2>1. HasPostings(Head(a.reads)[1], Head(a.reads)[2])
    BY <1>4, <1>5, <1>6
  <2> QED
    BY <1>3, <1>13, <2>1 DEF ReadsFit
<1>14. CallFits(c, b)
  <2>1. a.req \in Requests[c] /\ (Searching(a) \/ Completing(a))
    BY <1>3, ReadingIs
  <2>2. CASE Searching(a)
    <3>1. a = [at |-> a.at, req |-> a.req, torn |-> a.torn, got |-> a.got, terms |-> a.terms, reads |-> a.reads]
      BY <2>2 DEF Searching
    <3>2. /\ b = [at |-> b.at, req |-> b.req, torn |-> b.torn, got |-> b.got, terms |-> b.terms, reads |-> b.reads]
          /\ b.at = "readfile" /\ b.req = a.req /\ b.torn = a.torn /\ b.terms = a.terms
          /\ b.got = a.got /\ b.reads = a.reads
      BY <1>11, <3>1
    <3>3. ReadsFit(a, ReadsOfTerms(a.terms))
      BY <2>2 DEF Searching
    <3>4. ReadsFit(b, ReadsOfTerms(a.terms))
      BY <1>13, <3>2, <3>3
    <3>5. Searching(b)
      BY <2>2, <3>2, <3>4 DEF Searching
    <3> QED
      BY <2>1, <3>2, <3>5 DEF CallFits
  <2>3. CASE Completing(a)
    <3>1. a = [at |-> a.at, req |-> a.req, torn |-> a.torn, got |-> a.got,
               queries |-> a.queries, found |-> a.found, reads |-> a.reads]
      BY <2>3 DEF Completing
    <3>2. /\ b = [at |-> b.at, req |-> b.req, torn |-> b.torn, got |-> b.got,
                  queries |-> b.queries, found |-> b.found, reads |-> b.reads]
          /\ b.at = "readfile" /\ b.req = a.req /\ b.torn = a.torn /\ b.queries = a.queries
          /\ b.found = a.found /\ b.got = a.got /\ b.reads = a.reads
      BY <1>11, <3>1
    <3>3. PICK all : all = ReadsOf(Head(a.queries)) \o ReadsOf(Head(a.queries))
      OBVIOUS
    <3>4. ReadsFit(a, all)
      BY <2>3, <3>3 DEF Completing
    <3>5. ReadsFit(b, all)
      BY <1>13, <3>2, <3>4
    <3>6. \A wanted : QueriesFit(a, wanted) => QueriesFit(b, wanted)
      BY <3>2 DEF QueriesFit
    <3>7. Completing(b)
      BY <2>3, <3>2, <3>3, <3>5, <3>6 DEF Completing
    <3> QED
      BY <2>1, <3>2, <3>7 DEF CallFits
  <2> QED
    BY <2>1, <2>2, <2>3
<1>15. Requested'
  BY <1>1, <1>12, <1>14, Continuing DEF Seek
<1>16. Maps' /\ (requests \in 0 .. MaxRequests)'
  BY <1>1 DEF Seek, Maps
<1> QED
  BY <1>10, <1>15, <1>16 DEF IInv

\* Index files are sequences of bytes.
LEMMA BytesType ==
  ASSUME NEW field, IndexFile[field] \in Seq(Nat), NEW from \in Nat, NEW n \in Nat
  PROVE  BytesAt(field, from, n) \in Seq(Nat)
<1>1. PICK l \in Nat : l = Len(IndexFile[field])
  BY SeqParts
<1>2. PICK file : file = IndexFile[field]
  OBVIOUS
<1>3. \A i \in 1 .. l : file[i] \in Nat
  BY <1>1, <1>2, SeqParts
<1>4. PICK bytes : bytes = BytesAt(field, from, n)
  OBVIOUS
<1>5. /\ bytes = [i \in 1 .. n |-> bytes[i]]
      /\ \A i \in 1 .. n : bytes[i] = IF from + i <= l THEN file[from + i] ELSE 0
  BY <1>1, <1>2, <1>4 DEF BytesAt
<1>6. ASSUME NEW i \in 1 .. n PROVE bytes[i] \in Nat
  <2>1. PICK j : j = from + i
    OBVIOUS
  <2>2. bytes[i] = IF j <= l THEN file[j] ELSE 0
    BY <1>5, <2>1
  <2>3. j \in Nat /\ j >= 1
    BY <2>1
  <2> QED
    BY <1>3, <2>2, <2>3
<1>7. bytes \in Seq(Nat)
  BY <1>5, <1>6, IsSeq
<1> QED
  BY <1>4, <1>7

\* A read, undisturbed or torn, or at the end of the file.
LEMMA ReadFits ==
  ASSUME IInv, NEW c \in Clients, Read(c)
  PROVE  IInv'
<1>1. Requested /\ Positioned /\ Maps /\ requests \in 0 .. MaxRequests
  BY DEF IInv
<1>2. PICK a : a = call[c]
  OBVIOUS
<1>3. CallFits(c, a) /\ a.at = "readfile"
  BY <1>1, <1>2, CallOf DEF Read, Step
<1>4. PICK field : field = Head(a.reads)[1]
  OBVIOUS
<1>5. PICK word : word = Head(a.reads)[2]
  OBVIOUS
<1>6. /\ a.torn \in BOOLEAN /\ a.reads # <<>> /\ field \in Fields /\ HasPostings(field, word)
  BY <1>3, <1>4, <1>5, NextRead
<1>7. PICK start : start = MetadataOf(field, word).start
  OBVIOUS
<1>8. PICK n : n = MetadataOf(field, word).length
  OBVIOUS
<1>9. /\ start \in Nat /\ n \in Nat /\ n # 0
      /\ IndexFile[field] \in Seq(Nat) /\ Len(IndexFile[field]) \in Nat
      /\ start + n <= Len(IndexFile[field])
      /\ DecodePostingsList(BytesAt(field, start, n)) = PostingList(field, word)
  BY <1>6, <1>7, <1>8, ListIsThere
<1>10. PICK l \in Nat : l = Len(IndexFile[field])
  BY <1>9
<1>11. PICK from \in Nat : from = position[field] /\ from <= l
  BY <1>1, <1>6, <1>10 DEF Positioned
<1>12. PICK upTo \in 0 .. l : upTo = IF from + n < l THEN from + n ELSE l
  BY <1>9, <1>11
<1>13. position' = [position EXCEPT ![field] = upTo]
  BY <1>2, <1>4, <1>5, <1>8, <1>10, <1>11, <1>12 DEF Read
<1>14. Positioned'
  <2>1. position = [f \in Fields |-> position[f]] /\ \A f \in Fields : position[f] \in 0 .. Len(IndexFile[f])
    BY <1>1 DEF Positioned
  <2>2. position' = [f \in Fields |-> position'[f]]
    BY <1>13, <2>1
  <2>3. \A f \in Fields : position'[f] = IF f = field THEN upTo ELSE position[f]
    BY <1>13, <2>1
  <2>4. \A f \in Fields : position'[f] \in 0 .. Len(IndexFile[f])
    BY <1>10, <1>12, <2>1, <2>3
  <2> QED
    BY <2>2, <2>4 DEF Positioned
<1>15. Maps' /\ (requests \in 0 .. MaxRequests)'
  BY <1>1 DEF Read, Maps
<1>16. PICK moved \in BOOLEAN : moved <=> from # start
  OBVIOUS
<1>17. CASE from = l
  <2>1. PICK answer : answer = [code |-> 500, req |-> a.req, torn |-> from # start]
    OBVIOUS
  <2>2. Answer(c, answer)
    BY <1>2, <1>4, <1>5, <1>7, <1>10, <1>11, <1>17, <2>1 DEF Read
  <2>3. from # start
    <3>1. start + n > start
      BY <1>9
    <3> QED
      BY <1>9, <1>10, <1>17, <3>1
  <2>4. answer.code = 500 /\ DOMAIN answer = {"code", "req", "torn"} /\ answer.torn
    BY <2>1, <2>3
  <2>5. ReplyFits(answer)
    BY <2>4 DEF ReplyFits, Explained
  <2>6. Requested'
    BY <1>1, <2>2, <2>5, Answering
  <2> QED
    BY <1>14, <1>15, <2>6 DEF IInv
<1>18. CASE from # l
  <2>1. PICK list : list = DecodePostingsList(BytesAt(field, from, n))
    OBVIOUS
  <2>2. list \in Seq(Nat)
    <3>1. PICK bytes : bytes = BytesAt(field, from, n)
      OBVIOUS
    <3>2. bytes \in Seq(Nat)
      BY <1>9, <3>1, BytesType
    <3> QED
      BY <2>1, <3>1, <3>2, DecodedType
  <2>3. PICK torn \in BOOLEAN : torn = (a.torn \/ from # start)
    OBVIOUS
  <2>4. ~ torn => ~ a.torn /\ list = PostingList(Head(a.reads)[1], Head(a.reads)[2])
    BY <1>4, <1>5, <1>9, <2>1, <2>3
  <2>5. PICK b : b = [a EXCEPT !.at = "read", !.reads = Tail(a.reads), !.got = Append(a.got, list), !.torn = torn]
    OBVIOUS
  <2>6. CallFits(c, b)
    BY <1>3, <1>6, <2>2, <2>4, <2>5, ListGot
  <2>7. call' = [call EXCEPT ![c] = b] /\ UNCHANGED reply
    <3>1. /\ call' = [call EXCEPT ![c].at = "read", ![c].reads = Tail(@),
                                  ![c].got = Append(@, list), ![c].torn = (a.torn \/ from # start)]
          /\ UNCHANGED reply
      BY <1>2, <1>4, <1>5, <1>7, <1>8, <1>10, <1>11, <1>18, <2>1 DEF Read
    <3>2. call = [d \in Clients |-> call[d]]
      BY <1>1 DEF Requested
    <3> QED
      BY <1>2, <2>3, <2>5, <3>1, <3>2
  <2>8. Requested'
    BY <1>1, <2>6, <2>7, Continuing
  <2> QED
    BY <1>14, <1>15, <2>8 DEF IInv
<1> QED
  BY <1>17, <1>18

\* Before the first read.
LEMMA NothingRead ==
  ASSUME NEW all \in Seq(Fields \X STRING), NEW a, a.at = "read", a.torn \in BOOLEAN, a.got = <<>>, a.reads = all
  PROVE  ReadsFit(a, all)
<1>1. <<>> \in Seq(Seq(Nat)) /\ Len(<<>>) = 0
  OBVIOUS
<1>2. PICK n \in Nat : n = Len(all)
  BY SeqParts
<1>3. Len(<<>>) + Len(all) = Len(all) /\ \A i \in 1 .. Len(all) : Len(<<>>) + i = i
  BY <1>1, <1>2
<1>4. \A i \in 1 .. Len(all) : all[i] = all[Len(<<>>) + i]
  BY <1>3
<1>5. ~ (\E i : i \in 1 .. Len(<<>>))
  BY <1>1
<1> QED
  BY <1>1, <1>3, <1>4, <1>5 DEF ReadsFit

------------------------------------------------------------------------------
(* The handlers. *)

\* The candidates of a search: it panics for what is not answerable, or reads for the best one.
LEMMA FreeFormQueryFits ==
  ASSUME IInv, NEW c \in Clients, FreeFormQuery(c)
  PROVE  IInv'
<1>1. Requested /\ Positioned /\ Maps /\ requests \in 0 .. MaxRequests
  BY DEF IInv
<1>2. PICK a : a = call[c]
  OBVIOUS
<1>3. CallFits(c, a) /\ a.at = "correct"
  BY <1>1, <1>2, CallOf DEF FreeFormQuery, Step
<1>4. a.req \in Requests[c] /\ a.req.op = "search"
  BY <1>3, WaitingIs
<1>5. PICK req \in Requests[c] : req = a.req /\ req.op = "search"
  BY <1>4
<1>6. PICK candidates : candidates = GetCorrectQueryCandidates(Alternatives(req.words))
  OBVIOUS
<1>7. \/ (candidates = <<>> \/ ~ Estimable(candidates)) /\ Panic(c)
      \/ /\ candidates # <<>> /\ Estimable(candidates)
         /\ \E terms \in MostProbable(candidates) :
               call' = [call EXCEPT ![c] = [at |-> "read", req |-> @.req, torn |-> FALSE, got |-> <<>>,
                                            terms |-> terms, reads |-> ReadsOfTerms(terms)]]
         /\ UNCHANGED reply
  BY <1>2, <1>5, <1>6 DEF FreeFormQuery
<1>8. Requested'
  <2>1. CASE (candidates = <<>> \/ ~ Estimable(candidates)) /\ Panic(c)
    <3>1. PICK answer : answer = [code |-> 500, req |-> req]
      OBVIOUS
    <3>2. Answer(c, answer)
      BY <1>2, <1>5, <2>1, <3>1 DEF Panic
    <3>3. ~ Answerable(req.words)
      BY <1>5, <1>6, <2>1, SearchPanics
    <3>4. answer.code = 500 /\ DOMAIN answer = {"code", "req"} /\ answer.req = req
      BY <3>1
    <3>5. ReplyFits(answer)
      BY <1>5, <3>3, <3>4 DEF ReplyFits, Explained
    <3> QED
      BY <1>1, <3>2, <3>5, Answering
  <2>2. CASE /\ candidates # <<>> /\ Estimable(candidates)
             /\ \E terms \in MostProbable(candidates) :
                   call' = [call EXCEPT ![c] = [at |-> "read", req |-> @.req, torn |-> FALSE, got |-> <<>>,
                                                terms |-> terms, reads |-> ReadsOfTerms(terms)]]
             /\ UNCHANGED reply
    <3>1. PICK terms \in MostProbable(candidates) :
             call' = [call EXCEPT ![c] = [at |-> "read", req |-> @.req, torn |-> FALSE, got |-> <<>>,
                                          terms |-> terms, reads |-> ReadsOfTerms(terms)]]
      BY <2>2
    <3>2. PICK all : all = ReadsOfTerms(terms)
      OBVIOUS
    <3>3. PICK b : b = [at |-> "read", req |-> req, torn |-> FALSE, got |-> <<>>, terms |-> terms, reads |-> all]
      OBVIOUS
    <3>4. call' = [call EXCEPT ![c] = b]
      BY <1>2, <1>5, <3>1, <3>2, <3>3
    <3>5. terms \in Seq(STRING)
      BY <1>5, <1>6, <2>2, TermsMeant
    <3>6. all \in Seq(Fields \X STRING)
      BY <3>2, <3>5, ReadsOfTermsAre
    <3>7. /\ b = [at |-> b.at, req |-> b.req, torn |-> b.torn, got |-> b.got, terms |-> b.terms, reads |-> b.reads]
          /\ b.at = "read" /\ b.req = req /\ b.torn = FALSE /\ b.got = <<>> /\ b.terms = terms /\ b.reads = all
      BY <3>3
    <3>8. ReadsFit(b, all)
      BY <3>6, <3>7, NothingRead
    <3>9. Searching(b)
      BY <1>5, <1>6, <2>2, <3>2, <3>7, <3>8 DEF Searching
    <3>10. CallFits(c, b)
      BY <1>5, <3>7, <3>9 DEF CallFits
    <3> QED
      BY <1>1, <2>2, <3>4, <3>10, Continuing
  <2> QED
    BY <1>7, <2>1, <2>2
<1>9. Maps' /\ Positioned' /\ (requests \in 0 .. MaxRequests)'
  BY <1>1 DEF FreeFormQuery, Maps, Positioned
<1> QED
  BY <1>8, <1>9 DEF IInv

\* The candidates of an autocompletion, and the IDs its words get.
LEMMA AutocompleteFits ==
  ASSUME IInv, NEW c \in Clients, Autocomplete(c)
  PROVE  IInv'
<1>1. Requested /\ Positioned /\ Maps /\ requests \in 0 .. MaxRequests
  BY DEF IInv
<1>2. PICK a : a = call[c]
  OBVIOUS
<1>3. CallFits(c, a) /\ a.at = "complete"
  BY <1>1, <1>2, CallOf DEF Autocomplete, Step
<1>4. a.req \in Requests[c] /\ a.req.op = "autocomplete"
  BY <1>3, WaitingIs
<1>5. PICK req \in Requests[c] : req = a.req /\ req.op = "autocomplete"
  BY <1>4
<1>6. PICK words : words = req.words
  OBVIOUS
<1>7. PICK candidates : candidates = GetCorrectQueryCandidates(Completed(words))
  OBVIOUS
<1>8. \/ (words = <<>> \/ candidates = <<>> \/ ~ Estimable(candidates)) /\ Panic(c)
      \/ /\ words # <<>> /\ candidates # <<>> /\ Estimable(candidates)
         /\ \E queries \in GetMatchedWordsAutocomplete(candidates) :
               call' = [call EXCEPT ![c] =
                           [at |-> "read", req |-> @.req, torn |-> FALSE, got |-> <<>>,
                            queries |-> queries, found |-> <<>>,
                            reads |-> ReadsOf(Head(queries)) \o ReadsOf(Head(queries))]]
         /\ UNCHANGED reply
  BY <1>2, <1>5, <1>6, <1>7 DEF Autocomplete
<1>9. Requested'
  <2>1. CASE (words = <<>> \/ candidates = <<>> \/ ~ Estimable(candidates)) /\ Panic(c)
    <3>1. PICK answer : answer = [code |-> 500, req |-> req]
      OBVIOUS
    <3>2. Answer(c, answer)
      BY <1>2, <1>5, <2>1, <3>1 DEF Panic
    <3>3. \/ words = <<>>
          \/ Completions[Last(words)] = <<>>
          \/ \E word \in Range(Front(words)) : Unseen(word)
          \/ \E word \in Range(Completions[Last(words)]) : Unseen(word)
      <4>1. CASE words = <<>>
        BY <4>1
      <4>2. CASE words # <<>>
        <5>1. /\ req.op = "autocomplete" /\ req.words # <<>>
              /\ candidates = GetCorrectQueryCandidates(Completed(req.words))
              /\ candidates = <<>> \/ ~ Estimable(candidates)
          BY <1>5, <1>6, <1>7, <2>1, <4>2
        <5>2. \/ Completions[Last(req.words)] = <<>>
              \/ \E word \in Range(Front(req.words)) : Unseen(word)
              \/ \E word \in Range(Completions[Last(req.words)]) : Unseen(word)
          BY <5>1, CompletionPanics
        <5> QED
          BY <1>6, <5>2
      <4> QED
        BY <4>1, <4>2
    <3>4. answer.code = 500 /\ DOMAIN answer = {"code", "req"} /\ answer.req = req
      BY <3>1
    <3>5. Explained(answer)
      BY <1>5, <1>6, <3>3, <3>4 DEF Explained
    <3>6. ReplyFits(answer)
      BY <3>4, <3>5 DEF ReplyFits
    <3> QED
      BY <1>1, <3>2, <3>6, Answering
  <2>2. CASE /\ words # <<>> /\ candidates # <<>> /\ Estimable(candidates)
             /\ \E queries \in GetMatchedWordsAutocomplete(candidates) :
                   call' = [call EXCEPT ![c] =
                               [at |-> "read", req |-> @.req, torn |-> FALSE, got |-> <<>>,
                                queries |-> queries, found |-> <<>>,
                                reads |-> ReadsOf(Head(queries)) \o ReadsOf(Head(queries))]]
             /\ UNCHANGED reply
    <3>1. PICK queries \in GetMatchedWordsAutocomplete(candidates) :
             call' = [call EXCEPT ![c] =
                         [at |-> "read", req |-> @.req, torn |-> FALSE, got |-> <<>>,
                          queries |-> queries, found |-> <<>>,
                          reads |-> ReadsOf(Head(queries)) \o ReadsOf(Head(queries))]]
      BY <2>2
    <3>2. PICK all : all = ReadsOf(Head(queries)) \o ReadsOf(Head(queries))
      OBVIOUS
    <3>3. PICK b : b = [at |-> "read", req |-> req, torn |-> FALSE, got |-> <<>>,
                        queries |-> queries, found |-> <<>>, reads |-> all]
      OBVIOUS
    <3>4. call' = [call EXCEPT ![c] = b]
      BY <1>2, <1>5, <3>1, <3>2, <3>3
    <3>5. queries \in Seq(Seq(STRING)) /\ queries # <<>>
      BY <1>5, <1>6, <1>7, <2>2, QueriesComplete
    <3>6. all \in Seq(Fields \X STRING)
      <4>1. PICK query : query = Head(queries)
        OBVIOUS
      <4>2. query \in Seq(STRING)
        BY <3>5, <4>1
      <4> QED
        BY <3>2, <4>1, <4>2, ReadsOfAre
    <3>7. /\ b = [at |-> b.at, req |-> b.req, torn |-> b.torn, got |-> b.got,
                  queries |-> b.queries, found |-> b.found, reads |-> b.reads]
          /\ b.at = "read" /\ b.req = req /\ b.torn = FALSE /\ b.got = <<>>
          /\ b.queries = queries /\ b.found = <<>> /\ b.reads = all
      BY <3>3
    <3>8. ReadsFit(b, all)
      BY <3>6, <3>7, NothingRead
    <3>9. QueriesFit(b, queries)
      <4>1. <<>> \in Seq(DocIDs) /\ Range(<<>>) = {}
        BY DEF Range
      <4> QED
        BY <3>5, <3>7, <4>1 DEF QueriesFit
    <3>10. Completing(b)
      BY <1>5, <1>6, <1>7, <2>2, <3>2, <3>7, <3>8, <3>9 DEF Completing
    <3>11. CallFits(c, b)
      BY <1>5, <3>7, <3>10 DEF CallFits
    <3> QED
      BY <1>1, <2>2, <3>4, <3>11, Continuing
  <2> QED
    BY <1>8, <2>1, <2>2
<1>10. Maps'
  <2>1. termIDs' = GetIDs(termIDs, words) /\ UNCHANGED features
    BY <1>2, <1>5, <1>6 DEF Autocomplete
  <2>2. words \in Seq(STRING)
    BY <1>5, <1>6, RequestsAssumption
  <2>3. termIDs \in Seq(STRING) /\ Extends(termIDs, Terms) /\ Terms \in Seq(STRING)
    BY <1>1, WordsAssumption DEF Maps
  <2>4. GetIDs(termIDs, words) \in Seq(STRING) /\ Extends(GetIDs(termIDs, words), Terms)
    BY <2>2, <2>3, IDsGiven
  <2> QED
    BY <1>1, <2>1, <2>4 DEF Maps
<1>11. Positioned' /\ (requests \in 0 .. MaxRequests)'
  BY <1>1 DEF Autocomplete, Positioned
<1> QED
  BY <1>9, <1>10, <1>11 DEF IInv

\* A request that ranked the documents of its page answers with them, or with a 500.
LEMMA AnsweredFits ==
  ASSUME Requested, NEW c \in Clients, NEW a, a = call[c], a.torn \in BOOLEAN,
         NEW ids, Answered(c, ids), NEW docs, docs = Page(ids, a.req.k, a.req.offset),
         ~ a.torn => /\ Range(docs) \subseteq DocIDs
                     /\ a.req.op = "search" => SearchAnswer(a.req, docs)
                     /\ a.req.op = "autocomplete" => CompletionAnswer(a.req, docs)
  PROVE  Requested'
<1>1. CASE Range(docs) \subseteq DocIDs
  <2>1. PICK answer : answer = [code |-> 200, req |-> a.req, torn |-> a.torn, docs |-> docs]
    OBVIOUS
  <2>2. Answer(c, answer)
    BY <1>1, <2>1 DEF Answered
  <2>3. answer.code = 200 /\ answer.req = a.req /\ answer.torn = a.torn /\ answer.docs = docs
    BY <2>1
  <2>4. ReplyFits(answer)
    BY <1>1, <2>3 DEF ReplyFits
  <2> QED
    BY <2>2, <2>4, Answering
<1>2. CASE ~ (Range(docs) \subseteq DocIDs)
  <2>1. PICK answer : answer = [code |-> 500, req |-> a.req, torn |-> a.torn]
    OBVIOUS
  <2>2. Answer(c, answer)
    BY <1>2, <2>1 DEF Answered
  <2>3. answer.code = 500 /\ DOMAIN answer = {"code", "req", "torn"} /\ answer.torn
    BY <1>2, <2>1
  <2>4. ReplyFits(answer)
    BY <2>3 DEF ReplyFits, Explained
  <2> QED
    BY <2>2, <2>4, Answering
<1> QED
  BY <1>1, <1>2

\* A search answers.
LEMMA ScoreDocsFits ==
  ASSUME IInv, NEW c \in Clients, ScoreDocs(c)
  PROVE  IInv'
<1>1. Requested /\ Positioned /\ Maps /\ requests \in 0 .. MaxRequests
  BY DEF IInv
<1>2. PICK a : a = call[c]
  OBVIOUS
<1>3. CallFits(c, a) /\ a.at = "read" /\ a.req.op = "search" /\ a.reads = <<>>
  BY <1>1, <1>2, CallOf DEF ScoreDocs, Step
<1>4. a.req \in Requests[c] /\ Searching(a) /\ a.torn \in BOOLEAN
  <2>1. ~ Completing(a)
    BY <1>3 DEF Completing
  <2> QED
    BY <1>3, <2>1, ReadingIs, NextRead
<1>5. PICK ids \in Rankings(scoreBM25Field(a.terms, LastRead(a.terms, a.got, -1, 2),
                                           LastRead(a.terms, a.got, 0, 2))) : Answered(c, ids)
  BY <1>2 DEF ScoreDocs
<1>6. PICK docs : docs = Page(ids, a.req.k, a.req.offset)
  OBVIOUS
<1>7. ~ a.torn => Range(docs) \subseteq DocIDs /\ SearchAnswer(a.req, docs)
  BY <1>3, <1>4, <1>6, SearchDone
<1>8. Requested'
  <2>1. a.req.op # "autocomplete"
    BY <1>3
  <2> QED
    BY <1>1, <1>2, <1>4, <1>5, <1>6, <1>7, <2>1, AnsweredFits
<1>9. Maps' /\ Positioned' /\ (requests \in 0 .. MaxRequests)'
  BY <1>1 DEF ScoreDocs, Maps, Positioned
<1> QED
  BY <1>8, <1>9 DEF IInv

\* An autocompletion scores one of its queries, and answers after the last.
LEMMA ScoreMatchedFits ==
  ASSUME IInv, NEW c \in Clients, ScoreMatched(c)
  PROVE  IInv'
<1>1. Requested /\ Positioned /\ Maps /\ requests \in 0 .. MaxRequests
  BY DEF IInv
<1>2. PICK a : a = call[c]
  OBVIOUS
<1>3. CallFits(c, a) /\ a.at = "read" /\ a.req.op = "autocomplete" /\ a.reads = <<>>
  BY <1>1, <1>2, CallOf DEF ScoreMatched, Step
<1>4. a.req \in Requests[c] /\ Completing(a) /\ a.torn \in BOOLEAN
  <2>1. ~ Searching(a)
    BY <1>3 DEF Searching
  <2> QED
    BY <1>3, <2>1, ReadingIs, NextRead
<1>5. PICK req \in Requests[c] : req = a.req /\ req.op = "autocomplete"
  BY <1>3, <1>4
<1>6. PICK candidates : candidates = GetCorrectQueryCandidates(Completed(req.words))
  OBVIOUS
<1>7. req.words # <<>> /\ candidates # <<>>
  BY <1>4, <1>5, <1>6 DEF Completing
<1>8. PICK all \in GetMatchedWordsAutocomplete(candidates) : QueriesFit(a, all)
  BY <1>4, <1>5, <1>6 DEF Completing
<1>9. PICK queries : queries = a.queries
  OBVIOUS
<1>10. PICK query : query = Head(queries)
  OBVIOUS
<1>11. PICK rest : rest = Tail(queries)
  OBVIOUS
<1>12. PICK found : found = a.found
  OBVIOUS
<1>13. PICK names : names = LastRead(query, a.got, 0, 1)
  OBVIOUS
<1>14. PICK ids \in Rankings(scoreBM25FAutocomplete(names,
                             processQuery(shuntingYardRPN(Conjunction(query)),
                                          SubSeq(a.got, Len(query) + 1, 2 * Len(query))))) :
          IF rest = <<>> THEN Answered(c, found \o ids)
          ELSE /\ call' = [call EXCEPT ![c].queries = rest, ![c].found = found \o ids, ![c].got = <<>>,
                                       ![c].reads = ReadsOf(Head(rest)) \o ReadsOf(Head(rest))]
               /\ UNCHANGED reply
  BY <1>2, <1>9, <1>10, <1>11, <1>12, <1>13 DEF ScoreMatched
<1>15. PICK more : more = found \o ids
  OBVIOUS
<1>16. /\ queries \in Seq(Seq(STRING)) /\ queries # <<>> /\ Range(queries) \subseteq Range(all)
       /\ ~ a.torn => found \in Seq(DocIDs) /\ Range(found) \cup Found(queries) = Found(all)
  BY <1>8, <1>9, <1>12 DEF QueriesFit
<1>17. ASSUME ~ a.torn
       PROVE  /\ more \in Seq(DocIDs) /\ Range(more) \cup Found(rest) = Found(all)
              /\ rest = <<>> => Range(more) = Found(all)
  <2>1. query \in Range(queries)
    <3>1. DOMAIN queries = 1 .. Len(queries) /\ Len(queries) \in Nat /\ Len(queries) # 0
      BY <1>16, SeqParts
    <3>2. query = queries[1] /\ 1 \in DOMAIN queries
      BY <1>10, <1>16, <3>1
    <3> QED
      BY <3>2 DEF Range
  <2>2. Completes(query, req.words)
    BY <1>5, <1>6, <1>7, <1>16, <2>1, QueriesComplete
  <2>3. query \in Seq(STRING) /\ query # <<>> /\ Range(query) \cap Operators = {}
    BY <1>5, <1>7, <2>2, CompletesWanted
  <2>4. ReadsFit(a, ReadsOf(query) \o ReadsOf(query))
    BY <1>4, <1>9, <1>10 DEF Completing
  <2>5. ids \in Seq(DocIDs) /\ Range(ids) = Matches(query)
    BY <1>3, <1>14, <1>17, <2>3, <2>4, QueryFinds
  <2>6. found \in Seq(DocIDs) /\ Range(found) \cup Found(queries) = Found(all)
    BY <1>16, <1>17
  <2>7. Range(ids) = Matches(Head(queries))
    BY <1>10, <2>5
  <2>8. queries \in Seq(Seq(STRING)) /\ queries # <<>>
    BY <1>16
  <2>9. /\ found \o ids \in Seq(DocIDs) /\ Range(found \o ids) \cup Found(Tail(queries)) = Found(all)
        /\ Tail(queries) = <<>> => Range(found \o ids) = Found(all)
    BY <2>5, <2>6, <2>7, <2>8, TurnDone
  <2> QED
    BY <1>11, <1>15, <2>9
<1>18. Requested'
  <2>1. CASE rest = <<>>
    <3>1. Answered(c, more)
      BY <1>14, <1>15, <2>1
    <3>2. PICK docs : docs = Page(more, a.req.k, a.req.offset)
      OBVIOUS
    <3>3. ~ a.torn => Range(docs) \subseteq DocIDs /\ CompletionAnswer(a.req, docs)
      <4>1. ASSUME ~ a.torn PROVE Range(docs) \subseteq DocIDs /\ CompletionAnswer(req, docs)
        <5>1. more \in Seq(DocIDs) /\ Range(more) = Found(all)
          BY <1>17, <2>1, <4>1
        <5>2. docs = Page(more, req.k, req.offset)
          BY <1>5, <3>2
        <5> QED
          BY <1>5, <1>6, <1>7, <5>1, <5>2, CompletionDone
      <4> QED
        BY <1>5, <4>1
    <3>4. a.req.op # "search"
      BY <1>3
    <3> QED
      BY <1>1, <1>2, <1>4, <3>1, <3>2, <3>3, <3>4, AnsweredFits
  <2>2. CASE rest # <<>>
    <3>1. /\ call' = [call EXCEPT ![c].queries = rest, ![c].found = more, ![c].got = <<>>,
                                  ![c].reads = ReadsOf(Head(rest)) \o ReadsOf(Head(rest))]
          /\ UNCHANGED reply
      BY <1>14, <1>15, <2>2
    <3>2. PICK reads : reads = ReadsOf(Head(rest)) \o ReadsOf(Head(rest))
      OBVIOUS
    <3>3. PICK b : b = [a EXCEPT !.queries = rest, !.found = more, !.got = <<>>, !.reads = reads]
      OBVIOUS
    <3>4. call' = [call EXCEPT ![c] = b]
      <4>1. call = [d \in Clients |-> call[d]]
        BY <1>1 DEF Requested
      <4> QED
        BY <1>2, <3>1, <3>2, <3>3, <4>1
    <3>5. a = [at |-> a.at, req |-> a.req, torn |-> a.torn, got |-> a.got,
               queries |-> a.queries, found |-> a.found, reads |-> a.reads]
      BY <1>4 DEF Completing
    <3>6. /\ b = [at |-> b.at, req |-> b.req, torn |-> b.torn, got |-> b.got,
                  queries |-> b.queries, found |-> b.found, reads |-> b.reads]
          /\ b.at = "read" /\ b.req = req /\ b.torn = a.torn /\ b.got = <<>>
          /\ b.queries = rest /\ b.found = more /\ b.reads = reads
      BY <1>3, <1>5, <3>3, <3>5
    <3>7. rest \in Seq(Seq(STRING)) /\ Range(rest) \subseteq Range(queries)
      <4>1. PICK V : V = Seq(STRING)
        OBVIOUS
      <4>2. queries \in Seq(V) /\ queries # <<>>
        BY <1>16, <4>1
      <4>3. /\ rest \in Seq(V) /\ Len(rest) = Len(queries) - 1
            /\ \A j \in 1 .. Len(queries) - 1 : rest[j] = queries[j + 1]
        BY <1>11, <4>2, TailParts
      <4>4. PICK n \in Nat : n = Len(queries) /\ n # 0 /\ DOMAIN queries = 1 .. n
        BY <4>2, SeqParts
      <4>5. DOMAIN rest = 1 .. n - 1
        BY <4>3, <4>4, SeqParts
      <4>6. ASSUME NEW j \in 1 .. n - 1 PROVE rest[j] \in Range(queries)
        <5>1. PICK i : i = j + 1
          OBVIOUS
        <5>2. i \in 1 .. n /\ rest[j] = queries[i]
          BY <4>3, <4>4, <5>1
        <5> QED
          BY <4>4, <5>2 DEF Range
      <4>7. Range(rest) \subseteq Range(queries)
        BY <4>5, <4>6 DEF Range
      <4> QED
        BY <4>1, <4>3, <4>7
    <3>8. reads \in Seq(Fields \X STRING)
      <4>1. PICK next : next = Head(rest)
        OBVIOUS
      <4>2. next \in Seq(STRING)
        BY <2>2, <3>7, <4>1
      <4> QED
        BY <3>2, <4>1, <4>2, ReadsOfAre
    <3>9. ReadsFit(b, reads)
      <4>1. b.torn \in BOOLEAN
        BY <1>4, <3>6
      <4> QED
        BY <3>6, <3>8, <4>1, NothingRead
    <3>10. QueriesFit(b, all)
      <4>1. ~ b.torn => more \in Seq(DocIDs) /\ Range(more) \cup Found(rest) = Found(all)
        BY <1>17, <3>6
      <4>2. Range(rest) \subseteq Range(all)
        BY <1>16, <3>7
      <4> QED
        BY <2>2, <3>6, <3>7, <4>1, <4>2 DEF QueriesFit
    <3>11. Completing(b)
      BY <1>5, <1>6, <1>7, <1>8, <3>2, <3>6, <3>9, <3>10 DEF Completing
    <3>12. CallFits(c, b)
      BY <1>5, <3>6, <3>11 DEF CallFits
    <3> QED
      BY <1>1, <3>1, <3>4, <3>12, Continuing
  <2> QED
    BY <2>1, <2>2
<1>19. Maps' /\ Positioned' /\ (requests \in 0 .. MaxRequests)'
  BY <1>1 DEF ScoreMatched, Maps, Positioned
<1> QED
  BY <1>18, <1>19 DEF IInv

\* The nearest document is answered.
LEMMA ReverseGeocodingFits ==
  ASSUME IInv, NEW c \in Clients, ReverseGeocoding(c)
  PROVE  IInv'
<1>1. Requested /\ Positioned /\ Maps /\ requests \in 0 .. MaxRequests
  BY DEF IInv
<1>2. PICK a : a = call[c]
  OBVIOUS
<1>3. CallFits(c, a) /\ a.at = "nearest"
  BY <1>1, <1>2, CallOf DEF ReverseGeocoding, Step
<1>4. a.req.op = "reverse"
  BY <1>3, WaitingIs
<1>5. PICK docs : docs = <<Head(Around).id>>
  OBVIOUS
<1>6. Range(docs) \subseteq DocIDs
  <2>1. PICK V : V = [id : DocIDs, tags : SUBSET STRING]
    OBVIOUS
  <2>2. Around \in Seq(V) /\ Around # <<>>
    BY <2>1, WordsAssumption
  <2>3. Head(Around) \in V
    BY <2>2
  <2>4. Head(Around).id \in DocIDs
    BY <2>1, <2>3
  <2>5. PICK id \in DocIDs : id = Head(Around).id
    BY <2>4
  <2>6. \A i \in DOMAIN <<id>> : <<id>>[i] = id
    OBVIOUS
  <2> QED
    BY <1>5, <2>5, <2>6 DEF Range
<1>7. PICK answer : answer = [code |-> 200, req |-> a.req, docs |-> docs]
  OBVIOUS
<1>8. Answer(c, answer)
  BY <1>2, <1>5, <1>7 DEF ReverseGeocoding
<1>9. answer.code = 200 /\ answer.req = a.req /\ answer.docs = docs
  BY <1>7
<1>10. ReplyFits(answer)
  BY <1>4, <1>6, <1>9 DEF ReplyFits
<1>11. Requested'
  BY <1>1, <1>8, <1>10, Answering
<1>12. Maps' /\ Positioned' /\ (requests \in 0 .. MaxRequests)'
  BY <1>1 DEF ReverseGeocoding, Maps, Positioned
<1> QED
  BY <1>11, <1>12 DEF IInv

\* The documents with a feature are answered, and the feature has an ID.
LEMMA NearbyFits ==
  ASSUME IInv, NEW c \in Clients, NearestNeighboursRadiusWithFeatureFilter(c)
  PROVE  IInv'
<1>1. Requested /\ Positioned /\ Maps /\ requests \in 0 .. MaxRequests
  BY DEF IInv
<1>2. PICK a : a = call[c]
  OBVIOUS
<1>3. CallFits(c, a) /\ a.at = "nearby"
  BY <1>1, <1>2, CallOf DEF NearestNeighboursRadiusWithFeatureFilter, Step
<1>4. a.req \in Requests[c] /\ a.req.op = "places"
  BY <1>3, WaitingIs
<1>5. PICK req \in Requests[c] : req = a.req /\ req.op = "places"
  BY <1>4
<1>6. req.k \in Int /\ req.offset \in Nat /\ req.feature \in STRING
  BY <1>5, RequestsAssumption
<1>7. PICK k \in Int : k = req.k
  BY <1>6
<1>8. PICK offset \in Nat : offset = req.offset
  BY <1>6
<1>9. PICK feature \in STRING : feature = req.feature
  BY <1>6
<1> DEFINE near == FlattenSeq([i \in DOMAIN Around |->
                                 IF feature \in Around[i].tags THEN <<Around[i].id>> ELSE <<>>])
           from == IF Len(near) > offset THEN SubSeq(near, offset + 1, Len(near)) ELSE near
<1>10. PICK docs : docs = Page(from, k, 0)
  OBVIOUS
<1>11. Range(docs) \subseteq DocIDs
  BY <1>10, NearbyDone
<1>12. PICK answer : answer = [code |-> 200, req |-> req, docs |-> docs]
  OBVIOUS
<1>13. Answer(c, answer) /\ features' = GetID(features, feature) /\ UNCHANGED <<termIDs, position, requests>>
  BY <1>2, <1>5, <1>7, <1>8, <1>9, <1>10, <1>12 DEF NearestNeighboursRadiusWithFeatureFilter
<1>14. answer.code = 200 /\ answer.req = req /\ answer.docs = docs
  BY <1>12
<1>15. ReplyFits(answer)
  BY <1>5, <1>11, <1>14 DEF ReplyFits
<1>16. Requested'
  BY <1>1, <1>13, <1>15, Answering
<1>17. Maps'
  <2>1. features \in Seq(STRING) /\ Extends(features, TagIDs) /\ TagIDs \in Seq(STRING)
    BY <1>1, WordsAssumption DEF Maps
  <2>2. PICK new : new = GetID(features, feature)
    OBVIOUS
  <2>3. IsInjective(features) /\ Len(TagIDs) <= Len(features) /\ \A i \in 1 .. Len(TagIDs) : features[i] = TagIDs[i]
    BY <2>1 DEF Extends
  <2>4. /\ new \in Seq(STRING) /\ IsInjective(new)
        /\ Len(features) <= Len(new) /\ \A i \in 1 .. Len(features) : new[i] = features[i]
    BY <2>1, <2>2, <2>3, IDGiven
  <2>5. Len(TagIDs) \in Nat /\ Len(features) \in Nat /\ Len(new) \in Nat
    BY <2>1, <2>4, SeqParts
  <2>6. Extends(new, TagIDs)
    BY <2>3, <2>4, <2>5 DEF Extends
  <2> QED
    BY <1>1, <1>13, <2>2, <2>4, <2>6 DEF Maps
<1>18. Positioned' /\ (requests \in 0 .. MaxRequests)'
  BY <1>1, <1>13 DEF Positioned
<1> QED
  BY <1>16, <1>17, <1>18 DEF IInv

------------------------------------------------------------------------------
(* The invariant is inductive. *)

\* The invariant holds at first.
LEMMA InitFits == Init => IInv
<1> SUFFICES ASSUME Init PROVE IInv
  OBVIOUS
<1>1. Maps
  <2>1. /\ termIDs = Terms /\ features = TagIDs /\ Terms \in Seq(STRING) /\ TagIDs \in Seq(STRING)
        /\ IsInjective(Terms) /\ IsInjective(TagIDs)
    BY SearcherAssumption, WordsAssumption DEF Init
  <2>2. Len(Terms) \in Nat /\ Len(TagIDs) \in Nat
    BY <2>1, SeqParts
  <2>3. Extends(Terms, Terms) /\ Extends(TagIDs, TagIDs)
    BY <2>1, <2>2 DEF Extends
  <2> QED
    BY <2>1, <2>3 DEF Maps
<1>2. Positioned
  <2>1. position = [field \in Fields |-> 0]
    BY DEF Init
  <2>2. ASSUME NEW field \in Fields PROVE Len(IndexFile[field]) \in Nat
    BY BytesType, SeqParts
  <2> QED
    BY <2>1, <2>2 DEF Positioned
<1>3. Requested
  <2>1. call = [c \in Clients |-> Idle] /\ reply = [c \in Clients |-> Unanswered]
    BY DEF Init
  <2>2. \A c \in Clients : CallFits(c, Idle) /\ ReplyFits(Unanswered)
    BY NoReply DEF CallFits
  <2> QED
    BY <2>1, <2>2 DEF Requested
<1>4. requests \in 0 .. MaxRequests
  BY SearcherAssumption DEF Init
<1> QED
  BY <1>1, <1>2, <1>3, <1>4 DEF IInv

\* The handlers of the four kinds of requests.
LEMMA RequestFits ==
  ASSUME IInv, NEW c \in Clients, NEW req \in Requests[c],
         \/ search(c, req) \/ autocomplete(c, req) \/ reverseGeocoding(c, req) \/ nearbyPlaces(c, req)
  PROVE  IInv'
<1>1. Requested /\ Positioned /\ Maps /\ requests \in 0 .. MaxRequests
  BY DEF IInv
<1>2. PICK valid, at :
         /\ Receive(c, req, valid, at)
         /\ <<at, req.op>> \in {<<"correct", "search">>, <<"complete", "autocomplete">>,
                                <<"nearest", "reverse">>, <<"nearby", "places">>}
  <2>1. CASE search(c, req)
    BY <2>1 DEF search
  <2>2. CASE autocomplete(c, req)
    BY <2>2 DEF autocomplete
  <2>3. CASE reverseGeocoding(c, req)
    BY <2>3 DEF reverseGeocoding
  <2>4. CASE nearbyPlaces(c, req)
    BY <2>4 DEF nearbyPlaces
  <2> QED
    BY <2>1, <2>2, <2>3, <2>4
<1>3. Requested' /\ requests' \in 0 .. MaxRequests
  BY <1>1, <1>2, ReceiveFits
<1>4. Maps' /\ Positioned'
  <2>1. UNCHANGED <<termIDs, features, position>>
    BY <1>2 DEF Receive
  <2> QED
    BY <1>1, <2>1 DEF Maps, Positioned
<1> QED
  BY <1>3, <1>4 DEF IInv

\* The invariant is kept by every step.
LEMMA NextFits == IInv /\ [Next]_vars => IInv'
<1> SUFFICES ASSUME IInv, [Next]_vars PROVE IInv'
  OBVIOUS
<1>1. CASE Next
  <2>1. PICK c \in Clients :
           \/ \E req \in Requests[c] : \/ search(c, req) \/ autocomplete(c, req)
                                       \/ reverseGeocoding(c, req) \/ nearbyPlaces(c, req)
           \/ Handle(c)
    BY <1>1 DEF Next
  <2>2. CASE \E req \in Requests[c] : \/ search(c, req) \/ autocomplete(c, req)
                                      \/ reverseGeocoding(c, req) \/ nearbyPlaces(c, req)
    BY <2>2, RequestFits
  <2>3. CASE FreeFormQuery(c)
    BY <2>3, FreeFormQueryFits
  <2>4. CASE Autocomplete(c)
    BY <2>4, AutocompleteFits
  <2>5. CASE SkipRead(c)
    BY <2>5, SkipReadFits
  <2>6. CASE Seek(c)
    BY <2>6, SeekFits
  <2>7. CASE Read(c)
    BY <2>7, ReadFits
  <2>8. CASE ScoreDocs(c)
    BY <2>8, ScoreDocsFits
  <2>9. CASE ScoreMatched(c)
    BY <2>9, ScoreMatchedFits
  <2>10. CASE ReverseGeocoding(c)
    BY <2>10, ReverseGeocodingFits
  <2>11. CASE NearestNeighboursRadiusWithFeatureFilter(c)
    BY <2>11, NearbyFits
  <2> QED
    BY <2>1, <2>2, <2>3, <2>4, <2>5, <2>6, <2>7, <2>8, <2>9, <2>10, <2>11 DEF Handle
<1>2. CASE UNCHANGED vars
  BY <1>2 DEF vars, IInv, Maps, Positioned, Requested
<1> QED
  BY <1>1, <1>2

\* What the handlers keep, in every state: the inductive invariant.
THEOREM Invariance == Spec => []IInv
BY InitFits, NextFits, PTL DEF Spec

------------------------------------------------------------------------------
(* The invariants of the runs. *)

\* The maps of IDs extend those the indexes were built with, one to one, for every
\* sequence of queries (GetID, Autocomplete, searcher.go:690).
THEOREM IDsKeptAlways == Spec => []IDsKept
<1>1. IInv => IDsKept
  <2> SUFFICES ASSUME IInv PROVE IDsKept
    OBVIOUS
  <2>1. /\ termIDs \in Seq(STRING) /\ Extends(termIDs, Terms) /\ Terms \in Seq(STRING)
        /\ features \in Seq(STRING) /\ Extends(features, TagIDs) /\ TagIDs \in Seq(STRING)
    BY WordsAssumption DEF IInv, Maps
  <2>2. IsInjective(termIDs) /\ IsPrefix(Terms, termIDs)
    BY <2>1, ExtendsIsPrefix
  <2>3. IsInjective(features) /\ IsPrefix(TagIDs, features)
    BY <2>1, ExtendsIsPrefix
  <2> QED
    BY <2>2, <2>3 DEF IDsKept
<1> QED
  BY <1>1, Invariance, PTL

\* Positions stay in their files, what is read is of a field, and documents that are
\* answered exist, torn reads included (GetPostingList, Answered).
THEOREM TypeOKAlways == Spec => []TypeOK
<1>1. IInv => TypeOK
  <2> SUFFICES ASSUME IInv PROVE TypeOK
    OBVIOUS
  <2>1. Positioned /\ Requested /\ requests \in 0 .. MaxRequests
    BY DEF IInv
  <2>2. ASSUME NEW c \in Clients
        PROVE  /\ reply[c].code \in {0, 200, 400, 500}
               /\ call[c] # Idle => call[c].req \in Requests[c]
               /\ Step(c, "readfile") => Head(call[c].reads)[1] \in Fields
               /\ "docs" \in DOMAIN reply[c] => Range(reply[c].docs) \subseteq DocIDs
    <3>1. PICK a : a = call[c]
      OBVIOUS
    <3>2. CallFits(c, a) /\ ReplyFits(reply[c])
      BY <2>1, <3>1 DEF Requested
    <3>3. a # Idle => a.req \in Requests[c]
      BY <3>2 DEF CallFits
    <3>4. ASSUME a.at = "readfile" PROVE Head(a.reads)[1] \in Fields
      BY <3>2, <3>4, NextRead
    <3>5. /\ reply[c].code \in {0, 200, 400, 500}
          /\ "docs" \in DOMAIN reply[c] => Range(reply[c].docs) \subseteq DocIDs
      BY <3>2 DEF ReplyFits
    <3> QED
      BY <3>1, <3>3, <3>4, <3>5 DEF Step
  <2> QED
    BY <2>1, <2>2 DEF TypeOK, Positioned
<1> QED
  BY <1>1, Invariance, PTL

\* A request fails with a 500 for what it asks for, or for a read that another request
\* disturbed, and for nothing else: an index file answers every undisturbed read.
THEOREM ServerErrorsExplainedAlways == Spec => []ServerErrorsExplained
<1>1. IInv => ServerErrorsExplained
  BY DEF IInv, Requested, ReplyFits, Explained, ServerErrorsExplained
<1> QED
  BY <1>1, Invariance, PTL

\* A document that an undisturbed search finds has a word that the user can have meant.
THEOREM SearchSoundAlways == Spec => []SearchSound
<1>1. IInv => SearchSound
  BY DEF IInv, Requested, ReplyFits, SearchAnswer, Done, SearchSound
<1> QED
  BY <1>1, Invariance, PTL

\* An undisturbed search of up to three words answers with the page asked for of the
\* documents of the most probable query, best first: candidates, estimates, encoded
\* posting lists, scores and pages together, for any corpus.
THEOREM SearchExactAlways == Spec => []SearchExact
<1>1. IInv => SearchExact
  BY DEF IInv, Requested, ReplyFits, SearchAnswer, Done, SearchExact
<1> QED
  BY <1>1, Invariance, PTL

\* An undisturbed autocompletion finds documents whose name has all words of the query,
\* the last one completed, and all of them if there is room for them.
THEOREM CompletionExactAlways == Spec => []CompletionExact
<1>1. IInv => CompletionExact
  BY DEF IInv, Requested, ReplyFits, CompletionAnswer, Wanted, Done, CompletionExact
<1> QED
  BY <1>1, Invariance, PTL

=============================================================================
