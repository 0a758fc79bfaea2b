-------------------------- MODULE SpimiInvertProofs --------------------------
(***************************************************************************)
(* Theorems about SpimiInvert and Merge at the level of the tokens: what   *)
(* the blocks hold, in what order, and what the merged index has of it,    *)
(* for any documents, any number of calls and any size of the posting map. *)
(***************************************************************************)
EXTENDS SpimiInvert, DataLemmas

------------------------------------------------------------------------------
(* How often a sequence has a value. *)

Where(s, x) == {i \in DOMAIN s : s[i] = x}
Count(s, x) == Cardinality(Where(s, x))

LEMMA Matched ==
  ASSUME NEW S, IsFiniteSet(S), NEW T, NEW f \in [S -> T],
         \A x, y \in S : f[x] = f[y] => x = y,
         \A t \in T : \E x \in S : f[x] = t
  PROVE  IsFiniteSet(T) /\ Cardinality(T) = Cardinality(S)
<1>1. f \in Injection(S, T) /\ f \in Surjection(S, T)
  BY DEF Injection, Surjection, IsInjective
<1> QED
  BY <1>1, FS_Surjection

LEMMA Separate ==
  ASSUME NEW S, NEW T, IsFiniteSet(S), IsFiniteSet(T), S \cap T = {}
  PROVE  IsFiniteSet(S \cup T) /\ Cardinality(S \cup T) = Cardinality(S) + Cardinality(T)
<1>1. Cardinality(S \cap T) = 0
  BY FS_EmptySet
<1>2. Cardinality(S) \in Nat /\ Cardinality(T) \in Nat
  BY FS_CardinalityType
<1>3. /\ IsFiniteSet(S \cup T)
      /\ Cardinality(S \cup T) = Cardinality(S) + Cardinality(T) - Cardinality(S \cap T)
  BY FS_Union
<1> QED
  BY <1>1, <1>2, <1>3

LEMMA CountType ==
  ASSUME NEW S, NEW s \in Seq(S), NEW x
  PROVE  IsFiniteSet(Where(s, x)) /\ Count(s, x) \in Nat
<1>1. Len(s) \in Nat /\ Where(s, x) \subseteq 1 .. Len(s)
  BY DEF Where
<1>2. IsFiniteSet(1 .. Len(s))
  BY <1>1, FirstCount
<1> QED
  BY <1>1, <1>2, FS_Subset, FS_CardinalityType DEF Count

LEMMA CountEmpty == ASSUME NEW x PROVE Count(<<>>, x) = 0
<1>1. Where(<<>>, x) = {}
  BY DEF Where
<1> QED
  BY <1>1, FS_EmptySet DEF Count

LEMMA CountAppend ==
  ASSUME NEW S, NEW s \in Seq(S), NEW e \in S, NEW x
  PROVE  Count(Append(s, e), x) = IF e = x THEN Count(s, x) + 1 ELSE Count(s, x)
<1>1. /\ Len(s) \in Nat /\ DOMAIN s = 1 .. Len(s) /\ DOMAIN Append(s, e) = 1 .. Len(s) + 1
      /\ Append(s, e)[Len(s) + 1] = e
      /\ \A i \in 1 .. Len(s) : Append(s, e)[i] = s[i]
  OBVIOUS
<1>2. 1 .. Len(s) + 1 = (1 .. Len(s)) \cup {Len(s) + 1} /\ Len(s) + 1 \notin 1 .. Len(s)
  BY <1>1
<1>3. Where(Append(s, e), x) = IF e = x THEN Where(s, x) \cup {Len(s) + 1} ELSE Where(s, x)
  BY <1>1, <1>2 DEF Where
<1>4. Len(s) + 1 \notin Where(s, x)
  BY <1>1, <1>2 DEF Where
<1> QED
  BY <1>3, <1>4, CountType, FS_AddElement DEF Count

LEMMA CountConcat ==
  ASSUME NEW S, NEW s \in Seq(S), NEW t \in Seq(S), NEW x
  PROVE  Count(s \o t, x) = Count(s, x) + Count(t, x)
<1>1. /\ Len(s) \in Nat /\ Len(t) \in Nat
      /\ DOMAIN s = 1 .. Len(s) /\ DOMAIN t = 1 .. Len(t)
      /\ DOMAIN (s \o t) = 1 .. Len(s) + Len(t)
      /\ \A i \in 1 .. Len(s) : (s \o t)[i] = s[i]
      /\ \A i \in 1 .. Len(t) : (s \o t)[Len(s) + i] = t[i]
  OBVIOUS
<1> DEFINE Moved == {i \in DOMAIN (s \o t) : i > Len(s) /\ (s \o t)[i] = x}
           f == [i \in Where(t, x) |-> Len(s) + i]
<1>2. \A i \in Where(t, x) : i \in Int /\ Len(s) + i \in Moved
  BY <1>1 DEF Where
<1>3. f \in [Where(t, x) -> Moved] /\ \A i, j \in Where(t, x) : f[i] = f[j] => i = j
  BY <1>1, <1>2
<1>4. ASSUME NEW i \in Moved
      PROVE  \E j \in Where(t, x) : f[j] = i
  <2>1. i \in Int /\ i - Len(s) \in 1 .. Len(t) /\ Len(s) + (i - Len(s)) = i
    BY <1>1
  <2>2. i - Len(s) \in Where(t, x)
    BY <1>1, <2>1 DEF Where
  <2> QED
    BY <2>1, <2>2
<1> HIDE DEF f
<1>5. IsFiniteSet(Moved) /\ Cardinality(Moved) = Count(t, x)
  BY <1>3, <1>4, CountType, Matched DEF Count
<1>6. Where(s \o t, x) = Where(s, x) \cup Moved
  <2>1. ASSUME NEW i \in Where(s \o t, x)
        PROVE  i \in Where(s, x) \cup Moved
    BY <1>1 DEF Where
  <2>2. ASSUME NEW i \in Where(s, x)
        PROVE  i \in Where(s \o t, x)
    BY <1>1 DEF Where
  <2> QED
    BY <2>1, <2>2 DEF Where
<1>7. Where(s, x) \cap Moved = {}
  BY <1>1 DEF Where
<1> HIDE DEF Moved
<1> QED
  BY <1>5, <1>6, <1>7, CountType, Separate DEF Count

------------------------------------------------------------------------------
(* Sorting. *)

IsOrder(s, p) ==
  /\ p \in Bijection(DOMAIN s, DOMAIN s)
  /\ \A i, j \in DOMAIN s : i < j => s[p[i]] <= s[p[j]]

\* There is an order: an index comes after those of smaller numbers and after
\* the earlier ones of the same number.
LEMMA OrderExists ==
  ASSUME NEW S, S \subseteq Int, NEW s \in Seq(S)
  PROVE  \E p : IsOrder(s, p)
<1> DEFINE D == DOMAIN s
           Before(i) == {j \in D : s[j] < s[i] \/ (s[j] = s[i] /\ j <= i)}
           rank == [i \in D |-> Cardinality(Before(i))]
           p == [k \in D |-> CHOOSE i \in D : rank[i] = k]
<1>1. /\ D = 1 .. Len(s) /\ Len(s) \in Nat
      /\ IsFiniteSet(D) /\ Cardinality(D) = Len(s)
      /\ \A i \in D : s[i] \in Int /\ i \in Int
  <2>1. D = 1 .. Len(s) /\ Len(s) \in Nat /\ \A i \in D : s[i] \in S
    BY SeqParts
  <2>2. \A i \in D : s[i] \in Int
    BY <2>1, Zenon
  <2>3. \A i \in D : i \in Int
    BY <2>1
  <2> QED
    BY <2>1, <2>2, <2>3, FirstCount
<1>2. \A i \in D : /\ Before(i) \subseteq D /\ i \in Before(i)
                   /\ IsFiniteSet(Before(i))
                   /\ Cardinality(Before(i)) \in 1 .. Len(s)
  <2> TAKE i \in D
  <2>1. Before(i) \subseteq D /\ i \in Before(i)
    BY <1>1
  <2>2. IsFiniteSet(Before(i)) /\ Cardinality(Before(i)) <= Len(s)
    BY <1>1, <2>1, FS_Subset
  <2>3. Cardinality(Before(i)) # 0 /\ Cardinality(Before(i)) \in Nat
    BY <2>1, <2>2, FS_EmptySet, FS_CardinalityType
  <2> QED
    BY <1>1, <2>1, <2>2, <2>3
<1>3. \A i, j \in D : j \notin Before(i) => rank[i] < rank[j]
  <2> TAKE i, j \in D
  <2>1. SUFFICES ASSUME j \notin Before(i) PROVE Cardinality(Before(i)) < Cardinality(Before(j))
    OBVIOUS
  <2>2. s[i] < s[j] \/ (s[i] = s[j] /\ i < j)
    BY <1>1, <2>1
  <2>3. Before(i) \subseteq Before(j)
    BY <1>1, <2>2
  <2>4. Before(i) # Before(j)
    BY <1>2, <2>1
  <2> HIDE DEF Before
  <2>5. Cardinality(Before(i)) <= Cardinality(Before(j)) /\ Cardinality(Before(i)) # Cardinality(Before(j))
    BY <1>2, <2>3, <2>4, FS_Subset
  <2> QED
    BY <1>2, <2>5
<1>4. \A i, j \in D : i # j => i \notin Before(j) \/ j \notin Before(i)
  BY <1>1
<1>5. rank \in [D -> D]
  BY <1>1, <1>2
<1> HIDE DEF Before
<1>6. \A i, j \in D : rank[i] = rank[j] => i = j
  BY <1>1, <1>3, <1>4, <1>5
<1>7. \A k \in D : \E i \in D : rank[i] = k
  <2>1. rank \in Injection(D, D)
    BY <1>5, <1>6 DEF Injection, IsInjective
  <2>2. rank \in Surjection(D, D)
    BY <1>1, <2>1, FS_Injection
  <2> QED
    BY <2>2 DEF Surjection
<1>8. \A k \in D : p[k] \in D /\ rank[p[k]] = k
  BY <1>7
<1>9. p \in Bijection(D, D)
  <2>1. p \in [D -> D]
    BY <1>8
  <2>2. \A i, j \in D : p[i] = p[j] => i = j
    BY <1>8
  <2>3. \A i \in D : p[rank[i]] = i /\ rank[i] \in D
    BY <1>5, <1>6, <1>8
  <2> HIDE DEF p
  <2> QED
    BY <2>1, <2>2, <2>3 DEF Bijection, Injection, Surjection, IsInjective
<1>10. ASSUME NEW i \in D, NEW j \in D, i < j
       PROVE  s[p[i]] <= s[p[j]]
  <2> DEFINE a == p[i]
             b == p[j]
  <2>1. a \in D /\ b \in D /\ rank[a] = i /\ rank[b] = j
    BY <1>8
  <2> HIDE DEF a, b, p, rank
  <2>2. a \in Before(b)
    BY <1>1, <1>3, <1>10, <2>1
  <2>3. s[a] <= s[b]
    BY <1>1, <2>1, <2>2 DEF Before
  <2> QED
    BY <2>3 DEF a, b
<1> HIDE DEF p
<1> QED
  BY <1>9, <1>10 DEF IsOrder

\* What sorting keeps and what it gives.
LEMMA SortedIs ==
  ASSUME NEW S, S \subseteq Int, NEW s \in Seq(S)
  PROVE  /\ Sorted(s) \in Seq(S) /\ Len(Sorted(s)) = Len(s)
         /\ \A i, j \in 1 .. Len(s) : i < j => Sorted(s)[i] <= Sorted(s)[j]
         /\ \A x : Count(Sorted(s), x) = Count(s, x)
         /\ Range(Sorted(s)) = Range(s)
         /\ IsInjective(s) => IsInjective(Sorted(s))
<1> DEFINE p == CHOOSE p \in Bijection(DOMAIN s, DOMAIN s) :
                  \A i, j \in DOMAIN s : i < j => s[p[i]] <= s[p[j]]
<1>1. IsOrder(s, p)
  BY OrderExists DEF IsOrder
<1>2. Sorted(s) = [i \in DOMAIN s |-> s[p[i]]]
  BY DEF Sorted
<1> HIDE DEF p
<1>3. /\ p \in [DOMAIN s -> DOMAIN s]
      /\ \A i, j \in DOMAIN s : p[i] = p[j] => i = j
      /\ \A k \in DOMAIN s : \E i \in DOMAIN s : p[i] = k
  BY <1>1 DEF IsOrder, Bijection, Injection, Surjection, IsInjective
<1>4. DOMAIN s = 1 .. Len(s) /\ Len(s) \in Nat /\ \A i \in DOMAIN s : s[i] \in S
  OBVIOUS
<1>5. Sorted(s) \in Seq(S) /\ Len(Sorted(s)) = Len(s) /\ DOMAIN Sorted(s) = DOMAIN s
  BY <1>2, <1>3, <1>4
<1>6. \A i, j \in 1 .. Len(s) : i < j => Sorted(s)[i] <= Sorted(s)[j]
  BY <1>1, <1>2, <1>4 DEF IsOrder
<1>7. ASSUME NEW x
      PROVE  Count(Sorted(s), x) = Count(s, x)
  <2> DEFINE f == [i \in Where(Sorted(s), x) |-> p[i]]
  <2>1. \A i \in Where(Sorted(s), x) : i \in DOMAIN s /\ p[i] \in Where(s, x)
    BY <1>2, <1>3 DEF Where
  <2>2. \A k \in Where(s, x) : \E i \in Where(Sorted(s), x) : p[i] = k
    BY <1>2, <1>3 DEF Where
  <2>3. IsFiniteSet(Where(Sorted(s), x))
    BY <1>5, CountType
  <2>4. f \in [Where(Sorted(s), x) -> Where(s, x)]
    BY <2>1
  <2>5. /\ \A i, j \in Where(Sorted(s), x) : f[i] = f[j] => i = j
        /\ \A k \in Where(s, x) : \E i \in Where(Sorted(s), x) : f[i] = k
    BY <1>3, <2>1, <2>2
  <2> HIDE DEF f
  <2> QED
    BY <2>3, <2>4, <2>5, Matched DEF Count
<1>8. Range(Sorted(s)) = Range(s)
  BY <1>2, <1>3, <1>5 DEF Range
<1>9. IsInjective(s) => IsInjective(Sorted(s))
  BY <1>2, <1>3, <1>5 DEF IsInjective
<1> QED
  BY <1>5, <1>6, <1>7, <1>8, <1>9

------------------------------------------------------------------------------
(* The documents and the terms. *)

IDsOf(c) == {Batches[c][j].id : j \in DOMAIN Batches[c]}
WordsIn(c, j) == Batches[c][j].words

LEMMA BatchParts ==
  ASSUME NEW c \in Calls
  PROVE  /\ Len(Batches[c]) \in Nat /\ DOMAIN Batches[c] = 1 .. Len(Batches[c])
         /\ \A j \in DOMAIN Batches[c] :
              /\ WordsIn(c, j) \in Seq(Words)
              /\ Batches[c][j] \in DocsOf(c)
              /\ Batches[c][j].id \in IDsOf(c)
         /\ \A doc \in DocsOf(c) : \E j \in DOMAIN Batches[c] : Batches[c][j] = doc
         /\ IDsOf(c) \subseteq DocIDs
<1>1. Batches[c] \in Seq([id : Nat, words : Seq(Words)])
  BY BatchesAssumption DEF Calls
<1>2. /\ Len(Batches[c]) \in Nat /\ DOMAIN Batches[c] = 1 .. Len(Batches[c])
      /\ \A j \in DOMAIN Batches[c] : Batches[c][j] \in [id : Nat, words : Seq(Words)]
  BY <1>1, SeqParts
<1>3. \A j \in DOMAIN Batches[c] : Batches[c][j] \in DocsOf(c)
  BY DEF DocsOf, Range
<1>4. \A doc \in DocsOf(c) : \E j \in DOMAIN Batches[c] : Batches[c][j] = doc
  BY DEF DocsOf, Range
<1>5. IDsOf(c) \subseteq DocIDs
  BY <1>3 DEF IDsOf, DocIDs, Docs
<1> QED
  BY <1>2, <1>3, <1>4, <1>5 DEF IDsOf, WordsIn

LEMMA DocIDsNat == DocIDs \subseteq Nat
<1>1. ASSUME NEW doc \in Docs
      PROVE  doc.id \in Nat
  <2>1. PICK c \in Calls : doc \in DocsOf(c)
    BY DEF Docs
  <2>2. Batches[c] \in Seq([id : Nat, words : Seq(Words)])
    BY BatchesAssumption DEF Calls
  <2>3. PICK j \in DOMAIN Batches[c] : Batches[c][j] = doc
    BY <2>1 DEF DocsOf, Range
  <2>4. doc \in [id : Nat, words : Seq(Words)]
    BY <2>2, <2>3, SeqParts
  <2> QED
    BY <2>4
<1> QED
  BY <1>1 DEF DocIDs

\* A document ID belongs to one document of one call.
LEMMA OneDocument ==
  ASSUME NEW c \in Calls, NEW e \in Calls, NEW i \in DOMAIN Batches[c], NEW j \in DOMAIN Batches[e],
         Batches[c][i].id = Batches[e][j].id
  PROVE  c = e /\ i = j
BY BatchesAssumption DEF Calls

LEMMA TermIDsCounted ==
  /\ Cardinality(Words) \in Nat /\ IsFiniteSet(Words)
  /\ IsFiniteSet(TermIDs) /\ Cardinality(TermIDs) = Cardinality(Words)
  /\ TermIDs \subseteq Nat
<1>1. Cardinality(Words) \in Nat /\ IsFiniteSet(Words)
  BY BatchesAssumption, FS_CardinalityType
<1>2. 0 \in Int /\ Cardinality(Words) - 1 \in Int
  BY <1>1
<1>3. /\ IsFiniteSet(0 .. Cardinality(Words) - 1)
      /\ Cardinality(0 .. Cardinality(Words) - 1) =
           IF 0 > Cardinality(Words) - 1 THEN 0 ELSE Cardinality(Words) - 1 - 0 + 1
  BY <1>2, FS_Interval
<1> QED
  BY <1>1, <1>3 DEF TermIDs

\* Words have the IDs 0, 1, 2, ... in the order of their coming.
IsNumbering(m) ==
  /\ DOMAIN m \subseteq Words
  /\ m \in Bijection(DOMAIN m, 0 .. Cardinality(DOMAIN m) - 1)

LEMMA NumberingIs ==
  ASSUME NEW m, IsNumbering(m)
  PROVE  /\ IsFiniteSet(DOMAIN m) /\ Cardinality(DOMAIN m) \in Nat
         /\ Cardinality(DOMAIN m) <= Cardinality(Words)
         /\ \A w \in DOMAIN m : m[w] \in 0 .. Cardinality(DOMAIN m) - 1 /\ m[w] \in TermIDs
         /\ \A v, w \in DOMAIN m : m[v] = m[w] => v = w
<1>1. /\ IsFiniteSet(DOMAIN m) /\ Cardinality(DOMAIN m) \in Nat
      /\ Cardinality(DOMAIN m) <= Cardinality(Words)
  BY TermIDsCounted, FS_Subset, FS_CardinalityType DEF IsNumbering
<1>2. \A w \in DOMAIN m : m[w] \in 0 .. Cardinality(DOMAIN m) - 1
  BY DEF IsNumbering, Bijection, Injection
<1>3. \A v, w \in DOMAIN m : m[v] = m[w] => v = w
  BY DEF IsNumbering, Bijection, Injection, IsInjective
<1> QED
  BY <1>1, <1>2, <1>3, TermIDsCounted DEF TermIDs

LEMMA NewNumber ==
  ASSUME NEW m, IsNumbering(m), NEW word \in Words, word \notin DOMAIN m,
         NEW m2, m2 = WithEntry(m, word, Cardinality(DOMAIN m))
  PROVE  /\ IsNumbering(m2)
         /\ DOMAIN m2 = DOMAIN m \cup {word}
         /\ m2[word] = Cardinality(DOMAIN m)
         /\ \A w \in DOMAIN m : m2[w] = m[w] /\ m2[word] # m[w]
<1> DEFINE n == Cardinality(DOMAIN m)
<1>1. /\ n \in Nat /\ IsFiniteSet(DOMAIN m)
      /\ \A w \in DOMAIN m : m[w] \in 0 .. n - 1
      /\ \A v, w \in DOMAIN m : m[v] = m[w] => v = w
  BY NumberingIs
<1>2. \A i \in 0 .. n - 1 : \E w \in DOMAIN m : m[w] = i
  BY DEF IsNumbering, Bijection, Surjection
<1>3. /\ DOMAIN m2 = DOMAIN m \cup {word}
      /\ m2 = [w \in DOMAIN m2 |-> m2[w]]
      /\ m2[word] = n
      /\ \A w \in DOMAIN m : m2[w] = m[w]
  BY DEF WithEntry
<1>4. Cardinality(DOMAIN m2) = n + 1
  BY <1>1, <1>3, FS_AddElement
<1> HIDE DEF n
<1>5. \A w \in DOMAIN m : m2[word] # m[w]
  BY <1>1, <1>3
<1>6. m2 \in [DOMAIN m2 -> 0 .. n]
  BY <1>1, <1>3
<1>7. \A v, w \in DOMAIN m2 : m2[v] = m2[w] => v = w
  BY <1>1, <1>3, <1>5
<1>8. \A i \in 0 .. n : \E w \in DOMAIN m2 : m2[w] = i
  <2> TAKE i \in 0 .. n
  <2>1. CASE i = n
    BY <1>3, <2>1
  <2>2. CASE i # n
    <3>1. i \in 0 .. n - 1
      BY <1>1, <2>2
    <3> QED
      BY <1>2, <1>3, <3>1
  <2> QED
    BY <2>1, <2>2
<1>9. 0 .. n = 0 .. Cardinality(DOMAIN m2) - 1
  BY <1>1, <1>4
<1>10. m2 \in Bijection(DOMAIN m2, 0 .. n)
  BY <1>6, <1>7, <1>8 DEF Bijection, Injection, Surjection, IsInjective
<1>11. DOMAIN m2 \subseteq Words
  BY <1>3 DEF IsNumbering
<1> QED
  BY <1>3, <1>5, <1>9, <1>10, <1>11 DEF IsNumbering, n

------------------------------------------------------------------------------
(* The blocks. *)

\* The terms of a posting map, in ascending order.
LEMMA TermsOfIs ==
  ASSUME NEW map, IsPostingMap(map)
  PROVE  /\ TermsOf(map) \in Seq(TermIDs)
         /\ Range(TermsOf(map)) = DOMAIN map
         /\ \A i, j \in DOMAIN TermsOf(map) : i < j => TermsOf(map)[i] < TermsOf(map)[j]
         /\ Len(TermsOf(map)) <= Cardinality(Words)
<1> DEFINE S == DOMAIN map
           n == Cardinality(S)
           s == SetToSeq(S)
<1>1. S \subseteq TermIDs /\ IsFiniteSet(S) /\ n \in Nat /\ n <= Cardinality(Words)
  BY TermIDsCounted, FS_Subset, FS_CardinalityType DEF IsPostingMap
<1>2. s \in [1 .. n -> S] /\ IsInjective(s) /\ Range(s) = S
  <2>1. \E f \in [1 .. n -> S] : IsInjective(f)
    <3>1. PICK f : f \in Bijection(1 .. n, S)
      BY <1>1, FS_CardinalityType DEF ExistsBijection
    <3> QED
      BY <3>1 DEF Bijection, Injection
  <2>2. s \in [1 .. n -> S] /\ IsInjective(s)
    BY <2>1 DEF SetToSeq
  <2> HIDE DEF s
  <2>3. s \in Injection(1 .. n, S)
    BY <2>2 DEF Injection
  <2>4. IsFiniteSet(1 .. n) /\ Cardinality(1 .. n) = n
    BY <1>1, FirstCount
  <2>5. s \in Surjection(1 .. n, S)
    BY <1>1, <2>3, <2>4, FS_Injection
  <2> QED
    BY <2>2, <2>5 DEF Surjection, Range
<1> HIDE DEF S, s, n
<1>3. s \in Seq(S) /\ Len(s) = n
  BY <1>1, <1>2
<1>4. S \subseteq Int
  BY <1>1, TermIDsCounted
<1>5. /\ Sorted(s) \in Seq(S) /\ Len(Sorted(s)) = n /\ Range(Sorted(s)) = S
      /\ \A i, j \in 1 .. n : i < j => Sorted(s)[i] <= Sorted(s)[j]
      /\ IsInjective(Sorted(s))
  BY <1>2, <1>3, <1>4, SortedIs
<1>6. TermsOf(map) = Sorted(s)
  BY DEF TermsOf, s, S
<1> HIDE DEF TermsOf
<1>7. DOMAIN TermsOf(map) = 1 .. n /\ \A i \in 1 .. n : TermsOf(map)[i] \in Int
  BY <1>4, <1>5, <1>6, SeqParts
<1>8. \A i, j \in 1 .. n : i < j => TermsOf(map)[i] < TermsOf(map)[j]
  BY <1>5, <1>6, <1>7 DEF IsInjective
<1>9. TermsOf(map) \in Seq(TermIDs)
  BY <1>1, <1>5, <1>6
<1> QED
  BY <1>1, <1>5, <1>6, <1>7, <1>8, <1>9 DEF S, n

\* lenDF holds the number of words of each document that has any.
LenMaps == UNION {[D -> Nat] : D \in SUBSET DocIDs}

LEMMA LenDFIs ==
  ASSUME NEW c \in Calls
  PROVE  /\ LenDF(c) \in LenMaps
         /\ DOMAIN LenDF(c) \subseteq IDsOf(c)
         /\ \A j \in DOMAIN Batches[c] :
              IF WordsIn(c, j) = <<>> THEN Batches[c][j].id \notin DOMAIN LenDF(c)
              ELSE /\ Batches[c][j].id \in DOMAIN LenDF(c)
                   /\ LenDF(c)[Batches[c][j].id] = Len(WordsIn(c, j))
<1> DEFINE doc(d) == CHOOSE x \in DocsOf(c) : x.id = d
           D == {x.id : x \in {y \in DocsOf(c) : y.words # <<>>}}
<1>1. LenDF(c) = [d \in D |-> Len(doc(d).words)]
  BY DEF LenDF
<1>2. ASSUME NEW j \in DOMAIN Batches[c]
      PROVE  doc(Batches[c][j].id) = Batches[c][j]
  <2> DEFINE x == doc(Batches[c][j].id)
  <2>1. x \in DocsOf(c) /\ x.id = Batches[c][j].id
    BY BatchParts
  <2> HIDE DEF x
  <2>2. PICK i \in DOMAIN Batches[c] : Batches[c][i] = x
    BY <2>1, BatchParts
  <2>3. i = j
    BY <2>1, <2>2, OneDocument
  <2> QED
    BY <2>2, <2>3 DEF x
<1> HIDE DEF doc
<1>3. ASSUME NEW d \in D
      PROVE  \E j \in DOMAIN Batches[c] : d = Batches[c][j].id /\ WordsIn(c, j) # <<>>
  <2>1. PICK y \in DocsOf(c) : y.words # <<>> /\ y.id = d
    OBVIOUS
  <2> QED
    BY <2>1, BatchParts DEF WordsIn
<1>4. \A d \in D : d \in IDsOf(c) /\ Len(doc(d).words) \in Nat
  BY <1>2, <1>3, BatchParts DEF WordsIn
<1>5. D \subseteq DocIDs /\ D \subseteq IDsOf(c)
  BY <1>4, BatchParts
<1>6. \A j \in DOMAIN Batches[c] : WordsIn(c, j) # <<>> => Batches[c][j].id \in D
  BY BatchParts DEF WordsIn
<1>7. ASSUME NEW j \in DOMAIN Batches[c], Batches[c][j].id \in D
      PROVE  WordsIn(c, j) # <<>>
  <2>1. PICK i \in DOMAIN Batches[c] : Batches[c][j].id = Batches[c][i].id /\ WordsIn(c, i) # <<>>
    BY <1>3, <1>7
  <2>2. i = j
    BY <2>1, OneDocument
  <2> QED
    BY <2>1, <2>2
<1> HIDE DEF D
<1>8. LenDF(c) \in [D -> Nat]
  BY <1>1, <1>4
<1>9. \A j \in DOMAIN Batches[c] :
        IF WordsIn(c, j) = <<>> THEN Batches[c][j].id \notin DOMAIN LenDF(c)
        ELSE /\ Batches[c][j].id \in DOMAIN LenDF(c)
             /\ LenDF(c)[Batches[c][j].id] = Len(WordsIn(c, j))
  BY <1>1, <1>2, <1>6, <1>7 DEF WordsIn
<1> HIDE DEF LenDF
<1> QED
  BY <1>5, <1>8, <1>9 DEF LenMaps

PostingMaps == UNION {[D -> Seq(DocIDs)] : D \in SUBSET TermIDs}
Blocks == [terms : Seq(TermIDs), postings : PostingMaps, lens : LenMaps]

LEMMA PostingMapIs == \A m : m \in PostingMaps <=> IsPostingMap(m)
BY DEF PostingMaps, IsPostingMap

LEMMA ListIs ==
  ASSUME NEW map, IsPostingMap(map), NEW t
  PROVE  ListOf(map, t) \in Seq(DocIDs)
BY DEF IsPostingMap, ListOf

\* A block in order: its terms ascend, and it has a posting list, which
\* ascends, for exactly these.
InOrder(b) ==
  /\ DOMAIN b.postings = Range(b.terms)
  /\ \A i, j \in DOMAIN b.terms : i < j => b.terms[i] < b.terms[j]
  /\ \A t \in DOMAIN b.postings : \A i, j \in DOMAIN b.postings[t] :
       i < j => b.postings[t][i] <= b.postings[t][j]

LEMMA BlockIs ==
  ASSUME NEW c \in Calls, NEW terms \in Seq(TermIDs), NEW map, IsPostingMap(map),
         \A i, j \in DOMAIN terms : i < j => terms[i] < terms[j],
         NEW b, b = BlockOf(c, terms, map)
  PROVE  /\ b \in Blocks /\ InOrder(b)
         /\ b.terms = terms /\ b.lens = LenDF(c)
         /\ \A t \in Range(terms) : \A d : Count(ListOf(b.postings, t), d) = Count(ListOf(map, t), d)
         /\ \A t : t \notin Range(terms) => ListOf(b.postings, t) = <<>>
<1>1. /\ b.terms = terms /\ b.lens = LenDF(c)
      /\ b.postings = [t \in Range(terms) |-> Sorted(ListOf(map, t))]
      /\ b = [terms |-> b.terms, postings |-> b.postings, lens |-> b.lens]
  BY DEF BlockOf
<1>2. DocIDs \subseteq Int
  BY DocIDsNat
<1>3. \A t : /\ Sorted(ListOf(map, t)) \in Seq(DocIDs)
             /\ Len(Sorted(ListOf(map, t))) = Len(ListOf(map, t))
             /\ \A i, j \in 1 .. Len(ListOf(map, t)) : i < j => Sorted(ListOf(map, t))[i] <= Sorted(ListOf(map, t))[j]
             /\ \A d : Count(Sorted(ListOf(map, t)), d) = Count(ListOf(map, t), d)
  BY <1>2, ListIs, SortedIs
<1>4. Range(terms) \subseteq TermIDs
  BY SeqParts
<1>5. b.postings \in [Range(terms) -> Seq(DocIDs)] /\ DOMAIN b.postings = Range(terms)
  BY <1>1, <1>3
<1>6. b.postings \in PostingMaps
  BY <1>4, <1>5 DEF PostingMaps
<1>7. b \in Blocks
  BY <1>1, <1>6, LenDFIs DEF Blocks
<1>8. \A t \in Range(terms) : b.postings[t] = Sorted(ListOf(map, t)) /\ ListOf(b.postings, t) = b.postings[t]
  BY <1>1 DEF ListOf
<1>9. ASSUME NEW t \in Range(terms), NEW i \in DOMAIN b.postings[t], NEW j \in DOMAIN b.postings[t], i < j
      PROVE  b.postings[t][i] <= b.postings[t][j]
  <2>1. i \in 1 .. Len(ListOf(map, t)) /\ j \in 1 .. Len(ListOf(map, t))
    BY <1>3, <1>8, <1>9, SeqParts
  <2> QED
    BY <1>3, <1>8, <1>9, <2>1
<1>10. InOrder(b)
  BY <1>1, <1>5, <1>9 DEF InOrder
<1>11. \A t : t \notin Range(terms) => ListOf(b.postings, t) = <<>>
  BY <1>5 DEF ListOf
<1> QED
  BY <1>1, <1>3, <1>7, <1>8, <1>10, <1>11

\* The block written at the end has all of the posting map.
LEMMA LastBlockIs ==
  ASSUME NEW c \in Calls, NEW map, IsPostingMap(map), NEW b, b = BlockOf(c, TermsOf(map), map)
  PROVE  /\ b \in Blocks /\ InOrder(b) /\ b.lens = LenDF(c)
         /\ \A t, d : Count(ListOf(b.postings, t), d) = Count(ListOf(map, t), d)
<1>1. /\ TermsOf(map) \in Seq(TermIDs) /\ Range(TermsOf(map)) = DOMAIN map
      /\ \A i, j \in DOMAIN TermsOf(map) : i < j => TermsOf(map)[i] < TermsOf(map)[j]
  BY TermsOfIs
<1> HIDE DEF TermsOf
<1>2. /\ b \in Blocks /\ InOrder(b) /\ b.lens = LenDF(c)
      /\ \A t \in DOMAIN map : \A d : Count(ListOf(b.postings, t), d) = Count(ListOf(map, t), d)
      /\ \A t : t \notin DOMAIN map => ListOf(b.postings, t) = <<>>
  BY <1>1, BlockIs
<1>3. \A t : t \notin DOMAIN map => ListOf(map, t) = <<>>
  BY DEF ListOf
<1> QED
  BY <1>2, <1>3

\* The one written when the map is full has no list that the map does not have.
LEMMA EarlyBlockIs ==
  ASSUME NEW c \in Calls, NEW map, IsPostingMap(map), NEW b, b = EarlyBlock(c, map)
  PROVE  /\ b \in Blocks /\ InOrder(b) /\ b.lens = LenDF(c)
         /\ \A t, d : \/ Count(ListOf(b.postings, t), d) = Count(ListOf(map, t), d)
                      \/ Count(ListOf(b.postings, t), d) = 0
<1> DEFINE terms == [i \in DOMAIN TermsOf(map) |-> i - 1]
<1>1. TermsOf(map) \in Seq(TermIDs) /\ Len(TermsOf(map)) <= Cardinality(Words)
  BY TermsOfIs
<1>2. b = BlockOf(c, terms, map)
  BY DEF EarlyBlock
<1> HIDE DEF TermsOf
<1>3. Len(TermsOf(map)) \in Nat /\ DOMAIN TermsOf(map) = 1 .. Len(TermsOf(map)) /\ Cardinality(Words) \in Nat
  BY <1>1, SeqParts, TermIDsCounted
<1>4. terms \in Seq(TermIDs)
  <2>1. \A i \in 1 .. Len(TermsOf(map)) : i - 1 \in 0 .. Cardinality(Words) - 1
    BY <1>1, <1>3
  <2>2. terms \in [1 .. Len(TermsOf(map)) -> TermIDs]
    BY <1>3, <2>1 DEF TermIDs
  <2> HIDE DEF terms
  <2> QED
    BY <1>3, <2>2
<1>5. \A i, j \in DOMAIN terms : i < j => terms[i] < terms[j]
  BY <1>3
<1> HIDE DEF terms
<1>6. /\ b \in Blocks /\ InOrder(b) /\ b.lens = LenDF(c)
      /\ \A t \in Range(terms) : \A d : Count(ListOf(b.postings, t), d) = Count(ListOf(map, t), d)
      /\ \A t : t \notin Range(terms) => ListOf(b.postings, t) = <<>>
  BY <1>2, <1>4, <1>5, BlockIs
<1> QED
  BY <1>6, CountEmpty

\* Adding a posting to the map.
Put(old, term, d) == WithEntry(old, term, Append(ListOf(old, term), d))

LEMMA PostingAdded ==
  ASSUME NEW old, IsPostingMap(old), NEW term \in TermIDs, NEW d \in DocIDs,
         NEW map, map = Put(old, term, d)
  PROVE  /\ IsPostingMap(map)
         /\ Count(ListOf(map, term), d) = Count(ListOf(old, term), d) + 1
         /\ \A t, x : t # term \/ x # d => Count(ListOf(map, t), x) = Count(ListOf(old, t), x)
<1>1. ListOf(old, term) \in Seq(DocIDs)
  BY ListIs
<1>2. /\ DOMAIN map = DOMAIN old \cup {term}
      /\ map = [t \in DOMAIN map |-> map[t]]
      /\ map[term] = Append(ListOf(old, term), d)
      /\ \A t \in DOMAIN old : t # term => map[t] = old[t]
  BY DEF WithEntry, Put
<1>3. Append(ListOf(old, term), d) \in Seq(DocIDs)
  BY <1>1
<1>4. IsPostingMap(map)
  BY <1>2, <1>3 DEF IsPostingMap
<1>5. ListOf(map, term) = Append(ListOf(old, term), d) /\ \A t : t # term => ListOf(map, t) = ListOf(old, t)
  BY <1>2 DEF ListOf
<1>6. \A x : Count(ListOf(map, term), x) =
               IF d = x THEN Count(ListOf(old, term), x) + 1 ELSE Count(ListOf(old, term), x)
  BY <1>1, <1>5, CountAppend
<1> QED
  BY <1>2, <1>4, <1>5, <1>6

LEMMA EmptyMapIs == IsPostingMap(EmptyMap) /\ \A t : ListOf(EmptyMap, t) = <<>>
BY DEF EmptyMap, IsPostingMap, ListOf

------------------------------------------------------------------------------
(* The types, and who is where. *)

\* A call parses its documents in their order, then takes its tokens; only then
\* does it return.
CallControl(c) ==
  /\ node[c] <= Len(Batches[c]) + 1
  /\ node[c] <= Len(Batches[c]) => nextWord[c] <= Len(WordsIn(c, node[c])) + 1
  /\ pc[c] = "parse" => taken[c] = 0
  /\ pc[c] # "parse" => node[c] = Len(Batches[c]) + 1
  /\ taken[c] <= Len(tokenStream[c])
  /\ pc[c] = "done" => taken[c] = Len(tokenStream[c])

InvertShape ==
  /\ IsNumbering(StrToID)
  /\ pc \in [Calls -> {"parse", "invert", "done"}]
  /\ node \in [Calls -> Nat \ {0}]
  /\ nextWord \in [Calls -> Nat \ {0}]
  /\ tokenStream \in [Calls -> Seq(TermIDs \X DocIDs)]
  /\ taken \in [Calls -> Nat]
  /\ termToPostingMap \in [Calls -> PostingMaps]
  /\ postingSize \in [Calls -> 0 .. MaxPosting - 1]
  /\ blocks \in Seq(Blocks)
  /\ \A b \in DOMAIN blocks : InOrder(blocks[b])
  /\ \A c \in Calls : CallControl(c)

\* Merge has nothing before it starts, which is when all calls have returned.
MergeControl ==
  /\ merging = "no" => lastTerm = -1 /\ mergedIndex = <<>> /\ cursor = <<>>
  /\ merging # "no" => /\ \A c \in Calls : pc[c] = "done"
                       /\ DOMAIN cursor = DOMAIN blocks
  /\ \A b \in DOMAIN cursor : cursor[b] <= Len(blocks[b].terms) + 1

MergeShape ==
  /\ cursor \in Seq(Nat \ {0})
  /\ lastTerm \in TermIDs \cup {-1}
  /\ lastPosting \in Seq(DocIDs)
  /\ mergedIndex \in Seq([term : TermIDs, postings : Seq(DocIDs)])
  /\ merging \in {"no", "yes", "done"}
  /\ MergeControl

Shape == InvertShape /\ MergeShape

LEMMA ShapeTyped == Shape => TypeOK
<1> SUFFICES ASSUME Shape PROVE TypeOK
  OBVIOUS
<1>1. /\ DOMAIN StrToID \subseteq Words
      /\ StrToID \in Bijection(DOMAIN StrToID, 0 .. Cardinality(DOMAIN StrToID) - 1)
  BY DEF Shape, InvertShape, IsNumbering
<1>2. DOMAIN termToPostingMap = Calls /\ \A c \in Calls : IsPostingMap(termToPostingMap[c])
  BY PostingMapIs DEF Shape, InvertShape
<1>3. ASSUME NEW b \in Range(blocks)
      PROVE  /\ DOMAIN b = {"terms", "postings", "lens"}
             /\ b.terms \in Seq(TermIDs)
             /\ IsPostingMap(b.postings)
             /\ DOMAIN b.lens \subseteq DocIDs /\ b.lens \in [DOMAIN b.lens -> Nat]
  <2>1. b \in Blocks
    BY SeqParts DEF Shape, InvertShape
  <2>2. /\ DOMAIN b = {"terms", "postings", "lens"}
        /\ b.terms \in Seq(TermIDs) /\ b.postings \in PostingMaps /\ b.lens \in LenMaps
    BY <2>1 DEF Blocks
  <2> QED
    BY <2>2, PostingMapIs DEF LenMaps
<1> QED
  BY <1>1, <1>2, <1>3 DEF Shape, InvertShape, MergeShape, TypeOK

\* The same as seen from one call.
LEMMA CallIs ==
  ASSUME InvertShape, NEW c \in Calls
  PROVE  /\ node[c] \in Nat \ {0} /\ nextWord[c] \in Nat \ {0}
         /\ tokenStream[c] \in Seq(TermIDs \X DocIDs)
         /\ taken[c] \in Nat
         /\ IsPostingMap(termToPostingMap[c])
         /\ postingSize[c] \in 0 .. MaxPosting - 1
         /\ pc[c] \in {"parse", "invert", "done"}
         /\ Len(Batches[c]) \in Nat /\ DOMAIN Batches[c] = 1 .. Len(Batches[c])
         /\ CallControl(c)
<1>1. termToPostingMap[c] \in PostingMaps
  BY DEF InvertShape
<1>2. Len(Batches[c]) \in Nat /\ DOMAIN Batches[c] = 1 .. Len(Batches[c])
  BY BatchParts
<1> QED
  BY <1>1, <1>2, PostingMapIs DEF InvertShape

\* While a call works Merge has not started.
LEMMA MergeWaits ==
  ASSUME MergeShape, NEW c \in Calls, pc[c] # "done"
  PROVE  merging = "no" /\ cursor = <<>> /\ lastTerm = -1 /\ mergedIndex = <<>>
BY DEF MergeShape, MergeControl

LEMMA ParseWordShape ==
  ASSUME Shape, NEW c \in Calls, ParseWord(c)
  PROVE  Shape'
<1> DEFINE word == WordsOf(c)[nextWord[c]]
           token == <<StrToID'[word], Batches[c][node[c]].id>>
<1>1. InvertShape /\ MergeShape
  BY DEF Shape
<1>2. node[c] \in DOMAIN Batches[c] /\ nextWord[c] \in DOMAIN WordsOf(c) /\ word \in Words
  <2>1. node[c] \in DOMAIN Batches[c] /\ WordsOf(c) = WordsIn(c, node[c])
    BY <1>1, CallIs DEF ParseWord, WordsOf, WordsIn
  <2>2. WordsOf(c) \in Seq(Words)
    BY <2>1, BatchParts
  <2>3. nextWord[c] \in DOMAIN WordsOf(c)
    BY <1>1, <2>2, CallIs DEF ParseWord
  <2> QED
    BY <2>1, <2>2, <2>3, SeqParts
<1>3. IsNumbering(StrToID') /\ word \in DOMAIN StrToID'
  <2>1. StrToID' = GetID(word) /\ IsNumbering(StrToID)
    BY <1>1 DEF ParseWord, InvertShape
  <2>2. CASE word \in DOMAIN StrToID
    BY <2>1, <2>2 DEF GetID
  <2>3. CASE word \notin DOMAIN StrToID
    <3>1. StrToID' = WithEntry(StrToID, word, Cardinality(DOMAIN StrToID))
      BY <2>1, <2>3 DEF GetID
    <3> DEFINE m2 == WithEntry(StrToID, word, Cardinality(DOMAIN StrToID))
    <3>2. StrToID' = m2 /\ m2 = WithEntry(StrToID, word, Cardinality(DOMAIN StrToID)) /\ word \in Words
      BY <1>2, <3>1
    <3> HIDE DEF word, m2
    <3>3. IsNumbering(m2) /\ DOMAIN m2 = DOMAIN StrToID \cup {word}
      BY <2>1, <2>3, <3>2, NewNumber
    <3> QED
      BY <3>2, <3>3
  <2> QED
    BY <2>2, <2>3
<1>4. token \in TermIDs \X DocIDs
  <2>1. StrToID'[word] \in TermIDs
    BY <1>3, NumberingIs
  <2>2. Batches[c][node[c]].id \in DocIDs
    BY <1>2, BatchParts
  <2> QED
    BY <2>1, <2>2
<1>5. /\ tokenStream' = [tokenStream EXCEPT ![c] = Append(@, token)]
      /\ nextWord' = [nextWord EXCEPT ![c] = @ + 1]
      /\ UNCHANGED <<pc, node, taken, termToPostingMap, postingSize, blocks, mergeVars>>
      /\ pc[c] = "parse" /\ node[c] <= Len(Batches[c]) /\ nextWord[c] <= Len(WordsOf(c))
  BY DEF ParseWord
<1> HIDE DEF token, word
<1>6. /\ tokenStream' \in [Calls -> Seq(TermIDs \X DocIDs)]
      /\ nextWord' \in [Calls -> Nat \ {0}]
      /\ tokenStream'[c] = Append(tokenStream[c], token)
      /\ nextWord'[c] = nextWord[c] + 1
      /\ \A e \in Calls : e # c => tokenStream'[e] = tokenStream[e] /\ nextWord'[e] = nextWord[e]
  <2>1. /\ tokenStream \in [Calls -> Seq(TermIDs \X DocIDs)] /\ nextWord \in [Calls -> Nat \ {0}]
        /\ tokenStream[c] \in Seq(TermIDs \X DocIDs) /\ nextWord[c] \in Nat
    BY <1>1 DEF InvertShape
  <2>2. Append(tokenStream[c], token) \in Seq(TermIDs \X DocIDs) /\ nextWord[c] + 1 \in Nat \ {0}
    BY <1>4, <2>1
  <2> QED
    BY <1>5, <2>1, <2>2
<1>7. Len(tokenStream'[c]) = Len(tokenStream[c]) + 1
  BY <1>1, <1>4, <1>6, CallIs
<1>8. ASSUME NEW e \in Calls
      PROVE  CallControl(e)'
  <2>1. CallControl(e)
    BY <1>1, CallIs
  <2>2. CASE e # c
    BY <1>5, <1>6, <2>1, <2>2 DEF CallControl
  <2>3. CASE e = c
    <3>1. WordsOf(c) = WordsIn(c, node[c])
      BY DEF WordsOf, WordsIn
    <3>2. nextWord[c] \in Nat /\ Len(WordsOf(c)) \in Nat /\ taken[c] \in Nat /\ Len(tokenStream[c]) \in Nat
      BY <1>1, <1>2, <3>1, CallIs, BatchParts
    <3> QED
      BY <1>5, <1>6, <1>7, <2>1, <2>3, <3>1, <3>2 DEF CallControl
  <2> QED
    BY <2>2, <2>3
<1>9. InvertShape'
  BY <1>1, <1>3, <1>5, <1>6, <1>8 DEF InvertShape
<1>10. MergeShape'
  BY <1>1, <1>5, MergeWaits DEF MergeShape, MergeControl, mergeVars
<1> QED
  BY <1>9, <1>10 DEF Shape

LEMMA EndNodeShape ==
  ASSUME Shape, NEW c \in Calls, EndNode(c)
  PROVE  Shape'
<1>1. InvertShape /\ MergeShape
  BY DEF Shape
<1>2. /\ node' = [node EXCEPT ![c] = @ + 1]
      /\ nextWord' = [nextWord EXCEPT ![c] = 1]
      /\ UNCHANGED <<StrToID, pc, tokenStream, taken, termToPostingMap, postingSize, blocks, mergeVars>>
      /\ pc[c] = "parse" /\ node[c] <= Len(Batches[c])
  BY DEF EndNode
<1>3. /\ node' \in [Calls -> Nat \ {0}] /\ nextWord' \in [Calls -> Nat \ {0}]
      /\ node'[c] = node[c] + 1 /\ nextWord'[c] = 1
      /\ \A e \in Calls : e # c => node'[e] = node[e] /\ nextWord'[e] = nextWord[e]
  BY <1>1, <1>2, CallIs DEF InvertShape
<1>4. ASSUME NEW e \in Calls
      PROVE  CallControl(e)'
  <2>1. CallControl(e)
    BY <1>1, CallIs
  <2>2. CASE e # c
    BY <1>2, <1>3, <2>1, <2>2 DEF CallControl
  <2>3. CASE e = c
    <3>1. node[c] \in Nat /\ Len(Batches[c]) \in Nat
      BY <1>1, CallIs
    <3>2. node[c] + 1 <= Len(Batches[c]) => Len(WordsIn(c, node[c] + 1)) \in Nat
      BY <3>1, BatchParts
    <3> QED
      BY <1>2, <1>3, <2>1, <2>3, <3>1, <3>2 DEF CallControl
  <2> QED
    BY <2>2, <2>3
<1>5. InvertShape'
  BY <1>1, <1>2, <1>3, <1>4 DEF InvertShape
<1>6. MergeShape'
  BY <1>1, <1>2, MergeWaits DEF MergeShape, MergeControl, mergeVars
<1> QED
  BY <1>5, <1>6 DEF Shape

LEMMA EndParseShape ==
  ASSUME Shape, NEW c \in Calls, EndParse(c)
  PROVE  Shape'
<1>1. InvertShape /\ MergeShape
  BY DEF Shape
<1>2. /\ pc' = [pc EXCEPT ![c] = "invert"]
      /\ UNCHANGED <<StrToID, node, nextWord, tokenStream, taken, termToPostingMap, postingSize, blocks, mergeVars>>
      /\ pc[c] = "parse" /\ node[c] > Len(Batches[c])
  BY DEF EndParse
<1>3. /\ pc' \in [Calls -> {"parse", "invert", "done"}]
      /\ pc'[c] = "invert" /\ \A e \in Calls : e # c => pc'[e] = pc[e]
  BY <1>1, <1>2 DEF InvertShape
<1>4. ASSUME NEW e \in Calls
      PROVE  CallControl(e)'
  <2>1. CallControl(e)
    BY <1>1, CallIs
  <2>2. CASE e # c
    BY <1>2, <1>3, <2>1, <2>2 DEF CallControl
  <2>3. CASE e = c
    <3>1. node[c] \in Nat /\ Len(Batches[c]) \in Nat
      BY <1>1, CallIs
    <3> QED
      BY <1>2, <1>3, <2>1, <2>3, <3>1 DEF CallControl
  <2> QED
    BY <2>2, <2>3
<1>5. InvertShape'
  BY <1>1, <1>2, <1>3, <1>4 DEF InvertShape
<1>6. MergeShape'
  BY <1>1, <1>2, MergeWaits DEF MergeShape, MergeControl, mergeVars
<1> QED
  BY <1>5, <1>6 DEF Shape

LEMMA BlockAppended ==
  ASSUME NEW bs \in Seq(Blocks), \A b \in DOMAIN bs : InOrder(bs[b]),
         NEW new \in Blocks, InOrder(new), NEW bs2, bs2 = Append(bs, new)
  PROVE  /\ bs2 \in Seq(Blocks) /\ \A b \in DOMAIN bs2 : InOrder(bs2[b])
         /\ Len(bs) \in Nat /\ DOMAIN bs = 1 .. Len(bs)
         /\ DOMAIN bs2 = DOMAIN bs \cup {Len(bs) + 1} /\ Len(bs) + 1 \notin DOMAIN bs
         /\ bs2[Len(bs) + 1] = new
         /\ \A b \in DOMAIN bs : bs2[b] = bs[b]
<1>1. /\ bs2 \in Seq(Blocks)
      /\ Len(bs) \in Nat /\ DOMAIN bs = 1 .. Len(bs) /\ DOMAIN bs2 = 1 .. Len(bs) + 1
      /\ bs2[Len(bs) + 1] = new /\ \A b \in 1 .. Len(bs) : bs2[b] = bs[b]
  OBVIOUS
<1>2. DOMAIN bs2 = DOMAIN bs \cup {Len(bs) + 1} /\ Len(bs) + 1 \notin DOMAIN bs
  BY <1>1
<1> QED
  BY <1>1, <1>2

\* What a step of the loop over the tokens does with the token <<t, d>>.
MapWith(c, t, d) == Put(termToPostingMap[c], t, d)

TookIt(c, t, d) ==
  /\ postingSize[c] + 1 < MaxPosting
  /\ postingSize' = [postingSize EXCEPT ![c] = @ + 1]
  /\ termToPostingMap' = [termToPostingMap EXCEPT ![c] = MapWith(c, t, d)]
  /\ blocks' = blocks

TookAndFlushed(c, t, d) ==
  /\ postingSize[c] + 1 >= MaxPosting
  /\ postingSize' = [postingSize EXCEPT ![c] = 0]
  /\ termToPostingMap' = [termToPostingMap EXCEPT ![c] = EmptyMap]
  /\ blocks' = Append(blocks, EarlyBlock(c, MapWith(c, t, d)))

Took(c, t, d) ==
  /\ tokenStream[c][taken[c] + 1] = <<t, d>>
  /\ taken[c] + 1 \in DOMAIN tokenStream[c]
  /\ taken' = [taken EXCEPT ![c] = @ + 1]
  /\ TookIt(c, t, d) \/ TookAndFlushed(c, t, d)

LEMMA TakeTokenIs ==
  ASSUME InvertShape, NEW c \in Calls, TakeToken(c)
  PROVE  \E t \in TermIDs, d \in DocIDs : IsPostingMap(MapWith(c, t, d)) /\ Took(c, t, d)
<1>1. /\ tokenStream[c] \in Seq(TermIDs \X DocIDs) /\ taken[c] \in Nat
      /\ IsPostingMap(termToPostingMap[c])
      /\ postingSize[c] \in 0 .. MaxPosting - 1 /\ MaxPosting \in Nat
  BY CallIs, BatchesAssumption
<1>2. taken[c] + 1 \in DOMAIN tokenStream[c]
  BY <1>1 DEF TakeToken
<1> DEFINE t == tokenStream[c][taken[c] + 1][1]
           d == tokenStream[c][taken[c] + 1][2]
           map == MapWith(c, t, d)
           full == postingSize[c] + 1 >= MaxPosting
<1>3. tokenStream[c][taken[c] + 1] \in TermIDs \X DocIDs
  BY <1>1, <1>2, SeqParts
<1>4. t \in TermIDs /\ d \in DocIDs /\ tokenStream[c][taken[c] + 1] = <<t, d>>
  BY <1>3
<1>5. /\ taken' = [taken EXCEPT ![c] = @ + 1]
      /\ postingSize' = [postingSize EXCEPT ![c] = IF full THEN 0 ELSE @ + 1]
      /\ termToPostingMap' = [termToPostingMap EXCEPT ![c] = IF full THEN EmptyMap ELSE map]
      /\ blocks' = IF full THEN Append(blocks, EarlyBlock(c, map)) ELSE blocks
  BY DEF TakeToken, MapAfterFlush, MapWith, Put
<1> HIDE DEF t, d
<1>6. IsPostingMap(map)
  BY <1>1, <1>4, PostingAdded DEF MapWith
<1>7. ~ full => postingSize[c] + 1 < MaxPosting
  BY <1>1
<1>8. full => postingSize[c] + 1 >= MaxPosting
  OBVIOUS
<1> HIDE DEF full
<1>9. CASE full
  <2>1. TookAndFlushed(c, t, d)
    BY <1>5, <1>8, <1>9 DEF TookAndFlushed
  <2> QED
    BY <1>2, <1>4, <1>5, <1>6, <2>1 DEF Took
<1>10. CASE ~ full
  <2>1. TookIt(c, t, d)
    BY <1>5, <1>7, <1>10 DEF TookIt
  <2> QED
    BY <1>2, <1>4, <1>5, <1>6, <2>1 DEF Took
<1> QED
  BY <1>9, <1>10

LEMMA TakeTokenShape ==
  ASSUME Shape, NEW c \in Calls, TakeToken(c)
  PROVE  Shape'
<1>1. InvertShape /\ MergeShape
  BY DEF Shape
<1>2. /\ pc[c] = "invert" /\ taken[c] < Len(tokenStream[c])
      /\ UNCHANGED <<StrToID, pc, node, nextWord, tokenStream, mergeVars>>
  BY DEF TakeToken
<1>3. PICK t \in TermIDs, d \in DocIDs : IsPostingMap(MapWith(c, t, d)) /\ Took(c, t, d)
  BY <1>1, TakeTokenIs
<1> DEFINE map == MapWith(c, t, d)
<1>4. /\ taken' \in [Calls -> Nat] /\ taken'[c] = taken[c] + 1
      /\ \A e \in Calls : e # c => taken'[e] = taken[e]
  BY <1>1, <1>3, CallIs DEF InvertShape, Took
<1>5. EmptyMap \in PostingMaps /\ map \in PostingMaps
  BY <1>3, EmptyMapIs, PostingMapIs
<1>6. termToPostingMap' \in [Calls -> PostingMaps]
  BY <1>1, <1>3, <1>5 DEF InvertShape, Took, TookIt, TookAndFlushed
<1>7. postingSize' \in [Calls -> 0 .. MaxPosting - 1]
  <2>1. postingSize \in [Calls -> 0 .. MaxPosting - 1] /\ postingSize[c] \in 0 .. MaxPosting - 1 /\ MaxPosting \in Nat \ {0}
    BY <1>1, BatchesAssumption DEF InvertShape
  <2>2. 0 \in 0 .. MaxPosting - 1 /\ (postingSize[c] + 1 < MaxPosting => postingSize[c] + 1 \in 0 .. MaxPosting - 1)
    BY <2>1
  <2> QED
    BY <1>3, <2>1, <2>2 DEF Took, TookIt, TookAndFlushed
<1>8. blocks' \in Seq(Blocks) /\ \A b \in DOMAIN blocks' : InOrder(blocks'[b])
  <2>1. blocks \in Seq(Blocks) /\ \A b \in DOMAIN blocks : InOrder(blocks[b])
    BY <1>1 DEF InvertShape
  <2>2. CASE blocks' = blocks
    BY <2>1, <2>2
  <2>3. CASE blocks' = Append(blocks, EarlyBlock(c, map))
    <3>1. EarlyBlock(c, map) \in Blocks /\ InOrder(EarlyBlock(c, map))
      BY <1>3, EarlyBlockIs
    <3> QED
      BY <2>1, <2>3, <3>1, BlockAppended
  <2> QED
    BY <1>3, <2>2, <2>3 DEF Took, TookIt, TookAndFlushed
<1>9. ASSUME NEW e \in Calls
      PROVE  CallControl(e)'
  <2>1. CallControl(e)
    BY <1>1, CallIs
  <2>2. CASE e # c
    BY <1>2, <1>4, <2>1, <2>2 DEF CallControl
  <2>3. CASE e = c
    <3>1. taken[c] \in Nat /\ Len(tokenStream[c]) \in Nat
      BY <1>1, CallIs, SeqParts
    <3> QED
      BY <1>2, <1>4, <2>1, <2>3, <3>1 DEF CallControl
  <2> QED
    BY <2>2, <2>3
<1>10. InvertShape'
  BY <1>1, <1>2, <1>4, <1>6, <1>7, <1>8, <1>9 DEF InvertShape
<1>11. MergeShape'
  BY <1>1, <1>2, MergeWaits DEF MergeShape, MergeControl, mergeVars
<1> QED
  BY <1>10, <1>11 DEF Shape

LEMMA LastBlockShape ==
  ASSUME Shape, NEW c \in Calls, LastBlock(c)
  PROVE  Shape'
<1> DEFINE map == termToPostingMap[c]
           new == BlockOf(c, TermsOf(map), map)
<1>1. InvertShape /\ MergeShape
  BY DEF Shape
<1>2. /\ pc[c] = "invert" /\ taken[c] = Len(tokenStream[c])
      /\ blocks' = Append(blocks, new)
      /\ pc' = [pc EXCEPT ![c] = "done"]
      /\ UNCHANGED <<StrToID, node, nextWord, tokenStream, taken, termToPostingMap, postingSize, mergeVars>>
  BY DEF LastBlock
<1>3. new \in Blocks /\ InOrder(new)
  BY <1>1, CallIs, LastBlockIs
<1> HIDE DEF new, map
<1>4. blocks' \in Seq(Blocks) /\ \A b \in DOMAIN blocks' : InOrder(blocks'[b])
  BY <1>1, <1>2, <1>3, BlockAppended DEF InvertShape
<1>5. /\ pc' \in [Calls -> {"parse", "invert", "done"}]
      /\ pc'[c] = "done" /\ \A e \in Calls : e # c => pc'[e] = pc[e]
  BY <1>1, <1>2 DEF InvertShape
<1>6. ASSUME NEW e \in Calls
      PROVE  CallControl(e)'
  <2>1. CallControl(e)
    BY <1>1, CallIs
  <2> QED
    BY <1>2, <1>5, <2>1 DEF CallControl
<1>7. InvertShape'
  BY <1>1, <1>2, <1>4, <1>5, <1>6 DEF InvertShape
<1>8. MergeShape'
  BY <1>1, <1>2, MergeWaits DEF MergeShape, MergeControl, mergeVars
<1> QED
  BY <1>7, <1>8 DEF Shape

\* What Merge sees of a block that is in the heap.
LEMMA HeapIs ==
  ASSUME Shape, NEW b \in InHeap
  PROVE  /\ b \in DOMAIN cursor /\ b \in DOMAIN blocks /\ DOMAIN cursor = DOMAIN blocks
         /\ blocks[b] \in Blocks /\ InOrder(blocks[b])
         /\ cursor[b] \in Nat \ {0} /\ cursor[b] \in DOMAIN blocks[b].terms
         /\ NextTerm(b) \in TermIDs
         /\ NextTerm(b) \in DOMAIN blocks[b].postings
         /\ blocks[b].postings[NextTerm(b)] \in Seq(DocIDs)
         /\ blocks[b].postings[NextTerm(b)] = ListOf(blocks[b].postings, NextTerm(b))
<1>1. b \in DOMAIN cursor /\ cursor \in Seq(Nat \ {0}) /\ blocks \in Seq(Blocks)
  BY DEF InHeap, Shape, MergeShape, InvertShape
<1>2. cursor # <<>>
  BY <1>1
<1>3. DOMAIN cursor = DOMAIN blocks
  BY <1>2 DEF Shape, MergeShape, MergeControl
<1>4. blocks[b] \in Blocks /\ InOrder(blocks[b]) /\ cursor[b] \in Nat \ {0}
  BY <1>1, <1>3, SeqParts DEF Shape, InvertShape
<1>5. blocks[b].terms \in Seq(TermIDs) /\ IsPostingMap(blocks[b].postings)
  BY <1>4, PostingMapIs DEF Blocks
<1>6. cursor[b] \in DOMAIN blocks[b].terms
  BY <1>4, <1>5 DEF InHeap
<1>7. NextTerm(b) \in TermIDs /\ NextTerm(b) \in DOMAIN blocks[b].postings
  BY <1>4, <1>5, <1>6, SeqParts DEF NextTerm, InOrder, Range
<1> QED
  BY <1>1, <1>3, <1>4, <1>5, <1>6, <1>7 DEF IsPostingMap, ListOf

Entries == [term : TermIDs, postings : Seq(DocIDs)]

\* What AppendPostingList makes of the merged index.
LEMMA GatheredIs ==
  ASSUME MergeShape
  PROVE  /\ Gathered \in Seq(Entries)
         /\ lastTerm = -1 => Gathered = mergedIndex
         /\ lastTerm # -1 =>
              /\ Len(mergedIndex) \in Nat
              /\ DOMAIN mergedIndex = 1 .. Len(mergedIndex)
              /\ DOMAIN Gathered = 1 .. Len(mergedIndex) + 1
              /\ Gathered[Len(mergedIndex) + 1].term = lastTerm
              /\ \A d : Count(Gathered[Len(mergedIndex) + 1].postings, d) = Count(lastPosting, d)
              /\ \A i \in DOMAIN mergedIndex : Gathered[i] = mergedIndex[i]
<1>1. mergedIndex \in Seq(Entries) /\ lastPosting \in Seq(DocIDs)
  BY DEF MergeShape, Entries
<1>2. CASE lastTerm = -1
  BY <1>1, <1>2 DEF Gathered
<1>3. CASE lastTerm # -1
  <2> DEFINE e == [term |-> lastTerm, postings |-> Sorted(lastPosting)]
  <2>1. Gathered = Append(mergedIndex, e)
    BY <1>3 DEF Gathered
  <2>2. Sorted(lastPosting) \in Seq(DocIDs) /\ \A d : Count(Sorted(lastPosting), d) = Count(lastPosting, d)
    <3>1. DocIDs \subseteq Int
      BY DocIDsNat
    <3> QED
      BY <1>1, <3>1, SortedIs
  <2>3. e \in Entries /\ e.term = lastTerm /\ e.postings = Sorted(lastPosting)
    BY <1>3, <2>2 DEF MergeShape, Entries
  <2> HIDE DEF e
  <2>4. /\ Gathered \in Seq(Entries)
        /\ Len(mergedIndex) \in Nat /\ DOMAIN mergedIndex = 1 .. Len(mergedIndex)
        /\ DOMAIN Gathered = 1 .. Len(mergedIndex) + 1
        /\ Gathered[Len(mergedIndex) + 1] = e
        /\ \A i \in 1 .. Len(mergedIndex) : Gathered[i] = mergedIndex[i]
    BY <1>1, <2>1, <2>3
  <2> QED
    BY <1>3, <2>2, <2>3, <2>4
<1> QED
  BY <1>2, <1>3

LEMMA StartMergeShape ==
  ASSUME Shape, StartMerge
  PROVE  Shape'
<1>1. InvertShape /\ MergeShape
  BY DEF Shape
<1>2. /\ \A c \in Calls : pc[c] = "done"
      /\ merging' = "yes" /\ cursor' = [b \in DOMAIN blocks |-> 1]
      /\ UNCHANGED <<lastTerm, lastPosting, mergedIndex, invertVars>>
  BY DEF StartMerge
<1>3. InvertShape'
  BY <1>1, <1>2 DEF InvertShape, CallControl, invertVars
<1>4. blocks \in Seq(Blocks) /\ Len(blocks) \in Nat /\ DOMAIN blocks = 1 .. Len(blocks)
  BY <1>1 DEF InvertShape
<1>5. cursor' \in Seq(Nat \ {0}) /\ DOMAIN cursor' = DOMAIN blocks /\ \A b \in DOMAIN blocks : cursor'[b] = 1
  BY <1>2, <1>4
<1>6. \A b \in DOMAIN blocks : Len(blocks[b].terms) \in Nat
  <2> TAKE b \in DOMAIN blocks
  <2>1. blocks[b] \in Blocks
    BY <1>4, SeqParts
  <2>2. blocks[b].terms \in Seq(TermIDs)
    BY <2>1 DEF Blocks
  <2> QED
    BY <2>2
<1>7. MergeControl'
  <2>1. \A b \in DOMAIN blocks : cursor'[b] <= Len(blocks[b].terms) + 1
    BY <1>5, <1>6
  <2> QED
    BY <1>2, <1>5, <2>1 DEF MergeControl, invertVars
<1>8. MergeShape'
  BY <1>1, <1>2, <1>5, <1>7 DEF MergeShape
<1> QED
  BY <1>3, <1>8 DEF Shape

LEMMA MergeNextShape ==
  ASSUME Shape, NEW b \in DOMAIN cursor, MergeNext(b)
  PROVE  Shape'
<1>1. InvertShape /\ MergeShape
  BY DEF Shape
<1>2. /\ merging = "yes" /\ b \in InHeap
      /\ cursor' = [cursor EXCEPT ![b] = @ + 1]
      /\ UNCHANGED <<merging, invertVars>>
  BY DEF MergeNext, TopOfHeap
<1>3. InvertShape'
  BY <1>1, <1>2 DEF InvertShape, CallControl, invertVars
<1>4. /\ cursor[b] \in Nat \ {0} /\ cursor[b] \in DOMAIN blocks[b].terms
      /\ blocks[b] \in Blocks
      /\ NextTerm(b) \in TermIDs /\ blocks[b].postings[NextTerm(b)] \in Seq(DocIDs)
  BY <1>2, HeapIs
<1>5. /\ cursor' \in Seq(Nat \ {0}) /\ DOMAIN cursor' = DOMAIN cursor
      /\ cursor'[b] = cursor[b] + 1
      /\ \A a \in DOMAIN cursor : a # b => cursor'[a] = cursor[a]
  <2>1. cursor \in Seq(Nat \ {0}) /\ cursor[b] + 1 \in Nat \ {0}
    BY <1>1, <1>4 DEF MergeShape
  <2> QED
    BY <1>2, <2>1
<1>6. /\ lastTerm' \in TermIDs \cup {-1} /\ lastPosting' \in Seq(DocIDs)
      /\ mergedIndex' \in Seq(Entries)
  <2>1. CASE NextTerm(b) = lastTerm
    <3>1. lastPosting' = lastPosting \o blocks[b].postings[NextTerm(b)] /\ UNCHANGED <<lastTerm, mergedIndex>>
      BY <2>1 DEF MergeNext
    <3>2. lastPosting \in Seq(DocIDs) /\ mergedIndex \in Seq(Entries) /\ lastTerm \in TermIDs \cup {-1}
      BY <1>1 DEF MergeShape, Entries
    <3> QED
      BY <1>4, <3>1, <3>2
  <2>2. CASE NextTerm(b) # lastTerm
    <3>1. mergedIndex' = Gathered /\ lastTerm' = NextTerm(b) /\ lastPosting' = blocks[b].postings[NextTerm(b)]
      BY <2>2 DEF MergeNext
    <3> QED
      BY <1>1, <1>4, <3>1, GatheredIs
  <2> QED
    BY <2>1, <2>2
<1>7. MergeControl'
  <2>1. cursor[b] + 1 <= Len(blocks[b].terms) + 1
    <3>1. blocks[b].terms \in Seq(TermIDs)
      BY <1>4 DEF Blocks
    <3> QED
      BY <1>4, <3>1
  <2>2. \A a \in DOMAIN cursor : cursor'[a] <= Len(blocks[a].terms) + 1
    BY <1>1, <1>5, <2>1 DEF MergeShape, MergeControl
  <2> QED
    BY <1>1, <1>2, <1>5, <2>2 DEF MergeShape, MergeControl, invertVars
<1>8. MergeShape'
  BY <1>1, <1>2, <1>5, <1>6, <1>7 DEF MergeShape, Entries
<1> QED
  BY <1>3, <1>8 DEF Shape

LEMMA EndMergeShape ==
  ASSUME Shape, EndMerge
  PROVE  Shape'
<1>1. InvertShape /\ MergeShape
  BY DEF Shape
<1>2. /\ merging = "yes" /\ merging' = "done" /\ mergedIndex' = Gathered
      /\ UNCHANGED <<cursor, lastTerm, lastPosting, invertVars>>
  BY DEF EndMerge, LastGathered
<1>3. InvertShape'
  BY <1>1, <1>2 DEF InvertShape, CallControl, invertVars
<1>4. MergeShape'
  BY <1>1, <1>2, GatheredIs DEF MergeShape, MergeControl, invertVars, Entries
<1> QED
  BY <1>3, <1>4 DEF Shape

LEMMA ShapeInit == Init => Shape
<1> SUFFICES ASSUME Init PROVE Shape
  OBVIOUS
<1>1. IsNumbering(StrToID)
  <2>1. DOMAIN StrToID = {} /\ StrToID = [w \in {} |-> 0]
    BY DEF Init
  <2>2. 0 .. Cardinality(DOMAIN StrToID) - 1 = {}
    BY <2>1, FS_EmptySet
  <2> QED
    BY <2>1, <2>2 DEF IsNumbering, Bijection, Injection, Surjection, IsInjective
<1>2. EmptyMap \in PostingMaps
  BY EmptyMapIs, PostingMapIs
<1>3. 0 \in 0 .. MaxPosting - 1
  BY BatchesAssumption
<1>4. ASSUME NEW c \in Calls
      PROVE  CallControl(c)
  <2>1. Len(Batches[c]) \in Nat /\ (1 <= Len(Batches[c]) => Len(WordsIn(c, 1)) \in Nat)
    BY BatchParts
  <2> QED
    BY <2>1 DEF Init, CallControl
<1>5. InvertShape
  BY <1>1, <1>2, <1>3, <1>4 DEF Init, InvertShape
<1>6. MergeShape
  BY DEF Init, MergeShape, MergeControl
<1> QED
  BY <1>5, <1>6 DEF Shape

LEMMA ShapeNext == Shape /\ [Next]_vars => Shape'
<1> SUFFICES ASSUME Shape, [Next]_vars PROVE Shape'
  OBVIOUS
<1>1. ASSUME NEW c \in Calls, Invert(c) PROVE Shape'
  BY <1>1, ParseWordShape, EndNodeShape, EndParseShape, TakeTokenShape, LastBlockShape DEF Invert
<1>2. CASE Merge
  BY <1>2, StartMergeShape, MergeNextShape, EndMergeShape DEF Merge
<1>3. CASE UNCHANGED vars
  BY <1>3 DEF Shape, InvertShape, CallControl, MergeShape, MergeControl, vars, invertVars, mergeVars
<1> QED
  BY <1>1, <1>2, <1>3 DEF Next, Returned

LEMMA ShapeAlways == Spec => []Shape
BY ShapeInit, ShapeNext, PTL DEF Spec

\* The calls, the blocks and the merged index stay in their sets, and the words
\* seen have the IDs 0, 1, 2... though the calls share the map (IDMap.GetID).
THEOREM TypeCorrect == Spec => []TypeOK
BY ShapeAlways, ShapeTyped, PTL

LEMMA ShapeSorted == Shape => BlocksSorted
<1> SUFFICES ASSUME Shape, NEW b \in Range(blocks)
             PROVE  /\ \A i \in 1 .. Len(b.terms) - 1 : b.terms[i] < b.terms[i + 1]
                    /\ \A t \in Range(b.terms) : Ascending(b.postings[t])
  BY DEF BlocksSorted
<1>1. PICK k \in DOMAIN blocks : b = blocks[k]
  BY DEF Range
<1>2. b \in Blocks /\ InOrder(b)
  BY <1>1, SeqParts DEF Shape, InvertShape
<1>3. b.terms \in Seq(TermIDs) /\ IsPostingMap(b.postings)
  BY <1>2, PostingMapIs DEF Blocks
<1>4. \A i \in 1 .. Len(b.terms) - 1 : b.terms[i] < b.terms[i + 1]
  BY <1>2, <1>3 DEF InOrder
<1>5. ASSUME NEW t \in Range(b.terms)
      PROVE  Ascending(b.postings[t])
  <2>1. t \in DOMAIN b.postings /\ b.postings[t] \in Seq(DocIDs)
    BY <1>2, <1>3 DEF InOrder, IsPostingMap
  <2> QED
    BY <1>2, <2>1 DEF InOrder, Ascending
<1> QED
  BY <1>4, <1>5

\* The blocks hold their terms and their posting lists in ascending order,
\* those written early with the indices of the terms for the terms too
\* (SpimiInvert, AppendPostingList).
THEOREM BlocksSortedAlways == Spec => []BlocksSorted
BY ShapeAlways, ShapeSorted, PTL

------------------------------------------------------------------------------
(* The tokens of a call are the words it has read. *)

\* How many words of its j-th document a call has read, and where it has read
\* a word.
ReadOf(c, j, n, k) == IF j < n THEN Len(WordsIn(c, j)) ELSE IF j = n THEN k - 1 ELSE 0
WordsRead(c, j, n, k, word) == {i \in 1 .. ReadOf(c, j, n, k) : WordsIn(c, j)[i] = word}

TokensOf(c) ==
  /\ \A i \in DOMAIN tokenStream[c] :
       tokenStream[c][i][1] \in Range(StrToID) /\ tokenStream[c][i][2] \in IDsOf(c)
  /\ \A j \in DOMAIN Batches[c] : \A i \in 1 .. ReadOf(c, j, node[c], nextWord[c]) :
       WordsIn(c, j)[i] \in DOMAIN StrToID
  /\ \A j \in DOMAIN Batches[c] : \A word \in DOMAIN StrToID :
       Count(tokenStream[c], <<StrToID[word], Batches[c][j].id>>) =
         Cardinality(WordsRead(c, j, node[c], nextWord[c], word))

Tokens == \A c \in Calls : TokensOf(c)

\* Reading the next word.
LEMMA WordsReadNext ==
  ASSUME NEW c \in Calls, NEW j \in DOMAIN Batches[c], NEW n \in Nat, NEW k \in Nat \ {0}, NEW word
  PROVE  /\ IsFiniteSet(WordsRead(c, j, n, k, word))
         /\ j # n => WordsRead(c, j, n, k + 1, word) = WordsRead(c, j, n, k, word)
         /\ j = n /\ WordsIn(c, j)[k] # word =>
              WordsRead(c, j, n, k + 1, word) = WordsRead(c, j, n, k, word)
         /\ j = n /\ WordsIn(c, j)[k] = word =>
              Cardinality(WordsRead(c, j, n, k + 1, word)) = Cardinality(WordsRead(c, j, n, k, word)) + 1
<1>1. Len(WordsIn(c, j)) \in Nat
  BY BatchParts
<1>2. ReadOf(c, j, n, k) \in Nat
  BY <1>1 DEF ReadOf
<1>3. IsFiniteSet(1 .. ReadOf(c, j, n, k))
  BY <1>2, FirstCount
<1>4. WordsRead(c, j, n, k, word) \subseteq 1 .. ReadOf(c, j, n, k)
  BY DEF WordsRead
<1>5. IsFiniteSet(WordsRead(c, j, n, k, word))
  BY <1>3, <1>4, FS_Subset
<1>6. j # n => WordsRead(c, j, n, k + 1, word) = WordsRead(c, j, n, k, word)
  BY DEF WordsRead, ReadOf
<1>7. CASE j = n
  <2>1. ReadOf(c, j, n, k) = k - 1 /\ ReadOf(c, j, n, k + 1) = k
    BY <1>7, BatchParts DEF ReadOf
  <2>2. 1 .. k = (1 .. k - 1) \cup {k} /\ k \notin 1 .. k - 1
    OBVIOUS
  <2>3. WordsRead(c, j, n, k + 1, word) =
          IF WordsIn(c, j)[k] = word THEN WordsRead(c, j, n, k, word) \cup {k}
          ELSE WordsRead(c, j, n, k, word)
    BY <2>1, <2>2 DEF WordsRead
  <2>4. k \notin WordsRead(c, j, n, k, word)
    BY <2>1, <2>2 DEF WordsRead
  <2> QED
    BY <1>5, <1>7, <2>3, <2>4, FS_AddElement
<1> QED
  BY <1>5, <1>6, <1>7

\* What a step of the parser does.
LEMMA ParseWordIs ==
  ASSUME Shape, NEW c \in Calls, ParseWord(c)
  PROVE  LET j == node[c]  word == WordsIn(c, node[c])[nextWord[c]]  IN
         /\ j \in DOMAIN Batches[c] /\ word \in Words
         /\ tokenStream'[c] = Append(tokenStream[c], <<StrToID'[word], Batches[c][j].id>>)
         /\ <<StrToID'[word], Batches[c][j].id>> \in TermIDs \X DocIDs
         /\ nextWord'[c] = nextWord[c] + 1
         /\ \A e \in Calls : e # c => tokenStream'[e] = tokenStream[e] /\ nextWord'[e] = nextWord[e]
         /\ UNCHANGED <<pc, node, taken, termToPostingMap, postingSize, blocks, mergeVars>>
         /\ IsNumbering(StrToID') /\ DOMAIN StrToID' = DOMAIN StrToID \cup {word}
         /\ \A w \in DOMAIN StrToID : StrToID'[w] = StrToID[w]
<1> DEFINE j == node[c]
           word == WordsIn(c, j)[nextWord[c]]
           token == <<StrToID'[word], Batches[c][j].id>>
<1>1. InvertShape /\ Shape'
  BY ParseWordShape DEF Shape
<1>2. /\ WordsOf(c) = WordsIn(c, j)
      /\ tokenStream' = [tokenStream EXCEPT ![c] = Append(@, token)]
      /\ nextWord' = [nextWord EXCEPT ![c] = @ + 1]
      /\ UNCHANGED <<pc, node, taken, termToPostingMap, postingSize, blocks, mergeVars>>
      /\ node[c] <= Len(Batches[c]) /\ nextWord[c] <= Len(WordsIn(c, j))
      /\ StrToID' = GetID(word)
  BY DEF ParseWord, WordsOf, WordsIn
<1>3. j \in DOMAIN Batches[c]
  BY <1>1, <1>2, CallIs
<1>4. word \in Words
  <2>1. WordsIn(c, j) \in Seq(Words)
    BY <1>3, BatchParts
  <2>2. nextWord[c] \in DOMAIN WordsIn(c, j)
    BY <1>1, <1>2, <2>1, CallIs
  <2> QED
    BY <2>1, <2>2, SeqParts
<1>5. tokenStream \in [Calls -> Seq(TermIDs \X DocIDs)] /\ nextWord \in [Calls -> Nat \ {0}]
  BY <1>1 DEF InvertShape
<1> HIDE DEF word
<1>6. /\ IsNumbering(StrToID') /\ DOMAIN StrToID' = DOMAIN StrToID \cup {word}
      /\ \A w \in DOMAIN StrToID : StrToID'[w] = StrToID[w]
  <2>1. IsNumbering(StrToID') /\ IsNumbering(StrToID)
    BY <1>1 DEF Shape, InvertShape
  <2>2. CASE word \in DOMAIN StrToID
    BY <1>2, <2>1, <2>2 DEF GetID
  <2>3. CASE word \notin DOMAIN StrToID
    BY <1>2, <2>1, <2>3 DEF GetID, WithEntry
  <2> QED
    BY <2>2, <2>3
<1>7. token \in TermIDs \X DocIDs
  <2>1. StrToID'[word] \in TermIDs
    BY <1>6, NumberingIs
  <2>2. Batches[c][j].id \in DocIDs
    BY <1>3, BatchParts
  <2> QED
    BY <2>1, <2>2
<1>8. /\ tokenStream'[c] = Append(tokenStream[c], token) /\ nextWord'[c] = nextWord[c] + 1
      /\ \A e \in Calls : e # c => tokenStream'[e] = tokenStream[e] /\ nextWord'[e] = nextWord[e]
  <2> HIDE DEF token
  <2> QED
    BY <1>2, <1>5
<1> QED
  BY <1>2, <1>3, <1>4, <1>6, <1>7, <1>8 DEF word

LEMMA ParseWordTokens ==
  ASSUME Shape, Tokens, NEW c \in Calls, ParseWord(c), NEW e \in Calls
  PROVE  TokensOf(e)'
<1> DEFINE n == node[c]
           word == WordsIn(c, n)[nextWord[c]]
           token == <<StrToID'[word], Batches[c][n].id>>
<1>1. /\ n \in DOMAIN Batches[c] /\ word \in Words
      /\ tokenStream'[c] = Append(tokenStream[c], token)
      /\ token \in TermIDs \X DocIDs
      /\ nextWord'[c] = nextWord[c] + 1
      /\ \A x \in Calls : x # c => tokenStream'[x] = tokenStream[x] /\ nextWord'[x] = nextWord[x]
      /\ node' = node
      /\ IsNumbering(StrToID') /\ DOMAIN StrToID' = DOMAIN StrToID \cup {word}
      /\ \A w \in DOMAIN StrToID : StrToID'[w] = StrToID[w]
  BY ParseWordIs
<1>2. /\ tokenStream[c] \in Seq(TermIDs \X DocIDs) /\ node[c] \in Nat /\ nextWord[c] \in Nat \ {0}
      /\ tokenStream[e] \in Seq(TermIDs \X DocIDs) /\ node[e] \in Nat /\ nextWord[e] \in Nat \ {0}
      /\ IsNumbering(StrToID)
  BY CallIs DEF Shape, InvertShape
<1>3. TokensOf(e) /\ TokensOf(c)
  BY DEF Tokens
<1>4. Range(StrToID) \subseteq Range(StrToID') /\ StrToID'[word] \in Range(StrToID')
  BY <1>1 DEF Range
<1>5. ASSUME NEW w \in DOMAIN StrToID', w \notin DOMAIN StrToID, NEW x \in Calls, TokensOf(x),
             NEW j \in DOMAIN Batches[x], tokenStream[x] \in Seq(TermIDs \X DocIDs)
      PROVE  /\ Count(tokenStream[x], <<StrToID'[w], Batches[x][j].id>>) = 0
             /\ WordsRead(x, j, node[x], nextWord[x], w) = {}
  <2>1. \A v \in DOMAIN StrToID : StrToID'[w] # StrToID[v]
    BY <1>1, <1>5, NumberingIs
  <2>2. StrToID'[w] \notin Range(StrToID)
    BY <2>1 DEF Range
  <2>3. Where(tokenStream[x], <<StrToID'[w], Batches[x][j].id>>) = {}
    BY <1>5, <2>2 DEF Where, TokensOf
  <2>4. WordsRead(x, j, node[x], nextWord[x], w) = {}
    BY <1>5 DEF WordsRead, TokensOf
  <2> QED
    BY <2>3, <2>4, FS_EmptySet DEF Count
\* Before the step, with the IDs after it.
<1>6. ASSUME NEW w \in DOMAIN StrToID', NEW x \in {c, e}, NEW j \in DOMAIN Batches[x]
      PROVE  Count(tokenStream[x], <<StrToID'[w], Batches[x][j].id>>) =
               Cardinality(WordsRead(x, j, node[x], nextWord[x], w))
  <2>1. TokensOf(x) /\ x \in Calls /\ tokenStream[x] \in Seq(TermIDs \X DocIDs)
    BY <1>2, <1>3
  <2>2. CASE w \in DOMAIN StrToID
    BY <1>1, <2>1, <2>2 DEF TokensOf
  <2>3. CASE w \notin DOMAIN StrToID
    BY <1>5, <2>1, <2>3, FS_EmptySet
  <2> QED
    BY <2>2, <2>3
<1> HIDE DEF token, word
<1>7. CASE e # c
  <2>1. tokenStream'[e] = tokenStream[e] /\ nextWord'[e] = nextWord[e] /\ node'[e] = node[e]
    BY <1>1, <1>7
  <2> QED
    BY <1>1, <1>3, <1>4, <1>6, <2>1 DEF TokensOf
<1>8. CASE e = c
  <2>1. /\ DOMAIN tokenStream'[c] = DOMAIN tokenStream[c] \cup {Len(tokenStream[c]) + 1}
        /\ tokenStream'[c][Len(tokenStream[c]) + 1] = token
        /\ \A i \in DOMAIN tokenStream[c] : tokenStream'[c][i] = tokenStream[c][i]
    BY <1>1, <1>2
  <2>2. \A i \in DOMAIN tokenStream'[c] :
          tokenStream'[c][i][1] \in Range(StrToID') /\ tokenStream'[c][i][2] \in IDsOf(c)
    <3>1. token[1] \in Range(StrToID') /\ token[2] \in IDsOf(c)
      BY <1>1, <1>4, BatchParts DEF token
    <3> QED
      BY <1>3, <1>4, <2>1, <3>1 DEF TokensOf
  <2>3. ASSUME NEW j \in DOMAIN Batches[c], NEW i \in 1 .. ReadOf(c, j, n, nextWord[c] + 1)
        PROVE  WordsIn(c, j)[i] \in DOMAIN StrToID'
    <3>1. \/ i \in 1 .. ReadOf(c, j, n, nextWord[c])
          \/ j = n /\ i = nextWord[c]
      BY <1>2 DEF ReadOf
    <3> QED
      BY <1>1, <1>3, <3>1 DEF TokensOf, word
  <2>4. ASSUME NEW j \in DOMAIN Batches[c], NEW w \in DOMAIN StrToID'
        PROVE  Count(tokenStream'[c], <<StrToID'[w], Batches[c][j].id>>) =
                 Cardinality(WordsRead(c, j, n, nextWord[c] + 1, w))
    <3> DEFINE x == <<StrToID'[w], Batches[c][j].id>>
    <3>1. Count(tokenStream'[c], x) =
            IF token = x THEN Count(tokenStream[c], x) + 1 ELSE Count(tokenStream[c], x)
      <4> DEFINE S == TermIDs \X DocIDs
      <4>1. tokenStream[c] \in Seq(S) /\ token \in S /\ tokenStream'[c] = Append(tokenStream[c], token)
        BY <1>1, <1>2
      <4> HIDE DEF x, S
      <4> QED
        BY <4>1, CountAppend
    <3>2. token = x <=> w = word /\ j = n
      <4>1. w = word /\ j = n => token = x
        BY DEF token
      <4>2. ASSUME token = x PROVE w = word /\ j = n
        <5>1. StrToID'[w] = StrToID'[word] /\ Batches[c][j].id = Batches[c][n].id
          BY <4>2 DEF token
        <5>2. w = word
          BY <1>1, <5>1, NumberingIs
        <5> QED
          BY <1>1, <5>1, <5>2, OneDocument
      <4> QED
        BY <4>1, <4>2
    <3>3. Count(tokenStream[c], x) = Cardinality(WordsRead(c, j, n, nextWord[c], w))
      BY <1>6
    <3>4. /\ j # n \/ w # word =>
               WordsRead(c, j, n, nextWord[c] + 1, w) = WordsRead(c, j, n, nextWord[c], w)
          /\ j = n /\ w = word =>
               Cardinality(WordsRead(c, j, n, nextWord[c] + 1, w)) =
                 Cardinality(WordsRead(c, j, n, nextWord[c], w)) + 1
      BY <1>2, WordsReadNext DEF word
    <3> HIDE DEF x
    <3> QED
      BY <3>1, <3>2, <3>3, <3>4 DEF x
  <2> QED
    BY <1>1, <1>8, <2>2, <2>3, <2>4 DEF TokensOf
<1> QED
  BY <1>7, <1>8

LEMMA EndNodeTokens ==
  ASSUME Shape, Tokens, NEW c \in Calls, EndNode(c), NEW e \in Calls
  PROVE  TokensOf(e)'
<1>1. /\ node' = [node EXCEPT ![c] = @ + 1]
      /\ nextWord' = [nextWord EXCEPT ![c] = 1]
      /\ UNCHANGED <<StrToID, tokenStream>>
      /\ pc[c] = "parse" /\ node[c] <= Len(Batches[c]) /\ nextWord[c] > Len(WordsIn(c, node[c]))
  BY DEF EndNode, WordsOf, WordsIn
<1>2. /\ node[c] \in Nat \ {0} /\ nextWord[c] \in Nat \ {0} /\ CallControl(c)
      /\ Len(Batches[c]) \in Nat /\ DOMAIN Batches[c] = 1 .. Len(Batches[c])
      /\ node \in [Calls -> Nat \ {0}] /\ nextWord \in [Calls -> Nat \ {0}]
  BY CallIs DEF Shape, InvertShape
<1>3. node[c] \in DOMAIN Batches[c] /\ Len(WordsIn(c, node[c])) \in Nat
  BY <1>1, <1>2, BatchParts
<1>4. nextWord[c] = Len(WordsIn(c, node[c])) + 1
  BY <1>1, <1>2, <1>3 DEF CallControl
<1>5. \A j \in DOMAIN Batches[c] : ReadOf(c, j, node[c] + 1, 1) = ReadOf(c, j, node[c], nextWord[c])
  <2> TAKE j \in DOMAIN Batches[c]
  <2>1. j \in Nat
    BY <1>2
  <2>2. CASE j < node[c]
    BY <1>2, <2>1, <2>2 DEF ReadOf
  <2>3. CASE j = node[c]
    BY <1>2, <1>3, <1>4, <2>3 DEF ReadOf
  <2>4. CASE j > node[c]
    BY <1>2, <2>1, <2>4 DEF ReadOf
  <2> QED
    BY <1>2, <2>1, <2>2, <2>3, <2>4
<1>6. \A j \in DOMAIN Batches[e] : ReadOf(e, j, node'[e], nextWord'[e]) = ReadOf(e, j, node[e], nextWord[e])
  BY <1>1, <1>2, <1>5
<1>7. TokensOf(e)
  BY DEF Tokens
<1> QED
  BY <1>1, <1>6, <1>7 DEF TokensOf, WordsRead

LEMMA TokensNext ==
  ASSUME Shape, Tokens, [Next]_vars
  PROVE  Tokens'
<1>1. ASSUME NEW c \in Calls, ParseWord(c) PROVE Tokens'
  BY <1>1, ParseWordTokens DEF Tokens
<1>2. ASSUME NEW c \in Calls, EndNode(c) PROVE Tokens'
  BY <1>2, EndNodeTokens DEF Tokens
<1>3. CASE UNCHANGED <<StrToID, node, nextWord, tokenStream>>
  BY <1>3 DEF Tokens, TokensOf
<1>4. ASSUME NEW c \in Calls, EndParse(c) \/ TakeToken(c) \/ LastBlock(c) PROVE Tokens'
  BY <1>3, <1>4 DEF EndParse, TakeToken, LastBlock
<1>5. CASE Merge \/ UNCHANGED vars
  BY <1>3, <1>5 DEF Merge, StartMerge, MergeNext, EndMerge, vars, invertVars
<1> QED
  BY <1>1, <1>2, <1>4, <1>5 DEF Next, Invert, Returned

------------------------------------------------------------------------------
(* A batch that fits one block never fills the posting map. *)

LengthsOf(c) == [i \in DOMAIN Batches[c] |-> Len(Batches[c][i].words)]
WordsUpTo(c, n) == SumFunctionOnSet(LengthsOf(c), 1 .. n)

StreamOf(c) ==
  /\ Len(tokenStream[c]) = WordsUpTo(c, node[c] - 1) + nextWord[c] - 1
  /\ node[c] > Len(Batches[c]) => nextWord[c] = 1
  /\ FitsOneBlock(c) => postingSize[c] = taken[c]

Stream == \A c \in Calls : StreamOf(c)

LEMMA WordsUpToNext ==
  ASSUME NEW c \in Calls, NEW n \in DOMAIN Batches[c]
  PROVE  /\ WordsUpTo(c, n - 1) \in Nat
         /\ WordsUpTo(c, n) = WordsUpTo(c, n - 1) + Len(WordsIn(c, n))
<1>1. Len(Batches[c]) \in Nat /\ DOMAIN Batches[c] = 1 .. Len(Batches[c]) /\ n \in Nat /\ n - 1 \in Nat
  BY BatchParts
<1>2. \A i \in 1 .. n : LengthsOf(c)[i] = Len(WordsIn(c, i)) /\ LengthsOf(c)[i] \in Nat
  BY <1>1, BatchParts DEF LengthsOf, WordsIn
<1>3. (n - 1) + 1 = n /\ \A i \in 1 .. n - 1 : i \in 1 .. n
  BY <1>1
<1>4. WordsUpTo(c, (n - 1) + 1) = WordsUpTo(c, n - 1) + LengthsOf(c)[(n - 1) + 1]
  BY <1>1, <1>2, <1>3, SumNext DEF WordsUpTo
<1>5. IsFiniteSet(1 .. n - 1) /\ \A i \in 1 .. n - 1 : LengthsOf(c)[i] \in Nat
  BY <1>1, <1>2, <1>3, FirstCount
<1>6. WordsUpTo(c, n - 1) \in Nat
  BY <1>5, SumType DEF WordsUpTo
<1>7. n \in 1 .. n
  BY <1>1
<1> QED
  BY <1>2, <1>3, <1>4, <1>6, <1>7

\* A batch that fits one block has room for each of its tokens.
LEMMA NeverFull ==
  ASSUME Shape, Stream, NEW c \in Calls, TakeToken(c), FitsOneBlock(c)
  PROVE  postingSize[c] = taken[c] /\ postingSize[c] + 1 < MaxPosting
<1>1. StreamOf(c) /\ CallControl(c) /\ taken[c] \in Nat /\ Len(Batches[c]) \in Nat
      /\ DOMAIN Batches[c] = 1 .. Len(Batches[c]) /\ tokenStream[c] \in Seq(TermIDs \X DocIDs)
  BY CallIs DEF Shape, Stream
<1>2. node[c] = Len(Batches[c]) + 1 /\ nextWord[c] = 1 /\ node[c] - 1 = Len(Batches[c])
  <2>1. node[c] = Len(Batches[c]) + 1
    BY <1>1 DEF TakeToken, CallControl
  <2>2. node[c] > Len(Batches[c])
    BY <1>1, <2>1
  <2>3. nextWord[c] = 1
    BY <1>1, <2>2 DEF StreamOf
  <2>4. node[c] - 1 = Len(Batches[c])
    BY <1>1, <2>1
  <2> QED
    BY <2>1, <2>3, <2>4
<1>3. WordsUpTo(c, Len(Batches[c])) < MaxPosting
  BY <1>1 DEF FitsOneBlock, SumFunction, WordsUpTo, LengthsOf
<1>4. WordsUpTo(c, Len(Batches[c])) \in Nat
  <2>1. IsFiniteSet(1 .. Len(Batches[c])) /\ \A i \in 1 .. Len(Batches[c]) : LengthsOf(c)[i] \in Nat
    BY <1>1, FirstCount, BatchParts DEF LengthsOf, WordsIn
  <2> QED
    BY <2>1, SumType DEF WordsUpTo
<1>5. Len(tokenStream[c]) = WordsUpTo(c, Len(Batches[c]))
  BY <1>1, <1>2, <1>4 DEF StreamOf
<1>6. taken[c] < Len(tokenStream[c]) /\ postingSize[c] = taken[c] /\ MaxPosting \in Nat
  BY <1>1, BatchesAssumption DEF TakeToken, StreamOf
<1> QED
  BY <1>1, <1>3, <1>4, <1>5, <1>6

LEMMA StreamNext ==
  ASSUME Shape, Stream, [Next]_vars
  PROVE  Stream'
<1>1. \A e \in Calls : /\ StreamOf(e) /\ CallControl(e)
                       /\ node[e] \in Nat \ {0} /\ nextWord[e] \in Nat \ {0}
                       /\ tokenStream[e] \in Seq(TermIDs \X DocIDs)
                       /\ Len(tokenStream[e]) \in Nat
                       /\ Len(Batches[e]) \in Nat /\ DOMAIN Batches[e] = 1 .. Len(Batches[e])
  <2> TAKE e \in Calls
  <2>1. tokenStream[e] \in Seq(TermIDs \X DocIDs)
    BY CallIs DEF Shape
  <2>2. Len(tokenStream[e]) \in Nat
    BY <2>1, SeqParts
  <2> QED
    BY <2>1, <2>2, CallIs DEF Shape, Stream
<1>2. ASSUME NEW c \in Calls, ParseWord(c), NEW e \in Calls PROVE StreamOf(e)'
  <2> DEFINE token == <<StrToID'[WordsIn(c, node[c])[nextWord[c]]], Batches[c][node[c]].id>>
  <2>1. /\ node[c] \in DOMAIN Batches[c]
        /\ tokenStream'[c] = Append(tokenStream[c], token)
        /\ token \in TermIDs \X DocIDs
        /\ nextWord'[c] = nextWord[c] + 1
        /\ \A x \in Calls : x # c => tokenStream'[x] = tokenStream[x] /\ nextWord'[x] = nextWord[x]
        /\ node' = node /\ postingSize' = postingSize /\ taken' = taken
    BY <1>2, ParseWordIs
  <2> HIDE DEF token
  <2>2. Len(tokenStream'[c]) = Len(tokenStream[c]) + 1
    BY <1>1, <2>1
  <2>3. CASE e # c
    BY <1>1, <2>1, <2>3 DEF StreamOf
  <2>4. CASE e = c
    <3>1. WordsUpTo(c, node[c] - 1) \in Nat /\ ~ (node[c] > Len(Batches[c]))
      BY <1>1, <2>1, WordsUpToNext
    <3>2. Len(tokenStream[c]) = WordsUpTo(c, node[c] - 1) + nextWord[c] - 1
      BY <1>1 DEF StreamOf
    <3>3. Len(tokenStream'[c]) = WordsUpTo(c, node[c] - 1) + nextWord'[c] - 1
      BY <1>1, <2>1, <2>2, <3>1, <3>2
    <3>4. FitsOneBlock(c) => postingSize[c] = taken[c]
      BY <1>1 DEF StreamOf
    <3> QED
      BY <2>1, <2>4, <3>1, <3>3, <3>4 DEF StreamOf
  <2> QED
    BY <2>3, <2>4
<1>3. ASSUME NEW c \in Calls, EndNode(c), NEW e \in Calls PROVE StreamOf(e)'
  <2>1. /\ node' = [node EXCEPT ![c] = @ + 1]
        /\ nextWord' = [nextWord EXCEPT ![c] = 1]
        /\ UNCHANGED <<postingSize, taken, tokenStream>>
        /\ pc[c] = "parse" /\ node[c] <= Len(Batches[c]) /\ nextWord[c] > Len(WordsIn(c, node[c]))
        /\ node \in [Calls -> Nat \ {0}] /\ nextWord \in [Calls -> Nat \ {0}]
    BY <1>3 DEF EndNode, WordsOf, WordsIn, Shape, InvertShape
  <2>2. node[c] \in DOMAIN Batches[c]
    BY <1>1, <2>1
  <2>3. nextWord[c] = Len(WordsIn(c, node[c])) + 1 /\ Len(WordsIn(c, node[c])) \in Nat
    <3>1. Len(WordsIn(c, node[c])) \in Nat
      BY <2>2, BatchParts
    <3> QED
      BY <1>1, <2>1, <3>1 DEF CallControl
  <2>4. CASE e # c
    BY <1>1, <2>1, <2>4 DEF StreamOf
  <2>5. CASE e = c
    <3>1. /\ WordsUpTo(c, node[c] - 1) \in Nat
          /\ WordsUpTo(c, node[c]) = WordsUpTo(c, node[c] - 1) + Len(WordsIn(c, node[c]))
      BY <2>2, WordsUpToNext
    <3>2. node'[c] = node[c] + 1 /\ node'[c] - 1 = node[c] /\ nextWord'[c] = 1
      BY <1>1, <2>1
    <3> QED
      BY <1>1, <2>1, <2>3, <2>5, <3>1, <3>2 DEF StreamOf
  <2> QED
    BY <2>4, <2>5
<1>4. ASSUME NEW c \in Calls, TakeToken(c), NEW e \in Calls PROVE StreamOf(e)'
  <2>1. /\ UNCHANGED <<node, nextWord, tokenStream>>
        /\ postingSize \in [Calls -> 0 .. MaxPosting - 1] /\ taken \in [Calls -> Nat]
    BY <1>4 DEF TakeToken, Shape, InvertShape
  <2>2. PICK t \in TermIDs, d \in DocIDs : Took(c, t, d)
    BY <1>4, TakeTokenIs DEF Shape
  <2>3. FitsOneBlock(c) => postingSize[c] = taken[c] /\ postingSize[c] + 1 < MaxPosting
    BY <1>4, NeverFull
  <2>4. taken'[c] = taken[c] + 1 /\ \A x \in Calls : x # c => taken'[x] = taken[x]
    BY <2>1, <2>2 DEF Took
  <2>5. \A x \in Calls : x # c => postingSize'[x] = postingSize[x]
    BY <2>1, <2>2 DEF Took, TookIt, TookAndFlushed
  <2>6. FitsOneBlock(c) => postingSize'[c] = taken'[c]
    <3>1. SUFFICES ASSUME FitsOneBlock(c) PROVE postingSize'[c] = taken'[c]
      OBVIOUS
    <3>2. postingSize[c] \in Nat /\ MaxPosting \in Nat
      BY <2>1, BatchesAssumption
    <3>3. ~ TookAndFlushed(c, t, d)
      BY <2>3, <3>1, <3>2 DEF TookAndFlushed
    <3>4. postingSize' = [postingSize EXCEPT ![c] = @ + 1]
      BY <2>2, <3>3 DEF Took, TookIt
    <3> QED
      BY <2>1, <2>3, <2>4, <3>1, <3>4
  <2> QED
    BY <1>1, <2>1, <2>4, <2>5, <2>6 DEF StreamOf
<1>5. CASE UNCHANGED <<node, nextWord, tokenStream, postingSize, taken>>
  BY <1>1, <1>5 DEF Stream, StreamOf
<1>6. ASSUME NEW c \in Calls, EndParse(c) \/ LastBlock(c) PROVE Stream'
  BY <1>5, <1>6 DEF EndParse, LastBlock
<1>7. CASE Merge \/ UNCHANGED vars
  BY <1>5, <1>7 DEF Merge, StartMerge, MergeNext, EndMerge, vars, invertVars
<1> QED
  BY <1>2, <1>3, <1>4, <1>6, <1>7 DEF Next, Invert, Returned, Stream

------------------------------------------------------------------------------
(* What the blocks have of the tokens that the calls have taken. *)

\* How often some blocks post a document for a term, and what all blocks have
\* as its length.
CountsOf(bs, t, d) == [b \in DOMAIN bs |-> Count(ListOf(bs[b].postings, t), d)]
PostsIn(bs, B, t, d) == SumFunctionOnSet(CountsOf(bs, t, d), B)
AllPosts(bs, t, d) == PostsIn(bs, DOMAIN bs, t, d)

LensOf(bs, d) == [b \in DOMAIN bs |-> IF d \in DOMAIN bs[b].lens THEN bs[b].lens[d] ELSE 0]
AllLens(bs, d) == SumFunctionOnSet(LensOf(bs, d), DOMAIN bs)

\* The tokens taken from a stream, and the postings that wait for their block.
TakenOf(s, n, x) == {i \in 1 .. n : s[i] = x}
Open(c, t, d) == IF pc[c] = "done" THEN 0 ELSE Count(ListOf(termToPostingMap[c], t), d)

PostingsOf(c) ==
  /\ \A t \in TermIDs, d \in DocIDs \ IDsOf(c) : Count(ListOf(termToPostingMap[c], t), d) = 0
  /\ \A t \in TermIDs, d \in IDsOf(c) :
       LET posted == AllPosts(blocks, t, d) + Open(c, t, d)
           read == Cardinality(TakenOf(tokenStream[c], taken[c], <<t, d>>))
       IN  /\ posted <= read
           /\ FitsOneBlock(c) => posted = read
  /\ FitsOneBlock(c) => \A j \in DOMAIN Batches[c] :
       AllLens(blocks, Batches[c][j].id) = IF pc[c] = "done" THEN Len(WordsIn(c, j)) ELSE 0

Postings == \A c \in Calls : PostingsOf(c)

LEMMA BlockCounts ==
  ASSUME NEW b \in Blocks, NEW t, NEW d
  PROVE  /\ Count(ListOf(b.postings, t), d) \in Nat
         /\ (IF d \in DOMAIN b.lens THEN b.lens[d] ELSE 0) \in Nat
<1>1. IsPostingMap(b.postings) /\ b.lens \in LenMaps
  BY PostingMapIs DEF Blocks
<1>2. ListOf(b.postings, t) \in Seq(DocIDs)
  BY <1>1, ListIs
<1>3. d \in DOMAIN b.lens => b.lens[d] \in Nat
  BY <1>1 DEF LenMaps
<1> QED
  BY <1>2, <1>3, CountType

LEMMA CountsIs ==
  ASSUME NEW bs \in Seq(Blocks), NEW t, NEW d
  PROVE  /\ Len(bs) \in Nat /\ DOMAIN bs = 1 .. Len(bs) /\ IsFiniteSet(DOMAIN bs)
         /\ \A b \in DOMAIN bs : /\ CountsOf(bs, t, d)[b] = Count(ListOf(bs[b].postings, t), d)
                                 /\ CountsOf(bs, t, d)[b] \in Nat /\ LensOf(bs, d)[b] \in Nat
         /\ AllPosts(bs, t, d) \in Nat /\ AllLens(bs, d) \in Nat
<1>1. Len(bs) \in Nat /\ DOMAIN bs = 1 .. Len(bs) /\ IsFiniteSet(DOMAIN bs)
  BY SeqParts, FirstCount
<1>2. \A b \in DOMAIN bs : bs[b] \in Blocks
  BY SeqParts
<1>3. \A b \in DOMAIN bs : /\ CountsOf(bs, t, d)[b] = Count(ListOf(bs[b].postings, t), d)
                           /\ CountsOf(bs, t, d)[b] \in Nat /\ LensOf(bs, d)[b] \in Nat
  BY <1>2, BlockCounts DEF CountsOf, LensOf
<1> QED
  BY <1>1, <1>3, SumType DEF AllPosts, PostsIn, AllLens

\* bs2 is bs with one more block.
Longer(bs, new, bs2) == bs2 = Append(bs, new)

LEMMA CountsAppended ==
  ASSUME NEW bs \in Seq(Blocks), NEW new \in Blocks, NEW t, NEW d, NEW bs2, Longer(bs, new, bs2)
  PROVE  /\ AllPosts(bs2, t, d) = AllPosts(bs, t, d) + Count(ListOf(new.postings, t), d)
         /\ AllLens(bs2, d) = AllLens(bs, d) + (IF d \in DOMAIN new.lens THEN new.lens[d] ELSE 0)
<1> DEFINE n == Len(bs)
<1>1. /\ n \in Nat /\ DOMAIN bs = 1 .. n /\ DOMAIN bs2 = 1 .. n + 1
      /\ bs2[n + 1] = new /\ \A b \in 1 .. n : bs2[b] = bs[b]
  BY DEF Longer
<1>2. \A b \in 1 .. n : /\ CountsOf(bs, t, d)[b] \in Nat /\ CountsOf(bs2, t, d)[b] = CountsOf(bs, t, d)[b]
                        /\ LensOf(bs, d)[b] \in Nat /\ LensOf(bs2, d)[b] = LensOf(bs, d)[b]
  <2>1. \A b \in 1 .. n : b \in 1 .. n + 1
    BY <1>1
  <2>2. \A b \in 1 .. n : CountsOf(bs2, t, d)[b] = CountsOf(bs, t, d)[b] /\ LensOf(bs2, d)[b] = LensOf(bs, d)[b]
    BY <1>1, <2>1 DEF CountsOf, LensOf
  <2> QED
    BY <1>1, <2>2, CountsIs
<1>3. n + 1 \in 1 .. n + 1
  BY <1>1
<1>4. /\ CountsOf(bs2, t, d)[n + 1] = Count(ListOf(new.postings, t), d)
      /\ LensOf(bs2, d)[n + 1] = IF d \in DOMAIN new.lens THEN new.lens[d] ELSE 0
  BY <1>1, <1>3 DEF CountsOf, LensOf
<1>5. CountsOf(bs2, t, d)[n + 1] \in Nat /\ LensOf(bs2, d)[n + 1] \in Nat
  BY <1>4, BlockCounts
<1> HIDE DEF n
<1>6. /\ SumFunctionOnSet(CountsOf(bs2, t, d), 1 .. n + 1) =
           SumFunctionOnSet(CountsOf(bs, t, d), 1 .. n) + CountsOf(bs2, t, d)[n + 1]
      /\ SumFunctionOnSet(LensOf(bs2, d), 1 .. n + 1) =
           SumFunctionOnSet(LensOf(bs, d), 1 .. n) + LensOf(bs2, d)[n + 1]
  BY <1>1, <1>2, <1>5, SumAppended
<1> QED
  BY <1>1, <1>4, <1>6 DEF AllPosts, PostsIn, AllLens

\* Taking the next token.
LEMMA TakenNext ==
  ASSUME NEW s, NEW n \in Nat, NEW x, NEW m, m = n + 1
  PROVE  /\ IsFiniteSet(TakenOf(s, n, x)) /\ Cardinality(TakenOf(s, n, x)) \in Nat
         /\ Cardinality(TakenOf(s, m, x)) =
              IF s[m] = x THEN Cardinality(TakenOf(s, n, x)) + 1 ELSE Cardinality(TakenOf(s, n, x))
<1>1. IsFiniteSet(1 .. n) /\ TakenOf(s, n, x) \subseteq 1 .. n
  BY FirstCount DEF TakenOf
<1>2. IsFiniteSet(TakenOf(s, n, x)) /\ Cardinality(TakenOf(s, n, x)) \in Nat
  BY <1>1, FS_Subset, FS_CardinalityType
<1>3. 1 .. n + 1 = (1 .. n) \cup {n + 1} /\ n + 1 \notin 1 .. n
  OBVIOUS
<1>4. TakenOf(s, n + 1, x) = IF s[n + 1] = x THEN TakenOf(s, n, x) \cup {n + 1} ELSE TakenOf(s, n, x)
  BY <1>3 DEF TakenOf
<1>5. n + 1 \notin TakenOf(s, n, x)
  BY <1>3 DEF TakenOf
<1> QED
  BY <1>2, <1>4, <1>5, FS_AddElement

\* A block that a call writes has nothing of the documents of other calls.
LEMMA IDsApart ==
  ASSUME NEW c \in Calls, NEW e \in Calls, e # c, NEW d \in IDsOf(e)
  PROVE  d \in DocIDs \ IDsOf(c)
<1>1. PICK j \in DOMAIN Batches[e] : d = Batches[e][j].id
  BY DEF IDsOf
<1>2. \A i \in DOMAIN Batches[c] : Batches[c][i].id # d
  BY <1>1, OneDocument
<1>3. d \notin IDsOf(c)
  BY <1>2 DEF IDsOf
<1> QED
  BY <1>3, BatchParts

LEMMA PostsUntouched ==
  ASSUME NEW bs \in Seq(Blocks), NEW c \in Calls, NEW e \in Calls, e # c, NEW t, NEW map,
         \A d \in DocIDs \ IDsOf(c) : Count(ListOf(map, t), d) = 0,
         NEW new \in Blocks,
         \A d : \/ Count(ListOf(new.postings, t), d) = Count(ListOf(map, t), d)
                \/ Count(ListOf(new.postings, t), d) = 0,
         NEW d \in IDsOf(e), NEW bs2, Longer(bs, new, bs2)
  PROVE  AllPosts(bs2, t, d) = AllPosts(bs, t, d)
<1>1. Count(ListOf(new.postings, t), d) = 0
  BY IDsApart
<1>2. AllPosts(bs2, t, d) = AllPosts(bs, t, d) + Count(ListOf(new.postings, t), d)
  BY CountsAppended
<1>3. AllPosts(bs, t, d) \in Nat
  BY CountsIs
<1> QED
  BY <1>1, <1>2, <1>3

LEMMA LensUntouched ==
  ASSUME NEW bs \in Seq(Blocks), NEW c \in Calls, NEW e \in Calls, e # c,
         NEW new \in Blocks, new.lens = LenDF(c), NEW d \in IDsOf(e), NEW bs2, Longer(bs, new, bs2)
  PROVE  AllLens(bs2, d) = AllLens(bs, d)
<1>1. d \notin DOMAIN new.lens
  BY IDsApart, LenDFIs
<1>2. AllLens(bs2, d) = AllLens(bs, d) + (IF d \in DOMAIN new.lens THEN new.lens[d] ELSE 0)
  BY CountsAppended
<1>3. AllLens(bs, d) \in Nat
  BY CountsIs
<1> QED
  BY <1>1, <1>2, <1>3

LEMMA ParsePostings ==
  ASSUME Shape, Postings, NEW c \in Calls, ParseWord(c), NEW e \in Calls
  PROVE  PostingsOf(e)'
<1> DEFINE token == <<StrToID'[WordsIn(c, node[c])[nextWord[c]]], Batches[c][node[c]].id>>
<1>1. /\ tokenStream'[c] = Append(tokenStream[c], token)
      /\ token \in TermIDs \X DocIDs
      /\ \A x \in Calls : x # c => tokenStream'[x] = tokenStream[x]
      /\ UNCHANGED <<pc, taken, termToPostingMap, blocks>>
  BY ParseWordIs
<1> HIDE DEF token
<1>2. /\ tokenStream[e] \in Seq(TermIDs \X DocIDs) /\ taken[e] \in Nat /\ CallControl(e)
      /\ Len(tokenStream[e]) \in Nat
  <2>1. tokenStream[e] \in Seq(TermIDs \X DocIDs) /\ taken[e] \in Nat /\ CallControl(e)
    BY CallIs DEF Shape
  <2> QED
    BY <2>1, SeqParts
<1>3. \A i \in 1 .. taken[e] : tokenStream'[e][i] = tokenStream[e][i]
  <2>1. CASE e # c
    BY <1>1, <2>1
  <2>2. CASE e = c
    <3>1. \A i \in 1 .. taken[e] : i \in 1 .. Len(tokenStream[e])
      BY <1>2 DEF CallControl
    <3>2. \A i \in 1 .. Len(tokenStream[e]) : tokenStream'[e][i] = tokenStream[e][i]
      BY <1>1, <1>2, <2>2
    <3> QED
      BY <3>1, <3>2
  <2> QED
    BY <2>1, <2>2
<1>4. \A x : TakenOf(tokenStream'[e], taken[e], x) = TakenOf(tokenStream[e], taken[e], x)
  BY <1>3 DEF TakenOf
<1> QED
  BY <1>1, <1>4 DEF Postings, PostingsOf, Open

\* A call that takes a token: it waits for its block, or the block has it.
LEMMA TakePostings ==
  ASSUME Shape, Tokens, Stream, Postings, NEW c \in Calls, TakeToken(c)
  PROVE  PostingsOf(c)'
<1>1. PICK t0 \in TermIDs, d0 \in DocIDs : IsPostingMap(MapWith(c, t0, d0)) /\ Took(c, t0, d0)
  BY TakeTokenIs DEF Shape
<1> DEFINE map == MapWith(c, t0, d0)
           old == termToPostingMap[c]
           s == tokenStream[c]
           n == taken[c]
<1>2. /\ pc[c] = "invert" /\ pc' = pc /\ tokenStream' = tokenStream
      /\ s \in Seq(TermIDs \X DocIDs) /\ n \in Nat /\ IsPostingMap(old)
      /\ taken \in [Calls -> Nat] /\ termToPostingMap \in [Calls -> PostingMaps]
      /\ blocks \in Seq(Blocks) /\ PostingsOf(c) /\ TokensOf(c)
  BY CallIs DEF TakeToken, Shape, InvertShape, Tokens, Postings
<1>3. n + 1 \in DOMAIN s /\ s[n + 1] = <<t0, d0>> /\ taken'[c] = n + 1
  BY <1>1, <1>2 DEF Took
<1>4. d0 \in IDsOf(c)
  <2>1. s[n + 1][2] = d0
    BY <1>3
  <2> QED
    BY <1>2, <1>3, <2>1 DEF TokensOf
<1> HIDE DEF map, old, s, n
<1>5. /\ Count(ListOf(map, t0), d0) = Count(ListOf(old, t0), d0) + 1
      /\ \A t, x : t # t0 \/ x # d0 => Count(ListOf(map, t), x) = Count(ListOf(old, t), x)
  <2>1. map = Put(old, t0, d0)
    BY DEF map, old, MapWith
  <2> QED
    BY <1>2, <2>1, PostingAdded
<1>6. \A t, x : Count(ListOf(map, t), x) \in Nat /\ Count(ListOf(old, t), x) \in Nat
  <2>1. \A t : ListOf(map, t) \in Seq(DocIDs) /\ ListOf(old, t) \in Seq(DocIDs)
    BY <1>1, <1>2, ListIs DEF map
  <2> QED
    BY <2>1, CountType
<1>7. \A t \in TermIDs, d \in DocIDs \ IDsOf(c) : Count(ListOf(map, t), d) = 0
  BY <1>2, <1>4, <1>5 DEF PostingsOf, old
\* The tokens taken and the postings that wait for their block grow alike.
<1>8. ASSUME NEW t \in TermIDs, NEW d \in IDsOf(c)
      PROVE  LET before == AllPosts(blocks, t, d) + Count(ListOf(old, t), d)
                 read == Cardinality(TakenOf(s, n, <<t, d>>))
                 after == AllPosts(blocks, t, d) + Count(ListOf(map, t), d)
                 readNext == Cardinality(TakenOf(s, n + 1, <<t, d>>))
             IN  /\ after <= readNext
                 /\ FitsOneBlock(c) => after = readNext
                 /\ readNext \in Nat
  <2> DEFINE posts == AllPosts(blocks, t, d)
             read == Cardinality(TakenOf(s, n, <<t, d>>))
             readNext == Cardinality(TakenOf(s, n + 1, <<t, d>>))
  <2>1. /\ posts + Count(ListOf(old, t), d) <= read
        /\ FitsOneBlock(c) => posts + Count(ListOf(old, t), d) = read
    BY <1>2 DEF PostingsOf, Open, old, s, n
  <2>2. read \in Nat /\ readNext = IF <<t0, d0>> = <<t, d>> THEN read + 1 ELSE read
    <3> DEFINE x == <<t, d>>
               m == n + 1
    <3>1. m = n + 1
      OBVIOUS
    <3> HIDE DEF x, m
    <3>2. /\ Cardinality(TakenOf(s, n, x)) \in Nat
          /\ Cardinality(TakenOf(s, m, x)) =
               IF s[m] = x THEN Cardinality(TakenOf(s, n, x)) + 1 ELSE Cardinality(TakenOf(s, n, x))
      BY <1>2, <3>1, TakenNext
    <3> QED
      BY <1>3, <3>1, <3>2 DEF x
  <2>3. posts \in Nat /\ Count(ListOf(old, t), d) \in Nat /\ Count(ListOf(map, t), d) \in Nat
    BY <1>2, <1>6, CountsIs
  <2> HIDE DEF posts, read, readNext
  <2>4. CASE t = t0 /\ d = d0
    <3>1. Count(ListOf(map, t), d) = Count(ListOf(old, t), d) + 1 /\ readNext = read + 1
      BY <1>5, <2>2, <2>4
    <3> QED
      BY <2>1, <2>2, <2>3, <3>1 DEF posts, readNext
  <2>5. CASE ~ (t = t0 /\ d = d0)
    <3>1. Count(ListOf(map, t), d) = Count(ListOf(old, t), d) /\ readNext = read
      BY <1>5, <2>2, <2>5
    <3> QED
      BY <2>1, <2>2, <2>3, <3>1 DEF posts, readNext
  <2> QED
    BY <2>4, <2>5
<1>9. CASE TookIt(c, t0, d0)
  <2>1. termToPostingMap'[c] = map /\ blocks' = blocks
    BY <1>2, <1>9 DEF TookIt, map
  <2>2. \A t, d : Open(c, t, d)' = Count(ListOf(map, t), d)
    BY <1>2, <2>1 DEF Open
  <2>3. pc'[c] # "done" /\ tokenStream'[c] = s
    BY <1>2 DEF s
  <2> QED
    BY <1>2, <1>3, <1>7, <1>8, <2>1, <2>2, <2>3 DEF PostingsOf
<1>10. CASE TookAndFlushed(c, t0, d0)
  <2> DEFINE new == EarlyBlock(c, map)
  <2>1. termToPostingMap'[c] = EmptyMap /\ Longer(blocks, new, blocks')
    BY <1>2, <1>10 DEF TookAndFlushed, map, Longer
  <2>2. \A t, d : Count(ListOf(EmptyMap, t), d) = 0
    BY EmptyMapIs, CountEmpty
  <2>3. \A t, d : Open(c, t, d)' = 0
    BY <1>2, <2>1, <2>2 DEF Open
  <2>4. tokenStream'[c] = s
    BY <1>2 DEF s
  <2>5. ~ FitsOneBlock(c)
    <3>1. FitsOneBlock(c) => postingSize[c] + 1 < MaxPosting
      BY NeverFull
    <3>2. postingSize[c] \in Int /\ MaxPosting \in Int
      BY BatchesAssumption, CallIs DEF Shape
    <3> QED
      BY <1>10, <3>1, <3>2 DEF TookAndFlushed
  <2>6. /\ new \in Blocks
        /\ \A t, d : \/ Count(ListOf(new.postings, t), d) = Count(ListOf(map, t), d)
                     \/ Count(ListOf(new.postings, t), d) = 0
    BY <1>1, EarlyBlockIs DEF map
  <2> HIDE DEF new
  <2>7. ASSUME NEW t \in TermIDs, NEW d \in IDsOf(c)
        PROVE  AllPosts(blocks', t, d) + 0 <= Cardinality(TakenOf(s, n + 1, <<t, d>>))
    <3>1. AllPosts(blocks', t, d) = AllPosts(blocks, t, d) + Count(ListOf(new.postings, t), d)
      BY <1>2, <2>1, <2>6, CountsAppended
    <3>2. AllPosts(blocks, t, d) \in Nat
      BY <1>2, CountsIs
    <3>3. AllPosts(blocks, t, d) + Count(ListOf(map, t), d) <= Cardinality(TakenOf(s, n + 1, <<t, d>>))
          /\ Cardinality(TakenOf(s, n + 1, <<t, d>>)) \in Nat
      BY <1>8
    <3> QED
      BY <1>6, <2>6, <3>1, <3>2, <3>3
  <2> QED
    BY <1>3, <2>1, <2>2, <2>3, <2>4, <2>5, <2>7 DEF PostingsOf
<1> QED
  BY <1>1, <1>9, <1>10 DEF Took

LEMMA TakePostingsOthers ==
  ASSUME Shape, Tokens, Postings, NEW c \in Calls, TakeToken(c), NEW e \in Calls, e # c
  PROVE  PostingsOf(e)'
<1>1. PICK t0 \in TermIDs, d0 \in DocIDs : IsPostingMap(MapWith(c, t0, d0)) /\ Took(c, t0, d0)
  BY TakeTokenIs DEF Shape
<1> DEFINE map == MapWith(c, t0, d0)
<1>2. /\ pc' = pc /\ tokenStream' = tokenStream
      /\ taken \in [Calls -> Nat] /\ termToPostingMap \in [Calls -> PostingMaps]
      /\ blocks \in Seq(Blocks) /\ PostingsOf(c) /\ PostingsOf(e)
  BY DEF TakeToken, Shape, InvertShape, Postings
<1>3. taken'[e] = taken[e] /\ termToPostingMap'[e] = termToPostingMap[e]
  BY <1>1, <1>2 DEF Took, TookIt, TookAndFlushed
<1>4. \A t \in TermIDs, d \in DocIDs \ IDsOf(c) : Count(ListOf(map, t), d) = 0
  <2>1. d0 \in IDsOf(c)
    <3>1. taken[c] + 1 \in DOMAIN tokenStream[c] /\ tokenStream[c][taken[c] + 1][2] = d0
      BY <1>1 DEF Took
    <3> QED
      BY <3>1 DEF Tokens, TokensOf
  <2>2. IsPostingMap(termToPostingMap[c])
    BY CallIs DEF Shape
  <2>3. \A t, x : t # t0 \/ x # d0 => Count(ListOf(map, t), x) = Count(ListOf(termToPostingMap[c], t), x)
    <3>1. map = Put(termToPostingMap[c], t0, d0)
      BY DEF MapWith
    <3> HIDE DEF map
    <3> QED
      BY <2>2, <3>1, PostingAdded
  <2> QED
    BY <1>2, <2>1, <2>3 DEF PostingsOf
<1> HIDE DEF map
<1>5. CASE blocks' = blocks
  BY <1>2, <1>3, <1>5 DEF PostingsOf, Open
<1>6. CASE blocks' = Append(blocks, EarlyBlock(c, map))
  <2> DEFINE new == EarlyBlock(c, map)
  <2>1. /\ new \in Blocks /\ new.lens = LenDF(c)
        /\ \A t, d : \/ Count(ListOf(new.postings, t), d) = Count(ListOf(map, t), d)
                     \/ Count(ListOf(new.postings, t), d) = 0
    BY <1>1, EarlyBlockIs DEF map
  <2>2. Longer(blocks, new, blocks')
    BY <1>6 DEF Longer
  <2> HIDE DEF new
  <2>3. \A t \in TermIDs, d \in IDsOf(e) : AllPosts(blocks', t, d) = AllPosts(blocks, t, d)
    BY <1>2, <1>4, <2>1, <2>2, PostsUntouched
  <2>4. \A d \in IDsOf(e) : AllLens(blocks', d) = AllLens(blocks, d)
    BY <1>2, <2>1, <2>2, LensUntouched
  <2> QED
    BY <1>2, <1>3, <2>3, <2>4 DEF PostingsOf, Open, IDsOf
<1> QED
  BY <1>1, <1>5, <1>6 DEF Took, TookIt, TookAndFlushed, map

LEMMA LastBlockPostings ==
  ASSUME Shape, Postings, NEW c \in Calls, LastBlock(c), NEW e \in Calls
  PROVE  PostingsOf(e)'
<1> DEFINE map == termToPostingMap[c]
           new == BlockOf(c, TermsOf(map), map)
<1>1. /\ pc[c] = "invert" /\ Longer(blocks, new, blocks')
      /\ UNCHANGED <<tokenStream, taken, termToPostingMap>>
      /\ pc' = [pc EXCEPT ![c] = "done"] /\ pc \in [Calls -> {"parse", "invert", "done"}]
      /\ blocks \in Seq(Blocks) /\ PostingsOf(c) /\ PostingsOf(e)
  BY DEF LastBlock, Shape, InvertShape, Postings, Longer
<1>2. /\ new \in Blocks /\ new.lens = LenDF(c)
      /\ \A t, d : Count(ListOf(new.postings, t), d) = Count(ListOf(map, t), d)
  BY CallIs, LastBlockIs DEF Shape
<1> HIDE DEF new, map
<1>3. \A t \in TermIDs, d \in DocIDs \ IDsOf(c) : Count(ListOf(map, t), d) = 0
  BY <1>1 DEF PostingsOf, map
<1>4. CASE e # c
  <2>1. pc'[e] = pc[e]
    BY <1>1, <1>4
  <2>2. \A t \in TermIDs, d \in IDsOf(e) : AllPosts(blocks', t, d) = AllPosts(blocks, t, d)
    BY <1>1, <1>2, <1>3, <1>4, PostsUntouched
  <2>3. \A d \in IDsOf(e) : AllLens(blocks', d) = AllLens(blocks, d)
    BY <1>1, <1>2, <1>4, LensUntouched
  <2> QED
    BY <1>1, <2>1, <2>2, <2>3 DEF PostingsOf, Open, IDsOf
<1>5. CASE e = c
  <2>1. pc'[c] = "done" /\ \A t, d : Open(c, t, d)' = 0 /\ Open(c, t, d) = Count(ListOf(map, t), d)
    BY <1>1 DEF Open, map
  <2>2. ASSUME NEW t \in TermIDs, NEW d \in IDsOf(c)
        PROVE  AllPosts(blocks', t, d) + 0 = AllPosts(blocks, t, d) + Open(c, t, d)
    <3>1. AllPosts(blocks', t, d) = AllPosts(blocks, t, d) + Count(ListOf(new.postings, t), d)
      BY <1>1, <1>2, CountsAppended
    <3>2. AllPosts(blocks, t, d) \in Nat /\ Count(ListOf(new.postings, t), d) \in Nat
      BY <1>1, <1>2, CountsIs, BlockCounts
    <3>3. Open(c, t, d) = Count(ListOf(new.postings, t), d)
      BY <1>2, <2>1
    <3> QED
      BY <3>1, <3>2, <3>3
  <2>3. ASSUME FitsOneBlock(c), NEW j \in DOMAIN Batches[c]
        PROVE  AllLens(blocks', Batches[c][j].id) = Len(WordsIn(c, j))
    <3> DEFINE d == Batches[c][j].id
    <3>1. AllLens(blocks, d) = 0
      BY <1>1, <2>3 DEF PostingsOf
    <3>2. (IF d \in DOMAIN new.lens THEN new.lens[d] ELSE 0) = Len(WordsIn(c, j))
      BY <1>2, LenDFIs
    <3>3. /\ AllPosts(blocks', 0, d) = AllPosts(blocks, 0, d) + Count(ListOf(new.postings, 0), d)
          /\ AllLens(blocks', d) = AllLens(blocks, d) + (IF d \in DOMAIN new.lens THEN new.lens[d] ELSE 0)
      BY <1>1, <1>2, CountsAppended
    <3>4. Len(WordsIn(c, j)) \in Nat
      BY BatchParts
    <3> QED
      BY <3>1, <3>2, <3>3, <3>4
  <2> QED
    BY <1>1, <1>5, <2>1, <2>2, <2>3 DEF PostingsOf
<1> QED
  BY <1>4, <1>5

LEMMA PostingsNext ==
  ASSUME Shape, Tokens, Stream, Postings, [Next]_vars
  PROVE  Postings'
<1>1. ASSUME NEW c \in Calls, ParseWord(c) PROVE Postings'
  BY <1>1, ParsePostings DEF Postings
<1>2. ASSUME NEW c \in Calls, TakeToken(c) PROVE Postings'
  BY <1>2, TakePostings, TakePostingsOthers DEF Postings
<1>3. ASSUME NEW c \in Calls, LastBlock(c) PROVE Postings'
  BY <1>3, LastBlockPostings DEF Postings
<1>4. CASE UNCHANGED <<tokenStream, taken, termToPostingMap, blocks>> /\ UNCHANGED pc
  BY <1>4 DEF Postings, PostingsOf, Open
<1>5. ASSUME NEW c \in Calls, EndNode(c) PROVE Postings'
  BY <1>4, <1>5 DEF EndNode
<1>6. ASSUME NEW c \in Calls, EndParse(c) PROVE Postings'
  <2>1. /\ UNCHANGED <<tokenStream, taken, termToPostingMap, blocks>>
        /\ pc[c] = "parse" /\ pc' = [pc EXCEPT ![c] = "invert"]
        /\ pc \in [Calls -> {"parse", "invert", "done"}]
    BY <1>6 DEF EndParse, Shape, InvertShape
  <2>2. \A e \in Calls : (pc'[e] = "done") = (pc[e] = "done")
    BY <2>1
  <2> QED
    BY <2>1, <2>2 DEF Postings, PostingsOf, Open
<1>7. CASE Merge \/ UNCHANGED vars
  BY <1>4, <1>7 DEF Merge, StartMerge, MergeNext, EndMerge, vars, invertVars
<1> QED
  BY <1>1, <1>2, <1>3, <1>5, <1>6, <1>7 DEF Next, Invert, Returned

------------------------------------------------------------------------------
(* What Merge has of the blocks. *)

\* The blocks of which a term has been merged, and the terms of an index.
BlocksWith(curs, bs, t) == {b \in DOMAIN curs : \E k \in 1 .. curs[b] - 1 : bs[b].terms[k] = t}
TermsIn(index) == {index[i].term : i \in DOMAIN index}
Seen == TermsIn(mergedIndex) \cup (IF merging = "yes" THEN {lastTerm} ELSE {})

Merged ==
  /\ \A i, j \in DOMAIN mergedIndex : i < j => mergedIndex[i].term < mergedIndex[j].term
  /\ \A i \in DOMAIN mergedIndex : /\ mergedIndex[i].term <= lastTerm
                                   /\ merging = "yes" => mergedIndex[i].term # lastTerm
  /\ \A b \in DOMAIN cursor : \A k \in DOMAIN blocks[b].terms :
       IF k < cursor[b] THEN blocks[b].terms[k] \in Seen ELSE lastTerm <= blocks[b].terms[k]
  /\ \A i \in DOMAIN mergedIndex : \A d \in DocIDs :
       Count(mergedIndex[i].postings, d) =
         PostsIn(blocks, BlocksWith(cursor, blocks, mergedIndex[i].term), mergedIndex[i].term, d)
  /\ merging = "yes" /\ lastTerm # -1 => \A d \in DocIDs :
       Count(lastPosting, d) = PostsIn(blocks, BlocksWith(cursor, blocks, lastTerm), lastTerm, d)
  /\ merging = "done" => InHeap = {}

LEMMA PostsAdded ==
  ASSUME NEW bs \in Seq(Blocks), NEW B \in SUBSET DOMAIN bs, NEW b \in DOMAIN bs, b \notin B, NEW t, NEW d
  PROVE  PostsIn(bs, B \cup {b}, t, d) = PostsIn(bs, B, t, d) + Count(ListOf(bs[b].postings, t), d)
<1> DEFINE f == CountsOf(bs, t, d)
           C == B \cup {b}
<1>1. IsFiniteSet(DOMAIN bs) /\ \A x \in DOMAIN bs : f[x] \in Nat
  BY CountsIs
<1>2. f[b] = Count(ListOf(bs[b].postings, t), d) /\ f[b] \in Nat
  BY CountsIs
<1> HIDE DEF f
<1>3. IsFiniteSet(C) /\ b \in C /\ (\A x \in C : f[x] \in Nat) /\ C \ {b} = B /\ IsFiniteSet(B)
  BY <1>1, FS_Subset
<1> HIDE DEF C
<1>4. SumFunctionOnSet(f, C) = f[b] + SumFunctionOnSet(f, C \ {b})
  BY <1>3, SumRemove
<1>5. SumFunctionOnSet(f, B) \in Nat
  <2>1. \A x \in B : f[x] \in Nat
    BY <1>1
  <2> QED
    BY <1>3, <2>1, SumType
<1>6. SumFunctionOnSet(f, C) = SumFunctionOnSet(f, B) + f[b]
  <2>1. \A i, j \in Nat : i + j = j + i
    OBVIOUS
  <2> QED
    BY <1>2, <1>3, <1>4, <1>5, <2>1
<1> QED
  BY <1>2, <1>6 DEF PostsIn, f, C

LEMMA PostsNone ==
  ASSUME NEW bs, NEW t, NEW d
  PROVE  PostsIn(bs, {}, t, d) = 0
BY SumOfNone DEF PostsIn

\* The merged index with the term gathered last.
LEMMA GatheredMerged ==
  ASSUME Shape, Merged, merging = "yes"
  PROVE  /\ \A i, j \in DOMAIN Gathered : i < j => Gathered[i].term < Gathered[j].term
         /\ \A i \in DOMAIN Gathered : Gathered[i].term <= lastTerm
         /\ \A i \in DOMAIN Gathered : \A d \in DocIDs :
              Count(Gathered[i].postings, d) =
                PostsIn(blocks, BlocksWith(cursor, blocks, Gathered[i].term), Gathered[i].term, d)
         /\ \A x \in Seen : x = -1 \/ x \in TermsIn(Gathered)
<1>1. /\ MergeShape /\ lastTerm \in TermIDs \cup {-1} /\ TermIDs \subseteq Nat
      /\ mergedIndex \in Seq(Entries)
  BY TermIDsCounted DEF Shape, MergeShape, Entries
<1>2. \A i \in DOMAIN mergedIndex : mergedIndex[i].term \in Nat
  <2>1. \A i \in DOMAIN mergedIndex : mergedIndex[i] \in Entries
    BY <1>1, SeqParts
  <2> QED
    BY <1>1, <2>1 DEF Entries
<1>3. CASE lastTerm = -1
  <2>1. Gathered = mergedIndex
    BY <1>1, <1>3, GatheredIs
  <2>2. \A x \in Seen : x = -1 \/ x \in TermsIn(mergedIndex)
    BY <1>3 DEF Seen
  <2> QED
    BY <2>1, <2>2 DEF Merged
<1>4. CASE lastTerm # -1
  <2> DEFINE n == Len(mergedIndex)
  <2>1. /\ n \in Nat /\ DOMAIN mergedIndex = 1 .. n
        /\ DOMAIN Gathered = 1 .. n + 1
        /\ Gathered[n + 1].term = lastTerm
        /\ \A d : Count(Gathered[n + 1].postings, d) = Count(lastPosting, d)
        /\ \A i \in DOMAIN mergedIndex : Gathered[i] = mergedIndex[i]
    BY <1>1, <1>4, GatheredIs
  <2> HIDE DEF n
  <2>2. lastTerm \in Nat /\ \A i \in 1 .. n : mergedIndex[i].term < lastTerm
    <3>1. lastTerm \in Nat
      BY <1>1, <1>4
    <3>2. \A i \in 1 .. n : /\ mergedIndex[i].term <= lastTerm /\ mergedIndex[i].term # lastTerm
                            /\ mergedIndex[i].term \in Nat
      BY <1>2, <2>1 DEF Merged
    <3> QED
      BY <3>1, <3>2
  <2>3. \A i \in 1 .. n + 1 : i \in 1 .. n \/ i = n + 1
    BY <2>1
  <2>4. \A i, j \in DOMAIN Gathered : i < j => Gathered[i].term < Gathered[j].term
    <3> SUFFICES ASSUME NEW i \in DOMAIN Gathered, NEW j \in DOMAIN Gathered, i < j
                 PROVE  Gathered[i].term < Gathered[j].term
      OBVIOUS
    <3>1. i \in 1 .. n
      BY <2>1
    <3>2. CASE j = n + 1
      BY <2>1, <2>2, <3>1, <3>2
    <3>3. CASE j \in 1 .. n
      BY <2>1, <3>1, <3>3 DEF Merged
    <3> QED
      BY <2>1, <2>3, <3>2, <3>3
  <2>5. \A i \in DOMAIN Gathered : Gathered[i].term <= lastTerm
    BY <2>1, <2>2, <2>3 DEF Merged
  <2>6. \A i \in DOMAIN Gathered : \A d \in DocIDs :
          Count(Gathered[i].postings, d) = PostsIn(blocks, BlocksWith(cursor, blocks, Gathered[i].term), Gathered[i].term, d)
    <3> TAKE i \in DOMAIN Gathered
    <3>1. CASE i = n + 1
      BY <1>4, <2>1, <3>1 DEF Merged
    <3>2. CASE i \in 1 .. n
      BY <2>1, <3>2 DEF Merged
    <3> QED
      BY <2>1, <2>3, <3>1, <3>2
  <2>7. \A x \in Seen : x \in TermsIn(Gathered)
    <3> TAKE x \in Seen
    <3>1. n + 1 \in DOMAIN Gathered /\ \A i \in 1 .. n : i \in DOMAIN Gathered
      BY <2>1
    <3>2. x = lastTerm \/ \E i \in 1 .. n : x = mergedIndex[i].term
      BY <2>1 DEF Seen, TermsIn
    <3> QED
      BY <2>1, <3>1, <3>2 DEF TermsIn
  <2> QED
    BY <2>4, <2>5, <2>6, <2>7
<1> QED
  BY <1>3, <1>4

\* A step of Merge adds its block to those of its term.
LEMMA BlocksWithNext ==
  ASSUME Shape, NEW b \in InHeap, MergeNext(b), NEW t, t = NextTerm(b)
  PROVE  /\ b \notin BlocksWith(cursor, blocks, t)
         /\ BlocksWith(cursor', blocks', t) = BlocksWith(cursor, blocks, t) \cup {b}
         /\ \A x : x # t => BlocksWith(cursor', blocks', x) = BlocksWith(cursor, blocks, x)
<1>1. /\ b \in DOMAIN cursor /\ cursor[b] \in Nat \ {0} /\ cursor[b] \in DOMAIN blocks[b].terms
      /\ blocks[b] \in Blocks /\ InOrder(blocks[b]) /\ t \in TermIDs
  BY HeapIs
<1>2. /\ cursor' = [cursor EXCEPT ![b] = @ + 1] /\ blocks' = blocks
      /\ cursor \in Seq(Nat \ {0})
  BY DEF MergeNext, invertVars, Shape, MergeShape
<1>3. /\ DOMAIN cursor' = DOMAIN cursor /\ cursor'[b] = cursor[b] + 1
      /\ \A a \in DOMAIN cursor : a # b => cursor'[a] = cursor[a]
  BY <1>1, <1>2
<1>4. t = blocks[b].terms[cursor[b]]
  BY DEF NextTerm
<1>5. \A k \in 1 .. cursor[b] - 1 : blocks[b].terms[k] # t
  <2> TAKE k \in 1 .. cursor[b] - 1
  <2>1. blocks[b].terms \in Seq(TermIDs)
    BY <1>1 DEF Blocks
  <2>2. k \in DOMAIN blocks[b].terms /\ k < cursor[b]
    BY <1>1, <2>1
  <2>3. blocks[b].terms[k] < t
    BY <1>1, <1>4, <2>2 DEF InOrder
  <2>4. t \in Nat
    BY <1>1, TermIDsCounted
  <2> QED
    BY <2>3, <2>4
<1>6. b \notin BlocksWith(cursor, blocks, t)
  BY <1>5 DEF BlocksWith
<1>7. 1 .. cursor'[b] - 1 = (1 .. cursor[b] - 1) \cup {cursor[b]}
  BY <1>1, <1>3
<1>8. \A x, a : a \in BlocksWith(cursor', blocks', x) <=> a \in BlocksWith(cursor, blocks, x) \/ (a = b /\ x = t)
  <2> TAKE x, a
  <2>1. CASE a = b
    BY <1>1, <1>2, <1>3, <1>4, <1>7, <2>1 DEF BlocksWith
  <2>2. CASE a # b
    BY <1>2, <1>3, <2>2 DEF BlocksWith
  <2> QED
    BY <2>1, <2>2
<1>9. BlocksWith(cursor', blocks', t) = BlocksWith(cursor, blocks, t) \cup {b}
  <2>1. \A a : a \in BlocksWith(cursor', blocks', t) <=> a \in BlocksWith(cursor, blocks, t) \cup {b}
    BY <1>8
  <2> HIDE DEF BlocksWith
  <2> QED
    BY <2>1
<1>10. ASSUME NEW x, x # t
       PROVE  BlocksWith(cursor', blocks', x) = BlocksWith(cursor, blocks, x)
  <2>1. \A a : a \in BlocksWith(cursor', blocks', x) <=> a \in BlocksWith(cursor, blocks, x)
    BY <1>8, <1>10
  <2> HIDE DEF BlocksWith
  <2> QED
    BY <2>1
<1> QED
  BY <1>6, <1>9, <1>10

LEMMA StartMergeMerged ==
  ASSUME Shape, Merged, StartMerge
  PROVE  Merged'
<1>1. /\ mergedIndex' = <<>> /\ lastTerm' = -1 /\ merging' = "yes" /\ blocks' = blocks
      /\ cursor' = [b \in DOMAIN blocks |-> 1]
  BY DEF StartMerge, Shape, MergeShape, MergeControl, invertVars
<1>2. ASSUME NEW b \in DOMAIN blocks, NEW k \in DOMAIN blocks[b].terms
      PROVE  ~ (k < 1) /\ -1 <= blocks[b].terms[k]
  <2>1. blocks[b] \in Blocks
    BY SeqParts DEF Shape, InvertShape
  <2>2. blocks[b].terms \in Seq(TermIDs)
    BY <2>1 DEF Blocks
  <2>3. blocks[b].terms[k] \in TermIDs /\ DOMAIN blocks[b].terms = 1 .. Len(blocks[b].terms)
    BY <2>2, SeqParts
  <2>4. blocks[b].terms[k] \in Nat
    BY <2>3, TermIDsCounted
  <2> QED
    BY <2>3, <2>4
<1> QED
  BY <1>1, <1>2 DEF Merged

\* Every term of a block that the heap may still yield is at least the one that
\* it yields now.
LEMMA HeapAscends ==
  ASSUME Shape, NEW b \in TopOfHeap, NEW a \in DOMAIN cursor, NEW k \in DOMAIN blocks[a].terms,
         ~ (k < cursor[a])
  PROVE  /\ NextTerm(b) <= blocks[a].terms[k]
         /\ blocks[a].terms[k] \in Nat
<1>1. /\ cursor \in Seq(Nat \ {0}) /\ blocks \in Seq(Blocks) /\ DOMAIN cursor = DOMAIN blocks
      /\ b \in InHeap
  <2>1. b \in InHeap
    BY DEF TopOfHeap
  <2> QED
    BY <2>1, HeapIs DEF Shape, MergeShape, InvertShape
<1>2. cursor[a] \in Nat \ {0} /\ blocks[a] \in Blocks
  BY <1>1, SeqParts
<1>3. blocks[a].terms \in Seq(TermIDs)
  BY <1>2 DEF Blocks
<1>4. /\ k \in 1 .. Len(blocks[a].terms) /\ Len(blocks[a].terms) \in Nat
      /\ blocks[a].terms[k] \in TermIDs
  BY <1>3, SeqParts
<1>5. a \in InHeap
  BY <1>2, <1>4 DEF InHeap
<1>6. /\ NextTerm(b) <= NextTerm(a) /\ NextTerm(a) = blocks[a].terms[cursor[a]]
      /\ InOrder(blocks[a]) /\ cursor[a] \in DOMAIN blocks[a].terms
      /\ NextTerm(a) \in TermIDs /\ NextTerm(b) \in TermIDs
  BY <1>1, <1>5, HeapIs DEF TopOfHeap, NextTerm
<1>7. NextTerm(a) \in Nat /\ NextTerm(b) \in Nat /\ blocks[a].terms[k] \in Nat
  BY <1>4, <1>6, TermIDsCounted
<1>8. NextTerm(a) <= blocks[a].terms[k]
  <2>1. CASE k = cursor[a]
    BY <1>6, <1>7, <2>1
  <2>2. CASE k # cursor[a]
    <3>1. cursor[a] < k
      BY <1>2, <1>4, <2>2
    <3>2. NextTerm(a) < blocks[a].terms[k]
      BY <1>6, <3>1 DEF InOrder
    <3> QED
      BY <1>7, <3>2
  <2> QED
    BY <2>1, <2>2
<1> QED
  BY <1>6, <1>7, <1>8

\* What a step of Merge changes, for the term t that the heap yields.
LEMMA MergeNextIs ==
  ASSUME Shape, Merged, NEW b \in DOMAIN cursor, MergeNext(b), NEW t, t = NextTerm(b)
  PROVE  /\ b \in TopOfHeap /\ b \in InHeap /\ merging = "yes" /\ merging' = "yes" /\ blocks' = blocks
         /\ t \in Nat /\ t \in TermIDs /\ lastTerm \in Nat \cup {-1} /\ lastTerm <= t
         /\ DOMAIN cursor' = DOMAIN cursor /\ cursor'[b] = cursor[b] + 1
         /\ cursor[b] \in Nat /\ cursor[b] \in DOMAIN blocks[b].terms /\ blocks[b].terms[cursor[b]] = t
         /\ \A a \in DOMAIN cursor : a # b => cursor'[a] = cursor[a]
         /\ blocks[b].postings[t] = ListOf(blocks[b].postings, t)
         /\ blocks[b].postings[t] \in Seq(DocIDs)
<1>1. /\ b \in TopOfHeap /\ b \in InHeap /\ merging = "yes" /\ merging' = "yes" /\ blocks' = blocks
      /\ cursor' = [cursor EXCEPT ![b] = @ + 1] /\ cursor \in Seq(Nat \ {0})
  BY DEF MergeNext, TopOfHeap, invertVars, Shape, MergeShape
<1>2. /\ t \in TermIDs /\ cursor[b] \in Nat \ {0} /\ cursor[b] \in DOMAIN blocks[b].terms
      /\ blocks[b].postings[t] \in Seq(DocIDs)
      /\ blocks[b].postings[t] = ListOf(blocks[b].postings, t)
      /\ blocks[b].terms[cursor[b]] = t
  BY <1>1, HeapIs DEF NextTerm
<1>3. lastTerm <= t
  <2>1. ~ (cursor[b] < cursor[b])
    BY <1>2
  <2> QED
    BY <1>2, <2>1 DEF Merged
<1>4. t \in Nat /\ lastTerm \in Nat \cup {-1}
  BY <1>2, TermIDsCounted DEF Shape, MergeShape
<1>5. /\ DOMAIN cursor' = DOMAIN cursor /\ cursor'[b] = cursor[b] + 1
      /\ \A a \in DOMAIN cursor : a # b => cursor'[a] = cursor[a]
  BY <1>1, <1>2
<1> QED
  BY <1>1, <1>2, <1>3, <1>4, <1>5

\* The heap yields the term being gathered again.
LEMMA MergeSame ==
  ASSUME Shape, Merged, NEW b \in DOMAIN cursor, MergeNext(b), NextTerm(b) = lastTerm
  PROVE  Merged'
<1> DEFINE t == lastTerm
<1>1. /\ b \in TopOfHeap /\ b \in InHeap /\ merging = "yes" /\ merging' = "yes" /\ blocks' = blocks
      /\ t \in Nat /\ t \in TermIDs
      /\ DOMAIN cursor' = DOMAIN cursor /\ cursor'[b] = cursor[b] + 1
      /\ cursor[b] \in Nat /\ blocks[b].terms[cursor[b]] = t
      /\ \A a \in DOMAIN cursor : a # b => cursor'[a] = cursor[a]
      /\ blocks[b].postings[t] = ListOf(blocks[b].postings, t)
      /\ blocks[b].postings[t] \in Seq(DocIDs)
  BY MergeNextIs
<1>2. /\ lastPosting' = lastPosting \o blocks[b].postings[t]
      /\ lastTerm' = lastTerm /\ mergedIndex' = mergedIndex
  BY DEF MergeNext
<1>3. /\ b \notin BlocksWith(cursor, blocks, t)
      /\ BlocksWith(cursor', blocks', t) = BlocksWith(cursor, blocks, t) \cup {b}
      /\ \A x : x # t => BlocksWith(cursor', blocks', x) = BlocksWith(cursor, blocks, x)
  BY <1>1, BlocksWithNext
<1>4. Seen' = Seen /\ t \in Seen
  BY <1>1, <1>2 DEF Seen
<1>5. ASSUME NEW a \in DOMAIN cursor, NEW k \in DOMAIN blocks[a].terms
      PROVE  IF k < cursor'[a] THEN blocks[a].terms[k] \in Seen' ELSE lastTerm <= blocks[a].terms[k]
  <2>1. IF k < cursor[a] THEN blocks[a].terms[k] \in Seen ELSE lastTerm <= blocks[a].terms[k]
    BY DEF Merged
  <2>2. CASE a # b
    BY <1>1, <1>4, <2>1, <2>2
  <2>3. CASE a = b
    <3>1. blocks[b] \in Blocks
      BY <1>1, HeapIs
    <3>2. blocks[b].terms \in Seq(TermIDs)
      BY <3>1 DEF Blocks
    <3>3. k \in Nat
      BY <2>3, <3>2, SeqParts
    <3>4. k < cursor[b] + 1 => k < cursor[b] \/ k = cursor[b]
      BY <1>1, <3>3
    <3>5. k < cursor[b] => k < cursor[b] + 1
      BY <1>1, <3>3
    <3> QED
      BY <1>1, <1>4, <2>1, <2>3, <3>4, <3>5
  <2> QED
    BY <2>2, <2>3
<1>6. ASSUME NEW d \in DocIDs
      PROVE  Count(lastPosting', d) = PostsIn(blocks, BlocksWith(cursor', blocks', t), t, d)
  <2>1. Count(lastPosting', d) = Count(lastPosting, d) + Count(blocks[b].postings[t], d)
    <3>1. lastPosting \in Seq(DocIDs)
      BY DEF Shape, MergeShape
    <3> QED
      BY <1>1, <1>2, <3>1, CountConcat
  <2>2. Count(lastPosting, d) = PostsIn(blocks, BlocksWith(cursor, blocks, t), t, d)
    BY <1>1 DEF Merged
  <2>3. /\ blocks \in Seq(Blocks) /\ b \in DOMAIN blocks
        /\ BlocksWith(cursor, blocks, t) \in SUBSET DOMAIN blocks
    BY <1>1, HeapIs DEF Shape, InvertShape, BlocksWith
  <2>4. PostsIn(blocks, BlocksWith(cursor, blocks, t) \cup {b}, t, d) =
          PostsIn(blocks, BlocksWith(cursor, blocks, t), t, d) + Count(ListOf(blocks[b].postings, t), d)
    BY <1>3, <2>3, PostsAdded
  <2> QED
    BY <1>1, <1>3, <2>1, <2>2, <2>4
<1>7. \A i \in DOMAIN mergedIndex : mergedIndex[i].term # t
  BY <1>1 DEF Merged
<1>8. \A i \in DOMAIN mergedIndex : \A d \in DocIDs :
        Count(mergedIndex[i].postings, d) =
          PostsIn(blocks, BlocksWith(cursor', blocks', mergedIndex[i].term), mergedIndex[i].term, d)
  BY <1>3, <1>7 DEF Merged
<1> QED
  BY <1>1, <1>2, <1>5, <1>6, <1>8 DEF Merged

\* It yields a new one.
LEMMA MergeOther ==
  ASSUME Shape, Merged, NEW b \in DOMAIN cursor, MergeNext(b), NextTerm(b) # lastTerm
  PROVE  Merged'
<1> DEFINE t == lastTerm'
<1>1. /\ mergedIndex' = Gathered /\ t = NextTerm(b) /\ lastPosting' = blocks[b].postings[t]
  BY DEF MergeNext
<1>2. /\ b \in TopOfHeap /\ b \in InHeap /\ merging = "yes" /\ merging' = "yes" /\ blocks' = blocks
      /\ t \in Nat /\ t \in TermIDs /\ lastTerm \in Nat \cup {-1} /\ lastTerm <= t
      /\ DOMAIN cursor' = DOMAIN cursor /\ cursor'[b] = cursor[b] + 1
      /\ cursor[b] \in Nat /\ blocks[b].terms[cursor[b]] = t
      /\ \A a \in DOMAIN cursor : a # b => cursor'[a] = cursor[a]
      /\ blocks[b].postings[t] = ListOf(blocks[b].postings, t)
  BY <1>1, MergeNextIs
<1>3. /\ BlocksWith(cursor', blocks', t) = BlocksWith(cursor, blocks, t) \cup {b}
      /\ \A x : x # t => BlocksWith(cursor', blocks', x) = BlocksWith(cursor, blocks, x)
  BY <1>1, <1>2, BlocksWithNext
<1>4. lastTerm < t
  BY <1>1, <1>2
<1> HIDE DEF t
<1>5. Shape'
  BY MergeNextShape
<1>6. \A i \in DOMAIN Gathered : /\ Gathered[i].term <= lastTerm
                                 /\ Gathered[i].term \in TermIDs
  <2>1. Gathered \in Seq(Entries)
    BY GatheredIs DEF Shape
  <2>2. \A i \in DOMAIN Gathered : Gathered[i] \in Entries
    BY <2>1, SeqParts
  <2> QED
    BY <1>2, <2>2, GatheredMerged DEF Entries
<1>7. \A i \in DOMAIN Gathered : Gathered[i].term <= t /\ Gathered[i].term # t
  <2> TAKE i \in DOMAIN Gathered
  <2>1. Gathered[i].term <= lastTerm /\ Gathered[i].term \in Nat
    BY <1>6, TermIDsCounted
  <2> QED
    BY <1>2, <1>4, <2>1
\* No block has given the new term yet.
<1>8. \A x \in Seen : x < t
  <2> TAKE x \in Seen
  <2>1. x = -1 \/ x \in TermsIn(Gathered)
    BY <1>2, GatheredMerged
  <2>2. CASE x = -1
    BY <1>2, <2>2
  <2>3. CASE x \in TermsIn(Gathered)
    <3>1. x <= lastTerm /\ x \in Nat
      BY <1>6, <2>3, TermIDsCounted DEF TermsIn
    <3> QED
      BY <1>2, <1>4, <3>1
  <2> QED
    BY <2>1, <2>2, <2>3
<1>9. ASSUME NEW a \in DOMAIN cursor, NEW k \in DOMAIN blocks[a].terms
      PROVE  k \in Nat /\ cursor[a] \in Nat /\ DOMAIN blocks[a].terms = 1 .. Len(blocks[a].terms)
             /\ Len(blocks[a].terms) \in Nat /\ blocks[a].terms[k] \in Nat
  <2>1. DOMAIN cursor = DOMAIN blocks /\ cursor \in Seq(Nat \ {0}) /\ blocks \in Seq(Blocks)
    BY <1>2, HeapIs DEF Shape, MergeShape, InvertShape
  <2>2. blocks[a] \in Blocks /\ cursor[a] \in Nat \ {0}
    BY <2>1, SeqParts
  <2>3. blocks[a].terms \in Seq(TermIDs)
    BY <2>2 DEF Blocks
  <2>4. /\ DOMAIN blocks[a].terms = 1 .. Len(blocks[a].terms) /\ Len(blocks[a].terms) \in Nat
        /\ blocks[a].terms[k] \in TermIDs
    BY <2>3, SeqParts
  <2>5. k \in Nat
    BY <2>4
  <2>6. blocks[a].terms[k] \in Nat
    BY <2>4, TermIDsCounted
  <2> QED
    BY <2>2, <2>4, <2>5, <2>6
<1>10. BlocksWith(cursor, blocks, t) = {}
  <2> SUFFICES ASSUME NEW a \in DOMAIN cursor, NEW k \in 1 .. cursor[a] - 1, blocks[a].terms[k] = t
               PROVE  FALSE
    BY DEF BlocksWith
  <2>1. cursor[a] \in Nat /\ cursor[a] <= Len(blocks[a].terms) + 1 /\ Len(blocks[a].terms) \in Nat
        /\ DOMAIN blocks[a].terms = 1 .. Len(blocks[a].terms)
    <3>1. DOMAIN cursor = DOMAIN blocks /\ cursor \in Seq(Nat \ {0}) /\ blocks \in Seq(Blocks)
          /\ cursor[a] <= Len(blocks[a].terms) + 1
      BY <1>2, HeapIs DEF Shape, MergeShape, MergeControl, InvertShape
    <3>2. blocks[a] \in Blocks /\ cursor[a] \in Nat \ {0}
      BY <3>1, SeqParts
    <3>3. blocks[a].terms \in Seq(TermIDs)
      BY <3>2 DEF Blocks
    <3> QED
      BY <3>1, <3>2, <3>3, SeqParts
  <2>2. k \in DOMAIN blocks[a].terms /\ k < cursor[a]
    BY <2>1
  <2>3. t \in Seen
    BY <2>2 DEF Merged
  <2> QED
    BY <1>2, <1>8, <2>3
<1>11. \A x \in Seen : x \in Nat => x \in Seen'
  <2> TAKE x \in Seen
  <2>1. x = -1 \/ x \in TermsIn(Gathered)
    BY <1>2, GatheredMerged
  <2> QED
    BY <1>1, <2>1 DEF Seen
<1>12. ASSUME NEW a \in DOMAIN cursor, NEW k \in DOMAIN blocks[a].terms
       PROVE  IF k < cursor'[a] THEN blocks[a].terms[k] \in Seen' ELSE t <= blocks[a].terms[k]
  <2>1. k \in Nat /\ cursor[a] \in Nat /\ blocks[a].terms[k] \in Nat
    BY <1>9
  <2>2. CASE k < cursor[a]
    <3>1. blocks[a].terms[k] \in Seen
      BY <2>2 DEF Merged
    <3>2. k < cursor'[a]
      BY <1>2, <2>1, <2>2
    <3> QED
      BY <1>11, <2>1, <3>1, <3>2
  <2>3. CASE ~ (k < cursor[a])
    <3>1. t <= blocks[a].terms[k]
      BY <1>1, <1>2, <2>3, HeapAscends
    <3>2. k < cursor'[a] => blocks[a].terms[k] = t
      BY <1>2, <2>1, <2>3
    <3>3. t \in Seen'
      BY <1>2 DEF Seen, t
    <3> QED
      BY <3>1, <3>2, <3>3
  <2> QED
    BY <2>2, <2>3
<1>13. \A i \in DOMAIN Gathered : \A d \in DocIDs :
         Count(Gathered[i].postings, d) =
           PostsIn(blocks, BlocksWith(cursor', blocks', Gathered[i].term), Gathered[i].term, d)
  BY <1>2, <1>3, <1>7, GatheredMerged
<1>14. ASSUME NEW d \in DocIDs
       PROVE  Count(lastPosting', d) = PostsIn(blocks, BlocksWith(cursor', blocks', t), t, d)
  <2>1. BlocksWith(cursor', blocks', t) = {} \cup {b}
    BY <1>3, <1>10
  <2>2. blocks \in Seq(Blocks) /\ b \in DOMAIN blocks
    BY <1>2, HeapIs DEF Shape, InvertShape
  <2>3. PostsIn(blocks, {} \cup {b}, t, d) =
          PostsIn(blocks, {}, t, d) + Count(ListOf(blocks[b].postings, t), d)
    <3> DEFINE B == {}
    <3>1. B \in SUBSET DOMAIN blocks /\ b \notin B
      OBVIOUS
    <3> HIDE DEF B
    <3>2. PostsIn(blocks, B \cup {b}, t, d) =
            PostsIn(blocks, B, t, d) + Count(ListOf(blocks[b].postings, t), d)
      BY <2>2, <3>1, PostsAdded
    <3> QED
      BY <3>2 DEF B
  <2>4. Count(ListOf(blocks[b].postings, t), d) \in Nat /\ PostsIn(blocks, {}, t, d) = 0
    <3>1. blocks[b] \in Blocks
      BY <1>2, HeapIs
    <3> QED
      BY <3>1, BlockCounts, PostsNone
  <2>5. PostsIn(blocks, {} \cup {b}, t, d) = Count(ListOf(blocks[b].postings, t), d)
    BY <2>3, <2>4
  <2> QED
    BY <1>1, <1>2, <2>1, <2>5
<1>15. \A i, j \in DOMAIN Gathered : i < j => Gathered[i].term < Gathered[j].term
  BY <1>2, GatheredMerged
<1> QED
  BY <1>1, <1>2, <1>7, <1>12, <1>13, <1>14, <1>15 DEF Merged, t

LEMMA EndMergeMerged ==
  ASSUME Shape, Merged, EndMerge
  PROVE  Merged'
<1>1. /\ merging = "yes" /\ merging' = "done" /\ mergedIndex' = Gathered /\ InHeap = {}
      /\ cursor' = cursor /\ lastTerm' = lastTerm /\ blocks' = blocks
  BY DEF EndMerge, LastGathered, invertVars
<1>2. InHeap' = {}
  BY <1>1 DEF InHeap
<1>3. ASSUME NEW a \in DOMAIN cursor, NEW k \in DOMAIN blocks[a].terms
      PROVE  IF k < cursor[a] THEN blocks[a].terms[k] \in Seen' ELSE lastTerm <= blocks[a].terms[k]
  <2>1. IF k < cursor[a] THEN blocks[a].terms[k] \in Seen ELSE lastTerm <= blocks[a].terms[k]
    BY DEF Merged
  <2>2. blocks[a].terms[k] # -1
    <3>1. cursor # <<>> /\ DOMAIN cursor = DOMAIN blocks /\ blocks \in Seq(Blocks)
      BY <1>1 DEF Shape, MergeShape, MergeControl, InvertShape
    <3>2. blocks[a] \in Blocks
      BY <3>1, SeqParts
    <3>3. blocks[a].terms \in Seq(TermIDs)
      BY <3>2 DEF Blocks
    <3>4. blocks[a].terms[k] \in TermIDs
      BY <3>3, SeqParts
    <3> QED
      BY <3>4, TermIDsCounted
  <2>3. \A x \in Seen : x = -1 \/ x \in Seen'
    <3>1. \A x \in Seen : x = -1 \/ x \in TermsIn(Gathered)
      BY <1>1, GatheredMerged
    <3> QED
      BY <1>1, <3>1 DEF Seen
  <2> QED
    BY <2>1, <2>2, <2>3
<1> QED
  BY <1>1, <1>2, <1>3, GatheredMerged DEF Merged

LEMMA MergedNext ==
  ASSUME Shape, Merged, [Next]_vars
  PROVE  Merged'
<1>1. ASSUME NEW c \in Calls, Invert(c) PROVE Merged'
  <2>1. pc[c] # "done" /\ UNCHANGED mergeVars
    BY <1>1 DEF Invert, ParseWord, EndNode, EndParse, TakeToken, LastBlock
  <2>2. merging = "no" /\ cursor = <<>> /\ lastTerm = -1 /\ mergedIndex = <<>>
    BY <2>1, MergeWaits DEF Shape
  <2> QED
    BY <2>1, <2>2 DEF Merged, mergeVars
<1>2. CASE Merge
  BY <1>2, StartMergeMerged, MergeSame, MergeOther, EndMergeMerged DEF Merge
<1>3. CASE UNCHANGED vars
  BY <1>3 DEF Merged, Seen, InHeap, vars, invertVars, mergeVars
<1> QED
  BY <1>1, <1>2, <1>3 DEF Next, Returned

------------------------------------------------------------------------------
(* The properties. *)

IInv == Shape /\ Tokens /\ Stream /\ Postings /\ Merged

LEMMA InitTokens == ASSUME Init PROVE Tokens
<1> SUFFICES ASSUME NEW c \in Calls PROVE TokensOf(c)
  BY DEF Tokens
<1>1. tokenStream[c] = <<>> /\ node[c] = 1 /\ nextWord[c] = 1 /\ DOMAIN StrToID = {}
  BY DEF Init
<1>2. \A j \in DOMAIN Batches[c] : ReadOf(c, j, 1, 1) = 0
  <2> TAKE j \in DOMAIN Batches[c]
  <2>1. j \in Nat \ {0}
    BY BatchParts
  <2> QED
    BY <2>1 DEF ReadOf
<1>3. 1 .. 0 = {} /\ DOMAIN <<>> = {}
  OBVIOUS
<1> QED
  BY <1>1, <1>2, <1>3 DEF TokensOf

LEMMA InitStream == ASSUME Init PROVE Stream
<1> SUFFICES ASSUME NEW c \in Calls PROVE StreamOf(c)
  BY DEF Stream
<1>1. tokenStream[c] = <<>> /\ node[c] = 1 /\ nextWord[c] = 1 /\ postingSize[c] = 0 /\ taken[c] = 0
  BY DEF Init
<1>2. WordsUpTo(c, 0) = 0
  <2>1. 1 .. 0 = {}
    OBVIOUS
  <2> QED
    BY <2>1, SumOfNone DEF WordsUpTo
<1>3. WordsUpTo(c, 1 - 1) + 1 - 1 = 0 /\ Len(<<>>) = 0
  BY <1>2
<1> QED
  BY <1>1, <1>3 DEF StreamOf

LEMMA InitPostings == ASSUME Init PROVE Postings
<1> SUFFICES ASSUME NEW c \in Calls PROVE PostingsOf(c)
  BY DEF Postings
<1>1. termToPostingMap[c] = EmptyMap /\ taken[c] = 0 /\ pc[c] = "parse" /\ blocks = <<>>
  BY DEF Init
<1>2. \A t, d : Count(ListOf(EmptyMap, t), d) = 0
  BY EmptyMapIs, CountEmpty
<1>3. \A t, d : AllPosts(blocks, t, d) = 0 /\ AllLens(blocks, d) = 0
  <2>1. DOMAIN blocks = {}
    BY <1>1
  <2> QED
    BY <2>1, SumOfNone DEF AllPosts, PostsIn, AllLens
<1>4. \A x : Cardinality(TakenOf(tokenStream[c], taken[c], x)) = 0
  <2>1. \A x : TakenOf(tokenStream[c], taken[c], x) = {}
    BY <1>1 DEF TakenOf
  <2> QED
    BY <2>1, FS_EmptySet
<1>5. \A t, d : Open(c, t, d) = 0
  BY <1>1, <1>2 DEF Open
<1> QED
  BY <1>1, <1>2, <1>3, <1>4, <1>5 DEF PostingsOf

LEMMA InitAll == Init => IInv
<1> SUFFICES ASSUME Init PROVE IInv
  OBVIOUS
<1>1. Merged
  BY DEF Init, Merged
<1> QED
  BY <1>1, ShapeInit, InitTokens, InitStream, InitPostings DEF IInv

LEMMA IInvNext == IInv /\ [Next]_vars => IInv'
BY ShapeNext, TokensNext, StreamNext, PostingsNext, MergedNext DEF IInv

LEMMA IInvAlways == Spec => []IInv
BY InitAll, IInvNext, PTL DEF Spec

\* Merge appends a term at most once, in ascending order, however many blocks
\* have it.
THEOREM EachTermOnceAlways == Spec => []EachTermOnce
<1>1. IInv => EachTermOnce
  <2> SUFFICES ASSUME IInv PROVE EachTermOnce
    OBVIOUS
  <2>1. DOMAIN mergedIndex = 1 .. Len(mergedIndex)
    BY SeqParts DEF IInv, Shape, MergeShape
  <2>2. \A i, j \in DOMAIN mergedIndex : i < j => mergedIndex[i].term < mergedIndex[j].term
    BY DEF IInv, Merged
  <2> QED
    BY <2>1, <2>2 DEF EachTermOnce
<1> QED
  BY <1>1, IInvAlways, PTL

\* What a document is posted for a word, in terms of the blocks.
LEMMA PostedIs ==
  ASSUME Shape, Merged, NEW word \in Words, NEW d \in DocIDs
  PROVE  IF word \in DOMAIN StrToID /\ StrToID[word] \in TermsIn(mergedIndex)
         THEN Posted(word, d) =
                PostsIn(blocks, BlocksWith(cursor, blocks, StrToID[word]), StrToID[word], d)
         ELSE Posted(word, d) = 0
<1> DEFINE lists == {e \in Range(mergedIndex) : word \in DOMAIN StrToID /\ e.term = StrToID[word]}
           e == CHOOSE e \in lists : TRUE
<1>1. /\ lists = {} => Posted(word, d) = 0
      /\ lists # {} => Posted(word, d) = Count(e.postings, d)
  BY DEF Posted, Count, Where
<1>2. \A i \in DOMAIN mergedIndex : mergedIndex[i] \in Range(mergedIndex)
  BY DEF Range
<1>3. CASE word \in DOMAIN StrToID /\ StrToID[word] \in TermsIn(mergedIndex)
  <2>1. lists # {}
    BY <1>2, <1>3 DEF TermsIn
  <2>2. e \in lists
    BY <2>1
  <2> HIDE DEF e
  <2>3. e \in Range(mergedIndex) /\ e.term = StrToID[word]
    BY <2>2
  <2>4. PICK i \in DOMAIN mergedIndex : mergedIndex[i] = e
    BY <2>3 DEF Range
  <2>5. Count(e.postings, d) = PostsIn(blocks, BlocksWith(cursor, blocks, StrToID[word]), StrToID[word], d)
    BY <2>3, <2>4 DEF Merged
  <2> QED
    BY <1>1, <1>3, <2>1, <2>5
<1>4. CASE ~ (word \in DOMAIN StrToID /\ StrToID[word] \in TermsIn(mergedIndex))
  <2>1. lists = {}
    BY <1>4 DEF TermsIn, Range
  <2> QED
    BY <1>1, <1>4, <2>1
<1> QED
  BY <1>3, <1>4

\* What a call has taken of a word is no more than its document has, and all of
\* it once the call has returned.
LEMMA TakenIs ==
  ASSUME IInv, NEW c \in Calls, NEW j \in DOMAIN Batches[c], NEW word \in DOMAIN StrToID
  PROVE  LET taken_ == Cardinality(TakenOf(tokenStream[c], taken[c], <<StrToID[word], Batches[c][j].id>>))
         IN  /\ taken_ \in Nat /\ Occurrences(word, Batches[c][j]) \in Nat
             /\ taken_ <= Occurrences(word, Batches[c][j])
             /\ pc[c] = "done" => taken_ = Occurrences(word, Batches[c][j])
<1> DEFINE x == <<StrToID[word], Batches[c][j].id>>
           s == tokenStream[c]
           n == taken[c]
           words == WordsIn(c, j)
           Occ == {i \in DOMAIN words : words[i] = word}
           Read == WordsRead(c, j, node[c], nextWord[c], word)
<1>1. /\ s \in Seq(TermIDs \X DocIDs) /\ n \in Nat /\ CallControl(c) /\ TokensOf(c)
      /\ node[c] \in Nat \ {0} /\ nextWord[c] \in Nat \ {0}
      /\ j \in Nat /\ Len(Batches[c]) \in Nat /\ j <= Len(Batches[c])
  BY CallIs DEF IInv, Shape, Tokens
<1>2. words \in Seq(Words) /\ Len(words) \in Nat /\ DOMAIN words = 1 .. Len(words)
  BY BatchParts
<1>3. Occurrences(word, Batches[c][j]) = Cardinality(Occ)
  BY DEF Occurrences, WordsIn
<1> HIDE DEF x, s, n, words
<1>4. n \in Nat /\ Len(s) \in Nat /\ DOMAIN s = 1 .. Len(s) /\ n <= Len(s)
  BY <1>1, SeqParts DEF CallControl, s, n
<1>5. /\ TakenOf(s, n, x) \subseteq Where(s, x)
      /\ n = Len(s) => TakenOf(s, n, x) = Where(s, x)
  <2>1. \A p, q \in Nat : p <= q => 1 .. p \subseteq 1 .. q
    OBVIOUS
  <2>2. 1 .. n \subseteq DOMAIN s
    BY <1>4, <2>1
  <2>3. n = Len(s) => 1 .. n = DOMAIN s
    BY <1>4
  <2> QED
    BY <2>2, <2>3 DEF TakenOf, Where
<1>6. ReadOf(c, j, node[c], nextWord[c]) <= Len(words) /\ ReadOf(c, j, node[c], nextWord[c]) \in Nat
  <2>1. j = node[c] => nextWord[c] - 1 <= Len(words) /\ nextWord[c] - 1 \in Nat
    BY <1>1, <1>2 DEF CallControl, words
  <2> QED
    BY <1>2, <2>1 DEF ReadOf, words
<1>7. pc[c] = "done" => ReadOf(c, j, node[c], nextWord[c]) = Len(words) /\ n = Len(s)
  BY <1>1 DEF CallControl, ReadOf, words, s, n
<1>8. /\ Read \subseteq Occ
      /\ pc[c] = "done" => Read = Occ
  BY <1>2, <1>6, <1>7 DEF WordsRead, words
<1>9. IsFiniteSet(Occ) /\ Cardinality(Occ) \in Nat
  <2>1. Occ \subseteq 1 .. Len(words)
    BY <1>2
  <2>2. IsFiniteSet(1 .. Len(words))
    BY <1>2, FirstCount
  <2> QED
    BY <2>1, <2>2, FS_Subset, FS_CardinalityType
<1> HIDE DEF Occ, Read
<1>10. Cardinality(Read) <= Cardinality(Occ) /\ Cardinality(Read) \in Nat
  BY <1>8, <1>9, FS_Subset, FS_CardinalityType
<1>11. Cardinality(Where(s, x)) = Cardinality(Read)
  BY <1>1 DEF TokensOf, Count, x, s, Read
<1>12. IsFiniteSet(Where(s, x))
  <2> DEFINE S == TermIDs \X DocIDs
  <2>1. s \in Seq(S)
    BY <1>1 DEF s
  <2> HIDE DEF S
  <2> QED
    BY <2>1, CountType
<1>13. Cardinality(TakenOf(s, n, x)) <= Cardinality(Where(s, x)) /\ Cardinality(TakenOf(s, n, x)) \in Nat
  BY <1>5, <1>12, FS_Subset, FS_CardinalityType
<1>14. /\ Cardinality(TakenOf(s, n, x)) <= Cardinality(Occ)
       /\ pc[c] = "done" => Cardinality(TakenOf(s, n, x)) = Cardinality(Occ)
  BY <1>5, <1>7, <1>8, <1>9, <1>10, <1>11, <1>13
<1> QED
  BY <1>3, <1>9, <1>13, <1>14 DEF x, s, n

\* The postings of some blocks are no more than those of all.
LEMMA SomePosts ==
  ASSUME NEW bs \in Seq(Blocks), NEW B \in SUBSET DOMAIN bs, NEW t, NEW d
  PROVE  /\ PostsIn(bs, B, t, d) \in Nat /\ AllPosts(bs, t, d) \in Nat
         /\ PostsIn(bs, B, t, d) <= AllPosts(bs, t, d)
         /\ (\A b \in DOMAIN bs \ B : Count(ListOf(bs[b].postings, t), d) = 0) =>
              PostsIn(bs, B, t, d) = AllPosts(bs, t, d)
<1> DEFINE f == CountsOf(bs, t, d)
           D == DOMAIN bs
<1>1. IsFiniteSet(D) /\ \A b \in D : f[b] \in Nat /\ f[b] = Count(ListOf(bs[b].postings, t), d)
  BY CountsIs
<1> HIDE DEF f, D
<1>2. /\ SumFunctionOnSet(f, D) = SumFunctionOnSet(f, B) + SumFunctionOnSet(f, D \ B)
      /\ SumFunctionOnSet(f, D) \in Nat /\ SumFunctionOnSet(f, B) \in Nat
      /\ SumFunctionOnSet(f, D \ B) \in Nat
  <2>1. B \in SUBSET D
    BY DEF D
  <2>2. IsFiniteSet(D)
    BY <1>1
  <2>3. \A b \in D : f[b] \in Nat
    BY <1>1
  <2> QED
    BY <2>1, <2>2, <2>3, SumSplit
<1>3. ASSUME \A b \in D \ B : Count(ListOf(bs[b].postings, t), d) = 0
      PROVE  SumFunctionOnSet(f, D \ B) = 0
  <2>1. IsFiniteSet(D \ B)
    BY <1>1, FS_Subset
  <2>2. \A b \in D \ B : f[b] = 0
    BY <1>1, <1>3
  <2> QED
    BY <2>1, <2>2, SumOfZeros
<1>4. PostsIn(bs, B, t, d) = SumFunctionOnSet(f, B) /\ AllPosts(bs, t, d) = SumFunctionOnSet(f, D)
  BY DEF PostsIn, AllPosts, f, D
<1>5. \A p, q, r \in Nat : p = q + r => q <= p /\ (r = 0 => q = p)
  OBVIOUS
<1>6. /\ SumFunctionOnSet(f, B) <= SumFunctionOnSet(f, D)
      /\ SumFunctionOnSet(f, D \ B) = 0 => SumFunctionOnSet(f, B) = SumFunctionOnSet(f, D)
  BY <1>2, <1>5
<1> QED
  BY <1>2, <1>3, <1>4, <1>6 DEF D

LEMMA Bounded == IInv => NothingInvented
<1> SUFFICES ASSUME IInv, NEW word \in Words, NEW doc \in Docs
             PROVE  Posted(word, doc.id) <= Occurrences(word, doc)
  BY DEF NothingInvented
<1>1. PICK c \in Calls : doc \in DocsOf(c)
  BY DEF Docs
<1>2. PICK j \in DOMAIN Batches[c] : Batches[c][j] = doc
  BY <1>1, BatchParts
<1> DEFINE d == doc.id
<1>3. d \in IDsOf(c) /\ d \in DocIDs
  BY <1>2, BatchParts
<1>4. CASE word \in DOMAIN StrToID /\ StrToID[word] \in TermsIn(mergedIndex)
  <2> DEFINE t == StrToID[word]
             read == Cardinality(TakenOf(tokenStream[c], taken[c], <<t, d>>))
  <2>1. Posted(word, d) = PostsIn(blocks, BlocksWith(cursor, blocks, t), t, d)
    BY <1>3, <1>4, PostedIs DEF IInv
  <2>2. read \in Nat /\ read <= Occurrences(word, doc) /\ Occurrences(word, doc) \in Nat
    BY <1>2, <1>4, TakenIs
  <2>3. t \in TermIDs
    BY <1>4, NumberingIs DEF IInv, Shape, InvertShape
  <2> HIDE DEF t, read
  <2>4. blocks \in Seq(Blocks) /\ BlocksWith(cursor, blocks, t) \in SUBSET DOMAIN blocks
    <3>1. DOMAIN cursor \subseteq DOMAIN blocks
      BY DEF IInv, Shape, MergeShape, MergeControl
    <3> QED
      BY <3>1 DEF IInv, Shape, InvertShape, BlocksWith
  <2>5. /\ PostsIn(blocks, BlocksWith(cursor, blocks, t), t, d) <= AllPosts(blocks, t, d)
        /\ PostsIn(blocks, BlocksWith(cursor, blocks, t), t, d) \in Nat
        /\ AllPosts(blocks, t, d) \in Nat
    BY <2>4, SomePosts
  <2>6. AllPosts(blocks, t, d) + Open(c, t, d) <= read
    BY <1>3, <2>3 DEF IInv, Postings, PostingsOf, read
  <2>7. Open(c, t, d) \in Nat
    <3>1. ListOf(termToPostingMap[c], t) \in Seq(DocIDs)
      BY CallIs, ListIs DEF IInv, Shape
    <3> QED
      BY <3>1, CountType DEF Open
  <2> QED
    BY <2>1, <2>2, <2>5, <2>6, <2>7
<1>5. CASE ~ (word \in DOMAIN StrToID /\ StrToID[word] \in TermsIn(mergedIndex))
  <2>1. Posted(word, d) = 0
    BY <1>3, <1>5, PostedIs DEF IInv
  <2>2. Occurrences(word, doc) \in Nat
    <3>1. doc.words \in Seq(Words)
      BY <1>2, BatchParts DEF WordsIn
    <3>2. Occurrences(word, doc) = Count(doc.words, word)
      BY DEF Occurrences, Count, Where
    <3> QED
      BY <3>1, <3>2, CountType
  <2> QED
    BY <2>1, <2>2
<1> QED
  BY <1>4, <1>5

\* Neither the early blocks, nor two calls that meet the same word, nor the
\* merge of posting lists make up a posting: no document is posted for a word
\* more often than it has the word (SpimiInvert, Merge).
THEOREM NothingInventedAlways == Spec => []NothingInvented
BY IInvAlways, Bounded, PTL

\* Once Merge is done the blocks that have a term are those of which it has
\* been merged.
LEMMA AllMerged ==
  ASSUME IInv, merging = "done", NEW t, NEW d
  PROVE  /\ PostsIn(blocks, BlocksWith(cursor, blocks, t), t, d) = AllPosts(blocks, t, d)
         /\ t \notin TermsIn(mergedIndex) => AllPosts(blocks, t, d) = 0
<1> DEFINE B == BlocksWith(cursor, blocks, t)
<1>1. /\ blocks \in Seq(Blocks) /\ DOMAIN cursor = DOMAIN blocks /\ cursor \in Seq(Nat \ {0})
      /\ InHeap = {} /\ \A b \in DOMAIN blocks : InOrder(blocks[b])
  BY DEF IInv, Shape, InvertShape, MergeShape, MergeControl, Merged
<1>2. B \in SUBSET DOMAIN blocks
  BY <1>1 DEF BlocksWith
<1>3. ASSUME NEW b \in DOMAIN blocks
      PROVE  /\ cursor[b] \in Nat /\ Len(blocks[b].terms) \in Nat /\ cursor[b] > Len(blocks[b].terms)
             /\ DOMAIN blocks[b].terms = 1 .. Len(blocks[b].terms)
  <2>1. blocks[b] \in Blocks /\ cursor[b] \in Nat
    BY <1>1, SeqParts
  <2>2. blocks[b].terms \in Seq(TermIDs)
    BY <2>1 DEF Blocks
  <2>3. ~ (cursor[b] <= Len(blocks[b].terms))
    BY <1>1 DEF InHeap
  <2> QED
    BY <2>1, <2>2, <2>3, SeqParts
<1>4. ASSUME NEW b \in DOMAIN blocks, NEW k \in DOMAIN blocks[b].terms, blocks[b].terms[k] = t
      PROVE  b \in B /\ t \in TermsIn(mergedIndex)
  <2>1. k \in 1 .. cursor[b] - 1 /\ k < cursor[b]
    BY <1>3
  <2>2. t \in Seen
    BY <1>1, <1>4, <2>1 DEF IInv, Merged
  <2> QED
    BY <1>1, <1>4, <2>1, <2>2 DEF BlocksWith, Seen
<1>5. ASSUME NEW b \in DOMAIN blocks, t \notin Range(blocks[b].terms)
      PROVE  Count(ListOf(blocks[b].postings, t), d) = 0
  <2>1. ListOf(blocks[b].postings, t) = <<>>
    BY <1>1, <1>5 DEF InOrder, ListOf
  <2> QED
    BY <2>1, CountEmpty
<1>6. \A b \in DOMAIN blocks \ B : Count(ListOf(blocks[b].postings, t), d) = 0
  BY <1>4, <1>5 DEF Range
<1> HIDE DEF B
<1>7. PostsIn(blocks, B, t, d) = AllPosts(blocks, t, d)
  BY <1>1, <1>2, <1>6, SomePosts
<1>8. ASSUME t \notin TermsIn(mergedIndex)
      PROVE  AllPosts(blocks, t, d) = 0
  <2>1. \A b \in DOMAIN blocks : Count(ListOf(blocks[b].postings, t), d) = 0
    BY <1>4, <1>5, <1>8 DEF Range
  <2>2. \A b \in DOMAIN blocks : CountsOf(blocks, t, d)[b] = 0
    BY <2>1 DEF CountsOf
  <2>3. IsFiniteSet(DOMAIN blocks)
    BY <1>1, CountsIs
  <2> QED
    BY <2>2, <2>3, SumOfZeros DEF AllPosts, PostsIn
<1> QED
  BY <1>7, <1>8 DEF B

LEMMA Complete == IInv => InvertedWithoutLoss
<1> SUFFICES ASSUME IInv, merging = "done", NEW c \in Calls, FitsOneBlock(c), NEW doc \in DocsOf(c)
             PROVE  /\ \A word \in Words : Posted(word, doc.id) = Occurrences(word, doc)
                    /\ FieldLength(doc.id) = Len(doc.words)
  BY DEF InvertedWithoutLoss
<1>1. PICK j \in DOMAIN Batches[c] : Batches[c][j] = doc
  BY BatchParts
<1> DEFINE d == doc.id
<1>2. d \in IDsOf(c) /\ d \in DocIDs /\ WordsIn(c, j) = doc.words
  BY <1>1, BatchParts DEF WordsIn
<1>3. pc[c] = "done"
  BY DEF IInv, Shape, MergeShape, MergeControl
<1>4. ASSUME NEW word \in Words
      PROVE  Posted(word, d) = Occurrences(word, doc)
  <2>1. CASE word \in DOMAIN StrToID
    <3> DEFINE t == StrToID[word]
               read == Cardinality(TakenOf(tokenStream[c], taken[c], <<t, d>>))
    <3>1. read = Occurrences(word, doc) /\ read \in Nat
      BY <1>1, <1>3, <2>1, TakenIs
    <3>2. t \in TermIDs
      BY <2>1, NumberingIs DEF IInv, Shape, InvertShape
    <3>3. IF t \in TermsIn(mergedIndex)
          THEN Posted(word, d) = PostsIn(blocks, BlocksWith(cursor, blocks, t), t, d)
          ELSE Posted(word, d) = 0
      BY <1>2, <2>1, PostedIs DEF IInv
    <3> HIDE DEF t, read
    <3>4. AllPosts(blocks, t, d) + 0 = read
      BY <1>2, <1>3, <3>2 DEF IInv, Postings, PostingsOf, Open, read
    <3>5. AllPosts(blocks, t, d) \in Nat
      BY CountsIs DEF IInv, Shape, InvertShape
    <3>6. /\ PostsIn(blocks, BlocksWith(cursor, blocks, t), t, d) = AllPosts(blocks, t, d)
          /\ t \notin TermsIn(mergedIndex) => AllPosts(blocks, t, d) = 0
      BY AllMerged
    <3> QED
      BY <3>1, <3>3, <3>4, <3>5, <3>6
  <2>2. CASE word \notin DOMAIN StrToID
    <3>1. Posted(word, d) = 0
      BY <1>2, <2>2, PostedIs DEF IInv
    <3>2. CallControl(c) /\ node[c] \in Nat /\ j \in Nat /\ j <= Len(Batches[c]) /\ Len(Batches[c]) \in Nat
      BY CallIs DEF IInv, Shape
    <3>3. ReadOf(c, j, node[c], nextWord[c]) = Len(WordsIn(c, j))
      BY <1>3, <3>2 DEF CallControl, ReadOf
    <3>4. DOMAIN WordsIn(c, j) = 1 .. Len(WordsIn(c, j))
      BY BatchParts, SeqParts
    <3>5. \A i \in DOMAIN WordsIn(c, j) : WordsIn(c, j)[i] \in DOMAIN StrToID
      BY <3>3, <3>4 DEF IInv, Tokens, TokensOf
    <3>6. {i \in DOMAIN doc.words : doc.words[i] = word} = {}
      BY <1>2, <2>2, <3>5
    <3> QED
      BY <3>1, <3>6, FS_EmptySet DEF Occurrences
  <2> QED
    BY <2>1, <2>2
<1>5. FieldLength(d) = Len(doc.words)
  <2>1. AllLens(blocks, Batches[c][j].id) = Len(WordsIn(c, j))
    BY <1>3 DEF IInv, Postings, PostingsOf
  <2>2. FieldLength(d) = AllLens(blocks, d)
    BY DEF FieldLength, AllLens, LensOf, SumFunction
  <2> QED
    BY <1>1, <1>2, <2>1, <2>2
<1> QED
  BY <1>4, <1>5

\* A batch that never fills the posting map is inverted without loss, whatever
\* the other calls do: Merge has each of its documents for each word as often as
\* the document has the word, and the right field length.
THEOREM InvertedWithoutLossAlways == Spec => []InvertedWithoutLoss
BY IInvAlways, Complete, PTL

==============================================================================
