-------------------------- MODULE EvaluationProofs ---------------------------
(***************************************************************************)
(* For every dataset, split, limit, batch size and network: what is scored *)
(* are samples of the split, each once, and all that the limit and the     *)
(* readable files allow; and the greedy loop over the objects, regular     *)
(* ones first, gives each detection the best object that the better        *)
(* scored detections left. A dataset holds what its files say, each object *)
(* on its image and under its class. The precision at a recall is the best *)
(* of all cuts that reach it, and the report is the same for every order   *)
(* of the images when no two detections have the same score.               *)
(***************************************************************************)
EXTENDS Evaluation, FiniteSetTheorems, SequenceTheorems, WellFoundedInduction, TLAPS

-----------------------------------------------------------------------------
(* Ranks. *)

\* L orders the elements of I, and this is how many are not after i.
IsOrder(L, I) ==
  /\ \A i \in I : <<i, i>> \in L
  /\ \A i, j \in I : <<i, j>> \in L \/ <<j, i>> \in L
  /\ \A i, j \in I : <<i, j>> \in L /\ <<j, i>> \in L => i = j
  /\ \A i, j, k \in I : <<i, j>> \in L /\ <<j, k>> \in L => <<i, k>> \in L

\* In a total order of finitely many, each rank is that of exactly one.
LEMMA RanksOnce ==
  ASSUME NEW I, IsFiniteSet(I), NEW L, IsOrder(L, I)
  PROVE  /\ Cardinality(I) \in Nat
         /\ \A i \in I : Cardinality(UpTo(L, I, i)) \in 1 .. Cardinality(I)
         /\ \A i, j \in I : Cardinality(UpTo(L, I, i)) = Cardinality(UpTo(L, I, j)) => i = j
         /\ \A k \in 1 .. Cardinality(I) : \E i \in I : Cardinality(UpTo(L, I, i)) = k
  <1>1. Cardinality(I) \in Nat
    BY FS_CardinalityType
  <1>2. ASSUME NEW i \in I PROVE IsFiniteSet(UpTo(L, I, i)) /\ Cardinality(UpTo(L, I, i)) \in 1 .. Cardinality(I)
    <2>1. UpTo(L, I, i) \in SUBSET I
      BY DEF UpTo
    <2>2. IsFiniteSet(UpTo(L, I, i)) /\ Cardinality(UpTo(L, I, i)) <= Cardinality(I)
      BY <2>1, FS_Subset
    <2>3. i \in UpTo(L, I, i)
      BY DEF UpTo, IsOrder
    <2>4. Cardinality(UpTo(L, I, i)) # 0 /\ Cardinality(UpTo(L, I, i)) \in Nat
      BY <2>2, <2>3, FS_EmptySet, FS_CardinalityType
    <2> QED
      BY <1>1, <2>2, <2>4
  <1>3. ASSUME NEW i \in I, NEW j \in I, <<i, j>> \in L,
               Cardinality(UpTo(L, I, i)) = Cardinality(UpTo(L, I, j))
        PROVE  i = j
    <2>1. UpTo(L, I, i) \in SUBSET UpTo(L, I, j)
      BY <1>3 DEF UpTo, IsOrder
    <2>2. UpTo(L, I, i) = UpTo(L, I, j)
      BY <1>2, <1>3, <2>1, FS_Subset
    <2>3. j \in UpTo(L, I, i)
      BY <2>2 DEF UpTo, IsOrder
    <2> QED
      BY <1>3, <2>3 DEF UpTo, IsOrder
  <1>4. \A i, j \in I : Cardinality(UpTo(L, I, i)) = Cardinality(UpTo(L, I, j)) => i = j
    BY <1>3 DEF IsOrder
  <1> DEFINE R == [i \in I |-> Cardinality(UpTo(L, I, i))]
             T == 1 .. Cardinality(I)
  <1>5. R \in Injection(I, T)
    BY <1>2, <1>4 DEF Injection, IsInjective
  <1>6. IsFiniteSet(T) /\ Cardinality(I) = Cardinality(T)
    BY <1>1, FS_Interval
  <1>7. R \in Surjection(I, T)
    <2> HIDE DEF R, T
    <2> QED
      BY <1>5, <1>6, FS_Injection
  <1>8. \A k \in T : \E i \in I : R[i] = k
    <2> HIDE DEF R, T
    <2> QED
      BY <1>7 DEF Surjection
  <1> QED
    BY <1>1, <1>2, <1>4, <1>8

\* So the ranks list the elements, each once.
LEMMA RankedIsPlace ==
  ASSUME NEW I, IsFiniteSet(I), NEW L, IsOrder(L, I)
  PROVE  /\ \A k \in 1 .. Cardinality(I) : Ranked(L, I, k) \in I
         /\ \A k, l \in 1 .. Cardinality(I) : Ranked(L, I, k) = Ranked(L, I, l) => k = l
         /\ \A i \in I : \E k \in 1 .. Cardinality(I) : Ranked(L, I, k) = i
  <1>1. ASSUME NEW k \in 1 .. Cardinality(I)
        PROVE  Ranked(L, I, k) \in I /\ Cardinality(UpTo(L, I, Ranked(L, I, k))) = k
    <2>1. \E i \in I : Cardinality(UpTo(L, I, i)) = k
      BY RanksOnce
    <2> QED
      BY <2>1 DEF Ranked
  <1>2. ASSUME NEW i \in I PROVE \E k \in 1 .. Cardinality(I) : Ranked(L, I, k) = i
    <2>1. PICK k \in 1 .. Cardinality(I) : k = Cardinality(UpTo(L, I, i))
      BY RanksOnce
    <2>2. Ranked(L, I, k) \in I /\ Cardinality(UpTo(L, I, Ranked(L, I, k))) = k
      BY <1>1
    <2>3. Ranked(L, I, k) = i
      BY <2>1, <2>2, RanksOnce
    <2> QED
      BY <2>3
  <1>3. \A k, l \in 1 .. Cardinality(I) : Ranked(L, I, k) = Ranked(L, I, l) => k = l
    BY <1>1
  <1> QED
    BY <1>1, <1>2, <1>3

\* p picks each of the places I once, and a is s at these.
Picks(a, s, I, p) ==
  /\ a = [k \in 1 .. Cardinality(I) |-> s[p[k]]]
  /\ p \in [1 .. Cardinality(I) -> I]
  /\ \A k, l \in 1 .. Cardinality(I) : p[k] = p[l] => k = l
  /\ \A i \in I : \E k \in 1 .. Cardinality(I) : p[k] = i

\* A selection has each of the chosen places once.
LEMMA AmongPicks ==
  ASSUME NEW s, NEW n \in Nat, NEW I \in SUBSET (1 .. n)
  PROVE  IsFiniteSet(I) /\ Cardinality(I) \in Nat /\ \E p : Picks(Among(s, I), s, I, p)
  <1> DEFINE L == {q \in I \X I : q[1] <= q[2]}
  <1>1. IsFiniteSet(I)
    <2>1. IsFiniteSet(1 .. n)
      BY FS_Interval
    <2> QED
      BY <2>1, FS_Subset
  <1>2. \A i, j \in I : <<i, j>> \in L <=> i <= j
    OBVIOUS
  <1>3. \A j \in I : UpTo(L, I, j) = {i \in I : i <= j}
    BY DEF UpTo
  <1>4. IsOrder(L, I)
    <2> HIDE DEF L
    <2> QED
      BY <1>2 DEF IsOrder
  <1> HIDE DEF L
  <1> DEFINE p == [k \in 1 .. Cardinality(I) |-> Ranked(L, I, k)]
  <1>5. \A k \in 1 .. Cardinality(I) :
          Ranked(L, I, k) = Nth(I, k)
    BY <1>3 DEF Ranked, Nth
  <1>6. Among(s, I) = [k \in 1 .. Cardinality(I) |-> s[Ranked(L, I, k)]]
    BY <1>5 DEF Among
  <1>7. Picks(Among(s, I), s, I, p)
    BY <1>1, <1>4, <1>6, RankedIsPlace DEF Picks
  <1> QED
    BY <1>1, <1>7, FS_CardinalityType

\* A sorted sequence has each place once, when the keys can be compared.
LEMMA SortedPicks ==
  ASSUME NEW s, NEW n \in Nat, DOMAIN s = 1 .. n, NEW key, \A i \in 1 .. n : key[i] \in Int
  PROVE  \E p : Picks(SortedBy(s, key), s, 1 .. n, p)
  <1> DEFINE I == 1 .. n
             L == {q \in I \X I : key[q[1]] < key[q[2]] \/ (key[q[1]] = key[q[2]] /\ q[1] <= q[2])}
  <1>1. IsFiniteSet(I) /\ Cardinality(I) = n
    BY FS_Interval
  <1>2. \A i, j \in I : <<i, j>> \in L <=> key[i] < key[j] \/ (key[i] = key[j] /\ i <= j)
    OBVIOUS
  <1>3. \A j \in I : UpTo(L, I, j) = {i \in I : key[i] < key[j] \/ (key[i] = key[j] /\ i <= j)}
    BY <1>2 DEF UpTo
  <1>4. IsOrder(L, I)
    <2>1. \A i \in I : key[i] \in Int /\ i \in Int
      OBVIOUS
    <2> HIDE DEF L, I
    <2> QED
      BY <1>2, <2>1 DEF IsOrder
  <1>5. \A k \in I :
          Ranked(L, I, k) = NthBy(key, I, k)
    <2> HIDE DEF L, I
    <2> QED
      BY <1>3 DEF Ranked, NthBy
  <1> HIDE DEF L
  <1> DEFINE p == [k \in 1 .. n |-> Ranked(L, I, k)]
  <1>6. SortedBy(s, key) = [k \in 1 .. n |-> s[Ranked(L, I, k)]]
    BY <1>5 DEF SortedBy
  <1>7. Picks(SortedBy(s, key), s, I, p)
    <2>1. Cardinality(I) = n
      BY <1>1
    <2> HIDE DEF I
    <2> QED
      BY <1>1, <1>4, <1>6, <2>1, RankedIsPlace DEF Picks
  <1> QED
    BY <1>7

-----------------------------------------------------------------------------
(* Lists. *)

\* A function from 1 .. n is a list of its own values.
LEMMA ListOf ==
  ASSUME NEW n \in Nat, NEW s, DOMAIN s = 1 .. n, s = [k \in 1 .. n |-> s[k]]
  PROVE  IsList(s) /\ Len(s) = n
  <1> DEFINE T == Range(s)
  <1>1. \A k \in 1 .. n : s[k] \in T
    BY DEF Range
  <1> HIDE DEF T
  <1>2. s \in [1 .. n -> T]
    BY <1>1
  <1>3. s \in Seq(T) /\ Len(s) = n
    BY <1>2
  <1> QED
    BY <1>3 DEF IsList, T

\* And a list is a function from 1 .. Len(s).
LEMMA ListLen ==
  ASSUME NEW s, IsList(s)
  PROVE  /\ Len(s) \in Nat /\ DOMAIN s = 1 .. Len(s)
         /\ s = [k \in 1 .. Len(s) |-> s[k]]
  <1> DEFINE T == Range(s)
  <1>1. s \in Seq(T)
    BY DEF IsList
  <1> HIDE DEF T
  <1> QED
    BY <1>1

\* A selection is a list of elements of the sequence.
LEMMA AmongList ==
  ASSUME NEW s, IsList(s), NEW I \in SUBSET DOMAIN s
  PROVE  /\ IsList(Among(s, I)) /\ Len(Among(s, I)) = Cardinality(I)
         /\ \A k \in DOMAIN Among(s, I) : \E i \in I : Among(s, I)[k] = s[i]
  <1>1. PICK n \in Nat : DOMAIN s = 1 .. n
    BY ListLen
  <1>2. Cardinality(I) \in Nat /\ \E p : Picks(Among(s, I), s, I, p)
    BY <1>1, AmongPicks
  <1>3. PICK p : Picks(Among(s, I), s, I, p)
    BY <1>2
  <1>4. PICK a : a = Among(s, I)
    OBVIOUS
  <1>5. PICK m \in Nat : m = Cardinality(I)
    BY <1>2
  <1>6. a = [k \in 1 .. m |-> s[p[k]]] /\ \A k \in 1 .. m : p[k] \in I
    BY <1>3, <1>4, <1>5 DEF Picks
  <1>7. DOMAIN a = 1 .. m /\ a = [k \in 1 .. m |-> a[k]]
    BY <1>6
  <1>8. IsList(a) /\ Len(a) = m
    BY <1>7, ListOf
  <1> QED
    BY <1>4, <1>5, <1>6, <1>7, <1>8

\* So is a sorted sequence.
LEMMA SortedList ==
  ASSUME NEW s, IsList(s), NEW key, \A i \in DOMAIN s : key[i] \in Int
  PROVE  /\ IsList(SortedBy(s, key)) /\ Len(SortedBy(s, key)) = Len(s)
         /\ \A k \in DOMAIN SortedBy(s, key) : \E i \in DOMAIN s : SortedBy(s, key)[k] = s[i]
  <1>1. PICK n \in Nat : n = Len(s) /\ DOMAIN s = 1 .. n
    BY ListLen
  <1>2. PICK I : I = 1 .. n
    OBVIOUS
  <1>3. PICK p : Picks(SortedBy(s, key), s, I, p)
    BY <1>1, <1>2, SortedPicks
  <1>4. Cardinality(I) = n
    <2>1. 1 \in Int /\ n \in Int
      OBVIOUS
    <2>2. Cardinality(1 .. n) = IF 1 > n THEN 0 ELSE n - 1 + 1
      BY <2>1, FS_Interval
    <2> QED
      BY <1>2, <2>2
  <1>5. PICK a : a = SortedBy(s, key)
    OBVIOUS
  <1>6. a = [k \in 1 .. n |-> s[p[k]]] /\ \A k \in 1 .. n : p[k] \in I
    BY <1>3, <1>4, <1>5 DEF Picks
  <1>7. DOMAIN a = 1 .. n /\ a = [k \in 1 .. n |-> a[k]]
    BY <1>6
  <1>8. IsList(a) /\ Len(a) = n
    BY <1>7, ListOf
  <1> QED
    BY <1>1, <1>2, <1>5, <1>6, <1>7, <1>8

\* A concatenation has the elements of both, where they come.
LEMMA JoinedList ==
  ASSUME NEW s, NEW t, IsList(s), IsList(t)
  PROVE  /\ IsList(s \o t) /\ Len(s \o t) = Len(s) + Len(t)
         /\ \A k \in 1 .. Len(s) : (s \o t)[k] = s[k]
         /\ \A k \in 1 .. Len(t) : (s \o t)[Len(s) + k] = t[k]
         /\ \A k \in DOMAIN (s \o t) : \/ k \in DOMAIN s /\ (s \o t)[k] = s[k]
                                       \/ k - Len(s) \in DOMAIN t /\ (s \o t)[k] = t[k - Len(s)]
  <1> DEFINE T == Range(s) \cup Range(t)
  <1>1. s \in Seq(Range(s)) /\ t \in Seq(Range(t))
    BY DEF IsList
  <1>2. PICK n \in Nat : n = Len(s) /\ DOMAIN s = 1 .. n
    BY ListLen
  <1>3. PICK m \in Nat : m = Len(t) /\ DOMAIN t = 1 .. m
    BY ListLen
  <1>4. s \in [1 .. n -> T] /\ t \in [1 .. m -> T]
    BY <1>1, <1>2, <1>3, ListLen DEF Range
  <1> HIDE DEF T
  <1>5. s \in Seq(T) /\ t \in Seq(T)
    BY <1>4
  <1>6. PICK u : u = s \o t
    OBVIOUS
  <1>7. /\ u \in Seq(T) /\ Len(u) = n + m
        /\ \A k \in 1 .. n + m : u[k] = IF k <= n THEN s[k] ELSE t[k - n]
    BY <1>2, <1>3, <1>5, <1>6, ConcatProperties
  <1>7a. DOMAIN u = 1 .. n + m /\ u = [k \in 1 .. n + m |-> u[k]]
    BY <1>7
  <1>8. (\A k \in 1 .. n : u[k] = s[k]) /\ \A k \in 1 .. m : u[n + k] = t[k]
    <2>1. \A k \in 1 .. n : u[k] = s[k]
      BY <1>7
    <2>2. ASSUME NEW k \in 1 .. m PROVE u[n + k] = t[k]
      <3>1. n + k \in 1 .. n + m /\ ~(n + k <= n) /\ (n + k) - n = k
        OBVIOUS
      <3> QED
        BY <1>7, <3>1
    <2> QED
      BY <2>1, <2>2
  <1>9. n + m \in Nat
    OBVIOUS
  <1>10. IsList(u)
    BY <1>7a, <1>9, ListOf
  <1>11. ASSUME NEW k \in 1 .. n + m
         PROVE  (k \in 1 .. n /\ u[k] = s[k]) \/ (k - n \in 1 .. m /\ u[k] = t[k - n])
    <2>1. CASE k <= n
      BY <1>8, <2>1
    <2>2. CASE k > n
      <3>1. PICK j \in 1 .. m : k = n + j
        BY <2>2
      <3>2. k - n = j
        BY <3>1
      <3> QED
        BY <1>8, <3>1, <3>2
    <2> QED
      BY <2>1, <2>2
  <1> QED
    BY <1>2, <1>3, <1>6, <1>7, <1>7a, <1>8, <1>10, <1>11

\* The empty list.
LEMMA EmptyList == IsList(<<>>)
  <1>1. <<>> \in Seq({})
    OBVIOUS
  <1>2. Range(<<>>) = {}
    BY DEF Range
  <1> QED
    BY <1>1, <1>2 DEF IsList

-----------------------------------------------------------------------------
(* What a dataset that loads has. *)

Annotated(boxes) == IsList(boxes) /\ \A i \in DOMAIN boxes : boxes[i].obj \in Objects
GoodSamples(ss) == IsList(ss) /\ \A i \in DOMAIN ss : Annotated(ss[i].boxes)

\* The boxes of an image of an annotation file.
LEMMA CocoBoxesGood ==
  ASSUME NEW doc, IsList(doc.annotations),
         \A i \in DOMAIN doc.annotations : doc.annotations[i].obj \in Objects,
         NEW cats, NEW k, NEW raw
  PROVE  Annotated(CocoBoxes(doc, cats, k, raw))
  <1>1. PICK all : all = doc.annotations
    OBVIOUS
  <1>2. PICK I \in SUBSET DOMAIN all :
          I = {i \in DOMAIN all : Usable(doc, all[i]) /\ SampleOf(doc.images, all[i].image) = k}
    OBVIOUS
  <1>3. PICK mine : mine = Among(all, I)
    OBVIOUS
  <1>4. IsList(mine) /\ \A j \in DOMAIN mine : \E i \in I : mine[j] = all[i]
    BY <1>1, <1>3, AmongList
  <1>5. PICK n \in Nat : DOMAIN mine = 1 .. n
    BY <1>4, ListLen
  <1>6. PICK boxes : boxes = [i \in 1 .. n |-> CocoBox(cats, mine[i], raw)]
    OBVIOUS
  <1>7. boxes = CocoBoxes(doc, cats, k, raw)
    BY <1>1, <1>2, <1>3, <1>5, <1>6 DEF CocoBoxes
  <1>8. IsList(boxes)
    <2>1. DOMAIN boxes = 1 .. n /\ boxes = [i \in 1 .. n |-> boxes[i]]
      BY <1>6
    <2> QED
      BY <2>1, ListOf
  <1>9. \A i \in 1 .. n : boxes[i].obj = mine[i].obj
    BY <1>6 DEF CocoBox
  <1>10. \A i \in 1 .. n : boxes[i].obj \in Objects
    BY <1>1, <1>4, <1>5, <1>9
  <1>11. DOMAIN boxes = 1 .. n
    BY <1>6
  <1> QED
    BY <1>7, <1>8, <1>10, <1>11 DEF Annotated

\* The samples of an annotation file that loads.
LEMMA CocoSamplesGood ==
  ASSUME NEW c \in Cases, NEW doc \in CocoDocs(c.root), NEW split, NEW raw,
         NEW d, d = LoadCocoJson(doc, split, raw), d.ok
  PROVE  GoodSamples(d.samples)
  <1>1. CocoParses(doc)
    <2>1. ~CocoParses(doc) => d = Failed
      BY DEF LoadCocoJson
    <2>2. Failed.ok = FALSE
      BY DEF Failed
    <2> QED
      BY <2>1, <2>2
  <1>2. /\ IsList(doc.images)
        /\ doc.annotations # Absent =>
             /\ IsList(doc.annotations)
             /\ \A i \in DOMAIN doc.annotations : doc.annotations[i].obj \in Objects
    BY <1>1, CocoFiles
  <1>3. PICK n \in Nat : DOMAIN doc.images = 1 .. n
    BY <1>2, ListLen
  <1>4. PICK cats : cats = ById(doc.categories)
    OBVIOUS
  <1> DEFINE Boxes(k) == IF doc.annotations = Absent THEN <<>> ELSE CocoBoxes(doc, cats, k, raw)
             Sample(k) == [path |-> doc.images[k].file, split |-> split,
                           w |-> doc.images[k].w, h |-> doc.images[k].h, boxes |-> Boxes(k)]
  <1>5. PICK ss : ss = [k \in 1 .. n |-> Sample(k)]
    OBVIOUS
  <1>6. d.samples = ss
    BY <1>1, <1>3, <1>4, <1>5 DEF LoadCocoJson, Loaded
  <1>7. \A k \in 1 .. n : Annotated(Boxes(k))
    <2> SUFFICES ASSUME NEW k \in 1 .. n PROVE Annotated(Boxes(k))
      OBVIOUS
    <2>1. CASE doc.annotations = Absent
      <3>1. Boxes(k) = <<>> /\ DOMAIN <<>> = {}
        BY <2>1
      <3> QED
        BY <3>1, EmptyList DEF Annotated
    <2>2. CASE doc.annotations # Absent
      BY <1>2, <2>2, CocoBoxesGood
    <2> QED
      BY <2>1, <2>2
  <1>8. \A k \in 1 .. n : ss[k].boxes = Boxes(k)
    BY <1>5
  <1>9. DOMAIN ss = 1 .. n /\ ss = [k \in 1 .. n |-> ss[k]]
    BY <1>5
  <1>10. IsList(ss)
    BY <1>9, ListOf
  <1> HIDE DEF Boxes
  <1> QED
    BY <1>6, <1>7, <1>8, <1>9, <1>10 DEF GoodSamples

\* Two splits, one after the other.
LEMMA JoinedSamples ==
  ASSUME NEW s, NEW t, GoodSamples(s), GoodSamples(t), NEW u, u = s \o t
  PROVE  GoodSamples(u)
  <1>2. IsList(u)
    BY JoinedList DEF GoodSamples
  <1>3. \A k \in DOMAIN u : (k \in DOMAIN s /\ u[k] = s[k]) \/ (k - Len(s) \in DOMAIN t /\ u[k] = t[k - Len(s)])
    BY JoinedList DEF GoodSamples
  <1>4. \A k \in DOMAIN u : Annotated(u[k].boxes)
    BY <1>3 DEF GoodSamples
  <1> QED
    BY <1>2, <1>4 DEF GoodSamples

\* A split that is not there.
LEMMA NoSamples == GoodSamples(<<>>)
  <1>1. DOMAIN <<>> = {}
    OBVIOUS
  <1> QED
    BY <1>1, EmptyList DEF GoodSamples

\* The boxes of a label file, or of none.
LEMMA LabelsGood ==
  ASSUME NEW labels, labels # Absent => /\ IsList(labels)
                                        /\ \A l \in Range(labels) : l # Malformed => l.obj \in Objects
  PROVE  Annotated(ReadLabels(labels))
  <1>1. CASE labels = Absent
    <2>1. ReadLabels(labels) = <<>> /\ DOMAIN <<>> = {}
      BY <1>1 DEF ReadLabels
    <2> QED
      BY <2>1, EmptyList DEF Annotated
  <1>2. CASE labels # Absent
    <2>1. PICK I \in SUBSET DOMAIN labels : I = {i \in DOMAIN labels : labels[i] # Malformed}
      OBVIOUS
    <2>2. PICK good : good = Among(labels, I)
      OBVIOUS
    <2>3. IsList(good) /\ \A j \in DOMAIN good : \E i \in I : good[j] = labels[i]
      BY <1>2, <2>2, AmongList
    <2>4. PICK n \in Nat : DOMAIN good = 1 .. n
      BY <2>3, ListLen
    <2>5. PICK boxes : boxes = [i \in 1 .. n |->
                                  [class_id |-> good[i].cls, iscrowd |-> FALSE,
                                   bbox |-> good[i].box, area |-> 0, obj |-> good[i].obj]]
      OBVIOUS
    <2>6. boxes = ReadLabels(labels)
      BY <1>2, <2>1, <2>2, <2>4, <2>5 DEF ReadLabels
    <2>7. DOMAIN boxes = 1 .. n /\ boxes = [i \in 1 .. n |-> boxes[i]]
      BY <2>5
    <2>8. IsList(boxes)
      BY <2>7, ListOf
    <2>9. \A i \in 1 .. n : boxes[i].obj = good[i].obj
      BY <2>5
    <2>10. \A i \in I : labels[i].obj \in Objects
      BY <1>2, <2>1 DEF Range
    <2> QED
      BY <2>3, <2>4, <2>6, <2>7, <2>8, <2>9, <2>10 DEF Annotated
  <1> QED
    BY <1>1, <1>2

\* The samples of a list of image files.
LEMMA SplitGood ==
  ASSUME NEW labels, NEW files, IsList(files), Range(files) \subseteq DOMAIN labels \cap Int,
         \A f \in DOMAIN labels : labels[f] # Absent =>
           IsList(labels[f]) /\ \A l \in Range(labels[f]) : l # Malformed => l.obj \in Objects,
         NEW split
  PROVE  GoodSamples(CollectSplit(files, split, labels))
  <1>1. PICK n \in Nat : DOMAIN files = 1 .. n /\ Len(files) = n
    BY ListLen
  <1>2. \A i \in DOMAIN files : files[i] \in DOMAIN labels /\ files[i] \in Int
    BY DEF Range
  <1>3. PICK sorted : sorted = SortedBy(files, files)
    OBVIOUS
  <1>4. /\ DOMAIN sorted = 1 .. n
        /\ \A k \in 1 .. n : \E i \in DOMAIN files : sorted[k] = files[i]
    <2>1. IsList(sorted) /\ Len(sorted) = n /\ \A k \in DOMAIN sorted : \E i \in DOMAIN files : sorted[k] = files[i]
      BY <1>1, <1>2, <1>3, SortedList
    <2> QED
      BY <2>1, ListLen
  <1> DEFINE Sample(i) == [path |-> sorted[i], split |-> split, w |-> 0, h |-> 0,
                           boxes |-> ReadLabels(labels[sorted[i]])]
  <1>5. PICK ss : ss = [i \in 1 .. n |-> Sample(i)]
    OBVIOUS
  <1>6. ss = CollectSplit(files, split, labels)
    BY <1>1, <1>3, <1>5 DEF CollectSplit
  <1>7. DOMAIN ss = 1 .. n /\ ss = [i \in 1 .. n |-> ss[i]]
    BY <1>5
  <1>8. IsList(ss)
    BY <1>7, ListOf
  <1>9. ASSUME NEW i \in 1 .. n PROVE Annotated(ss[i].boxes)
    <2>1. sorted[i] \in DOMAIN labels
      BY <1>2, <1>4
    <2>2. PICK l : l = labels[sorted[i]]
      OBVIOUS
    <2>3. Annotated(ReadLabels(l))
      BY <2>1, <2>2, LabelsGood
    <2>4. ss[i].boxes = ReadLabels(l)
      BY <1>5, <2>2
    <2> QED
      BY <2>3, <2>4
  <1> QED
    BY <1>6, <1>7, <1>8, <1>9 DEF GoodSamples

\* A dataset that loads is a list of samples, whose boxes are of objects.
LEMMA DatasetGood ==
  ASSUME NEW c \in Cases, NEW raw, NEW d, d = LoadDataset(c.root, raw), d.ok
  PROVE  GoodSamples(d.samples)
  <1>1. PICK place : place = c.root
    OBVIOUS
  <1>2. Failed.ok = FALSE
    BY DEF Failed
  <1>3. DetectFormat(place) \in {"coco", "yolo"}
    <2>1. DetectFormat(place) \notin {"coco", "yolo"} => d = Failed
      BY <1>1 DEF LoadDataset
    <2> QED
      BY <1>2, <2>1
  <1>4. CASE DetectFormat(place) = "coco" /\ place.kind = "json"
    <2>1. d = LoadCocoJson(place.val, "val", raw)
      BY <1>1, <1>4 DEF LoadDataset
    <2>2. PICK doc : doc = place.val
      OBVIOUS
    <2>3. doc \in CocoDocs(place)
      BY <1>4, <2>2 DEF CocoDocs
    <2> QED
      BY <1>1, <2>1, <2>2, <2>3, CocoSamplesGood
  <1>5. CASE DetectFormat(place) = "coco" /\ place.kind # "json"
    <2>1. place.kind = "directory"
      BY <1>5 DEF DetectFormat
    <2>2. d = MergedCoco(place, raw)
      BY <1>1, <1>5 DEF LoadDataset
    <2> DEFINE Part(doc, split) == IF doc = Absent THEN Loaded(<<>>, Absent)
                                   ELSE LoadCocoJson(doc, split, raw)
    <2>3. PICK train : train = Part(place.train, "train")
      OBVIOUS
    <2>4. PICK val : val = Part(place.val, "val")
      OBVIOUS
    <2>8. PICK joined : joined = train.samples \o val.samples
      OBVIOUS
    <2>5. train.ok /\ val.ok /\ d.samples = joined
      <3>1. PICK names : names = IF place.train # Absent THEN train.class_names ELSE val.class_names
        OBVIOUS
      <3>3. d = IF {place.train, place.val} = {Absent} \/ ~train.ok \/ ~val.ok THEN Failed
                ELSE Loaded(joined, names)
        BY <2>2, <2>3, <2>4, <2>8, <3>1 DEF MergedCoco
      <3>4. train.ok /\ val.ok /\ d = Loaded(joined, names)
        BY <1>2, <3>3
      <3> QED
        BY <3>4 DEF Loaded
    <2>6. ASSUME NEW doc \in {place.train, place.val}, NEW split, NEW part,
                 part = Part(doc, split), part.ok
          PROVE  GoodSamples(part.samples)
      <3>1. CASE doc = Absent
        <4>1. part.samples = <<>>
          BY <2>6, <3>1 DEF Loaded
        <4> QED
          BY <4>1, NoSamples
      <3>2. CASE doc # Absent
        <4>1. doc \in CocoDocs(place)
          BY <2>1, <3>2 DEF CocoDocs
        <4>2. part = LoadCocoJson(doc, split, raw)
          BY <2>6, <3>2
        <4> QED
          BY <1>1, <2>6, <4>1, <4>2, CocoSamplesGood
      <3> QED
        BY <3>1, <3>2
    <2> HIDE DEF Part
    <2>7. GoodSamples(train.samples) /\ GoodSamples(val.samples)
      BY <2>3, <2>4, <2>5, <2>6
    <2> QED
      BY <2>5, <2>7, <2>8, JoinedSamples
  <1>6. CASE DetectFormat(place) = "yolo"
    <2>1. d = LoadYolo(place.yaml) /\ place.kind \in {"yaml", "directory"}
      BY <1>1, <1>6 DEF LoadDataset, DetectFormat
    <2>2. PICK yaml : yaml = place.yaml
      OBVIOUS
    <2> DEFINE Part(files, split) == IF files = Absent THEN <<>>
                                     ELSE CollectSplit(files, split, yaml.labels)
    <2>3. yaml # Malformed /\ ({yaml.train, yaml.val, yaml.test} # {Absent})
      BY <1>2, <2>1, <2>2 DEF LoadYolo
    <2>10. PICK joined : joined = Part(yaml.train, "train") \o Part(yaml.val, "val") \o Part(yaml.test, "test")
      OBVIOUS
    <2>4. d.samples = joined
      <3>2. d = Loaded(joined, ParseNames(yaml.names))
        BY <2>1, <2>2, <2>3, <2>10 DEF LoadYolo
      <3> QED
        BY <3>2 DEF Loaded
    <2>5. yaml \in Yamls(place)
      BY <1>1, <1>6, <2>1, <2>2, <2>3 DEF Yamls, DetectFormat
    <2>6. PICK labels : labels = yaml.labels
      OBVIOUS
    <2>7. ASSUME NEW files \in {yaml.train, yaml.val, yaml.test}, NEW split
          PROVE  GoodSamples(Part(files, split))
      <3>1. CASE files = Absent
        BY <3>1, NoSamples
      <3>2. CASE files # Absent
        <4>1. IsList(files) /\ Range(files) \subseteq DOMAIN labels \cap Int
          BY <1>1, <2>5, <2>6, <3>2, YoloFiles
        <4>2. \A f \in DOMAIN labels : labels[f] # Absent =>
                IsList(labels[f]) /\ \A l \in Range(labels[f]) : l # Malformed => l.obj \in Objects
          BY <1>1, <2>5, <2>6, YoloFiles
        <4>3. GoodSamples(CollectSplit(files, split, labels))
          BY <4>1, <4>2, SplitGood
        <4> QED
          BY <2>6, <3>2, <4>3
      <3> QED
        BY <3>1, <3>2
    <2> HIDE DEF Part
    <2>8. PICK one : one = Part(yaml.train, "train") \o Part(yaml.val, "val")
      OBVIOUS
    <2>9. GoodSamples(one)
      BY <2>7, <2>8, JoinedSamples
    <2> QED
      BY <2>4, <2>7, <2>8, <2>9, <2>10, JoinedSamples
  <1> QED
    BY <1>3, <1>4, <1>5, <1>6

-----------------------------------------------------------------------------
(* What the network's answers become. *)

\* At most the first n of a list.
LEMMA FirstList ==
  ASSUME NEW s, IsList(s), NEW n \in Nat
  PROVE  /\ IsList(FirstOf(s, n)) /\ Len(FirstOf(s, n)) = (IF Len(s) < n THEN Len(s) ELSE n)
         /\ \A k \in DOMAIN FirstOf(s, n) : k \in DOMAIN s /\ FirstOf(s, n)[k] = s[k]
  <1>1. PICK m \in Nat : m = Len(s) /\ DOMAIN s = 1 .. m
    BY ListLen
  <1>2. PICK j \in Nat : j = (IF m < n THEN m ELSE n)
    OBVIOUS
  <1>3. PICK T : T = Range(s)
    OBVIOUS
  <1>4. \A k \in 1 .. j : s[k] \in T
    BY <1>1, <1>2, <1>3 DEF Range
  <1>5. PICK a : a = SubSeq(s, 1, j)
    OBVIOUS
  <1>6. /\ a \in Seq(T) /\ Len(a) = (IF 1 <= j THEN j - 1 + 1 ELSE 0)
        /\ \A k \in 1 .. j - 1 + 1 : a[k] = s[1 + k - 1]
    <2>1. 1 \in Int /\ j \in Int
      OBVIOUS
    <2> QED
      BY <1>4, <1>5, <2>1, SubSeqProperties
  <1>7. Len(a) = j /\ DOMAIN a = 1 .. j /\ a = [k \in 1 .. j |-> a[k]] /\ \A k \in 1 .. j : a[k] = s[k]
    <2>1. Len(a) = j
      BY <1>6
    <2>2. \A k \in 1 .. j : k \in 1 .. j - 1 + 1 /\ 1 + k - 1 = k
      OBVIOUS
    <2> QED
      BY <1>6, <2>1, <2>2
  <1>8. IsList(a)
    BY <1>7, ListOf
  <1>9. a = FirstOf(s, n)
    BY <1>1, <1>2, <1>5 DEF FirstOf
  <1> QED
    BY <1>1, <1>2, <1>7, <1>8, <1>9

\* The greatest of finitely many.
LEMMA Greatest ==
  ASSUME NEW I, IsFiniteSet(I), I # {}, NEW L, IsOrder(L, I)
  PROVE  \E i \in I : \A j \in I : <<j, i>> \in L
  <1>1. Cardinality(I) \in Nat /\ Cardinality(I) # 0
    BY FS_CardinalityType, FS_EmptySet
  <1>2. PICK i \in I : Cardinality(UpTo(L, I, i)) = Cardinality(I)
    <2>1. PICK k \in 1 .. Cardinality(I) : k = Cardinality(I)
      BY <1>1
    <2> QED
      BY <2>1, RanksOnce
  <1>3. UpTo(L, I, i) \in SUBSET I
    BY DEF UpTo
  <1>4. UpTo(L, I, i) = I
    BY <1>2, <1>3, FS_Subset
  <1> QED
    BY <1>4 DEF UpTo

\* The least of some places.
LEMMA LeastOf ==
  ASSUME NEW n \in Nat, NEW I \in SUBSET (1 .. n), I # {}
  PROVE  \E i \in I : \A j \in I : i <= j
  <1> DEFINE L == {q \in I \X I : q[1] >= q[2]}
  <1>1. IsFiniteSet(I)
    BY AmongPicks
  <1>2. \A i, j \in I : <<i, j>> \in L <=> i >= j
    OBVIOUS
  <1>3. \A i \in I : i \in Int
    OBVIOUS
  <1> HIDE DEF L
  <1>4. IsOrder(L, I)
    BY <1>2, <1>3 DEF IsOrder
  <1>5. PICK i \in I : \A j \in I : <<j, i>> \in L
    BY <1>1, <1>4, Greatest
  <1> QED
    BY <1>2, <1>3, <1>5

\* The best class of a query has one of its scores.
LEMMA BestClass ==
  ASSUME NEW query, \A c \in 1 .. NumClasses : query.score[c] \in Int
  PROVE  BestOf(query).score \in Int /\ BestOf(query).box = query.box
  <1> DEFINE real == 1 .. NumClasses
             best == {c \in real : \A d \in real : query.score[d] <= query.score[c]}
             L == {q \in real \X real : query.score[q[1]] < query.score[q[2]]
                                        \/ (query.score[q[1]] = query.score[q[2]] /\ q[1] <= q[2])}
  <1>1. NumClasses \in Nat \ {0}
    BY Options
  <1>2. IsFiniteSet(real) /\ real # {}
    <2>1. 1 \in Int /\ NumClasses \in Int /\ 1 \in real
      BY <1>1
    <2>2. IsFiniteSet(1 .. NumClasses)
      BY <2>1, FS_Interval
    <2> QED
      BY <2>1, <2>2
  <1>3. \A i, j \in real : <<i, j>> \in L <=> query.score[i] < query.score[j]
                                             \/ (query.score[i] = query.score[j] /\ i <= j)
    OBVIOUS
  <1>4. \A i \in real : i \in Int /\ query.score[i] \in Int
    BY <1>1
  <1>5. IsOrder(L, real)
    <2> HIDE DEF L, real
    <2> QED
      BY <1>3, <1>4 DEF IsOrder
  <1>6. \E c \in real : \A d \in real : query.score[d] <= query.score[c]
    <2> HIDE DEF L, real
    <2>1. PICK c \in real : \A d \in real : <<d, c>> \in L
      BY <1>2, <1>5, Greatest
    <2>2. ASSUME NEW d \in real PROVE query.score[d] <= query.score[c]
      <3>1. <<d, c>> \in L
        BY <2>1
      <3>2. query.score[d] < query.score[c] \/ query.score[d] = query.score[c]
        BY <1>3, <2>1, <3>1
      <3>3. query.score[d] \in Int /\ query.score[c] \in Int
        BY <1>4, <2>1
      <3> QED
        BY <3>2, <3>3
    <2> QED
      BY <2>1, <2>2
  <1>7. best \in SUBSET (1 .. NumClasses) /\ best # {}
    BY <1>6
  <1>8. PICK c : c = CHOOSE b \in best : \A d \in best : b <= d
    OBVIOUS
  <1>9. c \in best
    <2> HIDE DEF best
    <2>1. \E b \in best : \A d \in best : b <= d
      BY <1>1, <1>7, LeastOf
    <2> QED
      BY <1>8, <2>1
  <1>10. BestOf(query) = [class_id |-> c - 1, score |-> query.score[c], box |-> query.box]
    BY <1>8 DEF BestOf
  <1>11. c \in 1 .. NumClasses
    BY <1>7, <1>9
  <1> QED
    BY <1>10, <1>11

\* Places of a table of m rows of n.
LEMMA PlaceInTable ==
  ASSUME NEW n \in Nat \ {0}, NEW m \in Nat, NEW k \in 1 .. m * n
  PROVE  1 + (k - 1) \div n \in 1 .. m /\ ((k - 1) % n) + 1 \in 1 .. n
  <1>1. PICK q \in Nat : q = k - 1
    <2>1. m * n \in Nat
      OBVIOUS
    <2> QED
      BY <2>1
  <1>2. q % n \in 0 .. n - 1
    OBVIOUS
  <1>3. PICK e \in Nat : e = q \div n
    OBVIOUS
  <1>4. e * n <= q
    <2>1. q = n * e + (q % n)
      BY <1>3
    <2>2. n * e = e * n /\ e * n \in Nat
      OBVIOUS
    <2> QED
      BY <1>2, <2>1, <2>2
  <1>5. e < m
    <2> SUFFICES ASSUME m <= e PROVE FALSE
      OBVIOUS
    <2>1. e - m \in Nat
      OBVIOUS
    <2>2. (e - m) * n \in Nat /\ (e - m) * n = e * n - m * n
      BY <2>1
    <2>3. m * n \in Nat /\ e * n \in Nat
      OBVIOUS
    <2>4. m * n <= q
      BY <1>4, <2>2, <2>3
    <2> QED
      BY <1>1, <2>3, <2>4
  <1> QED
    BY <1>1, <1>2, <1>3, <1>5

\* Detections that can be compared with one another and with every object.
Comparable(found) == /\ IsList(found)
               /\ \A d \in DOMAIN found : /\ found[d].score \in Int
                                          /\ \A o \in Objects : found[d].box.iou[o] \in Int
Scored(dts) == /\ IsList(dts)
               /\ \A d \in DOMAIN dts : /\ dts[d].score \in Int
                                        /\ \A o \in Objects : dts[d].iou[o] \in Int

\* Every query with every class.
LEMMA PairsRaw ==
  ASSUME NEW outputs, IsAnswer(outputs)
  PROVE  Comparable(Pairs(outputs))
  <1>1. PICK n \in Nat \ {0} : n = NumClasses
    BY Options
  <1>2. PICK m \in Nat : m = Len(outputs) /\ DOMAIN outputs = 1 .. m
    BY ListLen DEF IsAnswer
  <1>3. PICK all \in Nat : all = m * n
    OBVIOUS
  <1> DEFINE Row(k) == 1 + (k - 1) \div n
             Col(k) == ((k - 1) % n) + 1
             Cls(k) == (k - 1) % n
             Cell(k) == [class_id |-> Cls(k), score |-> outputs[Row(k)].score[Col(k)],
                          box |-> outputs[Row(k)].box]
  <1>4. PICK found : found = [k \in 1 .. all |-> Cell(k)]
    OBVIOUS
  <1>5. found = Pairs(outputs)
    BY <1>1, <1>2, <1>3, <1>4 DEF Pairs
  <1>6. \A k \in 1 .. all : Row(k) \in 1 .. m /\ Col(k) \in 1 .. n
    BY <1>3, PlaceInTable
  <1> HIDE DEF Row, Col, Cls
  <1>7. DOMAIN found = 1 .. all /\ found = [k \in 1 .. all |-> found[k]]
    BY <1>4
  <1>8. \A k \in 1 .. all : found[k].score = outputs[Row(k)].score[Col(k)] /\ found[k].box = outputs[Row(k)].box
    BY <1>4
  <1>9. IsList(found)
    BY <1>7, ListOf
  <1>10. \A q \in 1 .. m : /\ \A c \in 1 .. n : outputs[q].score[c] \in Int
                           /\ \A o \in Objects : outputs[q].box.iou[o] \in Int
    BY <1>1, <1>2 DEF IsAnswer
  <1> QED
    BY <1>5, <1>6, <1>7, <1>8, <1>9, <1>10 DEF Comparable

\* What the evaluation keeps of an answer, with either loss.
LEMMA AnswerScored ==
  ASSUME NEW outputs, IsAnswer(outputs), NEW w, NEW h, NEW focal
  PROVE  Scored(PostprocessImage(outputs, w, h, focal))
  <1> DEFINE Found == IF focal THEN FirstOf(ByScore(Pairs(outputs)), TopK)
                      ELSE [q \in DOMAIN outputs |-> BestOf(outputs[q])]
  <1>1. Comparable(Found)
    <2>1. CASE focal
      <3>1. PICK pairs : pairs = Pairs(outputs) /\ Comparable(pairs)
        BY PairsRaw
      <3>2. PICK key : key = [i \in DOMAIN pairs |-> -pairs[i].score]
        OBVIOUS
      <3>3. \A i \in DOMAIN pairs : key[i] \in Int
        BY <3>1, <3>2 DEF Comparable
      <3>4. PICK sorted : sorted = SortedBy(pairs, key)
        OBVIOUS
      <3>5. IsList(sorted) /\ \A k \in DOMAIN sorted : \E i \in DOMAIN pairs : sorted[k] = pairs[i]
        BY <3>1, <3>3, <3>4, SortedList DEF Comparable
      <3>6. PICK first : first = FirstOf(sorted, TopK)
        OBVIOUS
      <3>7. IsList(first) /\ \A k \in DOMAIN first : k \in DOMAIN sorted /\ first[k] = sorted[k]
        BY <3>5, <3>6, Options, FirstList
      <3>8. Found = first
        BY <2>1, <3>1, <3>2, <3>4, <3>6 DEF ByScore
      <3>9. \A k \in DOMAIN first : \E i \in DOMAIN pairs : first[k] = pairs[i]
        BY <3>5, <3>7
      <3> HIDE DEF Found
      <3> QED
        BY <3>1, <3>7, <3>8, <3>9 DEF Comparable
    <2>2. CASE ~focal
      <3>1. PICK m \in Nat : DOMAIN outputs = 1 .. m
        BY ListLen DEF IsAnswer
      <3>2. PICK found : found = [q \in 1 .. m |-> BestOf(outputs[q])]
        OBVIOUS
      <3>3. DOMAIN found = 1 .. m /\ found = [q \in 1 .. m |-> found[q]]
        BY <3>2
      <3>4. IsList(found)
        BY <3>3, ListOf
      <3>5. ASSUME NEW q \in 1 .. m
            PROVE  found[q].score \in Int /\ \A o \in Objects : found[q].box.iou[o] \in Int
        <4>1. PICK query : query = outputs[q]
          OBVIOUS
        <4>2. /\ \A c \in 1 .. NumClasses : query.score[c] \in Int
              /\ \A o \in Objects : query.box.iou[o] \in Int
          BY <3>1, <4>1 DEF IsAnswer
        <4>3. found[q] = BestOf(query)
          BY <3>2, <4>1
        <4> QED
          BY <4>2, <4>3, BestClass
      <3>6. Found = found
        BY <2>2, <3>1, <3>2
      <3> HIDE DEF Found
      <3> QED
        BY <3>3, <3>4, <3>5, <3>6 DEF Comparable
    <2> QED
      BY <2>1, <2>2
  <1>2. PICK found : found = Found
    OBVIOUS
  <1>3. PICK n \in Nat : DOMAIN found = 1 .. n
    BY <1>1, <1>2, ListLen DEF Comparable
  <1>4. PICK dts : dts = [d \in 1 .. n |->
                            [class_id |-> found[d].class_id, score |-> found[d].score,
                             area |-> Px(found[d].box.area, w, h), iou |-> found[d].box.iou]]
    OBVIOUS
  <1>5. dts = PostprocessImage(outputs, w, h, focal)
    BY <1>2, <1>3, <1>4 DEF PostprocessImage
  <1> HIDE DEF Found
  <1>6. DOMAIN dts = 1 .. n /\ dts = [d \in 1 .. n |-> dts[d]]
    BY <1>4
  <1>7. IsList(dts)
    BY <1>6, ListOf
  <1>8. \A d \in 1 .. n : dts[d].score = found[d].score /\ dts[d].iou = found[d].box.iou
    BY <1>4
  <1> QED
    BY <1>1, <1>2, <1>3, <1>5, <1>6, <1>7, <1>8 DEF Comparable, Scored

\* The ground truth of a sample is of its objects.
LEMMA GtAnnotated ==
  ASSUME NEW s, Annotated(s.boxes), NEW w, NEW h
  PROVE  Annotated(MakeGt(s, w, h))
  <1>1. PICK boxes : boxes = s.boxes
    OBVIOUS
  <1>2. PICK n \in Nat : DOMAIN boxes = 1 .. n
    BY <1>1, ListLen DEF Annotated
  <1>3. PICK gts : gts = [b \in 1 .. n |->
                            [class_id |-> boxes[b].class_id, iscrowd |-> boxes[b].iscrowd,
                             obj |-> boxes[b].obj,
                             area |-> Px(IF boxes[b].area > 0 THEN boxes[b].area ELSE boxes[b].bbox, w, h)]]
    OBVIOUS
  <1>4. gts = MakeGt(s, w, h)
    BY <1>1, <1>2, <1>3 DEF MakeGt
  <1>5. DOMAIN gts = 1 .. n /\ gts = [b \in 1 .. n |-> gts[b]]
    BY <1>3
  <1>6. IsList(gts)
    BY <1>5, ListOf
  <1>7. \A b \in 1 .. n : gts[b].obj = boxes[b].obj
    BY <1>3
  <1> QED
    BY <1>1, <1>2, <1>4, <1>5, <1>6, <1>7 DEF Annotated

GoodImage(im) == Annotated(im.gts) /\ Scored(im.dts)

-----------------------------------------------------------------------------
(* Each sample of the split once. *)

\* The indices o still to come and those of the images differ, all of M.
Accounts(o, ims, M) ==
  /\ IsList(o) /\ IsList(ims)
  /\ \A j \in DOMAIN o : o[j] \in M
  /\ \A j, k \in DOMAIN o : o[j] = o[k] => j = k
  /\ \A i \in DOMAIN ims : ims[i].index \in M /\ GoodImage(ims[i])
  /\ \A i, j \in DOMAIN ims : ims[i].index = ims[j].index => i = j
  /\ \A i \in DOMAIN ims, k \in DOMAIN o : ims[i].index # o[k]

Seen(o, ims, m) == (\E k \in DOMAIN o : o[k] = m) \/ (\E i \in DOMAIN ims : ims[i].index = m)

\* The definition, with the domains given.
LEMMA AccountsFrom ==
  ASSUME NEW o, NEW ims, NEW M, NEW I, NEW J, IsList(o), IsList(ims), DOMAIN o = I, DOMAIN ims = J,
         \A j \in I : o[j] \in M, \A j, k \in I : o[j] = o[k] => j = k,
         \A i \in J : ims[i].index \in M /\ GoodImage(ims[i]),
         \A i, j \in J : ims[i].index = ims[j].index => i = j,
         \A i \in J, k \in I : ims[i].index # o[k]
  PROVE  Accounts(o, ims, M)
  BY DEF Accounts

\* All but the first b of a list.
LEMMA SkipList ==
  ASSUME NEW s, IsList(s), NEW n \in Nat, n = Len(s), NEW b \in Nat, b <= n
  PROVE  /\ DOMAIN SubSeq(s, b + 1, Len(s)) = 1 .. n - b /\ Len(SubSeq(s, b + 1, Len(s))) = n - b
         /\ \A k \in 1 .. n - b : k + b \in 1 .. n /\ SubSeq(s, b + 1, Len(s))[k] = s[k + b]
         /\ IsList(SubSeq(s, b + 1, Len(s)))
  <1>1. DOMAIN s = 1 .. n
    BY ListLen
  <1>2. PICK T : T = Range(s)
    OBVIOUS
  <1>3. \A k \in b + 1 .. n : s[k] \in T
    <2>1. \A k \in b + 1 .. n : k \in 1 .. n
      OBVIOUS
    <2>2. \A k \in 1 .. n : s[k] \in T
      BY <1>1, <1>2 DEF Range
    <2> QED
      BY <2>1, <2>2
  <1>4. PICK a : a = SubSeq(s, b + 1, n)
    OBVIOUS
  <1>5. /\ a \in Seq(T) /\ Len(a) = (IF b + 1 <= n THEN n - (b + 1) + 1 ELSE 0)
        /\ \A k \in 1 .. n - (b + 1) + 1 : a[k] = s[(b + 1) + k - 1]
    <2>1. b + 1 \in Int /\ n \in Int
      OBVIOUS
    <2> QED
      BY <1>3, <1>4, <2>1, SubSeqProperties
  <1>6. Len(a) = n - b /\ n - b \in Nat
    BY <1>5
  <1>7. DOMAIN a = 1 .. n - b /\ a = [k \in 1 .. n - b |-> a[k]]
    BY <1>5, <1>6
  <1>8. \A k \in 1 .. n - b : a[k] = s[k + b]
    <2>1. \A k \in 1 .. n - b : k \in 1 .. n - (b + 1) + 1 /\ (b + 1) + k - 1 = k + b
      OBVIOUS
    <2> QED
      BY <1>5, <2>1
  <1>9. IsList(a)
    BY <1>6, <1>7, ListOf
  <1> QED
    BY <1>4, <1>6, <1>7, <1>8, <1>9

\* The first b to come are images now, or have been passed over.
ImagesOf(new, o) == \A j \in DOMAIN new : new[j].index = o[j] /\ GoodImage(new[j])

After(o, b) == SubSeq(o, b + 1, Len(o))
Joined(s, t) == s \o t

\* The images of the first b are appended, or these are passed over.
LEMMA TakeSome ==
  ASSUME NEW M, NEW o, NEW ims, Accounts(o, ims, M), NEW b \in Nat, b <= Len(o),
         NEW new, IsList(new), Len(new) \in {0, b},
         ImagesOf(new, o),
         NEW rest, rest = After(o, b), NEW all, all = Joined(ims, new)
  PROVE  /\ Accounts(rest, all, M)
         /\ Len(rest) = Len(o) - b /\ Len(all) = Len(ims) + Len(new)
         /\ \A m : Seen(o, ims, m) => Seen(rest, all, m) \/ (Len(new) = 0 /\ \E j \in 1 .. b : o[j] = m)
         /\ \A i \in DOMAIN all : (\E j \in DOMAIN ims : all[i] = ims[j]) \/ (\E j \in DOMAIN new : all[i] = new[j])
  <1>1. PICK n \in Nat : n = Len(o) /\ DOMAIN o = 1 .. n
    BY ListLen DEF Accounts
  <1>2. PICK p \in Nat : p = Len(ims) /\ DOMAIN ims = 1 .. p
    BY ListLen DEF Accounts
  <1>3. PICK q \in Nat : q = Len(new) /\ DOMAIN new = 1 .. q /\ (q = 0 \/ q = b)
    BY ListLen
  <1>5. /\ DOMAIN rest = 1 .. n - b /\ Len(rest) = n - b
        /\ \A k \in 1 .. n - b : k + b \in 1 .. n /\ rest[k] = o[k + b]
        /\ IsList(rest)
    <2>1. IsList(o)
      BY DEF Accounts
    <2> QED
      BY <1>1, <2>1, SkipList DEF After
  <1>6. /\ IsList(all) /\ Len(all) = p + q /\ DOMAIN all = 1 .. p + q
        /\ \A k \in 1 .. p : all[k] = ims[k]
        /\ \A k \in 1 .. q : all[p + k] = new[k]
    <2>1. /\ IsList(all) /\ Len(all) = Len(ims) + Len(new)
          /\ \A k \in 1 .. Len(ims) : all[k] = ims[k]
          /\ \A k \in 1 .. Len(new) : all[Len(ims) + k] = new[k]
      BY JoinedList DEF Accounts, Joined
    <2>2. DOMAIN all = 1 .. Len(all)
      BY <2>1, ListLen
    <2> QED
      BY <1>2, <1>3, <2>1, <2>2
  <1>7. \A k \in 1 .. p + q : (k \in 1 .. p /\ all[k] = ims[k])
                              \/ \E j \in 1 .. q : k = p + j /\ all[k] = new[j]
    <2> SUFFICES ASSUME NEW k \in 1 .. p + q, ~(k \in 1 .. p) PROVE \E j \in 1 .. q : k = p + j /\ all[k] = new[j]
      BY <1>6
    <2>1. PICK j \in 1 .. q : k = p + j
      <3>1. k - p \in 1 .. q /\ k = p + (k - p)
        OBVIOUS
      <3> QED
        BY <3>1
    <2> QED
      BY <1>6, <2>1
  <1>8. \A j \in 1 .. q : j \in 1 .. n /\ j <= b /\ new[j].index = o[j] /\ GoodImage(new[j])
    BY <1>1, <1>3 DEF ImagesOf
  <1>9. /\ \A j \in 1 .. n : o[j] \in M
        /\ \A j, k \in 1 .. n : o[j] = o[k] => j = k
        /\ \A i \in 1 .. p : ims[i].index \in M /\ GoodImage(ims[i])
        /\ \A i, j \in 1 .. p : ims[i].index = ims[j].index => i = j
        /\ \A i \in 1 .. p, k \in 1 .. n : ims[i].index # o[k]
    BY <1>1, <1>2 DEF Accounts
  <1>10. Accounts(rest, all, M)
    <2>1. \A j \in 1 .. n - b : rest[j] \in M
      BY <1>5, <1>9
    <2>2. \A j, k \in 1 .. n - b : rest[j] = rest[k] => j = k
      <3> SUFFICES ASSUME NEW j \in 1 .. n - b, NEW k \in 1 .. n - b, rest[j] = rest[k] PROVE j = k
        OBVIOUS
      <3>0. /\ j + b \in 1 .. n /\ rest[j] = o[j + b]
            /\ k + b \in 1 .. n /\ rest[k] = o[k + b]
        BY <1>5
      <3>1. j + b = k + b
        BY <1>9, <3>0
      <3> QED
        BY <3>1
    <2>3. \A i \in 1 .. p + q : all[i].index \in M /\ GoodImage(all[i])
      <3> SUFFICES ASSUME NEW i \in 1 .. p + q PROVE all[i].index \in M /\ GoodImage(all[i])
        OBVIOUS
      <3>1. CASE i \in 1 .. p /\ all[i] = ims[i]
        BY <1>9, <3>1
      <3>2. ASSUME NEW j \in 1 .. q, all[i] = new[j] PROVE all[i].index \in M /\ GoodImage(all[i])
        <4>1. j \in 1 .. n /\ new[j].index = o[j] /\ GoodImage(new[j])
          BY <1>8
        <4>2. o[j] \in M
          BY <1>9, <4>1
        <4> QED
          BY <3>2, <4>1, <4>2
      <3> QED
        BY <1>7, <3>1, <3>2
    <2>4. ASSUME NEW i \in 1 .. p + q, NEW j \in 1 .. p + q, all[i].index = all[j].index PROVE i = j
      <3>1. CASE i \in 1 .. p /\ all[i] = ims[i]
        <4>1. ASSUME NEW l \in 1 .. q, all[j] = new[l] PROVE FALSE
          <5>1. l \in 1 .. n /\ all[j].index = o[l]
            BY <1>8, <4>1
          <5>2. ims[i].index # o[l]
            BY <1>9, <3>1, <5>1
          <5> QED
            BY <2>4, <3>1, <5>1, <5>2
        <4>2. j \in 1 .. p /\ all[j] = ims[j]
          BY <1>7, <4>1
        <4> QED
          BY <1>9, <2>4, <3>1, <4>2
      <3>2. ASSUME NEW k \in 1 .. q, i = p + k, all[i] = new[k] PROVE i = j
        <4>1. PICK l \in 1 .. q : j = p + l /\ all[j] = new[l]
          <5>1. ASSUME j \in 1 .. p, all[j] = ims[j] PROVE FALSE
            <6>1. k \in 1 .. n /\ all[i].index = o[k]
              BY <1>8, <3>2
            <6>2. ims[j].index # o[k]
              BY <1>9, <5>1, <6>1
            <6> QED
              BY <2>4, <5>1, <6>1, <6>2
          <5> QED
            BY <1>7, <5>1
        <4>2. o[k] = o[l]
          BY <1>8, <2>4, <3>2, <4>1
        <4>3. k = l
          BY <1>8, <1>9, <4>2
        <4> QED
          BY <3>2, <4>1, <4>3
      <3> QED
        BY <1>7, <3>1, <3>2
    <2>5. ASSUME NEW i \in 1 .. p + q, NEW k \in 1 .. n - b PROVE all[i].index # rest[k]
      <3>1. k + b \in 1 .. n /\ rest[k] = o[k + b]
        BY <1>5
      <3>2. CASE i \in 1 .. p /\ all[i] = ims[i]
        BY <1>9, <3>1, <3>2
      <3>3. ASSUME NEW j \in 1 .. q, all[i] = new[j] PROVE all[i].index # rest[k]
        <4>1. j \in 1 .. n /\ j <= b /\ all[i].index = o[j]
          BY <1>8, <3>3
        <4>2. j # k + b
          BY <4>1
        <4> QED
          BY <1>9, <3>1, <4>1, <4>2
      <3> QED
        BY <1>7, <3>2, <3>3
    <2> QED
      <3>1. DOMAIN rest = 1 .. n - b /\ DOMAIN all = 1 .. p + q /\ IsList(rest) /\ IsList(all)
        BY <1>5, <1>6
      <3>2. \A i, j \in 1 .. p + q : all[i].index = all[j].index => i = j
        BY <2>4
      <3>3. \A i \in 1 .. p + q, k \in 1 .. n - b : all[i].index # rest[k]
        BY <2>5
      <3> QED
        BY <2>1, <2>2, <2>3, <3>1, <3>2, <3>3, AccountsFrom
  <1>11. ASSUME NEW m, Seen(o, ims, m)
         PROVE  Seen(rest, all, m) \/ (q = 0 /\ \E j \in 1 .. b : o[j] = m)
    <2>1. CASE \E i \in 1 .. p : ims[i].index = m
      <3>1. PICK i \in 1 .. p : ims[i].index = m
        BY <2>1
      <3>2. i \in DOMAIN all /\ all[i].index = m
        BY <1>6, <3>1
      <3> QED
        BY <3>2 DEF Seen
    <2>2. ASSUME NEW k \in 1 .. n, o[k] = m
          PROVE  Seen(rest, all, m) \/ (q = 0 /\ \E j \in 1 .. b : o[j] = m)
      <3>1. CASE k > b
        <4>1. k - b \in 1 .. n - b /\ (k - b) + b = k
          BY <3>1
        <4>2. k - b \in DOMAIN rest /\ rest[k - b] = m
          BY <1>5, <2>2, <4>1
        <4> QED
          BY <4>2 DEF Seen
      <3>2. CASE k <= b /\ q = 0
        BY <2>2, <3>2
      <3>3. CASE k <= b /\ q = b
        <4>1. k \in 1 .. q /\ p + k \in 1 .. p + q
          BY <3>3
        <4>2. p + k \in DOMAIN all /\ all[p + k].index = m
          BY <1>6, <1>8, <2>2, <4>1
        <4> QED
          BY <4>2 DEF Seen
      <3> QED
        BY <1>3, <3>1, <3>2, <3>3
    <2> QED
      BY <1>1, <1>2, <1>11, <2>1, <2>2 DEF Seen
  <1>12. \A i \in DOMAIN all : (\E j \in DOMAIN ims : all[i] = ims[j]) \/ (\E j \in DOMAIN new : all[i] = new[j])
    BY <1>2, <1>3, <1>6, <1>7
  <1> QED
    BY <1>1, <1>2, <1>3, <1>5, <1>6, <1>10, <1>11, <1>12

Places(d, split) == {i \in DOMAIN d.samples : d.samples[i].split = split}

\* The places of a list, chosen and in order, are places once.
LEMMA IndicesOnce ==
  ASSUME NEW d, IsList(d.samples), NEW split,
         NEW mine, mine = IndicesOf(d, split),
         NEW M, M = Places(d, split)
  PROVE  /\ IsList(mine) /\ IsFiniteSet(M) /\ Len(mine) = Cardinality(M)
         /\ \A k \in DOMAIN mine : mine[k] \in M
         /\ \A k, l \in DOMAIN mine : mine[k] = mine[l] => k = l
         /\ \A i \in M : \E k \in DOMAIN mine : mine[k] = i
         /\ Range(mine) = M
  <1>1. PICK n \in Nat : DOMAIN d.samples = 1 .. n
    BY ListLen
  <1>2. PICK s : s = [i \in 1 .. n |-> i]
    OBVIOUS
  <1>3. M \in SUBSET (1 .. n)
    BY <1>1 DEF Places
  <1>4. mine = Among(s, M)
    BY <1>1, <1>2 DEF IndicesOf, Places
  <1>5. PICK m \in Nat : m = Cardinality(M)
    BY <1>3, AmongPicks
  <1>6. PICK p : Picks(mine, s, M, p)
    BY <1>3, <1>4, AmongPicks
  <1>7. \A k \in 1 .. m : p[k] \in M
    BY <1>5, <1>6 DEF Picks
  <1>8. mine = [k \in 1 .. m |-> p[k]]
    <2>1. mine = [k \in 1 .. m |-> s[p[k]]]
      BY <1>5, <1>6 DEF Picks
    <2>2. \A k \in 1 .. m : s[p[k]] = p[k]
      BY <1>2, <1>3, <1>7
    <2> QED
      BY <2>1, <2>2
  <1>9. DOMAIN mine = 1 .. m /\ mine = [k \in 1 .. m |-> mine[k]] /\ \A k \in 1 .. m : mine[k] = p[k]
    BY <1>8
  <1>10. IsList(mine) /\ Len(mine) = m
    BY <1>9, ListOf
  <1>11. /\ \A k, l \in 1 .. m : mine[k] = mine[l] => k = l
         /\ \A i \in M : \E k \in 1 .. m : mine[k] = i
    BY <1>5, <1>6, <1>9 DEF Picks
  <1>12. IsFiniteSet(M)
    BY <1>3, AmongPicks
  <1>13. Range(mine) = M
    BY <1>7, <1>9, <1>11 DEF Range
  <1> QED
    BY <1>5, <1>7, <1>9, <1>10, <1>11, <1>12, <1>13

-----------------------------------------------------------------------------
(* What is known at each point of the run. *)

\* One by one, an image may be over the limit or cannot be read.
Skippable(m, d, o, n) == o.single /\ (o.max_images > 0 \/ d.samples[m].path \notin DOMAIN n)

Covers(ord, ims, d, o, n) ==
  \A m \in Places(d, o.split) : Seen(ord, ims, m) \/ Skippable(m, d, o, n)

Readable(ims, d, o, n) ==
  o.single => \A i \in DOMAIN ims : d.samples[ims[i].index].path \in DOMAIN n

Bounded(ord, ims, o) ==
  o.max_images > 0 => IF o.single THEN Len(ims) + Len(ord) <= o.max_images
                      ELSE Len(ims) < o.max_images + o.batch

Progress(ord, ims, d, o, n) ==
  /\ Accounts(ord, ims, Places(d, o.split))
  /\ Covers(ord, ims, d, o, n)
  /\ Readable(ims, d, o, n)
  /\ Bounded(ord, ims, o)

\* Nothing is an image yet.
LEMMA NoneYet ==
  ASSUME NEW M, NEW o, NEW n \in Nat, IsList(o), DOMAIN o = 1 .. n, \A k \in 1 .. n : o[k] \in M,
         \A j, k \in 1 .. n : o[j] = o[k] => j = k
  PROVE  Accounts(o, <<>>, M)
  <1>1. DOMAIN <<>> = {}
    OBVIOUS
  <1>2. PICK e : e = <<>>
    OBVIOUS
  <1>3. DOMAIN e = {} /\ IsList(e)
    BY <1>1, <1>2, EmptyList
  <1>4. Accounts(o, e, M)
    BY <1>3 DEF Accounts
  <1> QED
    BY <1>2, <1>4

\* The first images of the split, or all of them.
LEMMA StartsInOrder ==
  ASSUME NEW d, GoodSamples(d.samples), NEW o, o.single, o.max_images \in Nat, NEW n,
         NEW mine, mine = IndicesOf(d, o.split),
         NEW most, most = IF o.max_images > 0 THEN FirstOf(mine, o.max_images) ELSE mine
  PROVE  Progress(most, <<>>, d, o, n)
  <1>1. PICK M : M = Places(d, o.split)
    OBVIOUS
  <1>2. PICK split : split = o.split
    OBVIOUS
  <1>3. IsList(d.samples) /\ M = Places(d, split) /\ mine = IndicesOf(d, split)
    BY <1>1, <1>2 DEF GoodSamples
  <1>4. /\ IsList(mine) /\ \A k \in DOMAIN mine : mine[k] \in M
        /\ \A k, l \in DOMAIN mine : mine[k] = mine[l] => k = l
        /\ \A i \in M : \E k \in DOMAIN mine : mine[k] = i
    BY <1>3, IndicesOnce
  <1>5. PICK max \in Nat : max = o.max_images
    OBVIOUS
  <1>6. CASE max > 0
    <2>1. /\ IsList(most) /\ Len(most) = (IF Len(mine) < max THEN Len(mine) ELSE max)
          /\ \A k \in DOMAIN most : k \in DOMAIN mine /\ most[k] = mine[k]
      BY <1>4, <1>5, <1>6, FirstList
    <2>2. PICK l \in Nat : l = Len(most) /\ DOMAIN most = 1 .. l
      BY <2>1, ListLen
    <2>3. Accounts(most, <<>>, M)
      BY <1>4, <2>1, <2>2, NoneYet
    <2>4. Len(mine) \in Nat
      BY <1>4, ListLen
    <2>5. l <= max
      BY <2>1, <2>2, <2>4
    <2>6. Bounded(most, <<>>, o)
      BY <1>5, <2>2, <2>5 DEF Bounded
    <2>7. Covers(most, <<>>, d, o, n)
      BY <1>5, <1>6 DEF Covers, Skippable
    <2>8. Readable(<<>>, d, o, n)
      BY DEF Readable
    <2> QED
      BY <1>1, <2>3, <2>6, <2>7, <2>8 DEF Progress
  <1>7. CASE max = 0
    <2>1. most = mine
      BY <1>5, <1>7
    <2>2. PICK l \in Nat : l = Len(most) /\ DOMAIN most = 1 .. l
      BY <1>4, <2>1, ListLen
    <2>3. Accounts(most, <<>>, M)
      BY <1>4, <2>1, <2>2, NoneYet
    <2>4. Bounded(most, <<>>, o)
      BY <1>5, <1>7 DEF Bounded
    <2>5. Covers(most, <<>>, d, o, n)
      BY <1>1, <1>4, <2>1 DEF Covers, Seen
    <2>6. Readable(<<>>, d, o, n)
      BY DEF Readable
    <2> QED
      BY <1>1, <2>3, <2>4, <2>5, <2>6 DEF Progress
  <1> QED
    BY <1>5, <1>6, <1>7

\* A shuffle has each of them once.
LEMMA StartsShuffled ==
  ASSUME NEW d, GoodSamples(d.samples), NEW o, ~o.single,
         o.max_images \in Nat, o.batch \in Nat \ {0}, NEW n,
         NEW mine, mine = IndicesOf(d, o.split), NEW ord, ord \in Orders(mine)
  PROVE  Progress(ord, <<>>, d, o, n)
  <1>1. PICK M : M = Places(d, o.split)
    OBVIOUS
  <1>2. PICK split : split = o.split
    OBVIOUS
  <1>3. IsList(d.samples) /\ M = Places(d, split) /\ mine = IndicesOf(d, split)
    BY <1>1, <1>2 DEF GoodSamples
  <1>4. IsList(mine) /\ Len(mine) = Cardinality(M) /\ Range(mine) = M
    BY <1>3, IndicesOnce
  <1>5. PICK l \in Nat : l = Len(mine) /\ DOMAIN mine = 1 .. l
    BY <1>4, ListLen
  <1>6. PICK I : I = 1 .. l
    OBVIOUS
  <1>7. IsFiniteSet(I) /\ Cardinality(I) = l
    <2>1. 1 \in Int /\ l \in Int /\ (l - 1) + 1 = l /\ (1 <= l \/ l = 0)
      OBVIOUS
    <2>2. IsFiniteSet(1 .. l) /\ Cardinality(1 .. l) = l
      BY <2>1, FS_Interval
    <2> QED
      BY <1>6, <2>2
  <1>8. ord \in [I -> M] /\ Range(ord) = M
    BY <1>4, <1>5, <1>6 DEF Orders
  <1>9. \A i \in M : \E k \in I : ord[k] = i
    BY <1>8 DEF Range
  <1>10. ord \in Surjection(I, M)
    BY <1>8, <1>9 DEF Surjection
  <1>11. ord \in Injection(I, M)
    BY <1>4, <1>5, <1>7, <1>10, FS_SurjSameCardinalityImpliesInj
  <1>12. \A j, k \in I : ord[j] = ord[k] => j = k
    BY <1>11 DEF Injection, IsInjective
  <1>13. DOMAIN ord = 1 .. l /\ ord = [k \in 1 .. l |-> ord[k]] /\ \A k \in 1 .. l : ord[k] \in M
    BY <1>6, <1>8
  <1>14. IsList(ord)
    BY <1>13, ListOf
  <1>15. Accounts(ord, <<>>, M)
    BY <1>6, <1>12, <1>13, <1>14, NoneYet
  <1>16. Covers(ord, <<>>, d, o, n)
    BY <1>1, <1>6, <1>9, <1>13 DEF Covers, Seen
  <1>17. Readable(<<>>, d, o, n)
    BY DEF Readable
  <1>18. Bounded(ord, <<>>, o)
    <2>1. Len(<<>>) = 0
      OBVIOUS
    <2> QED
      BY <2>1 DEF Bounded
  <1> QED
    BY <1>1, <1>15, <1>16, <1>17, <1>18 DEF Progress

\* Why b more of the order may be evaluated, the images of them being new.
May(ord, ims, new, b, d, o, n) ==
  IF o.single
  THEN /\ b = 1
       /\ Len(new) = 0 => d.samples[ord[1]].path \notin DOMAIN n
       /\ \A j \in DOMAIN new : d.samples[new[j].index].path \in DOMAIN n
  ELSE /\ Len(new) = b /\ b <= o.batch
       /\ o.max_images > 0 => Len(ims) < o.max_images

\* Each step of either loop keeps what is known of the order and the images.
LEMMA Proceeds ==
  ASSUME NEW d, NEW o, o.max_images \in Nat, o.batch \in Nat \ {0}, NEW n,
         NEW ord, NEW ims, Progress(ord, ims, d, o, n),
         NEW b \in Nat, b <= Len(ord), NEW new, IsList(new), Len(new) \in {0, b},
         ImagesOf(new, ord),
         May(ord, ims, new, b, d, o, n),
         NEW rest, rest = After(ord, b), NEW all, all = Joined(ims, new)
  PROVE  Progress(rest, all, d, o, n)
  <1>1. PICK M : M = Places(d, o.split)
    OBVIOUS
  <1>2. Accounts(ord, ims, M)
    BY <1>1 DEF Progress
  <1>3. /\ Accounts(rest, all, M)
        /\ Len(rest) = Len(ord) - b /\ Len(all) = Len(ims) + Len(new)
        /\ \A m : Seen(ord, ims, m) => Seen(rest, all, m) \/ (Len(new) = 0 /\ \E j \in 1 .. b : ord[j] = m)
        /\ \A i \in DOMAIN all : (\E j \in DOMAIN ims : all[i] = ims[j]) \/ (\E j \in DOMAIN new : all[i] = new[j])
    BY <1>2, TakeSome
  <1>4. PICK l \in Nat : l = Len(ord)
    BY <1>2, ListLen DEF Accounts
  <1>5. PICK p \in Nat : p = Len(ims)
    BY <1>2, ListLen DEF Accounts
  <1>6. PICK q \in Nat : q = Len(new) /\ (q = 0 \/ q = b)
    BY ListLen
  <1>7. PICK max \in Nat : max = o.max_images
    OBVIOUS
  <1>8. PICK most \in Nat : most = o.batch
    OBVIOUS
  <1>9. Covers(rest, all, d, o, n)
    <2> SUFFICES ASSUME NEW m \in M PROVE Seen(rest, all, m) \/ Skippable(m, d, o, n)
      BY <1>1 DEF Covers
    <2>1. Seen(ord, ims, m) \/ Skippable(m, d, o, n)
      BY <1>1 DEF Progress, Covers
    <2>2. ASSUME q = 0, NEW j \in 1 .. b, ord[j] = m PROVE Skippable(m, d, o, n)
      <3>1. b # 0
        BY <1>6, <2>2
      <3>2. o.single /\ j = 1
        BY <1>6, <2>2, <3>1 DEF May
      <3> QED
        BY <1>6, <2>2, <3>2 DEF May, Skippable
    <2> QED
      BY <1>3, <1>6, <2>1, <2>2
  <1>10. Readable(all, d, o, n)
    <2> SUFFICES ASSUME o.single, NEW i \in DOMAIN all PROVE d.samples[all[i].index].path \in DOMAIN n
      BY DEF Readable
    <2>1. ASSUME NEW j \in DOMAIN ims, all[i] = ims[j] PROVE d.samples[all[i].index].path \in DOMAIN n
      BY <2>1 DEF Progress, Readable
    <2>2. ASSUME NEW j \in DOMAIN new, all[i] = new[j] PROVE d.samples[all[i].index].path \in DOMAIN n
      BY <2>2 DEF May
    <2> QED
      BY <1>3, <2>1, <2>2
  <1>11. Bounded(rest, all, o)
    <2>1. CASE max > 0 /\ o.single
      <3>1. p + l <= max
        BY <1>4, <1>5, <1>7, <2>1 DEF Progress, Bounded
      <3>2. Len(all) = p + q /\ Len(rest) = l - b
        BY <1>3, <1>4, <1>5, <1>6
      <3>3. Len(all) + Len(rest) <= max
        BY <1>6, <3>1, <3>2
      <3> QED
        BY <1>7, <2>1, <3>3 DEF Bounded
    <2>2. CASE max > 0 /\ ~o.single
      <3>1. q = b /\ b <= most /\ p < max
        BY <1>5, <1>6, <1>7, <1>8, <2>2 DEF May
      <3>2. Len(all) = p + q
        BY <1>3, <1>5, <1>6
      <3>3. Len(all) < max + most
        BY <3>1, <3>2
      <3> QED
        BY <1>7, <1>8, <2>2, <3>3 DEF Bounded
    <2>3. CASE max = 0
      BY <1>7, <2>3 DEF Bounded
    <2> QED
      BY <1>7, <2>1, <2>2, <2>3
  <1> QED
    BY <1>1, <1>3, <1>9, <1>10, <1>11 DEF Progress

-----------------------------------------------------------------------------
(* The run. *)

IsCase == \E c \in Cases : root = c.root /\ opt = c.opt /\ net = c.net

Before == {"load", "refused", "begin"}

SplitInv ==
  /\ IsCase
  /\ pc \in Before => images = <<>>
  /\ pc \notin {"load", "refused"} => GoodSamples(ds.samples)
  /\ pc \notin Before => Progress(order, images, ds, opt, net)
  /\ pc \notin Before \cup {"images"} => order = <<>> \/ (~opt.single /\ Capped)

\* The assumptions, for the case at hand.
LEMMA OptionsOf ==
  ASSUME IsCase
  PROVE  /\ opt.max_images \in Nat /\ opt.batch \in Nat \ {0}
         /\ \A p \in DOMAIN net : IsAnswer(net[p])
         /\ IsAnswer(Blank)
  BY Options, Answers DEF IsCase

\* One image, with its index.
LEMMA ImageGood ==
  ASSUME GoodSamples(ds.samples), NEW i \in DOMAIN ds.samples, NEW w, NEW h,
         NEW outputs, IsAnswer(outputs)
  PROVE  GoodImage(EvalImage(i, w, h, outputs)) /\ EvalImage(i, w, h, outputs).index = i
  <1>1. PICK im : im = EvalImage(i, w, h, outputs)
    OBVIOUS
  <1>2. /\ im.index = i /\ im.gts = MakeGt(ds.samples[i], w, h)
        /\ im.dts = PostprocessImage(outputs, w, h, opt.focal)
    BY <1>1 DEF EvalImage
  <1>3. PICK s : s = ds.samples[i]
    OBVIOUS
  <1>4. Annotated(s.boxes)
    BY <1>3 DEF GoodSamples
  <1>5. Annotated(MakeGt(s, w, h))
    BY <1>4, GtAnnotated
  <1>6. PICK focal : focal = opt.focal
    OBVIOUS
  <1>7. Scored(PostprocessImage(outputs, w, h, focal))
    BY AnswerScored
  <1> QED
    BY <1>1, <1>2, <1>3, <1>5, <1>6, <1>7 DEF GoodImage

\* LoadDataset.
LEMMA LoadKeeps == ASSUME SplitInv, Load PROVE SplitInv'
  <1>1. pc = "load" /\ images' = images /\ order' = order /\ opt' = opt /\ root' = root /\ net' = net
    BY DEF Load
  <1>2. IsCase /\ images = <<>>
    BY <1>1 DEF SplitInv, Before
  <1>3. ds' = LoadDataset(root, opt.raw) /\ pc' = (IF ds'.ok THEN "begin" ELSE "refused")
    BY DEF Load
  <1>4. pc' = "begin" => GoodSamples(ds'.samples)
    <2> SUFFICES ASSUME ds'.ok PROVE GoodSamples(ds'.samples)
      BY <1>3
    <2>1. PICK c \in Cases : root = c.root
      BY <1>2 DEF IsCase
    <2>2. PICK raw : raw = opt.raw
      OBVIOUS
    <2>3. PICK d : d = ds'
      OBVIOUS
    <2>4. d = LoadDataset(c.root, raw) /\ d.ok
      BY <1>3, <2>1, <2>2, <2>3
    <2>5. GoodSamples(d.samples)
      BY <2>4, DatasetGood
    <2> QED
      BY <2>3, <2>5
  <1>5. IsCase'
    BY <1>1, <1>2 DEF IsCase
  <1>6. pc' \in {"begin", "refused"}
    BY <1>3
  <1> QED
    BY <1>1, <1>2, <1>4, <1>5, <1>6 DEF SplitInv, Before

\* The order, of the options.
LEMMA BeginKeeps == ASSUME SplitInv, Begin PROVE SplitInv'
  <1>1. /\ pc = "begin" /\ pc' = "images"
        /\ images' = images /\ opt' = opt /\ root' = root /\ net' = net /\ ds' = ds
    BY DEF Begin
  <1>2. IsCase /\ images = <<>> /\ GoodSamples(ds.samples)
    BY <1>1 DEF SplitInv, Before
  <1>3. PICK o : o = opt
    OBVIOUS
  <1>4. PICK d : d = ds
    OBVIOUS
  <1>5. PICK n : n = net
    OBVIOUS
  <1>6. o.max_images \in Nat /\ o.batch \in Nat \ {0}
    BY <1>2, <1>3, OptionsOf
  <1>7. PICK mine : mine = IndicesOf(d, o.split)
    OBVIOUS
  <1>8. PICK ord : ord = order'
    OBVIOUS
  <1>9. PICK most : most = IF o.max_images > 0 THEN FirstOf(mine, o.max_images) ELSE mine
    OBVIOUS
  <1>10. ord \in IF o.single THEN {most} ELSE Orders(mine)
    BY <1>3, <1>4, <1>7, <1>8, <1>9 DEF Begin
  <1>11. GoodSamples(d.samples)
    BY <1>2, <1>4
  <1>12. Progress(ord, <<>>, d, o, n)
    <2>1. CASE o.single
      <3>1. Progress(most, <<>>, d, o, n)
        BY <1>6, <1>7, <1>9, <1>11, <2>1, StartsInOrder
      <3> QED
        BY <1>10, <2>1, <3>1
    <2>2. CASE ~o.single
      <3>1. ord \in Orders(mine)
        BY <1>10, <2>2
      <3> QED
        BY <1>6, <1>7, <1>11, <2>2, <3>1, StartsShuffled
    <2> QED
      BY <2>1, <2>2
  <1>13. IsCase'
    BY <1>1, <1>2 DEF IsCase
  <1> QED
    BY <1>1, <1>2, <1>3, <1>4, <1>5, <1>8, <1>12, <1>13 DEF SplitInv, Before

\* A list of one.
LEMMA OneImage ==
  ASSUME NEW x, NEW new, new = <<x>>
  PROVE  IsList(new) /\ Len(new) = 1 /\ DOMAIN new = {1} /\ new[1] = x
  <1>1. DOMAIN new = 1 .. 1 /\ new = [k \in 1 .. 1 |-> new[k]]
    OBVIOUS
  <1>2. IsList(new) /\ Len(new) = 1
    BY <1>1, ListOf
  <1>3. DOMAIN new = {1} /\ new[1] = x
    OBVIOUS
  <1> QED
    BY <1>2, <1>3

\* push_back, or nothing.
LEMMA JoinedOne ==
  ASSUME NEW s, IsList(s), NEW x
  PROVE  Append(s, x) = Joined(s, <<x>>) /\ s = Joined(s, <<>>)
  <1>1. PICK T : T = Range(s) \cup {x}
    OBVIOUS
  <1>2. s \in Seq(T)
    <2>1. PICK n \in Nat : DOMAIN s = 1 .. n /\ s = [k \in 1 .. n |-> s[k]]
      BY ListLen
    <2>2. \A k \in 1 .. n : s[k] \in T
      BY <1>1, <2>1 DEF Range
    <2>3. s \in [1 .. n -> T]
      BY <2>1, <2>2
    <2> QED
      BY <2>3
  <1>3. x \in T
    BY <1>1
  <1>4. Append(s, x) = s \o <<x>>
    BY <1>2, <1>3, AppendIsConcat
  <1>5. s \o <<>> = s
    BY <1>2, ConcatEmptySeq
  <1> QED
    BY <1>4, <1>5 DEF Joined

\* All but the first.
LEMMA TailAfter ==
  ASSUME NEW s, IsList(s), s # <<>>
  PROVE  Tail(s) = After(s, 1) /\ 1 <= Len(s) /\ 1 \in DOMAIN s
  <1>1. PICK T : T = Range(s)
    OBVIOUS
  <1>2. s \in Seq(T)
    BY <1>1 DEF IsList
  <1>3. Tail(s) = SubSeq(s, 2, Len(s))
    BY <1>2, TailIsSubSeq
  <1>4. 1 <= Len(s) /\ 1 \in DOMAIN s
    BY <1>2
  <1> QED
    BY <1>3, <1>4 DEF After

\* The single path skips an image that it cannot read.
LEMMA EvaluateOneKeeps == ASSUME SplitInv, EvaluateOne PROVE SplitInv'
  <1>1. /\ pc = "images" /\ pc' = "images" /\ opt.single /\ order # <<>>
        /\ opt' = opt /\ root' = root /\ net' = net /\ ds' = ds
    BY DEF EvaluateOne
  <1>2. IsCase /\ GoodSamples(ds.samples) /\ Progress(order, images, ds, opt, net)
    BY <1>1 DEF SplitInv, Before
  <1>3. PICK d, o, n, ord, ims : d = ds /\ o = opt /\ n = net /\ ord = order /\ ims = images
    OBVIOUS
  <1>4. PICK M : M = Places(d, o.split)
    OBVIOUS
  <1>5. Progress(ord, ims, d, o, n) /\ Accounts(ord, ims, M) /\ IsList(ord) /\ IsList(ims)
    BY <1>2, <1>3, <1>4 DEF Progress, Accounts
  <1>6. PICK i : i = ord[1]
    OBVIOUS
  <1>7. Tail(ord) = After(ord, 1) /\ 1 <= Len(ord) /\ 1 \in DOMAIN ord
    BY <1>1, <1>3, <1>5, TailAfter
  <1>8. i \in DOMAIN d.samples
    BY <1>4, <1>5, <1>6, <1>7 DEF Accounts, Places
  <1>9. PICK p : p = d.samples[i].path
    OBVIOUS
  <1>10. PICK im : im = EvalImage(i, SizeOf[p][1], SizeOf[p][2], n[p])
    OBVIOUS
  <1>11. PICK new : new = IF p \notin DOMAIN n THEN <<>> ELSE <<im>>
    OBVIOUS
  <1>12. p \in DOMAIN n => GoodImage(im) /\ im.index = i
    <2> SUFFICES ASSUME p \in DOMAIN n PROVE GoodImage(im) /\ im.index = i
      OBVIOUS
    <2>1. PICK w, h, outputs : w = SizeOf[p][1] /\ h = SizeOf[p][2] /\ outputs = n[p]
      OBVIOUS
    <2>2. IsAnswer(outputs)
      BY <1>2, <1>3, <2>1, OptionsOf
    <2>3. i \in DOMAIN ds.samples
      BY <1>3, <1>8
    <2>4. GoodImage(EvalImage(i, w, h, outputs)) /\ EvalImage(i, w, h, outputs).index = i
      BY <1>2, <2>2, <2>3, ImageGood
    <2> QED
      BY <1>10, <2>1, <2>4
  <1>13. images' = Joined(ims, new) /\ order' = After(ord, 1)
    <2>1. order' = Tail(ord)
      BY <1>3 DEF EvaluateOne
    <2>2. images' = IF p \notin DOMAIN n THEN ims ELSE Append(ims, im)
      BY <1>3, <1>6, <1>9, <1>10 DEF EvaluateOne, Decodable
    <2>3. Append(ims, im) = Joined(ims, <<im>>) /\ ims = Joined(ims, <<>>)
      BY <1>5, JoinedOne
    <2> QED
      BY <1>7, <1>11, <2>1, <2>2, <2>3
  <1>14. /\ IsList(new) /\ Len(new) \in {0, 1} /\ ImagesOf(new, ord) /\ May(ord, ims, new, 1, d, o, n)
    <2>1. o.single
      BY <1>1, <1>3
    <2>2. CASE p \notin DOMAIN n
      <3>1. new = <<>>
        BY <1>11, <2>2
      <3>2. IsList(new) /\ Len(new) = 0 /\ DOMAIN new = {}
        BY <3>1, EmptyList
      <3> QED
        BY <1>6, <1>9, <2>1, <2>2, <3>2 DEF ImagesOf, May
    <2>3. CASE p \in DOMAIN n
      <3>1. new = <<im>>
        BY <1>11, <2>3
      <3>2. IsList(new) /\ Len(new) = 1 /\ DOMAIN new = {1} /\ new[1] = im
        BY <3>1, OneImage
      <3>3. GoodImage(im) /\ im.index = i
        BY <1>12, <2>3
      <3>4. ImagesOf(new, ord)
        BY <1>6, <3>2, <3>3 DEF ImagesOf
      <3>5. May(ord, ims, new, 1, d, o, n)
        BY <1>9, <2>1, <2>3, <3>2, <3>3 DEF May
      <3> QED
        BY <3>2, <3>4, <3>5
    <2> QED
      BY <2>2, <2>3
  <1>15. o.max_images \in Nat /\ o.batch \in Nat \ {0}
    BY <1>2, <1>3, OptionsOf
  <1>16. PICK rest, all : rest = After(ord, 1) /\ all = Joined(ims, new)
    OBVIOUS
  <1>17. Progress(rest, all, d, o, n)
    BY <1>5, <1>7, <1>14, <1>15, <1>16, Proceeds
  <1>18. IsCase'
    BY <1>1, <1>2 DEF IsCase
  <1> QED
    BY <1>1, <1>2, <1>3, <1>13, <1>16, <1>17, <1>18 DEF SplitInv, Before

\* The loader has a blank for it, and its batch may go over the limit.
LEMMA EvaluateBatchKeeps == ASSUME SplitInv, EvaluateBatch PROVE SplitInv'
  <1>1. /\ pc = "images" /\ pc' = "images" /\ ~opt.single /\ order # <<>> /\ ~Capped
        /\ opt' = opt /\ root' = root /\ net' = net /\ ds' = ds
    BY DEF EvaluateBatch
  <1>2. IsCase /\ GoodSamples(ds.samples) /\ Progress(order, images, ds, opt, net)
    BY <1>1 DEF SplitInv, Before
  <1>3. PICK d, o, n, ord, ims : d = ds /\ o = opt /\ n = net /\ ord = order /\ ims = images
    OBVIOUS
  <1>4. PICK M : M = Places(d, o.split)
    OBVIOUS
  <1>5. Progress(ord, ims, d, o, n) /\ Accounts(ord, ims, M) /\ IsList(ord) /\ IsList(ims)
    BY <1>2, <1>3, <1>4 DEF Progress, Accounts
  <1>6. o.max_images \in Nat /\ o.batch \in Nat \ {0}
    BY <1>2, <1>3, OptionsOf
  <1>7. PICK size \in Nat : size = o.batch
    BY <1>6
  <1>8. PICK batch : batch = FirstOf(ord, size)
    OBVIOUS
  <1>9. PICK l \in Nat : l = Len(ord) /\ DOMAIN ord = 1 .. l
    BY <1>5, ListLen
  <1>10. /\ IsList(batch) /\ Len(batch) = (IF Len(ord) < size THEN Len(ord) ELSE size)
         /\ \A k \in DOMAIN batch : k \in DOMAIN ord /\ batch[k] = ord[k]
    BY <1>5, <1>8, FirstList
  <1>11. PICK b \in Nat : b = Len(batch) /\ DOMAIN batch = 1 .. b
    BY <1>10, ListLen
  <1>12. b <= l /\ b <= size
    BY <1>9, <1>10, <1>11
  <1>13. PICK new : new = [j \in 1 .. b |-> InBatch(batch[j])]
    OBVIOUS
  <1>14. IsList(new) /\ Len(new) = b /\ DOMAIN new = 1 .. b
    <2>1. DOMAIN new = 1 .. b /\ new = [j \in 1 .. b |-> new[j]]
      BY <1>13
    <2> QED
      BY <2>1, ListOf
  <1>15. ImagesOf(new, ord)
    <2> SUFFICES ASSUME NEW j \in 1 .. b PROVE new[j].index = ord[j] /\ GoodImage(new[j])
      BY <1>14 DEF ImagesOf
    <2>1. PICK i : i = ord[j]
      OBVIOUS
    <2>2. batch[j] = i /\ j \in DOMAIN ord
      BY <1>10, <1>11, <2>1
    <2>3. i \in DOMAIN ds.samples
      BY <1>3, <1>4, <1>5, <2>1, <2>2 DEF Accounts, Places
    <2>4. PICK s : s = ds.samples[i]
      OBVIOUS
    <2>5. PICK w, h, outputs : /\ w = (IF s.w > 0 THEN s.w ELSE ImgSz)
                               /\ h = (IF s.h > 0 THEN s.h ELSE ImgSz)
                               /\ outputs = (IF s.path \in Decodable THEN net[s.path] ELSE Blank)
      OBVIOUS
    <2>6. new[j] = EvalImage(i, w, h, outputs)
      BY <1>13, <2>2, <2>4, <2>5 DEF InBatch
    <2>7. IsAnswer(outputs)
      BY <1>2, <2>5, OptionsOf DEF Decodable
    <2>8. GoodImage(EvalImage(i, w, h, outputs)) /\ EvalImage(i, w, h, outputs).index = i
      BY <1>2, <2>3, <2>7, ImageGood
    <2> QED
      BY <2>1, <2>6, <2>8
  <1>16. images' = Joined(ims, new) /\ order' = After(ord, b)
    BY <1>3, <1>7, <1>8, <1>11, <1>13 DEF EvaluateBatch, Joined, After
  <1>17. May(ord, ims, new, b, d, o, n)
    <2>1. PICK max \in Nat, p \in Nat : max = o.max_images /\ p = Len(ims)
      BY <1>5, <1>6, ListLen
    <2>2. max > 0 => p < max
      BY <1>1, <1>3, <2>1 DEF Capped
    <2> QED
      BY <1>1, <1>3, <1>7, <1>12, <1>14, <2>1, <2>2 DEF May
  <1>18. PICK rest, all : rest = After(ord, b) /\ all = Joined(ims, new)
    OBVIOUS
  <1>19. Progress(rest, all, d, o, n)
    BY <1>5, <1>6, <1>9, <1>12, <1>14, <1>15, <1>17, <1>18, Proceeds
  <1>20. IsCase'
    BY <1>1, <1>2 DEF IsCase
  <1> QED
    BY <1>1, <1>2, <1>3, <1>16, <1>18, <1>19, <1>20 DEF SplitInv, Before

\* No other step changes the order or the images.
LEMMA OthersKeep ==
  ASSUME SplitInv, UNCHANGED <<root, opt, net, ds, order, images>>,
         \/ pc' = pc
         \/ pc = "images" /\ pc' = "evaluate" /\ (order = <<>> \/ (~opt.single /\ Capped))
         \/ pc \notin Before \cup {"images"} /\ pc' \notin Before \cup {"images"}
  PROVE  SplitInv'
  <1>1. IsCase' /\ (Capped' <=> Capped)
    BY DEF SplitInv, IsCase, Capped
  <1> QED
    BY <1>1 DEF SplitInv, Before

\* What is known of the order and the images is known at every point.
LEMMA SplitInvHolds == Spec => []SplitInv
  <1>1. Init => SplitInv
    BY DEF Init, SplitInv, IsCase, Before
  <1>2. SplitInv /\ [Next]_vars => SplitInv'
    <2> SUFFICES ASSUME SplitInv, [Next]_vars PROVE SplitInv'
      OBVIOUS
    <2>1. CASE Load
      BY <2>1, LoadKeeps
    <2>2. CASE Begin
      BY <2>2, BeginKeeps
    <2>3. CASE EvaluateOne
      BY <2>3, EvaluateOneKeeps
    <2>4. CASE EvaluateBatch
      BY <2>4, EvaluateBatchKeeps
    <2>5. CASE ImagesDone
      BY <2>5, OthersKeep DEF ImagesDone
    <2>6. CASE EvaluateCategory
      BY <2>6, OthersKeep DEF EvaluateCategory, Before
    <2>7. CASE AccumulateCategory
      BY <2>7, OthersKeep DEF AccumulateCategory, Before
    <2>8. CASE NextArea
      BY <2>8, OthersKeep DEF NextArea, Before
    <2>9. CASE Summarize
      BY <2>9, OthersKeep DEF Summarize, Before
    <2>10. CASE UNCHANGED vars
      BY <2>10, OthersKeep DEF vars
    <2> QED
      BY <2>1, <2>2, <2>3, <2>4, <2>5, <2>6, <2>7, <2>8, <2>9, <2>10 DEF Next
  <1> QED
    BY <1>1, <1>2, PTL DEF Spec

IndicesIn(ims) == {ims[i].index : i \in DOMAIN ims}

\* Images of different indices are as many as their indices.
LEMMA CountsOnce ==
  ASSUME NEW ims, NEW ord, NEW M, Accounts(ord, ims, M),
         NEW scored, scored = IndicesIn(ims)
  PROVE  Cardinality(scored) = Len(ims) /\ scored \subseteq M /\ Len(ims) \in Nat
  <1>1. PICK n \in Nat : n = Len(ims) /\ DOMAIN ims = 1 .. n
    BY ListLen DEF Accounts
  <1>2. PICK I : I = 1 .. n
    OBVIOUS
  <1>3. \A i \in I : ims[i].index \in M /\ ims[i].index \in scored
    BY <1>1, <1>2 DEF Accounts, IndicesIn
  <1>4. \A m \in scored : \E i \in I : ims[i].index = m
    BY <1>1, <1>2 DEF IndicesIn
  <1>5. \A i, j \in I : ims[i].index = ims[j].index => i = j
    BY <1>1, <1>2 DEF Accounts
  <1>6. PICK f : f = [i \in I |-> ims[i].index]
    OBVIOUS
  <1>7. f \in [I -> scored]
    BY <1>3, <1>6
  <1>8. f \in Injection(I, scored)
    BY <1>5, <1>6, <1>7 DEF Injection, IsInjective
  <1>9. f \in Surjection(I, scored)
    BY <1>4, <1>6, <1>7 DEF Surjection
  <1>10. ExistsBijection(1 .. n, scored)
    BY <1>2, <1>8, <1>9 DEF ExistsBijection, Bijection
  <1>11. Cardinality(scored) = n
    BY <1>10, FS_CountingElements
  <1>12. scored \subseteq M
    BY <1>3, <1>4
  <1> QED
    BY <1>1, <1>11, <1>12

\* When the order is used up or the limit reached, that is the split.
LEMMA SplitIsEvaluated == SplitInv => EvaluatesTheSplit
  <1> SUFFICES ASSUME SplitInv, pc \notin Before \cup {"images"} PROVE EvaluatesTheSplit
    BY DEF EvaluatesTheSplit, Before
  <1>1. PICK d, o, n, ord, ims : d = ds /\ o = opt /\ n = net /\ ord = order /\ ims = images
    OBVIOUS
  <1>2. PICK M : M = Places(d, o.split)
    OBVIOUS
  <1>3. /\ Accounts(ord, ims, M) /\ Covers(ord, ims, d, o, n) /\ Readable(ims, d, o, n)
        /\ Bounded(ord, ims, o) /\ GoodSamples(d.samples)
    BY <1>1, <1>2 DEF SplitInv, Before, Progress
  <1>4. PICK max \in Nat, most \in Nat : max = o.max_images /\ most = o.batch
    BY <1>1, OptionsOf DEF SplitInv
  <1>5. PICK mine : mine = IndicesOf(d, o.split)
    OBVIOUS
  <1>6. Range(mine) = M
    <2>1. PICK split : split = o.split
      OBVIOUS
    <2>2. IsList(d.samples) /\ M = Places(d, split) /\ mine = IndicesOf(d, split)
      BY <1>2, <1>3, <1>5, <2>1 DEF GoodSamples
    <2> QED
      BY <2>2, IndicesOnce
  <1>7. PICK scored : scored = {ims[i].index : i \in DOMAIN ims}
    OBVIOUS
  <1>7a. scored = IndicesIn(ims)
    BY <1>7 DEF IndicesIn
  <1>8. PICK c \in Nat : c = Len(ims) /\ c = Cardinality(scored) /\ scored \subseteq M
    BY <1>3, <1>7a, CountsOnce
  <1>9. PICK bad : bad = {i \in M : d.samples[i].path \notin DOMAIN n}
    OBVIOUS
  <1>10. ord = <<>> \/ (~o.single /\ max > 0 /\ c >= max)
    BY <1>1, <1>4, <1>8 DEF SplitInv, Before, Capped
  <1>11. ord = <<>> => \A m \in M : m \in scored \/ Skippable(m, d, o, n)
    <2> SUFFICES ASSUME ord = <<>>, NEW m \in M PROVE m \in scored \/ Skippable(m, d, o, n)
      OBVIOUS
    <2>1. DOMAIN ord = {}
      OBVIOUS
    <2>2. Seen(ord, ims, m) \/ Skippable(m, d, o, n)
      BY <1>2, <1>3 DEF Covers
    <2> QED
      BY <1>7, <2>1, <2>2 DEF Seen
  <1>12. max = 0 => scored = IF o.single THEN M \ bad ELSE M
    <2> SUFFICES ASSUME max = 0 PROVE scored = IF o.single THEN M \ bad ELSE M
      OBVIOUS
    <2>1. \A m \in M : m \in scored \/ Skippable(m, d, o, n)
      BY <1>10, <1>11
    <2>2. CASE o.single
      <3>1. \A m \in scored : m \notin bad
        BY <1>3, <1>7, <1>9, <2>2 DEF Readable
      <3>2. \A m \in M : m \in scored \/ m \in bad
        BY <1>4, <1>9, <2>1 DEF Skippable
      <3> QED
        BY <1>8, <2>2, <3>1, <3>2
    <2>3. CASE ~o.single
      BY <1>8, <2>1, <2>3 DEF Skippable
    <2> QED
      BY <2>2, <2>3
  <1>13. max > 0 /\ ~o.single => (c >= max \/ scored = M)
    <2> SUFFICES ASSUME max > 0, ~o.single PROVE c >= max \/ scored = M
      OBVIOUS
    <2>1. ord = <<>> => scored = M
      BY <1>8, <1>11 DEF Skippable
    <2> QED
      BY <1>10, <2>1
  <1>14. max > 0 /\ o.single => c <= max
    <2> SUFFICES ASSUME max > 0, o.single PROVE c <= max
      OBVIOUS
    <2>1. ord = <<>>
      BY <1>10
    <2>2. Len(ord) = 0
      BY <2>1
    <2>3. c + 0 <= max
      BY <1>3, <1>4, <1>8, <2>2 DEF Bounded
    <2> QED
      BY <2>3
  <1> QED
    BY <1>1, <1>4, <1>5, <1>6, <1>7, <1>8, <1>9, <1>12, <1>13, <1>14 DEF EvaluatesTheSplit, Decodable

\* What EvaluateModel scores are samples of the split asked for, each once:
\* without a limit all of them but the unreadable ones of the single path. With
\* a limit a batch run scores no fewer, unless these are all, and a single run
\* no more.
THEOREM EvaluatesTheSplitHolds == Spec => []EvaluatesTheSplit
  <1> QED
    BY SplitInvHolds, SplitIsEvaluated, PTL

-----------------------------------------------------------------------------
(* One detection's turn through the objects. *)

\* Of some numbers, one is the least.
LEMMA FirstOfNat ==
  ASSUME NEW F \in SUBSET Nat, F # {}
  PROVE  \E n \in F : \A m \in F : n <= m
  <1>1. \E n \in F : \A m \in F : ~ (<<m, n>> \in OpToRel(<, Nat))
    BY NatLessThanWellFounded, WFMin
  <1>2. PICK n \in F : \A m \in F : ~ (<<m, n>> \in OpToRel(<, Nat))
    BY <1>1
  <1>3. \A m \in F : ~(m < n)
    BY <1>2 DEF OpToRel
  <1>4. n \in Nat /\ \A m \in F : m \in Nat
    OBVIOUS
  <1>5. \A m \in F : n <= m
    BY <1>3, <1>4
  <1> QED
    BY <1>5

Start(thr) == [best |-> thr, match |-> 0, done |-> FALSE]

IsTurn(f, n, dt, gts, taken, thr, rng) ==
  f = [g \in 0 .. n |-> IF g = 0 THEN Start(thr)
                        ELSE Look(f[g - 1], g, dt, gts, taken, rng)]

\* The loop over the objects has a value.
LEMMA TurnExists ==
  ASSUME NEW dt, NEW gts, NEW taken, NEW thr, NEW rng, NEW l \in Nat
  PROVE  \E f : IsTurn(f, l, dt, gts, taken, thr, rng)
  <1> DEFINE F == {n \in Nat : ~ \E f : IsTurn(f, n, dt, gts, taken, thr, rng)}
  <1> SUFFICES ASSUME F # {} PROVE FALSE
    OBVIOUS
  <1>1. PICK n \in F : \A m \in F : n <= m
    <2> HIDE DEF F
    <2>1. F \in SUBSET Nat
      BY DEF F
    <2> QED
      BY <2>1, FirstOfNat
  <1>2. CASE n = 0
    <2>1. PICK f : f = [g \in 0 .. 0 |-> Start(thr)]
      OBVIOUS
    <2>2. f = [g \in 0 .. 0 |-> IF g = 0 THEN Start(thr) ELSE Look(f[g - 1], g, dt, gts, taken, rng)]
      BY <2>1
    <2> QED
      BY <1>2, <2>2 DEF IsTurn
  <1>3. CASE n # 0
    <2>1. n - 1 \in Nat /\ n - 1 \notin F
      BY <1>1, <1>3
    <2>2. PICK f : IsTurn(f, n - 1, dt, gts, taken, thr, rng)
      BY <2>1
    <2>3. /\ f[0] = Start(thr)
          /\ \A g \in 1 .. n - 1 : f[g] = Look(f[g - 1], g, dt, gts, taken, rng)
      BY <2>1, <2>2 DEF IsTurn
    <2>4. PICK h : h = [g \in 0 .. n |-> IF g = n THEN Look(f[n - 1], n, dt, gts, taken, rng) ELSE f[g]]
      OBVIOUS
    <2>5. \A g \in 0 .. n - 1 : h[g] = f[g]
      BY <2>1, <2>4
    <2>6. \A g \in 0 .. n : h[g] = IF g = 0 THEN Start(thr) ELSE Look(h[g - 1], g, dt, gts, taken, rng)
      <3> SUFFICES ASSUME NEW g \in 0 .. n
                   PROVE  h[g] = IF g = 0 THEN Start(thr) ELSE Look(h[g - 1], g, dt, gts, taken, rng)
        OBVIOUS
      <3>1. CASE g = 0
        BY <1>3, <2>3, <2>4, <3>1
      <3>2. CASE g # 0 /\ g = n
        <4>1. h[g - 1] = f[n - 1] /\ h[g] = Look(f[n - 1], n, dt, gts, taken, rng)
          BY <2>1, <2>4, <2>5, <3>2
        <4> QED
          BY <3>2, <4>1
      <3>3. CASE g # 0 /\ g # n
        <4>1. g \in 1 .. n - 1 /\ g \in 0 .. n - 1 /\ g - 1 \in 0 .. n - 1
          BY <3>3
        <4>2. h[g] = f[g] /\ h[g - 1] = f[g - 1]
          BY <2>5, <4>1
        <4> QED
          BY <2>3, <3>3, <4>1, <4>2
      <3> QED
        BY <3>1, <3>2, <3>3
    <2>7. IsTurn(h, n, dt, gts, taken, thr, rng)
      <3>1. h = [g \in 0 .. n |-> h[g]]
        BY <2>4
      <3>2. h = [g \in 0 .. n |-> IF g = 0 THEN Start(thr) ELSE Look(h[g - 1], g, dt, gts, taken, rng)]
        BY <2>6, <3>1
      <3> QED
        BY <3>2 DEF IsTurn
    <2> QED
      BY <2>7
  <1> QED
    BY <1>2, <1>3

\* What is still there and overlaps by enough.
Near(h, dt, gts, taken, thr) ==
  (h \notin taken \/ gts[h].iscrowd) /\ Iou(dt, gts[h]) >= thr

Better(dt, gts, rng, g, h) ==
  \/ ~GtIgnored(gts[g], rng) /\ GtIgnored(gts[h], rng)
  \/ GtIgnored(gts[g], rng) = GtIgnored(gts[h], rng) /\ Iou(dt, gts[g]) > Iou(dt, gts[h])

\* After g objects, the best of them is kept.
Kept(s, g, dt, gts, taken, thr, rng) ==
  /\ s.match = 0 => s.best = thr /\ ~s.done /\ \A h \in 1 .. g : ~Near(h, dt, gts, taken, thr)
  /\ s.match # 0 => /\ s.match \in 1 .. g /\ Near(s.match, dt, gts, taken, thr)
                    /\ s.best = Iou(dt, gts[s.match])
                    /\ \A h \in 1 .. g : Near(h, dt, gts, taken, thr) => ~Better(dt, gts, rng, h, s.match)
  /\ s.done => /\ s.match # 0 /\ ~GtIgnored(gts[s.match], rng)
               /\ \E k \in 1 .. g : GtIgnored(gts[k], rng)

\* The ignored objects are the last ones.
Parted(gts, rng) ==
  \A g, h \in DOMAIN gts : g < h /\ GtIgnored(gts[g], rng) => GtIgnored(gts[h], rng)

\* An object counts or it does not.
LEMMA IgnoredOrNot == \A gt, rng : GtIgnored(gt, rng) \in BOOLEAN
  BY DEF GtIgnored

\* One more object: the break loses none, since only ignored ones follow.
LEMMA LookKeeps ==
  ASSUME NEW dt, NEW gts, NEW n \in Nat, DOMAIN gts = 1 .. n, NEW taken, NEW thr \in Int, NEW rng,
         Parted(gts, rng), \A h \in 1 .. n : Iou(dt, gts[h]) \in Int,
         NEW g \in 1 .. n, NEW s, Kept(s, g - 1, dt, gts, taken, thr, rng),
         NEW r, r = Look(s, g, dt, gts, taken, rng)
  PROVE  Kept(r, g, dt, gts, taken, thr, rng)
  <1> DEFINE N(h) == Near(h, dt, gts, taken, thr)
             Ig(h) == GtIgnored(gts[h], rng)
             iou(h) == Iou(dt, gts[h])
             B(h, m) == Better(dt, gts, rng, h, m)
  <1>1. \A h : h \in 1 .. g <=> h \in 1 .. g - 1 \/ h = g
    OBVIOUS
  <1>2. \A h, m \in 1 .. n : h < m /\ Ig(h) => Ig(m)
    BY DEF Parted
  <1>3. \A h, m : B(h, m) <=> (~Ig(h) /\ Ig(m)) \/ ((Ig(h) <=> Ig(m)) /\ iou(h) > iou(m))
    BY IgnoredOrNot DEF Better
  <1>4. \A h : N(h) <=> (h \notin taken \/ gts[h].iscrowd) /\ iou(h) >= thr
    BY DEF Near
  <1>5. /\ s.match = 0 => s.best = thr /\ ~s.done /\ \A h \in 1 .. g - 1 : ~N(h)
        /\ s.match # 0 => /\ s.match \in 1 .. g - 1 /\ N(s.match) /\ s.best = iou(s.match)
                          /\ \A h \in 1 .. g - 1 : N(h) => ~B(h, s.match)
        /\ s.done => s.match # 0 /\ ~Ig(s.match) /\ \E k \in 1 .. g - 1 : Ig(k)
    BY DEF Kept
  <1>6. \A h \in 1 .. n : iou(h) \in Int
    OBVIOUS
  <1>7. \A h \in 1 .. g - 1 : h \in 1 .. n /\ h < g
    OBVIOUS
  <1> HIDE DEF N, Ig, iou, B
  <1>8. CASE s.done \/ (g \in taken /\ ~gts[g].iscrowd)
    <2>1. r = s
      BY <1>8 DEF Look
    <2>2. s.match = 0 => ~N(g)
      BY <1>4, <1>5, <1>8
    <2>3. s.match # 0 /\ N(g) => ~B(g, s.match)
      <3> SUFFICES ASSUME s.match # 0, N(g) PROVE ~B(g, s.match)
        OBVIOUS
      <3>1. s.done
        BY <1>4, <1>8
      <3>2. PICK k \in 1 .. g - 1 : Ig(k)
        BY <1>5, <3>1
      <3>3. Ig(g) /\ ~Ig(s.match)
        BY <1>2, <1>5, <1>7, <3>1, <3>2
      <3> QED
        BY <1>3, <3>3
    <2>4. /\ s.match = 0 => s.best = thr /\ ~s.done /\ \A h \in 1 .. g : ~N(h)
          /\ s.match # 0 => /\ s.match \in 1 .. g /\ N(s.match) /\ s.best = iou(s.match)
                            /\ \A h \in 1 .. g : N(h) => ~B(h, s.match)
          /\ s.done => s.match # 0 /\ ~Ig(s.match) /\ \E k \in 1 .. g : Ig(k)
      BY <1>1, <1>5, <2>2, <2>3
    <2> QED
      BY <2>1, <2>4 DEF Kept, N, Ig, iou, B
  <1>9. CASE /\ ~(s.done \/ (g \in taken /\ ~gts[g].iscrowd))
             /\ s.match # 0 /\ ~Ig(s.match) /\ Ig(g)
    <2>1. r = [best |-> s.best, match |-> s.match, done |-> TRUE]
      BY <1>9 DEF Look, Ig
    <2>2. r.best = s.best /\ r.match = s.match /\ r.done
      BY <2>1
    <2>3. ~B(g, s.match)
      BY <1>3, <1>9
    <2>4. /\ s.match \in 1 .. g /\ N(s.match) /\ s.best = iou(s.match)
          /\ \A h \in 1 .. g : N(h) => ~B(h, s.match)
          /\ \E k \in 1 .. g : Ig(k)
      BY <1>1, <1>5, <1>9, <2>3
    <2> QED
      BY <1>9, <2>2, <2>4 DEF Kept, N, Ig, iou, B
  <1>10. CASE /\ ~(s.done \/ (g \in taken /\ ~gts[g].iscrowd))
              /\ ~(s.match # 0 /\ ~Ig(s.match) /\ Ig(g)) /\ iou(g) < s.best
    <2>1. r = s
      BY <1>10 DEF Look, Ig, iou
    <2>2. s.match = 0 => ~N(g)
      BY <1>4, <1>5, <1>6, <1>10
    <2>3. s.match # 0 => ~B(g, s.match)
      <3> SUFFICES ASSUME s.match # 0 PROVE ~B(g, s.match)
        OBVIOUS
      <3>1. Ig(s.match) => Ig(g)
        BY <1>2, <1>5, <1>7
      <3>2. iou(g) < iou(s.match) /\ iou(g) \in Int /\ iou(s.match) \in Int
        BY <1>5, <1>6, <1>7, <1>10
      <3> QED
        BY <1>3, <3>1, <3>2
    <2>4. /\ s.match = 0 => s.best = thr /\ ~s.done /\ \A h \in 1 .. g : ~N(h)
          /\ s.match # 0 => /\ s.match \in 1 .. g /\ N(s.match) /\ s.best = iou(s.match)
                            /\ \A h \in 1 .. g : N(h) => ~B(h, s.match)
          /\ s.done => s.match # 0 /\ ~Ig(s.match) /\ \E k \in 1 .. g : Ig(k)
      BY <1>1, <1>5, <2>2, <2>3
    <2> QED
      BY <2>1, <2>4 DEF Kept, N, Ig, iou, B
  <1>11. CASE /\ ~(s.done \/ (g \in taken /\ ~gts[g].iscrowd))
              /\ ~(s.match # 0 /\ ~Ig(s.match) /\ Ig(g)) /\ ~(iou(g) < s.best)
    <2>1. r = [best |-> iou(g), match |-> g, done |-> FALSE]
      BY <1>11 DEF Look, Ig, iou
    <2>2. r.best = iou(g) /\ r.match = g /\ ~r.done
      BY <2>1
    <2>3. N(g)
      <3>1. s.best \in Int /\ s.best >= thr
        BY <1>4, <1>5, <1>6, <1>7
      <3> QED
        BY <1>4, <1>6, <1>11, <3>1
    <2>4. ASSUME NEW h \in 1 .. g, N(h) PROVE ~B(h, g)
      <3>1. CASE h = g
        BY <1>3, <1>6, <3>1
      <3>2. CASE h # g
        <4>1. h \in 1 .. g - 1 /\ s.match # 0 /\ s.match \in 1 .. g - 1 /\ ~B(h, s.match)
          BY <1>1, <1>5, <2>4, <3>2
        <4>2. Ig(s.match) <=> Ig(g)
          BY <1>2, <1>7, <1>11, <4>1
        <4>3. /\ iou(s.match) <= iou(g) /\ iou(s.match) \in Int /\ iou(g) \in Int /\ iou(h) \in Int
          BY <1>5, <1>6, <1>7, <1>11, <4>1
        <4> QED
          BY <1>3, <4>1, <4>2, <4>3
      <3> QED
        BY <3>1, <3>2
    <2>5. g # 0 /\ g \in 1 .. g
      OBVIOUS
    <2> QED
      BY <2>2, <2>3, <2>4, <2>5 DEF Kept, N, Ig, iou, B
  <1> QED
    BY <1>8, <1>9, <1>10, <1>11

\* So after all of them the best is the match, or nothing overlaps by enough.
LEMMA BestOfTurn ==
  ASSUME NEW dt, NEW gts, IsList(gts), NEW taken, NEW thr \in Int, NEW rng,
         Parted(gts, rng), \A h \in DOMAIN gts : Iou(dt, gts[h]) \in Int,
         NEW m, m = BestMatch(dt, gts, taken, thr, rng)
  PROVE  IF \E h \in DOMAIN gts : Near(h, dt, gts, taken, thr)
         THEN /\ m \in DOMAIN gts /\ Near(m, dt, gts, taken, thr)
              /\ \A h \in DOMAIN gts : Near(h, dt, gts, taken, thr) => ~Better(dt, gts, rng, h, m)
         ELSE m = 0
  <1>1. PICK n \in Nat : n = Len(gts) /\ DOMAIN gts = 1 .. n
    BY ListLen
  <1>2. PICK turn : turn = CHOOSE f : IsTurn(f, n, dt, gts, taken, thr, rng)
    OBVIOUS
  <1>3. IsTurn(turn, n, dt, gts, taken, thr, rng)
    BY <1>2, TurnExists
  <1>4. m = turn[n].match
    BY <1>1, <1>2 DEF BestMatch, IsTurn, Start
  <1>5. /\ turn[0] = Start(thr)
        /\ \A g \in 1 .. n : turn[g] = Look(turn[g - 1], g, dt, gts, taken, rng)
    <2>1. \A g \in 1 .. n : g \in 0 .. n /\ g # 0
      OBVIOUS
    <2>2. 0 \in 0 .. n
      OBVIOUS
    <2> QED
      BY <1>3, <2>1, <2>2 DEF IsTurn
  <1>6. \A g \in 0 .. n : Kept(turn[g], g, dt, gts, taken, thr, rng)
    <2> DEFINE F == {g \in Nat : g \in 0 .. n /\ ~Kept(turn[g], g, dt, gts, taken, thr, rng)}
    <2> SUFFICES ASSUME F # {} PROVE FALSE
      OBVIOUS
    <2>1. PICK g \in F : \A k \in F : g <= k
      <3> HIDE DEF F
      <3>1. F \in SUBSET Nat
        BY DEF F
      <3> QED
        BY <3>1, FirstOfNat
    <2>2. CASE g = 0
      <3>1. PICK s : s = turn[0]
        OBVIOUS
      <3>2. s.best = thr /\ s.match = 0 /\ s.done = FALSE
        BY <1>5, <3>1 DEF Start
      <3>3. Kept(s, 0, dt, gts, taken, thr, rng)
        BY <3>2 DEF Kept
      <3> QED
        BY <2>1, <2>2, <3>1, <3>3
    <2>3. CASE g # 0
      <3>1. g \in 1 .. n /\ g - 1 \in 0 .. n /\ g - 1 \in Nat /\ g - 1 \notin F
        BY <2>1, <2>3
      <3>2. PICK s, r : s = turn[g - 1] /\ r = turn[g]
        OBVIOUS
      <3>3. Kept(s, g - 1, dt, gts, taken, thr, rng)
        BY <3>1, <3>2
      <3>4. r = Look(s, g, dt, gts, taken, rng)
        BY <1>5, <3>1, <3>2
      <3>5. \A h \in 1 .. n : Iou(dt, gts[h]) \in Int
        BY <1>1
      <3>6. Kept(r, g, dt, gts, taken, thr, rng)
        BY <1>1, <3>1, <3>3, <3>4, <3>5, LookKeeps
      <3> QED
        BY <2>1, <3>2, <3>6
    <2> QED
      BY <2>2, <2>3
  <1>7. PICK s : s = turn[n]
    OBVIOUS
  <1>8. Kept(s, n, dt, gts, taken, thr, rng)
    <2>1. n \in 0 .. n
      OBVIOUS
    <2> QED
      BY <1>6, <1>7, <2>1
  <1>9. m = s.match
    BY <1>4, <1>7
  <1> QED
    BY <1>1, <1>8, <1>9 DEF Kept

-----------------------------------------------------------------------------
(* Detection by detection. *)

TakenBefore(f, d) == {f[b] : b \in 1 .. d - 1}

IsMatching(f, n, dts, gts, thr, rng) ==
  f = [d \in 1 .. n |-> BestMatch(dts[d], gts, TakenBefore(f, d), thr, rng)]

\* The loop over the detections has a value.
LEMMA MatchingExists ==
  ASSUME NEW dts, NEW gts, NEW thr, NEW rng, NEW l \in Nat
  PROVE  \E f : IsMatching(f, l, dts, gts, thr, rng)
  <1> DEFINE F == {n \in Nat : ~ \E f : IsMatching(f, n, dts, gts, thr, rng)}
  <1> SUFFICES ASSUME F # {} PROVE FALSE
    OBVIOUS
  <1>1. PICK n \in F : \A m \in F : n <= m
    <2> HIDE DEF F
    <2>1. F \in SUBSET Nat
      BY DEF F
    <2> QED
      BY <2>1, FirstOfNat
  <1>2. CASE n = 0
    <2>1. PICK f : f = [d \in 1 .. 0 |-> 0]
      OBVIOUS
    <2>2. f = [d \in 1 .. 0 |-> BestMatch(dts[d], gts, TakenBefore(f, d), thr, rng)]
      BY <2>1
    <2> QED
      BY <1>2, <2>2 DEF IsMatching
  <1>3. CASE n # 0
    <2>1. n - 1 \in Nat /\ n - 1 \notin F
      BY <1>1, <1>3
    <2>2. PICK f : IsMatching(f, n - 1, dts, gts, thr, rng)
      BY <2>1
    <2>3. \A d \in 1 .. n - 1 : f[d] = BestMatch(dts[d], gts, TakenBefore(f, d), thr, rng)
      BY <2>2 DEF IsMatching
    <2>4. PICK last : last = BestMatch(dts[n], gts, TakenBefore(f, n), thr, rng)
      OBVIOUS
    <2>5. PICK h : h = [d \in 1 .. n |-> IF d = n THEN last ELSE f[d]]
      OBVIOUS
    <2>6. \A d \in 1 .. n - 1 : h[d] = f[d]
      BY <2>1, <2>5
    <2>7. \A d \in 1 .. n : TakenBefore(h, d) = TakenBefore(f, d)
      <3> SUFFICES ASSUME NEW d \in 1 .. n PROVE TakenBefore(h, d) = TakenBefore(f, d)
        OBVIOUS
      <3>1. \A b \in 1 .. d - 1 : b \in 1 .. n - 1
        OBVIOUS
      <3>2. \A b \in 1 .. d - 1 : h[b] = f[b]
        BY <2>6, <3>1
      <3> QED
        BY <3>2 DEF TakenBefore
    <2>8. \A d \in 1 .. n : h[d] = BestMatch(dts[d], gts, TakenBefore(h, d), thr, rng)
      <3> SUFFICES ASSUME NEW d \in 1 .. n
                   PROVE  h[d] = BestMatch(dts[d], gts, TakenBefore(h, d), thr, rng)
        OBVIOUS
      <3>1. CASE d = n
        BY <2>4, <2>5, <2>7, <3>1
      <3>2. CASE d # n
        <4>1. d \in 1 .. n - 1
          BY <3>2
        <4> QED
          BY <2>3, <2>6, <2>7, <4>1
      <3> QED
        BY <3>1, <3>2
    <2>9. IsMatching(h, n, dts, gts, thr, rng)
      <3>1. h = [d \in 1 .. n |-> h[d]]
        BY <2>5
      <3>2. h = [d \in 1 .. n |-> BestMatch(dts[d], gts, TakenBefore(h, d), thr, rng)]
        BY <2>8, <3>1
      <3> QED
        BY <3>2 DEF IsMatching
    <2> QED
      BY <2>9
  <1> QED
    BY <1>2, <1>3

\* Each detection has the best of what the ones before it left.
LEMMA MatchedBest ==
  ASSUME NEW dts, IsList(dts), NEW gts, IsList(gts), NEW thr \in Int, NEW rng, Parted(gts, rng),
         \A d \in DOMAIN dts : \A h \in DOMAIN gts : Iou(dts[d], gts[h]) \in Int,
         NEW match, match = Matches(dts, gts, thr, rng), NEW d \in DOMAIN dts,
         NEW taken, taken = TakenBefore(match, d)
  PROVE  IF \E h \in DOMAIN gts : Near(h, dts[d], gts, taken, thr)
         THEN /\ match[d] \in DOMAIN gts /\ Near(match[d], dts[d], gts, taken, thr)
              /\ \A h \in DOMAIN gts : Near(h, dts[d], gts, taken, thr) => ~Better(dts[d], gts, rng, h, match[d])
         ELSE match[d] = 0
  <1>1. PICK n \in Nat : n = Len(dts) /\ DOMAIN dts = 1 .. n
    BY ListLen
  <1>2. match = CHOOSE f : IsMatching(f, n, dts, gts, thr, rng)
    BY <1>1 DEF Matches, IsMatching, TakenBefore
  <1>3. IsMatching(match, n, dts, gts, thr, rng)
    BY <1>2, MatchingExists
  <1>4. PICK m : m = match[d]
    OBVIOUS
  <1>5. PICK dt : dt = dts[d]
    OBVIOUS
  <1>6. m = BestMatch(dt, gts, taken, thr, rng)
    BY <1>1, <1>3, <1>4, <1>5 DEF IsMatching
  <1>7. \A h \in DOMAIN gts : Iou(dt, gts[h]) \in Int
    BY <1>5
  <1>8. IF \E h \in DOMAIN gts : Near(h, dt, gts, taken, thr)
        THEN /\ m \in DOMAIN gts /\ Near(m, dt, gts, taken, thr)
             /\ \A h \in DOMAIN gts : Near(h, dt, gts, taken, thr) => ~Better(dt, gts, rng, h, m)
        ELSE m = 0
    BY <1>6, <1>7, BestOfTurn
  <1> QED
    BY <1>4, <1>5, <1>8

-----------------------------------------------------------------------------
(* One image, one category, one area. *)

\* A selection of the ground truth.
LEMMA ChosenAnnotated ==
  ASSUME NEW s, Annotated(s), NEW I \in SUBSET DOMAIN s, NEW a, a = Among(s, I)
  PROVE  Annotated(a) /\ \A k \in DOMAIN a : \E i \in I : a[k] = s[i]
  <1>1. IsList(a) /\ \A k \in DOMAIN a : \E i \in I : a[k] = s[i]
    BY AmongList DEF Annotated
  <1> QED
    BY <1>1 DEF Annotated

\* After the sort by "ignore" no object that counts follows one that does not.
LEMMA RegularAreFirst ==
  ASSUME NEW gts, Annotated(gts), NEW rng, NEW sorted, sorted = RegularFirst(gts, rng)
  PROVE  Annotated(sorted) /\ Parted(sorted, rng)
  <1>1. PICK A \in SUBSET DOMAIN gts : A = {g \in DOMAIN gts : ~GtIgnored(gts[g], rng)}
    OBVIOUS
  <1>2. PICK B \in SUBSET DOMAIN gts : B = {g \in DOMAIN gts : GtIgnored(gts[g], rng)}
    OBVIOUS
  <1>3. PICK a, b : a = Among(gts, A) /\ b = Among(gts, B)
    OBVIOUS
  <1>4. Annotated(a) /\ \A k \in DOMAIN a : \E i \in A : a[k] = gts[i]
    BY <1>3, ChosenAnnotated
  <1>5. Annotated(b) /\ \A k \in DOMAIN b : \E i \in B : b[k] = gts[i]
    BY <1>3, ChosenAnnotated
  <1>6. PICK u : u = Joined(a, b)
    OBVIOUS
  <1>7. u = sorted
    BY <1>1, <1>2, <1>3, <1>6 DEF RegularFirst, Joined
  <1>8. PICK p \in Nat : p = Len(a) /\ DOMAIN a = 1 .. p
    BY <1>4, ListLen DEF Annotated
  <1>9. PICK q \in Nat : q = Len(b) /\ DOMAIN b = 1 .. q
    BY <1>5, ListLen DEF Annotated
  <1>10. /\ IsList(u) /\ Len(u) = p + q
         /\ \A k \in 1 .. p : u[k] = a[k]
         /\ \A k \in 1 .. q : u[p + k] = b[k]
    BY <1>4, <1>5, <1>6, <1>8, <1>9, JoinedList DEF Annotated, Joined
  <1>11. DOMAIN u = 1 .. p + q
    BY <1>10, ListLen
  <1>12. \A k \in 1 .. p + q : k \in 1 .. p \/ (k > p /\ k - p \in 1 .. q /\ p + (k - p) = k)
    OBVIOUS
  <1>13. \A k \in 1 .. p : u[k].obj \in Objects /\ ~GtIgnored(u[k], rng)
    <2> SUFFICES ASSUME NEW k \in 1 .. p PROVE u[k].obj \in Objects /\ ~GtIgnored(u[k], rng)
      OBVIOUS
    <2>1. PICK i \in A : a[k] = gts[i]
      BY <1>4, <1>8
    <2> QED
      BY <1>1, <1>4, <1>8, <1>10, <2>1 DEF Annotated
  <1>14. \A k \in 1 .. p + q : k > p => u[k].obj \in Objects /\ GtIgnored(u[k], rng)
    <2> SUFFICES ASSUME NEW k \in 1 .. p + q, k > p PROVE u[k].obj \in Objects /\ GtIgnored(u[k], rng)
      OBVIOUS
    <2>1. PICK j \in 1 .. q : j = k - p /\ p + j = k
      <3>1. k - p \in 1 .. q /\ p + (k - p) = k
        OBVIOUS
      <3> QED
        BY <3>1
    <2>2. u[k] = b[j]
      BY <1>10, <2>1
    <2>3. PICK i \in B : b[j] = gts[i]
      BY <1>5, <1>9
    <2> QED
      BY <1>2, <1>5, <1>9, <2>2, <2>3 DEF Annotated
  <1>15. Annotated(u)
    BY <1>10, <1>11, <1>12, <1>13, <1>14 DEF Annotated
  <1>16. Parted(u, rng)
    <2> SUFFICES ASSUME NEW g \in 1 .. p + q, NEW h \in 1 .. p + q, g < h, GtIgnored(u[g], rng)
                 PROVE  GtIgnored(u[h], rng)
      BY <1>11 DEF Parted
    <2>1. g > p
      BY <1>12, <1>13
    <2>2. h > p
      BY <2>1
    <2> QED
      BY <1>14, <2>2
  <1> QED
    BY <1>7, <1>15, <1>16

\* The detections of a class, best first, can still be compared.
LEMMA RankedScored ==
  ASSUME NEW s, Scored(s), NEW cat, NEW dts, dts = ByScore(OfClass(s, cat))
  PROVE  Scored(dts)
  <1>1. PICK I \in SUBSET DOMAIN s : I = {i \in DOMAIN s : s[i].class_id = cat}
    OBVIOUS
  <1>2. PICK a : a = Among(s, I)
    OBVIOUS
  <1>3. IsList(a) /\ \A k \in DOMAIN a : \E i \in I : a[k] = s[i]
    BY <1>2, AmongList DEF Scored
  <1>4. \A k \in DOMAIN a : a[k].score \in Int /\ \A o \in Objects : a[k].iou[o] \in Int
    BY <1>3 DEF Scored
  <1>5. PICK key : key = [i \in DOMAIN a |-> -a[i].score]
    OBVIOUS
  <1>6. \A i \in DOMAIN a : key[i] \in Int
    <2> SUFFICES ASSUME NEW i \in DOMAIN a PROVE key[i] \in Int
      OBVIOUS
    <2>1. PICK x \in Int : x = a[i].score
      BY <1>4
    <2>2. key[i] = -x
      BY <1>5, <2>1
    <2> QED
      BY <2>2
  <1>7. dts = SortedBy(a, key)
    BY <1>1, <1>2, <1>5 DEF ByScore, OfClass
  <1>8. IsList(dts) /\ \A k \in DOMAIN dts : \E i \in DOMAIN a : dts[k] = a[i]
    BY <1>3, <1>6, <1>7, SortedList
  <1> QED
    BY <1>4, <1>8 DEF Scored

\* What MatchesBestLeft says of one image.
BestLeft(e, rng) ==
  \A t \in DOMAIN IouThrs : \A d \in DOMAIN e.dts :
    LET near == {g \in Left(e, t, d) : Iou(e.dts[d], e.gts[g]) >= IouThrs[t]}
        m    == e.match[t][d]
    IN  IF near = {} THEN m = 0
        ELSE m \in near /\ \A g \in near : ~Prefers(e, d, rng, g, m)

\* Every image is matched so.
LEMMA ImageMatched ==
  ASSUME NEW im, GoodImage(im), NEW cat, NEW rng,
         NEW e, e = EvaluateImg(OfClass(im.gts, cat), ByScore(OfClass(im.dts, cat)), rng)
  PROVE  BestLeft(e, rng)
  <1>1. PICK gts, dts : gts = OfClass(im.gts, cat) /\ dts = ByScore(OfClass(im.dts, cat))
    OBVIOUS
  <1>2. Annotated(gts)
    <2>1. PICK s : s = im.gts
      OBVIOUS
    <2>2. PICK I \in SUBSET DOMAIN s : I = {i \in DOMAIN s : s[i].class_id = cat}
      OBVIOUS
    <2>3. gts = Among(s, I)
      BY <1>1, <2>1, <2>2 DEF OfClass
    <2>4. Annotated(s)
      BY <2>1 DEF GoodImage
    <2> QED
      BY <2>3, <2>4, ChosenAnnotated
  <1>3. Scored(dts)
    <2>1. PICK s : s = im.dts
      OBVIOUS
    <2>2. Scored(s) /\ dts = ByScore(OfClass(s, cat))
      BY <1>1, <2>1 DEF GoodImage
    <2> QED
      BY <2>2, RankedScored
  <1>4. PICK sorted : sorted = RegularFirst(gts, rng)
    OBVIOUS
  <1>5. Annotated(sorted) /\ Parted(sorted, rng) /\ IsList(sorted)
    BY <1>2, <1>4, RegularAreFirst DEF Annotated
  <1>6. PICK most \in Nat : most = MaxDets[Len(MaxDets)]
    <2>1. MaxDets \in Seq(Nat) /\ MaxDets # <<>>
      BY Options
    <2>2. Len(MaxDets) \in DOMAIN MaxDets
      BY <2>1
    <2> QED
      BY <2>1, <2>2
  <1>7. PICK kept : kept = FirstOf(dts, most)
    OBVIOUS
  <1>8. Scored(kept)
    <2>1. IsList(kept) /\ \A k \in DOMAIN kept : k \in DOMAIN dts /\ kept[k] = dts[k]
      BY <1>3, <1>7, FirstList DEF Scored
    <2> QED
      BY <1>3, <2>1 DEF Scored
  <1>9. /\ e.gts = sorted /\ e.dts = kept
        /\ \A t \in DOMAIN IouThrs : e.match[t] = Matches(kept, sorted, IouThrs[t], rng)
    BY <1>1, <1>4, <1>6, <1>7 DEF EvaluateImg
  <1> SUFFICES ASSUME NEW t \in DOMAIN IouThrs, NEW d \in DOMAIN kept
               PROVE  LET near == {g \in Left(e, t, d) : Iou(e.dts[d], e.gts[g]) >= IouThrs[t]}
                          m    == e.match[t][d]
                      IN  IF near = {} THEN m = 0
                          ELSE m \in near /\ \A g \in near : ~Prefers(e, d, rng, g, m)
    BY <1>9 DEF BestLeft
  <1>10. PICK thr \in Int : thr = IouThrs[t]
    BY Options
  <1>11. PICK match : match = e.match[t]
    OBVIOUS
  <1>12. match = Matches(kept, sorted, thr, rng)
    BY <1>9, <1>10, <1>11
  <1>13. \A k \in DOMAIN kept : \A h \in DOMAIN sorted : Iou(kept[k], sorted[h]) \in Int
    BY <1>5, <1>8 DEF Annotated, Scored, Iou
  <1>14. PICK taken : taken = TakenBefore(match, d)
    OBVIOUS
  <1>15. PICK dt, m : dt = kept[d] /\ m = match[d]
    OBVIOUS
  <1>16. IsList(kept)
    BY <1>8 DEF Scored
  <1>17. IF \E h \in DOMAIN sorted : Near(h, dt, sorted, taken, thr)
         THEN /\ m \in DOMAIN sorted /\ Near(m, dt, sorted, taken, thr)
              /\ \A h \in DOMAIN sorted : Near(h, dt, sorted, taken, thr) => ~Better(dt, sorted, rng, h, m)
         ELSE m = 0
    BY <1>5, <1>12, <1>13, <1>14, <1>15, <1>16, MatchedBest
  <1>18. PICK near : near = {g \in Left(e, t, d) : Iou(e.dts[d], e.gts[g]) >= IouThrs[t]}
    OBVIOUS
  <1>19. \A h : h \in near <=> h \in DOMAIN sorted /\ Near(h, dt, sorted, taken, thr)
    <2>1. \A h : h \in taken <=> \E b \in 1 .. d - 1 : match[b] = h
      BY <1>14 DEF TakenBefore
    <2> QED
      BY <1>9, <1>10, <1>11, <1>15, <1>18, <2>1 DEF Left, Near
  <1>20. \A g : Prefers(e, d, rng, g, m) <=> Better(dt, sorted, rng, g, m)
    BY <1>9, <1>15 DEF Prefers, Better
  <1>21. IF near = {} THEN m = 0 ELSE m \in near /\ \A g \in near : ~Prefers(e, d, rng, g, m)
    BY <1>17, <1>19, <1>20
  <1> QED
    BY <1>11, <1>15, <1>18, <1>21

-----------------------------------------------------------------------------
(* The category and area at hand. *)

MatchInv == pc = "accumulate" => evals = EvaluateAll(images, Cats[at[1]], AreaRng[at[2]])

\* What is accumulated is of the images, the category and the area at hand.
LEMMA MatchInvHolds == Spec => []MatchInv
  <1>1. Init => MatchInv
    BY DEF Init, MatchInv
  <1>2. MatchInv /\ [Next]_vars => MatchInv'
    <2> SUFFICES ASSUME MatchInv, [Next]_vars PROVE MatchInv'
      OBVIOUS
    <2>1. CASE EvaluateCategory
      <3>1. images' = images /\ at' = at
        BY <2>1 DEF EvaluateCategory
      <3>2. evals' = EvaluateAll(images, Cats[at[1]], AreaRng[at[2]])
        BY <2>1 DEF EvaluateCategory
      <3>3. Cats' = Cats
        BY DEF Cats
      <3> QED
        BY <3>1, <3>2, <3>3 DEF MatchInv
    <2>2. CASE pc' # "accumulate"
      BY <2>2 DEF MatchInv
    <2>3. CASE UNCHANGED vars
      BY <2>3 DEF vars, MatchInv, Cats
    <2>4. CASE Next /\ ~EvaluateCategory
      <3>1. pc' # "accumulate"
        BY <2>4 DEF Next, Load, Begin, EvaluateOne, EvaluateBatch, ImagesDone,
                    AccumulateCategory, NextArea, Summarize
      <3> QED
        BY <2>2, <3>1
    <2> QED
      BY <2>1, <2>3, <2>4
  <1> QED
    BY <1>1, <1>2, PTL DEF Spec

\* For every image of the run, then.
LEMMA BestIsMatched == SplitInv /\ MatchInv => MatchesBestLeft
  <1> SUFFICES ASSUME SplitInv, MatchInv, pc = "accumulate", NEW i \in DOMAIN evals
               PROVE  BestLeft(evals[i], AreaRng[at[2]])
    BY DEF MatchesBestLeft, BestLeft
  <1>1. PICK cat, rng, ims : cat = Cats[at[1]] /\ rng = AreaRng[at[2]] /\ ims = images
    OBVIOUS
  <1>2. evals = EvaluateAll(ims, cat, rng)
    BY <1>1 DEF MatchInv
  <1>3. i \in DOMAIN ims
    BY <1>2 DEF EvaluateAll
  <1>4. PICK im : im = ims[i]
    OBVIOUS
  <1>5. PICK e : e = evals[i]
    OBVIOUS
  <1>6. e = EvaluateImg(OfClass(im.gts, cat), ByScore(OfClass(im.dts, cat)), rng)
    BY <1>2, <1>3, <1>4, <1>5 DEF EvaluateAll
  <1>7. GoodImage(im)
    BY <1>1, <1>3, <1>4 DEF SplitInv, Before, Progress, Accounts
  <1>8. BestLeft(e, rng)
    BY <1>6, <1>7, ImageMatched
  <1> QED
    BY <1>1, <1>5, <1>8

\* In every category and area, EvaluateImg matches each detection, at each
\* threshold, with the best object that the better scored ones left, one that
\* counts before one that is ignored, or with none if nothing overlaps enough.
THEOREM MatchesBestLeftHolds == Spec => []MatchesBestLeft
  <1> QED
    BY SplitInvHolds, MatchInvHolds, BestIsMatched, PTL

-----------------------------------------------------------------------------
(* The names of the classes. *)

\* Categories that can be told apart by their ids, and their order.
GoodCats(cats) ==
  /\ IsList(cats) /\ \A k \in DOMAIN cats : cats[k].id \in Int
  /\ \A j, k \in DOMAIN cats : cats[j].id = cats[k].id => j = k

IdOrder(S) == {q \in S \X S : q[1].id <= q[2].id}

\* The category at place k of the sorted list is the k-th of their set.
LEMMA PlaceIsRank ==
  ASSUME NEW cats, GoodCats(cats), NEW S, S = Range(cats), NEW a, a = ById(cats)
  PROVE  /\ IsFiniteSet(S) /\ Cardinality(S) \in Nat /\ IsOrder(IdOrder(S), S)
         /\ DOMAIN a = 1 .. Cardinality(S) /\ a = [k \in 1 .. Cardinality(S) |-> a[k]]
         /\ \A k \in DOMAIN a : a[k] \in S /\ Cardinality(UpTo(IdOrder(S), S, a[k])) = k
  <1>1. PICK n \in Nat : n = Len(cats) /\ DOMAIN cats = 1 .. n
    BY ListLen DEF GoodCats
  <1>2. PICK I : I = 1 .. n
    OBVIOUS
  <1>3. PICK key : key = [i \in I |-> cats[i].id]
    OBVIOUS
  <1>4. \A i \in I : i \in Int /\ key[i] \in Int /\ cats[i] \in S /\ key[i] = cats[i].id
    BY <1>1, <1>2, <1>3 DEF GoodCats, Range
  <1>5. \A i, j \in I : key[i] = key[j] => i = j
    BY <1>1, <1>2, <1>4 DEF GoodCats
  <1>6. \A x \in S : x.id \in Int /\ \E i \in I : x = cats[i]
    BY <1>1, <1>2, <1>4 DEF Range
  <1>7. \A x, y \in S : x.id = y.id => x = y
    BY <1>4, <1>5, <1>6
  <1>8. \A x, y \in S : <<x, y>> \in IdOrder(S) <=> x.id <= y.id
    BY DEF IdOrder
  <1>9. IsOrder(IdOrder(S), S)
    BY <1>6, <1>7, <1>8 DEF IsOrder
  <1> DEFINE L == {q \in I \X I : key[q[1]] < key[q[2]] \/ (key[q[1]] = key[q[2]] /\ q[1] <= q[2])}
  <1>10. \A i, j \in I : <<i, j>> \in L <=> key[i] < key[j] \/ (key[i] = key[j] /\ i <= j)
    OBVIOUS
  <1>11. \A j \in I : UpTo(L, I, j) = {i \in I : key[i] < key[j] \/ (key[i] = key[j] /\ i <= j)}
    BY <1>10 DEF UpTo
  <1> HIDE DEF L
  <1>12. IsOrder(L, I)
    BY <1>4, <1>10 DEF IsOrder
  <1>13. IsFiniteSet(I) /\ Cardinality(I) = n
    <2>1. 1 \in Int /\ n \in Int /\ (n - 1) + 1 = n /\ (1 <= n \/ n = 0)
      OBVIOUS
    <2>2. IsFiniteSet(1 .. n) /\ Cardinality(1 .. n) = n
      BY <2>1, FS_Interval
    <2> QED
      BY <1>2, <2>2
  <1>14. PICK f : f = [i \in I |-> cats[i]]
    OBVIOUS
  <1>15. f \in Bijection(I, S)
    <2>1. f \in [I -> S]
      BY <1>4, <1>14
    <2>2. \A i, j \in I : f[i] = f[j] => i = j
      BY <1>4, <1>5, <1>14
    <2>3. \A x \in S : \E i \in I : f[i] = x
      BY <1>6, <1>14
    <2> QED
      BY <2>1, <2>2, <2>3 DEF Bijection, Injection, Surjection, IsInjective
  <1>16. IsFiniteSet(S) /\ Cardinality(S) = n
    BY <1>13, <1>15, FS_Bijection DEF ExistsBijection
  <1>17. ASSUME NEW k \in I
         PROVE  NthBy(key, I, k) \in I /\ Cardinality(UpTo(L, I, NthBy(key, I, k))) = k
    <2>1. \E i \in I : Cardinality(UpTo(L, I, i)) = k
      BY <1>2, <1>12, <1>13, RanksOnce
    <2>2. NthBy(key, I, k) = CHOOSE i \in I : Cardinality(UpTo(L, I, i)) = k
      BY <1>11 DEF NthBy
    <2> QED
      BY <2>1, <2>2
  <1>18. a = [k \in I |-> cats[NthBy(key, I, k)]]
    BY <1>1, <1>2, <1>3 DEF ById, SortedBy
  <1>19. ASSUME NEW k \in I
         PROVE  a[k] \in S /\ Cardinality(UpTo(IdOrder(S), S, a[k])) = k
    <2>1. PICK j \in I : j = NthBy(key, I, k) /\ Cardinality(UpTo(L, I, j)) = k
      BY <1>17
    <2>2. a[k] = cats[j]
      BY <1>18, <2>1
    <2>3. PICK U, V : U = UpTo(L, I, j) /\ V = UpTo(IdOrder(S), S, cats[j])
      OBVIOUS
    <2>4. \A i \in I : i \in U <=> key[i] <= key[j]
      BY <1>4, <1>5, <1>10, <2>3 DEF UpTo
    <2>5. \A x \in S : x \in V <=> x.id <= key[j]
      BY <1>4, <1>8, <2>3 DEF UpTo
    <2>6. U \subseteq I /\ V \subseteq S
      BY <2>3 DEF UpTo
    <2>7. PICK g : g = [i \in U |-> cats[i]]
      OBVIOUS
    <2>8. g \in Bijection(U, V)
      <3>1. \A i \in U : i \in I /\ g[i] = cats[i] /\ cats[i] \in V
        BY <1>4, <2>4, <2>5, <2>6, <2>7
      <3>2. g \in [U -> V]
        BY <2>7, <3>1
      <3>3. \A i, h \in U : g[i] = g[h] => i = h
        BY <1>4, <1>5, <3>1
      <3>4. \A x \in V : \E i \in U : g[i] = x
        <4> SUFFICES ASSUME NEW x \in V PROVE \E i \in U : g[i] = x
          OBVIOUS
        <4>1. PICK i \in I : x = cats[i]
          BY <1>6, <2>6
        <4>2. i \in U
          BY <1>4, <2>4, <2>5, <2>6, <4>1
        <4> QED
          BY <3>1, <4>1, <4>2
      <3> QED
        BY <3>2, <3>3, <3>4 DEF Bijection, Injection, Surjection, IsInjective
    <2>9. IsFiniteSet(U)
      BY <1>13, <2>6, FS_Subset
    <2>10. Cardinality(U) = Cardinality(V)
      BY <2>8, <2>9, FS_Bijection DEF ExistsBijection
    <2> QED
      BY <1>4, <2>1, <2>2, <2>3, <2>10
  <1>20. DOMAIN a = I /\ a = [k \in I |-> a[k]]
    BY <1>18
  <1> QED
    BY <1>2, <1>9, <1>16, <1>19, <1>20

\* So the order by id depends on the set of the categories only.
LEMMA OneOrder ==
  ASSUME NEW cats, GoodCats(cats), NEW others, GoodCats(others), Range(cats) = Range(others)
  PROVE  ById(cats) = ById(others)
  <1>1. PICK S, a, b : S = Range(cats) /\ a = ById(cats) /\ b = ById(others)
    OBVIOUS
  <1>2. /\ IsFiniteSet(S) /\ IsOrder(IdOrder(S), S)
        /\ DOMAIN a = 1 .. Cardinality(S) /\ a = [k \in 1 .. Cardinality(S) |-> a[k]]
        /\ \A k \in DOMAIN a : a[k] \in S /\ Cardinality(UpTo(IdOrder(S), S, a[k])) = k
    BY <1>1, PlaceIsRank
  <1>3. S = Range(others)
    BY <1>1
  <1>4. /\ DOMAIN b = 1 .. Cardinality(S) /\ b = [k \in 1 .. Cardinality(S) |-> b[k]]
        /\ \A k \in DOMAIN b : b[k] \in S /\ Cardinality(UpTo(IdOrder(S), S, b[k])) = k
    BY <1>1, <1>3, PlaceIsRank
  <1>5. \A k \in 1 .. Cardinality(S) : a[k] = b[k]
    BY <1>2, <1>4, RanksOnce
  <1>6. a = b
    BY <1>2, <1>4, <1>5
  <1> QED
    BY <1>1, <1>6

\* The names of the classes of a file.
NamesOf(cats) == [i \in DOMAIN ById(cats) |-> ById(cats)[i].name]

\* The class of a category is its place among the ids, and has its name.
LEMMA ClassIsPlace ==
  ASSUME NEW cats, GoodCats(cats), NEW x \in Range(cats)
  PROVE  /\ ClassOf(ById(cats), x.id) = Place(cats, x.id) - 1
         /\ NamesOf(cats)[Place(cats, x.id)] = x.name
  <1>1. PICK S, a : S = Range(cats) /\ a = ById(cats)
    OBVIOUS
  <1>2. /\ IsFiniteSet(S) /\ Cardinality(S) \in Nat /\ IsOrder(IdOrder(S), S)
        /\ DOMAIN a = 1 .. Cardinality(S)
        /\ \A k \in DOMAIN a : a[k] \in S /\ Cardinality(UpTo(IdOrder(S), S, a[k])) = k
    BY <1>1, PlaceIsRank
  <1>3. x \in S /\ \A y \in S : y.id = x.id => y = x
    <2>1. \A y \in S : \E k \in DOMAIN cats : y = cats[k]
      BY <1>1 DEF Range
    <2> QED
      BY <1>1, <2>1 DEF GoodCats
  <1>4. UpTo(IdOrder(S), S, x) = {c \in S : c.id <= x.id}
    BY <1>3 DEF UpTo, IdOrder
  <1>5. PICK r : r = Cardinality(UpTo(IdOrder(S), S, x))
    OBVIOUS
  <1>6. r = Place(cats, x.id)
    BY <1>1, <1>4, <1>5 DEF Place
  <1>7. r \in 1 .. Cardinality(S)
    BY <1>2, <1>3, <1>5, RanksOnce
  <1>8. a[r] = x
    BY <1>2, <1>3, <1>5, <1>7, RanksOnce
  <1>9. \A j \in DOMAIN a : a[j].id = x.id => j = r
    <2> SUFFICES ASSUME NEW j \in DOMAIN a, a[j].id = x.id PROVE j = r
      OBVIOUS
    <2>1. a[j] = x
      BY <1>2, <1>3
    <2> QED
      BY <1>2, <1>5, <2>1
  <1>10. PICK i : i = CHOOSE j \in DOMAIN a : a[j].id = x.id
    OBVIOUS
  <1>11. i = r
    <2>1. r \in DOMAIN a /\ a[r].id = x.id
      BY <1>2, <1>7, <1>8
    <2> QED
      BY <1>9, <1>10, <2>1
  <1>12. ClassOf(a, x.id) = r - 1
    BY <1>10, <1>11 DEF ClassOf
  <1>13. NamesOf(cats)[r] = x.name
    BY <1>1, <1>2, <1>7, <1>8 DEF NamesOf
  <1> QED
    BY <1>1, <1>6, <1>12, <1>13

-----------------------------------------------------------------------------
(* What a dataset holds of its files. *)

\* An entry of a sample: the path, an object and its class.
Says(s, t) == \E b \in DOMAIN s.boxes : t = <<s.path, s.boxes[b].obj, s.boxes[b].class_id>>

\* The entries of a split are those of its samples.
LEMMA HeldIs ==
  ASSUME NEW ss, NEW split, NEW t
  PROVE  t \in Held(ss, split) <=> \E i \in DOMAIN ss : ss[i].split = split /\ Says(ss[i], t)
  BY DEF Held, Says, Range

\* Of two lists, one after the other.
LEMMA HeldJoined ==
  ASSUME NEW s, NEW u, IsList(s), IsList(u), NEW split
  PROVE  Held(Joined(s, u), split) = Held(s, split) \cup Held(u, split)
  <1>0. PICK both : both = Joined(s, u)
    OBVIOUS
  <1>1. PICK n \in Nat, m \in Nat : /\ n = Len(s) /\ DOMAIN s = 1 .. n
                                    /\ m = Len(u) /\ DOMAIN u = 1 .. m
    BY ListLen
  <1>2. /\ \A k \in DOMAIN both : \/ k \in 1 .. n /\ both[k] = s[k]
                                  \/ k - n \in 1 .. m /\ both[k] = u[k - n]
        /\ \A k \in 1 .. n : both[k] = s[k]
        /\ \A k \in 1 .. m : both[n + k] = u[k]
        /\ IsList(both) /\ Len(both) = n + m
    BY <1>0, <1>1, JoinedList DEF Joined
  <1>3. DOMAIN both = 1 .. n + m
    BY <1>2, ListLen
  <1>4. \A k \in 1 .. n : k \in DOMAIN both
    BY <1>3
  <1>5. \A k \in 1 .. m : n + k \in DOMAIN both
    BY <1>3
  <1>6. ASSUME NEW t \in Held(both, split) PROVE t \in Held(s, split) \cup Held(u, split)
    <2>1. PICK k \in DOMAIN both : both[k].split = split /\ Says(both[k], t)
      BY <1>6, HeldIs
    <2>2. CASE k \in 1 .. n /\ both[k] = s[k]
      <3>1. k \in DOMAIN s /\ s[k].split = split /\ Says(s[k], t)
        BY <1>1, <2>1, <2>2
      <3> QED
        BY <3>1, HeldIs
    <2>3. CASE k - n \in 1 .. m /\ both[k] = u[k - n]
      <3>1. PICK j \in DOMAIN u : both[k] = u[j]
        BY <1>1, <2>3
      <3>2. u[j].split = split /\ Says(u[j], t)
        BY <2>1, <3>1
      <3> QED
        BY <3>2, HeldIs
    <2> QED
      BY <1>2, <2>1, <2>2, <2>3
  <1>7. ASSUME NEW t \in Held(s, split) PROVE t \in Held(both, split)
    <2>1. PICK k \in 1 .. n : s[k].split = split /\ Says(s[k], t)
      BY <1>1, HeldIs
    <2>2. k \in DOMAIN both /\ both[k].split = split /\ Says(both[k], t)
      BY <1>2, <1>4, <2>1
    <2> QED
      BY <2>2, HeldIs
  <1>8. ASSUME NEW t \in Held(u, split) PROVE t \in Held(both, split)
    <2>1. PICK k \in 1 .. m : u[k].split = split /\ Says(u[k], t)
      BY <1>1, HeldIs
    <2>2. PICK j : j = n + k
      OBVIOUS
    <2>3. j \in DOMAIN both /\ both[j] = u[k]
      BY <1>2, <1>5, <2>2
    <2>4. both[j].split = split /\ Says(both[j], t)
      BY <2>1, <2>3
    <2> QED
      BY <2>3, <2>4, HeldIs
  <1> QED
    BY <1>0, <1>6, <1>7, <1>8

\* No samples, or none of the split, hold nothing of it.
OneSplit(ss, split) == IsList(ss) /\ \A i \in DOMAIN ss : ss[i].split = split

LEMMA HeldNot ==
  ASSUME NEW ss, NEW mine, OneSplit(ss, mine), NEW split, split # mine \/ ss = <<>>
  PROVE  Held(ss, split) = {}
  <1> SUFFICES ASSUME NEW t \in Held(ss, split) PROVE FALSE
    OBVIOUS
  <1>1. PICK i \in DOMAIN ss : ss[i].split = split
    BY HeldIs
  <1> QED
    BY <1>1 DEF OneSplit

\* The empty list is of every split.
LEMMA NoSplit == ASSUME NEW split PROVE OneSplit(<<>>, split)
  <1>1. DOMAIN <<>> = {}
    OBVIOUS
  <1> QED
    BY <1>1, EmptyList DEF OneSplit

\* A selection leaves none of the chosen out.
LEMMA AmongAll ==
  ASSUME NEW s, IsList(s), NEW I \in SUBSET DOMAIN s, NEW i \in I
  PROVE  \E k \in DOMAIN Among(s, I) : Among(s, I)[k] = s[i]
  <1>1. PICK n \in Nat : DOMAIN s = 1 .. n
    BY ListLen
  <1>2. PICK p : Picks(Among(s, I), s, I, p)
    BY <1>1, AmongPicks
  <1>3. PICK a : a = Among(s, I)
    OBVIOUS
  <1>4. DOMAIN a = 1 .. Cardinality(I) /\ \A k \in DOMAIN a : a[k] = s[p[k]]
    BY <1>2, <1>3 DEF Picks
  <1>5. PICK k \in 1 .. Cardinality(I) : p[k] = i
    BY <1>2 DEF Picks
  <1> QED
    BY <1>3, <1>4, <1>5

\* Nor does a sorted list.
LEMMA SortedAll ==
  ASSUME NEW s, IsList(s), NEW key, \A i \in DOMAIN s : key[i] \in Int, NEW i \in DOMAIN s
  PROVE  \E k \in DOMAIN SortedBy(s, key) : SortedBy(s, key)[k] = s[i]
  <1>1. PICK n \in Nat : DOMAIN s = 1 .. n
    BY ListLen
  <1>2. PICK I : I = 1 .. n
    OBVIOUS
  <1>3. PICK p : Picks(SortedBy(s, key), s, I, p)
    BY <1>1, <1>2, SortedPicks
  <1>4. PICK a : a = SortedBy(s, key)
    OBVIOUS
  <1>5. DOMAIN a = 1 .. Cardinality(I) /\ \A k \in DOMAIN a : a[k] = s[p[k]]
    BY <1>3, <1>4 DEF Picks
  <1>6. PICK k \in 1 .. Cardinality(I) : p[k] = i
    BY <1>1, <1>2, <1>3 DEF Picks
  <1> QED
    BY <1>4, <1>5, <1>6

\* The last of some places.
LEMMA LastOf ==
  ASSUME NEW n \in Nat, NEW I \in SUBSET (1 .. n), I # {}
  PROVE  \E i \in I : \A j \in I : j <= i
  <1> DEFINE L == {q \in I \X I : q[1] <= q[2]}
  <1>1. IsFiniteSet(I)
    BY AmongPicks
  <1>2. \A i, j \in I : <<i, j>> \in L <=> i <= j
    OBVIOUS
  <1>3. \A i \in I : i \in Int
    OBVIOUS
  <1> HIDE DEF L
  <1>4. IsOrder(L, I)
    BY <1>2, <1>3 DEF IsOrder
  <1>5. PICK i \in I : \A j \in I : <<j, i>> \in L
    BY <1>1, <1>4, Greatest
  <1> QED
    BY <1>2, <1>5

\* The sample that the annotations of an id go to is the last with this id.
LEMMA SampleIsLast ==
  ASSUME NEW ims, IsList(ims), NEW id, NEW k \in DOMAIN ims
  PROVE  LastWith(ims, k, id) <=> /\ \E i \in DOMAIN ims : ims[i].id = id
                                  /\ SampleOf(ims, id) = k
  <1>1. PICK n \in Nat : DOMAIN ims = 1 .. n
    BY ListLen
  <1>2. ASSUME LastWith(ims, k, id)
        PROVE  (\E i \in DOMAIN ims : ims[i].id = id) /\ SampleOf(ims, id) = k
    <2>1. ims[k].id = id /\ \A j \in DOMAIN ims : ims[j].id = id => j <= k
      BY <1>2 DEF LastWith
    <2>2. \A i \in DOMAIN ims : (ims[i].id = id /\ \A j \in DOMAIN ims : ims[j].id = id => j <= i) => i = k
      BY <1>1, <2>1
    <2>3. SampleOf(ims, id) = k
      BY <2>1, <2>2 DEF SampleOf
    <2> QED
      BY <2>1, <2>3
  <1>3. ASSUME \E i \in DOMAIN ims : ims[i].id = id PROVE LastWith(ims, SampleOf(ims, id), id)
    <2>1. PICK C : C = {i \in DOMAIN ims : ims[i].id = id}
      OBVIOUS
    <2>2. PICK g \in C : \A i \in C : i <= g
      <3>1. C # {} /\ C \subseteq 1 .. n
        BY <1>1, <1>3, <2>1
      <3> QED
        BY <3>1, LastOf
    <2>3. \E i \in DOMAIN ims : ims[i].id = id /\ \A j \in DOMAIN ims : ims[j].id = id => j <= i
      BY <2>1, <2>2
    <2> QED
      BY <2>3 DEF SampleOf, LastWith
  <1> QED
    BY <1>2, <1>3

\* An annotation of the k-th image that is used.
LEMMA UsableIs ==
  ASSUME NEW doc, CocoParses(doc), IsList(doc.images), NEW k \in DOMAIN doc.images, NEW a
  PROVE  Usable(doc, a) /\ SampleOf(doc.images, a.image) = k <=> Used(doc, k, a)
  <1>1. PICK ims, cats : ims = doc.images /\ cats = doc.categories
    OBVIOUS
  <1>2. PICK id, cat : id = a.image /\ cat = a.category
    OBVIOUS
  <1>3. /\ \A i \in DOMAIN ims : ims[i].id # Absent
        /\ \A c \in Range(cats) : c.id # Absent
    BY <1>1 DEF CocoParses, Range
  <1>4. Known(cats, cat) <=> \E c \in Range(cats) : c.id = cat
    BY DEF Known, Range
  <1>5. Known(cats, cat) => cat # Absent
    BY <1>3, <1>4
  <1>6. LastWith(ims, k, id) <=> (\E i \in DOMAIN ims : ims[i].id = id) /\ SampleOf(ims, id) = k
    BY <1>1, SampleIsLast
  <1>7. Usable(doc, a) <=> /\ id # Absent /\ cat # Absent /\ a.box # Absent
                           /\ \E i \in DOMAIN ims : ims[i].id = id
                           /\ Known(cats, cat)
                           /\ ims[SampleOf(ims, id)].w > 0 /\ ims[SampleOf(ims, id)].h > 0
    BY <1>1, <1>2 DEF Usable
  <1>8. Used(doc, k, a) <=> /\ LastWith(ims, k, id) /\ ims[k].w > 0 /\ ims[k].h > 0
                            /\ a.box # Absent /\ \E c \in Range(cats) : c.id = cat
    BY <1>1, <1>2 DEF Used
  <1> QED
    BY <1>1, <1>2, <1>3, <1>4, <1>5, <1>6, <1>7, <1>8

\* What a file says of an annotation of the k-th image.
Stating(doc, k, a, raw) ==
  <<doc.images[k].file, a.obj, IF raw THEN a.category ELSE Place(doc.categories, a.category) - 1>>

LEMMA AnnotationsAre ==
  ASSUME NEW doc, doc # Absent, doc.annotations # Absent, NEW raw, NEW t
  PROVE  t \in Annotations(doc, raw) <=>
           \E k \in DOMAIN doc.images : \E i \in DOMAIN doc.annotations :
             /\ Used(doc, k, doc.annotations[i])
             /\ t = Stating(doc, k, doc.annotations[i], raw)
  <1>1. PICK ims, all : ims = doc.images /\ all = doc.annotations
    OBVIOUS
  <1> DEFINE On(k) == {j \in DOMAIN all : Used(doc, k, all[j])}
             Of(k) == {Stating(doc, k, all[i], raw) : i \in On(k)}
  <1>2. Annotations(doc, raw) = UNION {Of(k) : k \in DOMAIN ims}
    BY <1>1 DEF Annotations, Stating
  <1>3. \A k : t \in Of(k) <=> \E i \in DOMAIN all : Used(doc, k, all[i]) /\ t = Stating(doc, k, all[i], raw)
    OBVIOUS
  <1> HIDE DEF Of
  <1>4. t \in Annotations(doc, raw) <=> \E k \in DOMAIN ims : t \in Of(k)
    BY <1>2
  <1>5. t \in Annotations(doc, raw) <=>
          \E k \in DOMAIN ims : \E i \in DOMAIN all : Used(doc, k, all[i]) /\ t = Stating(doc, k, all[i], raw)
    BY <1>3, <1>4
  <1>6. PICK A : A = Annotations(doc, raw)
    OBVIOUS
  <1>7. t \in A <=> \E k \in DOMAIN ims : \E i \in DOMAIN all : Used(doc, k, all[i]) /\ t = Stating(doc, k, all[i], raw)
    BY <1>5, <1>6
  <1> QED
    BY <1>1, <1>6, <1>7

\* The box of an annotation that is used.
LEMMA BoxSays ==
  ASSUME NEW doc, GoodCats(doc.categories), NEW k, NEW a, Used(doc, k, a), NEW raw,
         NEW box, box = CocoBox(ById(doc.categories), a, raw)
  PROVE  Stating(doc, k, a, raw) = <<doc.images[k].file, box.obj, box.class_id>>
  <1>1. PICK cats, cat : cats = doc.categories /\ cat = a.category
    OBVIOUS
  <1>2. PICK x \in Range(cats) : x.id = cat
    BY <1>1 DEF Used
  <1>3. ClassOf(ById(cats), cat) = Place(cats, cat) - 1
    <2>1. ClassOf(ById(cats), x.id) = Place(cats, x.id) - 1
      BY <1>1, ClassIsPlace
    <2> QED
      BY <1>2, <2>1
  <1>4. /\ box.obj = a.obj
        /\ box.class_id = IF raw THEN cat ELSE ClassOf(ById(cats), cat)
    BY <1>1 DEF CocoBox
  <1> QED
    BY <1>1, <1>3, <1>4 DEF Stating

\* The sample of an image has the annotations that are used on it.
LEMMA SampleSays ==
  ASSUME NEW doc, CocoParses(doc), IsList(doc.images), GoodCats(doc.categories),
         doc.annotations # Absent, IsList(doc.annotations), NEW raw,
         NEW k \in DOMAIN doc.images, NEW s, s.path = doc.images[k].file,
         s.boxes = CocoBoxes(doc, ById(doc.categories), k, raw), NEW t
  PROVE  Says(s, t) <=> \E i \in DOMAIN doc.annotations :
                          /\ Used(doc, k, doc.annotations[i])
                          /\ t = Stating(doc, k, doc.annotations[i], raw)
  <1>1. PICK all, cats : all = doc.annotations /\ cats = doc.categories
    OBVIOUS
  <1>2. PICK I \in SUBSET DOMAIN all :
          I = {i \in DOMAIN all : Usable(doc, all[i]) /\ SampleOf(doc.images, all[i].image) = k}
    OBVIOUS
  <1>3. \A i \in DOMAIN all : i \in I <=> Used(doc, k, all[i])
    BY <1>2, UsableIs
  <1>4. PICK mine : mine = Among(all, I)
    OBVIOUS
  <1>5. PICK boxes : boxes = [b \in DOMAIN mine |-> CocoBox(ById(cats), mine[b], raw)]
    OBVIOUS
  <1>6. s.boxes = boxes
    BY <1>1, <1>2, <1>4, <1>5 DEF CocoBoxes
  <1>7. DOMAIN boxes = DOMAIN mine /\ \A b \in DOMAIN mine : boxes[b] = CocoBox(ById(cats), mine[b], raw)
    BY <1>5
  <1>8. ASSUME NEW i \in I, NEW b \in DOMAIN mine, mine[b] = all[i]
        PROVE  Stating(doc, k, all[i], raw) = <<s.path, boxes[b].obj, boxes[b].class_id>>
    <2>1. PICK a, box : a = all[i] /\ box = CocoBox(ById(cats), a, raw)
      OBVIOUS
    <2>2. Used(doc, k, a)
      BY <1>3, <2>1
    <2>3. Stating(doc, k, a, raw) = <<doc.images[k].file, box.obj, box.class_id>>
      BY <1>1, <2>1, <2>2, BoxSays
    <2>4. boxes[b] = box
      BY <1>7, <1>8, <2>1
    <2> QED
      BY <2>1, <2>3, <2>4
  <1>9. \A b \in DOMAIN mine : \E i \in I : mine[b] = all[i]
    BY <1>1, <1>4, AmongList
  <1>10. \A i \in I : \E b \in DOMAIN mine : mine[b] = all[i]
    BY <1>1, <1>4, AmongAll
  <1>11. ASSUME Says(s, t)
         PROVE  \E i \in DOMAIN all : Used(doc, k, all[i]) /\ t = Stating(doc, k, all[i], raw)
    <2>1. PICK b \in DOMAIN mine : t = <<s.path, boxes[b].obj, boxes[b].class_id>>
      BY <1>6, <1>7, <1>11 DEF Says
    <2>2. PICK i \in I : mine[b] = all[i]
      BY <1>9
    <2>3. t = Stating(doc, k, all[i], raw)
      BY <1>8, <2>1, <2>2
    <2> QED
      BY <1>3, <2>3
  <1>12. ASSUME NEW i \in DOMAIN all, Used(doc, k, all[i]), t = Stating(doc, k, all[i], raw)
         PROVE  Says(s, t)
    <2>1. i \in I
      BY <1>3, <1>12
    <2>2. PICK b \in DOMAIN mine : mine[b] = all[i]
      BY <1>10, <2>1
    <2>3. t = <<s.path, boxes[b].obj, boxes[b].class_id>>
      BY <1>8, <1>12, <2>1, <2>2
    <2> QED
      BY <1>6, <1>7, <2>3 DEF Says
  <1> QED
    BY <1>1, <1>11, <1>12

\* The fields of a dataset that loads.
LEMMA LoadedHas ==
  ASSUME NEW ss, NEW names, NEW d, d = Loaded(ss, names)
  PROVE  d.samples = ss /\ d.class_names = names
  BY DEF Loaded

\* What an annotation file that loads becomes.
LEMMA CocoHeld ==
  ASSUME NEW c \in Cases, NEW doc \in CocoDocs(c.root), doc # Absent, NEW split, NEW raw,
         NEW d, d = LoadCocoJson(doc, split, raw), d.ok
  PROVE  /\ GoodCats(doc.categories) /\ d.class_names = NamesOf(doc.categories)
         /\ OneSplit(d.samples, split)
         /\ Held(d.samples, split) = Annotations(doc, raw)
  <1>1. CocoParses(doc)
    <2>1. ~CocoParses(doc) => d = Failed
      BY DEF LoadCocoJson
    <2>2. Failed.ok = FALSE
      BY DEF Failed
    <2> QED
      BY <2>1, <2>2
  <1>2. PICK cats, all, ims : cats = doc.categories /\ all = doc.annotations /\ ims = doc.images
    OBVIOUS
  <1>3. GoodCats(cats)
    BY <1>1, <1>2, CategoryIds DEF GoodCats
  <1>4. IsList(ims) /\ (all # Absent => IsList(all))
    BY <1>1, <1>2, CocoFiles
  <1>5. PICK byId : byId = ById(cats)
    OBVIOUS
  <1>6. PICK n \in Nat : DOMAIN ims = 1 .. n
    BY <1>4, ListLen
  <1> DEFINE Boxes(k) == IF all = Absent THEN <<>> ELSE CocoBoxes(doc, byId, k, raw)
             Sample(k) == [path |-> ims[k].file, split |-> split,
                           w |-> ims[k].w, h |-> ims[k].h, boxes |-> Boxes(k)]
  <1>7. PICK ss : ss = [k \in 1 .. n |-> Sample(k)]
    OBVIOUS
  <1>8. PICK list : list = [i \in DOMAIN byId |-> byId[i].name]
    OBVIOUS
  <1>9. d = Loaded(ss, list)
    BY <1>1, <1>2, <1>5, <1>6, <1>7, <1>8 DEF LoadCocoJson
  <1>10. list = NamesOf(cats)
    BY <1>5, <1>8 DEF NamesOf
  <1>11. d.samples = ss /\ d.class_names = list
    <2>1. PICK got : got = d
      OBVIOUS
    <2>2. got = Loaded(ss, list)
      BY <1>9, <2>1
    <2>3. got.samples = ss /\ got.class_names = list
      BY <2>2, LoadedHas
    <2> QED
      BY <2>1, <2>3
  <1>12. /\ DOMAIN ss = 1 .. n /\ ss = [k \in 1 .. n |-> ss[k]]
         /\ \A k \in 1 .. n : ss[k].boxes = Boxes(k) /\ ss[k].path = ims[k].file /\ ss[k].split = split
    BY <1>7
  <1>13. OneSplit(ss, split)
    <2>1. IsList(ss)
      BY <1>12, ListOf
    <2> QED
      BY <1>12, <2>1 DEF OneSplit
  <1>14. CASE all = Absent
    <2>1. \A k \in 1 .. n : DOMAIN ss[k].boxes = {}
      BY <1>12, <1>14
    <2>2. \A t : t \notin Held(ss, split)
      <3> SUFFICES ASSUME NEW t \in Held(ss, split) PROVE FALSE
        OBVIOUS
      <3>1. PICK k \in 1 .. n : Says(ss[k], t)
        BY <1>12, HeldIs
      <3> QED
        BY <2>1, <3>1 DEF Says
    <2>3. Held(ss, split) = {}
      BY <2>2
    <2>4. Annotations(doc, raw) = {}
      BY <1>2, <1>14 DEF Annotations
    <2> QED
      BY <1>2, <1>3, <1>10, <1>11, <1>13, <2>3, <2>4
  <1>15. CASE all # Absent
    <2>1. ASSUME NEW k \in 1 .. n, NEW t
          PROVE  Says(ss[k], t) <=> \E i \in DOMAIN all : Used(doc, k, all[i]) /\ t = Stating(doc, k, all[i], raw)
      <3>1. PICK s : s = ss[k]
        OBVIOUS
      <3>2. k \in DOMAIN doc.images /\ s.path = doc.images[k].file
        BY <1>2, <1>6, <1>12, <3>1
      <3>3. s.boxes = CocoBoxes(doc, ById(doc.categories), k, raw)
        BY <1>2, <1>5, <1>12, <1>15, <3>1
      <3>4. /\ IsList(doc.images) /\ GoodCats(doc.categories)
            /\ doc.annotations # Absent /\ IsList(doc.annotations)
        BY <1>2, <1>3, <1>4, <1>15
      <3>5. Says(s, t) <=> \E i \in DOMAIN doc.annotations :
                             /\ Used(doc, k, doc.annotations[i])
                             /\ t = Stating(doc, k, doc.annotations[i], raw)
        BY <1>1, <3>2, <3>3, <3>4, SampleSays
      <3> QED
        BY <1>2, <3>1, <3>5
    <2>2. ASSUME NEW t PROVE t \in Held(ss, split) <=> t \in Annotations(doc, raw)
      <3>1. t \in Held(ss, split) <=> \E k \in 1 .. n : Says(ss[k], t)
        BY <1>12, HeldIs
      <3>2. t \in Annotations(doc, raw) <=>
              \E k \in 1 .. n : \E i \in DOMAIN all : Used(doc, k, all[i]) /\ t = Stating(doc, k, all[i], raw)
        <4>1. doc.annotations # Absent
          BY <1>2, <1>15
        <4>2. t \in Annotations(doc, raw) <=>
                \E k \in DOMAIN doc.images : \E i \in DOMAIN doc.annotations :
                  /\ Used(doc, k, doc.annotations[i])
                  /\ t = Stating(doc, k, doc.annotations[i], raw)
          BY <4>1, AnnotationsAre
        <4> QED
          BY <1>2, <1>6, <4>2
      <3> QED
        BY <2>1, <3>1, <3>2
    <2>3. Held(ss, split) = Annotations(doc, raw)
      BY <2>2
    <2> QED
      BY <1>2, <1>3, <1>10, <1>11, <1>13, <2>3
  <1> QED
    BY <1>14, <1>15

\* The entries of a label file.
LineSays(labels, f, t) ==
  labels[f] # Absent /\ \E line \in Range(labels[f]) : line # Malformed /\ t = <<f, line.obj, line.cls>>

LEMMA LabelLinesAre ==
  ASSUME NEW yaml, NEW split, yaml[split] # Absent, NEW t
  PROVE  t \in LabelLines(yaml, split) <=> \E f \in Range(yaml[split]) : LineSays(yaml.labels, f, t)
  <1>1. PICK labels, files : labels = yaml.labels /\ files = yaml[split]
    OBVIOUS
  <1> DEFINE Lines(f) == IF labels[f] = Absent THEN {} ELSE Range(labels[f]) \ {Malformed}
             Of(f) == {<<f, line.obj, line.cls>> : line \in Lines(f)}
  <1>2. LabelLines(yaml, split) = UNION {Of(f) : f \in Range(files)}
    BY <1>1 DEF LabelLines
  <1>3. \A f : t \in Of(f) <=> LineSays(labels, f, t)
    BY DEF LineSays
  <1> HIDE DEF Of
  <1> QED
    BY <1>1, <1>2, <1>3

\* The sample of an image file has the lines of its label file that parse.
LEMMA LabelsSay ==
  ASSUME NEW labels, NEW f, labels[f] # Absent => IsList(labels[f]),
         NEW s, s.path = f, s.boxes = ReadLabels(labels[f]), NEW t
  PROVE  Says(s, t) <=> LineSays(labels, f, t)
  <1>1. PICK lines : lines = labels[f]
    OBVIOUS
  <1>2. CASE lines = Absent
    <2>1. s.boxes = <<>>
      BY <1>1, <1>2 DEF ReadLabels
    <2>2. DOMAIN s.boxes = {}
      BY <2>1
    <2> QED
      BY <1>1, <1>2, <2>2 DEF Says, LineSays
  <1>3. CASE lines # Absent
    <2>1. PICK I \in SUBSET DOMAIN lines : I = {i \in DOMAIN lines : lines[i] # Malformed}
      OBVIOUS
    <2>2. PICK good : good = Among(lines, I)
      OBVIOUS
    <2>3. IsList(lines)
      BY <1>1, <1>3
    <2>4. \A b \in DOMAIN good : \E i \in I : good[b] = lines[i]
      BY <2>2, <2>3, AmongList
    <2>5. \A i \in I : \E b \in DOMAIN good : good[b] = lines[i]
      BY <2>2, <2>3, AmongAll
    <2>6. PICK boxes : boxes = [b \in DOMAIN good |->
                                  [class_id |-> good[b].cls, iscrowd |-> FALSE,
                                   bbox |-> good[b].box, area |-> 0, obj |-> good[b].obj]]
      OBVIOUS
    <2>7. boxes = ReadLabels(lines)
      BY <1>3, <2>1, <2>2, <2>6 DEF ReadLabels
    <2>8. s.boxes = boxes
      BY <1>1, <2>7
    <2>9. DOMAIN boxes = DOMAIN good /\ \A b \in DOMAIN good : boxes[b].obj = good[b].obj /\ boxes[b].class_id = good[b].cls
      BY <2>6
    <2>10. Says(s, t) <=> \E b \in DOMAIN good : t = <<f, good[b].obj, good[b].cls>>
      BY <2>8, <2>9 DEF Says
    <2>11. LineSays(labels, f, t) <=> \E i \in I : t = <<f, lines[i].obj, lines[i].cls>>
      BY <1>1, <1>3, <2>1 DEF LineSays, Range
    <2> QED
      BY <2>4, <2>5, <2>10, <2>11
  <1> QED
    BY <1>2, <1>3

\* A split of image files has the lines of their label files.
LEMMA SplitHeld ==
  ASSUME NEW yaml, NEW split, NEW files, files = yaml[split], files # Absent, IsList(files),
         Range(files) \subseteq DOMAIN yaml.labels \cap Int,
         \A f \in DOMAIN yaml.labels : yaml.labels[f] # Absent => IsList(yaml.labels[f]),
         NEW ss, ss = CollectSplit(files, split, yaml.labels)
  PROVE  OneSplit(ss, split) /\ Held(ss, split) = LabelLines(yaml, split)
  <1>1. PICK n \in Nat : DOMAIN files = 1 .. n /\ Len(files) = n
    BY ListLen
  <1>2. PICK labels : labels = yaml.labels
    OBVIOUS
  <1>3. \A i \in DOMAIN files : files[i] \in DOMAIN labels /\ files[i] \in Int
    BY <1>2 DEF Range
  <1>4. PICK sorted : sorted = SortedBy(files, files)
    OBVIOUS
  <1>5. /\ DOMAIN sorted = 1 .. n
        /\ \A k \in 1 .. n : \E i \in DOMAIN files : sorted[k] = files[i]
    <2>1. IsList(sorted) /\ Len(sorted) = n /\ \A k \in DOMAIN sorted : \E i \in DOMAIN files : sorted[k] = files[i]
      BY <1>1, <1>3, <1>4, SortedList
    <2> QED
      BY <2>1, ListLen
  <1>6. \A i \in DOMAIN files : \E k \in 1 .. n : sorted[k] = files[i]
    BY <1>3, <1>4, <1>5, SortedAll
  <1> DEFINE Sample(i) == [path |-> sorted[i], split |-> split, w |-> 0, h |-> 0,
                           boxes |-> ReadLabels(labels[sorted[i]])]
  <1>7. ss = [i \in 1 .. n |-> Sample(i)]
    BY <1>1, <1>2, <1>4 DEF CollectSplit
  <1>8. /\ DOMAIN ss = 1 .. n /\ ss = [k \in 1 .. n |-> ss[k]]
        /\ \A k \in 1 .. n : /\ ss[k].boxes = ReadLabels(labels[sorted[k]])
                             /\ ss[k].path = sorted[k] /\ ss[k].split = split
    BY <1>7
  <1>9. OneSplit(ss, split)
    <2>1. IsList(ss)
      BY <1>8, ListOf
    <2> QED
      BY <1>8, <2>1 DEF OneSplit
  <1>10. ASSUME NEW k \in 1 .. n, NEW t PROVE Says(ss[k], t) <=> LineSays(labels, sorted[k], t)
    <2>1. PICK f, s : f = sorted[k] /\ s = ss[k]
      OBVIOUS
    <2>2. f \in DOMAIN labels
      BY <1>3, <1>5, <2>1
    <2>3. labels[f] # Absent => IsList(labels[f])
      BY <1>2, <2>2
    <2>4. s.path = f /\ s.boxes = ReadLabels(labels[f])
      BY <1>8, <2>1
    <2>5. Says(s, t) <=> LineSays(labels, f, t)
      BY <2>3, <2>4, LabelsSay
    <2> QED
      BY <2>1, <2>5
  <1>11. ASSUME NEW t PROVE t \in Held(ss, split) <=> t \in LabelLines(yaml, split)
    <2>1. t \in Held(ss, split) <=> \E k \in 1 .. n : Says(ss[k], t)
      BY <1>8, HeldIs
    <2>2. t \in LabelLines(yaml, split) <=> \E f \in Range(files) : LineSays(labels, f, t)
      BY <1>2, LabelLinesAre
    <2>3. (\E k \in 1 .. n : LineSays(labels, sorted[k], t)) <=> \E f \in Range(files) : LineSays(labels, f, t)
      BY <1>5, <1>6 DEF Range
    <2> QED
      BY <1>10, <2>1, <2>2, <2>3
  <1> QED
    BY <1>9, <1>11

Splits == {"train", "val", "test"}

\* Three splits, one after the other, hold each its own.
LEMMA ThreeHeld ==
  ASSUME NEW tr, NEW va, NEW te, OneSplit(tr, "train"), OneSplit(va, "val"), OneSplit(te, "test"),
         NEW all, all = Joined(Joined(tr, va), te)
  PROVE  /\ Held(all, "train") = Held(tr, "train") /\ Held(all, "val") = Held(va, "val")
         /\ Held(all, "test") = Held(te, "test")
  <1>1. PICK one : one = Joined(tr, va)
    OBVIOUS
  <1>2. IsList(tr) /\ IsList(va) /\ IsList(te)
    BY DEF OneSplit
  <1>3. IsList(one)
    BY <1>1, <1>2, JoinedList DEF Joined
  <1>4. \A split : Held(one, split) = Held(tr, split) \cup Held(va, split)
    BY <1>1, <1>2, HeldJoined
  <1>5. \A split : Held(all, split) = Held(one, split) \cup Held(te, split)
    BY <1>1, <1>2, <1>3, HeldJoined
  <1>6. Held(tr, "val") = {} /\ Held(tr, "test") = {}
    BY HeldNot
  <1>7. Held(va, "train") = {} /\ Held(va, "test") = {}
    BY HeldNot
  <1>8. Held(te, "train") = {} /\ Held(te, "val") = {}
    BY HeldNot
  <1> QED
    BY <1>4, <1>5, <1>6, <1>7, <1>8

\* What label files become.
LEMMA YoloHeld ==
  ASSUME NEW c \in Cases, NEW yaml \in Yamls(c.root), NEW d, d = LoadYolo(yaml), d.ok
  PROVE  /\ \A split \in Splits : Held(d.samples, split) = LabelLines(yaml, split)
         /\ d.class_names = ParseNames(yaml.names)
  <1> DEFINE Part(files, split) == IF files = Absent THEN <<>>
                                   ELSE CollectSplit(files, split, yaml.labels)
  <1>1. PICK tr, va, te : /\ tr = Part(yaml.train, "train") /\ va = Part(yaml.val, "val")
                          /\ te = Part(yaml.test, "test")
    OBVIOUS
  <1>2. PICK joined : joined = Joined(Joined(tr, va), te)
    OBVIOUS
  <1>3. PICK names : names = ParseNames(yaml.names)
    OBVIOUS
  <1>4. d = Loaded(joined, names)
    <2>1. d = IF yaml = Malformed \/ {yaml.train, yaml.val, yaml.test} = {Absent} THEN Failed
              ELSE Loaded(joined, names)
      BY <1>1, <1>2, <1>3 DEF LoadYolo, Joined
    <2>2. Failed.ok = FALSE
      BY DEF Failed
    <2> QED
      BY <2>1, <2>2
  <1>5. d.samples = joined /\ d.class_names = names
    <2>1. PICK got : got = d
      OBVIOUS
    <2>2. got = Loaded(joined, names)
      BY <1>4, <2>1
    <2>3. got.samples = joined /\ got.class_names = names
      BY <2>2, LoadedHas
    <2> QED
      BY <2>1, <2>3
  <1>6. ASSUME NEW split, NEW files, files = yaml[split], files \in {yaml.train, yaml.val, yaml.test},
               NEW ss, ss = Part(files, split)
        PROVE  OneSplit(ss, split) /\ Held(ss, split) = LabelLines(yaml, split)
    <2>1. CASE files = Absent
      <3>1. ss = <<>>
        BY <1>6, <2>1
      <3>2. OneSplit(ss, split)
        BY <3>1, NoSplit
      <3>3. Held(ss, split) = {}
        BY <3>1, <3>2, HeldNot
      <3>4. LabelLines(yaml, split) = {}
        BY <1>6, <2>1 DEF LabelLines
      <3> QED
        BY <3>2, <3>3, <3>4
    <2>2. CASE files # Absent
      <3>1. IsList(files) /\ Range(files) \subseteq DOMAIN yaml.labels \cap Int
        BY <1>6, <2>2, YoloFiles
      <3>2. \A f \in DOMAIN yaml.labels : yaml.labels[f] # Absent => IsList(yaml.labels[f])
        BY YoloFiles
      <3>3. ss = CollectSplit(files, split, yaml.labels)
        BY <1>6, <2>2
      <3> QED
        BY <1>6, <2>2, <3>1, <3>2, <3>3, SplitHeld
    <2> QED
      BY <2>1, <2>2
  <1> HIDE DEF Part
  <1>7. OneSplit(tr, "train") /\ Held(tr, "train") = LabelLines(yaml, "train")
    BY <1>1, <1>6
  <1>8. OneSplit(va, "val") /\ Held(va, "val") = LabelLines(yaml, "val")
    BY <1>1, <1>6
  <1>9. OneSplit(te, "test") /\ Held(te, "test") = LabelLines(yaml, "test")
    BY <1>1, <1>6
  <1>10. /\ Held(joined, "train") = Held(tr, "train") /\ Held(joined, "val") = Held(va, "val")
         /\ Held(joined, "test") = Held(te, "test")
    <2>1. OneSplit(tr, "train") /\ OneSplit(va, "val") /\ OneSplit(te, "test")
      BY <1>7, <1>8, <1>9
    <2> QED
      BY <1>2, <2>1, ThreeHeld
  <1> QED
    BY <1>3, <1>5, <1>7, <1>8, <1>9, <1>10 DEF Splits

\* The first numbers are in their own order.
LEMMA NthOfRange ==
  ASSUME NEW n \in Nat, NEW k \in 0 .. n - 1
  PROVE  Nth(0 .. n - 1, k + 1) = k
  <1>1. PICK I : I = 0 .. n - 1
    OBVIOUS
  <1>2. \A j \in I : j \in Nat /\ j <= n - 1
    BY <1>1
  <1>3. k \in I
    BY <1>1
  <1>4. ASSUME NEW j \in Nat, j <= n - 1 PROVE Cardinality({i \in I : i <= j}) = j + 1
    <2>1. {i \in I : i <= j} = 0 .. j
      BY <1>1, <1>4
    <2>2. 0 \in Int /\ j \in Int
      BY <1>4
    <2>3. Cardinality(0 .. j) = IF 0 > j THEN 0 ELSE j - 0 + 1
      BY <2>2, FS_Interval
    <2>4. (IF 0 > j THEN 0 ELSE j - 0 + 1) = j + 1
      BY <1>4
    <2> QED
      BY <2>1, <2>3, <2>4
  <1>5. \A j \in I : Cardinality({i \in I : i <= j}) = j + 1
    BY <1>2, <1>4
  <1>6. \A j \in I : j + 1 = k + 1 => j = k
    BY <1>2, <1>3
  <1>7. \A j \in I : Cardinality({i \in I : i <= j}) = k + 1 => j = k
    BY <1>5, <1>6
  <1>8. Cardinality({i \in I : i <= k}) = k + 1
    BY <1>3, <1>5
  <1> QED
    BY <1>1, <1>3, <1>7, <1>8 DEF Nth

\* The names of a list, or of a map from 0, 1, ... without a gap.
LEMMA YamlNames ==
  ASSUME NEW given, given # Absent => IsFiniteSet(DOMAIN given.of) /\ DOMAIN given.of \subseteq Int
  PROVE  NamesOfYaml(given, ParseNames(given))
  <1> SUFFICES ASSUME given # Absent, ~given.listed, NEW of, of = given.of, NEW n \in Nat,
                      n = Cardinality(DOMAIN of), DOMAIN of = 0 .. n - 1, NEW k \in 0 .. n - 1
               PROVE  Among(of, DOMAIN of)[k + 1] = of[k]
    <2>1. given # Absent => Cardinality(DOMAIN given.of) \in Nat
      BY FS_CardinalityType
    <2>2. given # Absent /\ given.listed => ParseNames(given) = given.of
      BY DEF ParseNames
    <2>3. given # Absent /\ ~given.listed => ParseNames(given) = Among(given.of, DOMAIN given.of)
      BY DEF ParseNames
    <2> QED
      BY <2>1, <2>2, <2>3 DEF NamesOfYaml
  <1>1. Nth(0 .. n - 1, k + 1) = k
    BY NthOfRange
  <1>2. k + 1 \in 1 .. n
    OBVIOUS
  <1>3. Among(of, DOMAIN of)[k + 1] = of[Nth(DOMAIN of, k + 1)]
    BY <1>2 DEF Among
  <1> QED
    BY <1>1, <1>3

\* What a directory of annotation files becomes.
LEMMA MergedHeld ==
  ASSUME NEW c \in Cases, NEW place, place = c.root, place.kind = "directory", NEW raw,
         NEW d, d = MergedCoco(place, raw), d.ok
  PROVE  /\ \A split \in Splits : Held(d.samples, split) = Annotations(DocOf(place, split), raw)
         /\ \A doc \in CocoDocs(place) : GoodCats(doc.categories)
         /\ d.class_names = NamesOf(First(place).categories)
         /\ First(place) \in CocoDocs(place)
  <1> DEFINE Part(doc, split) == IF doc = Absent THEN Loaded(<<>>, Absent)
                                 ELSE LoadCocoJson(doc, split, raw)
  <1>1. PICK train, val : train = Part(place.train, "train") /\ val = Part(place.val, "val")
    OBVIOUS
  <1>2. PICK tr, va : tr = train.samples /\ va = val.samples
    OBVIOUS
  <1>3. PICK joined : joined = Joined(tr, va)
    OBVIOUS
  <1>4. PICK names : names = IF place.train # Absent THEN train.class_names ELSE val.class_names
    OBVIOUS
  <1>5. /\ train.ok /\ val.ok /\ (place.train # Absent \/ place.val # Absent)
        /\ d = Loaded(joined, names)
    <2>1. d = IF {place.train, place.val} = {Absent} \/ ~train.ok \/ ~val.ok THEN Failed
              ELSE Loaded(joined, names)
      BY <1>1, <1>2, <1>3, <1>4 DEF MergedCoco, Joined
    <2>2. Failed.ok = FALSE
      BY DEF Failed
    <2> QED
      BY <2>1, <2>2
  <1>6. d.samples = joined /\ d.class_names = names
    <2>1. PICK got : got = d
      OBVIOUS
    <2>2. got = Loaded(joined, names)
      BY <1>5, <2>1
    <2>3. got.samples = joined /\ got.class_names = names
      BY <2>2, LoadedHas
    <2> QED
      BY <2>1, <2>3
  <1>7. \A doc : doc \in CocoDocs(place) <=> doc \in {place.train, place.val} /\ doc # Absent
    BY DEF CocoDocs
  <1>8. ASSUME NEW doc \in {place.train, place.val}, NEW split, NEW part, part = Part(doc, split), part.ok
        PROVE  /\ OneSplit(part.samples, split) /\ Held(part.samples, split) = Annotations(doc, raw)
               /\ doc # Absent => GoodCats(doc.categories) /\ part.class_names = NamesOf(doc.categories)
    <2>1. CASE doc = Absent
      <3>1. part.samples = <<>>
        BY <1>8, <2>1, LoadedHas
      <3>2. OneSplit(part.samples, split)
        BY <3>1, NoSplit
      <3>3. Held(part.samples, split) = {}
        BY <3>1, <3>2, HeldNot
      <3>4. Annotations(doc, raw) = {}
        BY <2>1 DEF Annotations
      <3> QED
        BY <2>1, <3>2, <3>3, <3>4
    <2>2. CASE doc # Absent
      <3>1. doc \in CocoDocs(c.root)
        BY <1>7, <2>2
      <3>2. part = LoadCocoJson(doc, split, raw)
        BY <1>8, <2>2
      <3> QED
        BY <1>8, <2>2, <3>1, <3>2, CocoHeld
    <2> QED
      BY <2>1, <2>2
  <1> HIDE DEF Part
  <1>9. /\ OneSplit(tr, "train") /\ Held(tr, "train") = Annotations(place.train, raw)
        /\ place.train # Absent => /\ GoodCats(place.train.categories)
                                   /\ train.class_names = NamesOf(place.train.categories)
    BY <1>1, <1>2, <1>5, <1>8
  <1>10. /\ OneSplit(va, "val") /\ Held(va, "val") = Annotations(place.val, raw)
         /\ place.val # Absent => /\ GoodCats(place.val.categories)
                                  /\ val.class_names = NamesOf(place.val.categories)
    BY <1>1, <1>2, <1>5, <1>8
  <1>11. /\ Held(tr, "val") = {} /\ Held(tr, "test") = {}
         /\ Held(va, "train") = {} /\ Held(va, "test") = {}
    BY <1>9, <1>10, HeldNot
  <1>12. IsList(tr) /\ IsList(va)
    BY <1>9, <1>10 DEF OneSplit
  <1>13. \A split : Held(joined, split) = Held(tr, split) \cup Held(va, split)
    BY <1>3, <1>12, HeldJoined
  <1>14. /\ Held(joined, "train") = Annotations(place.train, raw)
         /\ Held(joined, "val") = Annotations(place.val, raw)
         /\ Held(joined, "test") = {}
    BY <1>9, <1>10, <1>11, <1>13
  <1>15. /\ DocOf(place, "train") = place.train /\ DocOf(place, "val") = place.val
         /\ DocOf(place, "test") = Absent
    BY DEF DocOf
  <1>16. Annotations(Absent, raw) = {}
    BY DEF Annotations
  <1>17. \A split \in Splits : Held(joined, split) = Annotations(DocOf(place, split), raw)
    BY <1>14, <1>15, <1>16 DEF Splits
  <1>18. \A doc \in CocoDocs(place) : GoodCats(doc.categories)
    BY <1>7, <1>9, <1>10
  <1>19. First(place) = (IF place.train # Absent THEN place.train ELSE place.val)
    BY DEF First
  <1>20. names = NamesOf(First(place).categories) /\ First(place) \in CocoDocs(place)
    BY <1>4, <1>5, <1>7, <1>9, <1>10, <1>19
  <1> QED
    BY <1>6, <1>17, <1>18, <1>20

\* A table of names serves every file of the same categories.
LEMMA NamesServe ==
  ASSUME NEW doc, NEW other, GoodCats(doc.categories), GoodCats(other.categories),
         SameCategories(doc, other), NEW names, names = NamesOf(other.categories)
  PROVE  NamesOfDoc(doc, names)
  <1>1. PICK cats, others : cats = doc.categories /\ others = other.categories
    OBVIOUS
  <1>2. Range(cats) = Range(others)
    BY <1>1 DEF SameCategories
  <1>3. ById(cats) = ById(others)
    BY <1>1, <1>2, OneOrder
  <1>4. names = NamesOf(cats)
    BY <1>1, <1>3 DEF NamesOf
  <1>5. ASSUME NEW x \in Range(cats) PROVE names[Place(cats, x.id)] = x.name
    <2>1. NamesOf(cats)[Place(cats, x.id)] = x.name
      BY <1>1, ClassIsPlace
    <2> QED
      BY <1>4, <2>1
  <1> QED
    BY <1>1, <1>5 DEF NamesOfDoc

\* Whatever was loaded.
LEMMA DatasetHeld ==
  ASSUME NEW c \in Cases, NEW place, place = c.root, NEW raw,
         NEW d, d = LoadDataset(place, raw), d.ok
  PROVE  /\ \A split \in Splits : Held(d.samples, split) = Stated(place, split, raw)
         /\ NamesClasses(place, d.class_names)
  <1>1. Failed.ok = FALSE
    BY DEF Failed
  <1>2. DetectFormat(place) \in {"coco", "yolo"}
    <2>1. DetectFormat(place) \notin {"coco", "yolo"} => d = Failed
      BY DEF LoadDataset
    <2> QED
      BY <1>1, <2>1
  <1>3. CASE DetectFormat(place) = "coco"
    <2>1. \A split : Stated(place, split, raw) = Annotations(DocOf(place, split), raw)
      BY <1>3 DEF Stated
    <2>2. (\A doc \in CocoDocs(place) : SameCategories(doc, First(place)) => NamesOfDoc(doc, d.class_names))
            => NamesClasses(place, d.class_names)
      BY <1>3 DEF NamesClasses
    <2>3. CASE place.kind = "json"
      <3>1. PICK doc : doc = place.val
        OBVIOUS
      <3>2. d = LoadCocoJson(doc, "val", raw)
        BY <1>3, <2>3, <3>1 DEF LoadDataset
      <3>3. CocoDocs(place) = {doc} /\ First(place) = doc
        BY <2>3, <3>1 DEF CocoDocs, First
      <3>4. doc # Absent
        BY <3>3, CocoFiles
      <3>5. /\ GoodCats(doc.categories) /\ d.class_names = NamesOf(doc.categories)
            /\ OneSplit(d.samples, "val") /\ Held(d.samples, "val") = Annotations(doc, raw)
        BY <3>2, <3>3, <3>4, CocoHeld
      <3>6. Held(d.samples, "train") = {} /\ Held(d.samples, "test") = {}
        BY <3>5, HeldNot
      <3>7. /\ DocOf(place, "val") = doc /\ DocOf(place, "train") = Absent
            /\ DocOf(place, "test") = Absent
        BY <2>3, <3>1 DEF DocOf
      <3>8. Annotations(Absent, raw) = {}
        BY DEF Annotations
      <3>9. \A split \in Splits : Held(d.samples, split) = Annotations(DocOf(place, split), raw)
        BY <3>5, <3>6, <3>7, <3>8 DEF Splits
      <3>10. SameCategories(doc, doc)
        BY DEF SameCategories
      <3>11. NamesOfDoc(doc, d.class_names)
        BY <3>5, <3>10, NamesServe
      <3> QED
        BY <2>1, <2>2, <3>3, <3>9, <3>11
    <2>4. CASE place.kind # "json"
      <3>1. place.kind = "directory"
        BY <1>3, <2>4 DEF DetectFormat
      <3>2. d = MergedCoco(place, raw)
        BY <1>3, <2>4 DEF LoadDataset
      <3>3. /\ \A split \in Splits : Held(d.samples, split) = Annotations(DocOf(place, split), raw)
            /\ \A doc \in CocoDocs(place) : GoodCats(doc.categories)
            /\ d.class_names = NamesOf(First(place).categories)
            /\ First(place) \in CocoDocs(place)
        BY <3>1, <3>2, MergedHeld
      <3>4. PICK first, names : first = First(place) /\ names = d.class_names
        OBVIOUS
      <3>5. GoodCats(first.categories) /\ names = NamesOf(first.categories)
        BY <3>3, <3>4
      <3>6. \A doc \in CocoDocs(place) : SameCategories(doc, first) => NamesOfDoc(doc, names)
        BY <3>3, <3>5, NamesServe
      <3> QED
        BY <2>1, <2>2, <3>3, <3>4, <3>6
    <2> QED
      BY <2>3, <2>4
  <1>4. CASE DetectFormat(place) = "yolo"
    <2>1. d = LoadYolo(place.yaml) /\ place.kind \in {"yaml", "directory"}
      BY <1>4 DEF LoadDataset, DetectFormat
    <2>2. PICK yaml, given : yaml = place.yaml /\ given = yaml.names
      OBVIOUS
    <2>3. yaml # Malformed
      BY <1>1, <2>1, <2>2 DEF LoadYolo
    <2>4. yaml \in Yamls(c.root)
      BY <1>4, <2>1, <2>2, <2>3 DEF Yamls, DetectFormat
    <2>5. /\ \A split \in Splits : Held(d.samples, split) = LabelLines(yaml, split)
          /\ d.class_names = ParseNames(given)
      BY <2>1, <2>2, <2>4, YoloHeld
    <2>6. \A split : Stated(place, split, raw) = LabelLines(yaml, split)
      BY <1>4, <2>2 DEF Stated
    <2>7. given # Absent => IsFiniteSet(DOMAIN given.of) /\ DOMAIN given.of \subseteq Int
      BY <2>2, <2>4, YoloFiles
    <2>8. NamesOfYaml(given, ParseNames(given))
      BY <2>7, YamlNames
    <2>9. NamesClasses(place, d.class_names)
      BY <1>4, <2>2, <2>5, <2>8 DEF NamesClasses
    <2> QED
      BY <2>5, <2>6, <2>9
  <1> QED
    BY <1>2, <1>3, <1>4

DatasetInv == /\ \E c \in Cases : root = c.root /\ opt = c.opt
              /\ ds = Failed \/ ds = LoadDataset(root, opt.raw)

\* What is loaded stays as it was loaded.
LEMMA DatasetInvHolds == Spec => []DatasetInv
  <1>1. Init => DatasetInv
    BY DEF Init, DatasetInv
  <1>2. DatasetInv /\ [Next]_vars => DatasetInv'
    <2> SUFFICES ASSUME DatasetInv, [Next]_vars PROVE DatasetInv'
      OBVIOUS
    <2>1. CASE Load
      BY <2>1 DEF Load, DatasetInv
    <2>2. CASE [Next]_vars /\ ~Load
      <3>1. root' = root /\ opt' = opt /\ ds' = ds
        BY <2>2 DEF Next, Begin, EvaluateOne, EvaluateBatch, ImagesDone, EvaluateCategory,
                    AccumulateCategory, NextArea, Summarize, vars
      <3> QED
        BY <3>1 DEF DatasetInv
    <2> QED
      BY <2>1, <2>2
  <1> QED
    BY <1>1, <1>2, PTL DEF Spec

\* And is what its files say.
LEMMA AnnotationsAreHeld == DatasetInv => LoadedAsAnnotated
  <1> SUFFICES ASSUME DatasetInv, ds.ok
               PROVE  /\ \A split \in Splits : Held(ds.samples, split) = Stated(root, split, opt.raw)
                      /\ NamesClasses(root, ds.class_names)
    BY DEF LoadedAsAnnotated, Splits
  <1>1. PICK c \in Cases : root = c.root /\ opt = c.opt
    BY DEF DatasetInv
  <1>2. PICK place, d, raw : place = root /\ d = ds /\ raw = opt.raw
    OBVIOUS
  <1>3. d.ok /\ d = LoadDataset(place, raw)
    <2>1. ds # Failed
      <3>1. Failed.ok = FALSE
        BY DEF Failed
      <3> QED
        BY <3>1
    <2> QED
      BY <1>2, <2>1 DEF DatasetInv
  <1>4. /\ \A split \in Splits : Held(d.samples, split) = Stated(place, split, raw)
        /\ NamesClasses(place, d.class_names)
    BY <1>1, <1>2, <1>3, DatasetHeld
  <1> QED
    BY <1>2, <1>4

\* A dataset is what its files say: the objects of the usable annotations of
\* each split, each on its image and under the class of its category or line,
\* and no others; and the classes have the names that the files give them, the
\* second annotation file when its categories are those of the first, a map of
\* names when it has no gap.
THEOREM LoadedAsAnnotatedHolds == Spec => []LoadedAsAnnotated
  <1> QED
    BY DatasetInvHolds, AnnotationsAreHeld, PTL

-----------------------------------------------------------------------------
(* Precision and recall. *)

Floor(a, b) == a \div b
Times(a, b) == a * b

\* A quotient reaches r when what is divided reaches r times the divisor.
LEMMA FloorReaches ==
  ASSUME NEW a \in Int, NEW b \in Nat \ {0}, NEW r \in Int
  PROVE  Floor(a, b) \in Int /\ (Floor(a, b) >= r <=> a >= Times(r, b))
  <1>1. PICK q \in Int : q = a \div b
    OBVIOUS
  <1>2. PICK e \in Int : e = a % b
    OBVIOUS
  <1>3. a = b * q + e /\ 0 <= e /\ e < b
    BY <1>1, <1>2
  <1>4. ASSUME q >= r PROVE a >= r * b
    <2>1. (q - r) * b >= 0
      BY <1>4
    <2> QED
      BY <1>3, <2>1
  <1>5. ASSUME q < r PROVE a < r * b
    <2>1. (r - 1 - q) * b >= 0
      BY <1>5
    <2> QED
      BY <1>3, <2>1
  <1> QED
    BY <1>1, <1>4, <1>5 DEF Floor, Times

\* More of the ranking has no fewer hits.
LEMMA HitsGrow ==
  ASSUME NEW en, NEW m \in Nat, NEW n \in Nat, m <= n
  PROVE  Hits(en, m) \in Nat /\ Hits(en, n) \in Nat /\ Hits(en, m) <= Hits(en, n)
  <1>1. PICK S : S = {i \in 1 .. m : en[i].hit}
    OBVIOUS
  <1>2. PICK T : T = {i \in 1 .. n : en[i].hit}
    OBVIOUS
  <1>3. IsFiniteSet(1 .. n)
    BY FS_Interval
  <1>4. T \in SUBSET (1 .. n)
    BY <1>2
  <1>5. IsFiniteSet(T)
    BY <1>3, <1>4, FS_Subset
  <1>6. S \in SUBSET T
    BY <1>1, <1>2
  <1>7. IsFiniteSet(S) /\ Cardinality(S) <= Cardinality(T)
    BY <1>5, <1>6, FS_Subset
  <1>8. Cardinality(S) \in Nat /\ Cardinality(T) \in Nat
    BY <1>5, <1>7, FS_CardinalityType
  <1> QED
    BY <1>1, <1>2, <1>7, <1>8 DEF Hits

\* Of some places, one with the greatest value.
LEMMA BestPlace ==
  ASSUME NEW N \in Nat, NEW n \in 1 .. N, NEW v, \A k \in 1 .. N : v[k] \in Int
  PROVE  \E k \in n .. N : \A j \in n .. N : v[j] <= v[k]
  <1> DEFINE I == n .. N
             L == {q \in I \X I : v[q[1]] < v[q[2]] \/ (v[q[1]] = v[q[2]] /\ q[1] <= q[2])}
  <1>1. IsFiniteSet(I) /\ I # {}
    <2>1. n \in Int /\ N \in Int
      OBVIOUS
    <2>2. IsFiniteSet(n .. N) /\ n \in n .. N
      BY <2>1, FS_Interval
    <2> QED
      BY <2>2
  <1>2. \A i, j \in I : <<i, j>> \in L <=> v[i] < v[j] \/ (v[i] = v[j] /\ i <= j)
    OBVIOUS
  <1>3. \A i \in I : v[i] \in Int /\ i \in Int
    OBVIOUS
  <1> HIDE DEF L, I
  <1>4. IsOrder(L, I)
    BY <1>2, <1>3 DEF IsOrder
  <1>5. PICK i \in I : \A j \in I : <<j, i>> \in L
    BY <1>1, <1>4, Greatest
  <1>6. ASSUME NEW j \in I PROVE v[j] <= v[i]
    <2>1. v[j] < v[i] \/ v[j] = v[i]
      BY <1>2, <1>5
    <2>2. v[j] \in Int /\ v[i] \in Int
      BY <1>3, <1>5
    <2> QED
      BY <2>1, <2>2
  <1> QED
    BY <1>5, <1>6 DEF I

\* The greatest value from a place on.
Top(v, N, n) == CHOOSE x \in {v[k] : k \in n .. N} : \A j \in n .. N : v[j] <= x

IsTop(x, v, N, n) == (\E k \in n .. N : x = v[k]) /\ \A k \in n .. N : v[k] <= x

\* There is one, and it is the only such value.
LEMMA TopIs ==
  ASSUME NEW N \in Nat, NEW n \in 1 .. N, NEW v, \A k \in 1 .. N : v[k] \in Int
  PROVE  IsTop(Top(v, N, n), v, N, n) /\ \A x : IsTop(x, v, N, n) => x = Top(v, N, n)
  <1>1. \E x \in {v[k] : k \in n .. N} : \A j \in n .. N : v[j] <= x
    BY BestPlace
  <1>2. IsTop(Top(v, N, n), v, N, n)
    <2>1. PICK x : x = Top(v, N, n)
      OBVIOUS
    <2>2. x \in {v[k] : k \in n .. N} /\ \A j \in n .. N : v[j] <= x
      BY <1>1, <2>1 DEF Top
    <2> QED
      BY <2>1, <2>2 DEF IsTop
  <1>3. ASSUME NEW x, NEW y, IsTop(x, v, N, n), IsTop(y, v, N, n) PROVE x = y
    <2>1. PICK j, k \in n .. N : x = v[j] /\ y = v[k]
      BY <1>3 DEF IsTop
    <2>2. x <= y /\ y <= x
      BY <1>3, <2>1 DEF IsTop
    <2>3. x \in Int /\ y \in Int
      BY <2>1
    <2> QED
      BY <2>2, <2>3
  <1> QED
    BY <1>2, <1>3

IsEnvelope(f, v, N) ==
  f = [n \in 1 .. N |-> IF n = N \/ v[n] > f[n + 1] THEN v[n] ELSE f[n + 1]]

\* One step from the right.
LEMMA TopStep ==
  ASSUME NEW N \in Nat, NEW n \in 1 .. N, NEW v, \A k \in 1 .. N : v[k] \in Int
  PROVE  Top(v, N, n) = IF n = N \/ v[n] > Top(v, N, n + 1) THEN v[n] ELSE Top(v, N, n + 1)
  <1>1. CASE n = N
    <2>1. \A k \in n .. N : k = n
      BY <1>1
    <2>2. IsTop(v[n], v, N, n)
      BY <2>1 DEF IsTop
    <2> QED
      BY <1>1, <2>2, TopIs
  <1>2. CASE n # N
    <2>1. n + 1 \in 1 .. N
      BY <1>2
    <2>2. PICK y : y = Top(v, N, n + 1)
      OBVIOUS
    <2>3. IsTop(y, v, N, n + 1)
      BY <2>1, <2>2, TopIs
    <2>4. PICK k \in n + 1 .. N : y = v[k]
      BY <2>3 DEF IsTop
    <2>5. y \in Int /\ v[n] \in Int
      BY <2>4
    <2>6. \A j \in n .. N : j = n \/ j \in n + 1 .. N
      OBVIOUS
    <2>7. k \in n .. N /\ n \in n .. N
      OBVIOUS
    <2>8. \A j \in n + 1 .. N : v[j] <= y /\ v[j] \in Int
      BY <2>3 DEF IsTop
    <2>9. CASE v[n] > y
      <3>1. \A j \in n .. N : v[j] <= v[n]
        BY <2>5, <2>6, <2>8, <2>9
      <3>2. IsTop(v[n], v, N, n)
        BY <2>7, <3>1 DEF IsTop
      <3> QED
        BY <2>2, <2>9, <3>2, TopIs
    <2>10. CASE ~(v[n] > y)
      <3>1. \A j \in n .. N : v[j] <= y
        BY <2>5, <2>6, <2>8, <2>10
      <3>2. IsTop(y, v, N, n)
        BY <2>4, <2>7, <3>1 DEF IsTop
      <3> QED
        BY <1>2, <2>2, <2>10, <3>2, TopIs
    <2> QED
      BY <2>9, <2>10
  <1> QED
    BY <1>1, <1>2

\* What the loop from the right leaves at a place is the best from there on.
LEMMA EnvelopeIsTop ==
  ASSUME NEW N \in Nat, NEW v, DOMAIN v = 1 .. N, Len(v) = N, \A k \in 1 .. N : v[k] \in Int,
         NEW n \in 1 .. N
  PROVE  Envelope(v)[n] = Top(v, N, n)
  <1>1. PICK f : f = Envelope(v)
    OBVIOUS
  <1>2. f = CHOOSE g : IsEnvelope(g, v, N)
    BY <1>1 DEF Envelope, IsEnvelope
  <1>3. PICK g : g = [k \in 1 .. N |-> Top(v, N, k)]
    OBVIOUS
  <1>3a. \A k \in 1 .. N : Top(v, N, k) = IF k = N \/ v[k] > Top(v, N, k + 1) THEN v[k]
                                            ELSE Top(v, N, k + 1)
    BY TopStep
  <1>4. \A k \in 1 .. N : g[k] = IF k = N \/ v[k] > g[k + 1] THEN v[k] ELSE g[k + 1]
    <2> SUFFICES ASSUME NEW k \in 1 .. N
                 PROVE  g[k] = IF k = N \/ v[k] > g[k + 1] THEN v[k] ELSE g[k + 1]
      OBVIOUS
    <2>1. k # N => k + 1 \in 1 .. N
      OBVIOUS
    <2> QED
      BY <1>3, <1>3a, <2>1
  <1>5. IsEnvelope(g, v, N)
    <2>1. g = [k \in 1 .. N |-> g[k]]
      BY <1>3
    <2>2. g = [k \in 1 .. N |-> IF k = N \/ v[k] > g[k + 1] THEN v[k] ELSE g[k + 1]]
      BY <1>4, <2>1
    <2> QED
      BY <2>2 DEF IsEnvelope
  <1>6. IsEnvelope(f, v, N)
    BY <1>2, <1>5
  <1>7. \A k \in 1 .. N : f[k] = IF k = N \/ v[k] > f[k + 1] THEN v[k] ELSE f[k + 1]
    BY <1>6 DEF IsEnvelope
  <1> DEFINE F == {d \in Nat : N - d \in 1 .. N /\ f[N - d] # Top(v, N, N - d)}
  <1>8. F = {}
    <2> SUFFICES ASSUME F # {} PROVE FALSE
      OBVIOUS
    <2>1. PICK d \in F : \A c \in F : d <= c
      <3> HIDE DEF F
      <3>1. F \in SUBSET Nat
        BY DEF F
      <3> QED
        BY <3>1, FirstOfNat
    <2>2. PICK k \in 1 .. N : k = N - d
      BY <2>1
    <2>3. f[k] # Top(v, N, k)
      BY <2>1, <2>2
    <2>4. Top(v, N, k) = IF k = N \/ v[k] > Top(v, N, k + 1) THEN v[k] ELSE Top(v, N, k + 1)
      BY <1>3a, <2>2
    <2>5. k # N
      BY <1>7, <2>3, <2>4
    <2>6. d - 1 \in Nat /\ d - 1 \notin F /\ N - (d - 1) = k + 1 /\ k + 1 \in 1 .. N
      BY <2>1, <2>2, <2>5
    <2>7. f[k + 1] = Top(v, N, k + 1)
      BY <2>6
    <2> QED
      BY <1>7, <2>3, <2>4, <2>7
  <1>9. N - n \in Nat /\ N - (N - n) = n
    OBVIOUS
  <1>10. f[n] = Top(v, N, n)
    BY <1>8, <1>9
  <1> QED
    BY <1>1, <1>10

\* More of the ranking, as counted in 1/Unit.
LEMMA ScaledGrow ==
  ASSUME NEW en, NEW m \in Nat, NEW n \in Nat, m <= n
  PROVE  Times(Unit, Hits(en, m)) \in Int /\ Times(Unit, Hits(en, m)) <= Times(Unit, Hits(en, n))
  <1>1. PICK x, y \in Nat : x = Hits(en, m) /\ y = Hits(en, n) /\ x <= y
    BY HitsGrow
  <1>2. PICK u \in Nat : u = Unit
    BY Options
  <1>3. u * x \in Int /\ u * y \in Int
    OBVIOUS
  <1>4. u * (y - x) >= 0
    BY <1>1
  <1>5. u * x <= u * y
    BY <1>3, <1>4
  <1> QED
    BY <1>1, <1>2, <1>3, <1>5 DEF Times

CutsAt(en, npig, r) == {n \in DOMAIN en : Unit * Hits(en, n) >= r * npig}
PrecisionAt(en, n) == (Unit * Hits(en, n)) \div n
BestAt(en, npig, r, p) ==
  LET cuts == CutsAt(en, npig, r)
      best == {PrecisionAt(en, n) : n \in cuts}
  IN  IF cuts = {} THEN p = 0 ELSE p \in best /\ \A x \in best : x <= p

\* The precision and recall of each cut.
LEMMA CutsHave ==
  ASSUME NEW en, NEW N \in Nat, DOMAIN en = 1 .. N, NEW npig \in Nat \ {0}, NEW r \in Int,
         NEW rc, NEW pr, rc = Rc(en, npig), pr = Pr(en)
  PROVE  /\ DOMAIN rc = 1 .. N
         /\ \A n \in 1 .. N : rc[n] >= r <=> n \in CutsAt(en, npig, r)
         /\ \A m, n \in 1 .. N : m \in CutsAt(en, npig, r) /\ m <= n => n \in CutsAt(en, npig, r)
         /\ DOMAIN pr = 1 .. N /\ Len(pr) = N
         /\ \A n \in 1 .. N : pr[n] \in Int /\ pr[n] = PrecisionAt(en, n)
  <1>1. \A n \in 1 .. N : n \in CutsAt(en, npig, r) <=> Times(Unit, Hits(en, n)) >= Times(r, npig)
    BY DEF CutsAt, Times
  <1>2. \A n \in 1 .. N : n \in Nat /\ Times(Unit, Hits(en, n)) \in Int
    BY ScaledGrow
  <1>3. DOMAIN rc = 1 .. N /\ \A n \in 1 .. N : rc[n] = Floor(Times(Unit, Hits(en, n)), npig)
    BY DEF Rc, Floor, Times
  <1>4. \A n \in 1 .. N : rc[n] >= r <=> n \in CutsAt(en, npig, r)
    <2> SUFFICES ASSUME NEW n \in 1 .. N PROVE rc[n] >= r <=> n \in CutsAt(en, npig, r)
      OBVIOUS
    <2>1. PICK a \in Int : a = Times(Unit, Hits(en, n))
      BY <1>2
    <2>2. Floor(a, npig) >= r <=> a >= Times(r, npig)
      BY FloorReaches
    <2> QED
      BY <1>1, <1>3, <2>1, <2>2
  <1>5. ASSUME NEW m \in 1 .. N, NEW n \in 1 .. N, m \in CutsAt(en, npig, r), m <= n
        PROVE  n \in CutsAt(en, npig, r)
    <2>1. PICK a, b \in Int : a = Times(Unit, Hits(en, m)) /\ b = Times(Unit, Hits(en, n))
      BY <1>2
    <2>2. m \in Nat /\ n \in Nat
      BY <1>2
    <2>3. a <= b
      BY <1>5, <2>1, <2>2, ScaledGrow
    <2>4. PICK c \in Int : c = Times(r, npig)
      BY DEF Times
    <2> QED
      BY <1>1, <1>5, <2>1, <2>3, <2>4
  <1>6. pr = [n \in 1 .. N |-> PrecisionAt(en, n)]
    BY DEF Pr, PrecisionAt
  <1>7. \A n \in 1 .. N : PrecisionAt(en, n) \in Int
    <2> SUFFICES ASSUME NEW n \in 1 .. N PROVE PrecisionAt(en, n) \in Int
      OBVIOUS
    <2>1. PICK a \in Int : a = Times(Unit, Hits(en, n))
      BY <1>2
    <2>2. n \in Nat \ {0}
      OBVIOUS
    <2>3. Floor(a, n) \in Int
      BY <2>2 DEF Floor
    <2> QED
      BY <2>1, <2>3 DEF PrecisionAt, Floor, Times
  <1>8. DOMAIN pr = 1 .. N /\ pr = [n \in 1 .. N |-> pr[n]]
    BY <1>6
  <1>9. Len(pr) = N
    BY <1>8, ListOf
  <1> QED
    BY <1>3, <1>4, <1>5, <1>6, <1>7, <1>8, <1>9

FirstCut(C, pr) == IF C = {} THEN 0 ELSE pr[CHOOSE n \in C : \A k \in C : n <= k]

\* The precision of a recall threshold, then.
LEMMA CurveIsBest ==
  ASSUME NEW en, NEW N \in Nat, DOMAIN en = 1 .. N, NEW npig \in Nat \ {0}, NEW r \in Int,
         NEW p, p = At(Rc(en, npig), Envelope(Pr(en)), r)
  PROVE  BestAt(en, npig, r, p)
  <1>1. PICK rc, pr : rc = Rc(en, npig) /\ pr = Pr(en)
    OBVIOUS
  <1>2. PICK C : C = CutsAt(en, npig, r)
    OBVIOUS
  <1>3. /\ DOMAIN rc = 1 .. N
        /\ \A n \in 1 .. N : rc[n] >= r <=> n \in C
        /\ \A m, n \in 1 .. N : m \in C /\ m <= n => n \in C
        /\ DOMAIN pr = 1 .. N /\ Len(pr) = N
        /\ \A n \in 1 .. N : pr[n] \in Int /\ pr[n] = PrecisionAt(en, n)
    BY <1>1, <1>2, CutsHave
  <1>4. C \in SUBSET (1 .. N) /\ {n \in DOMAIN rc : rc[n] >= r} = C
    BY <1>2, <1>3 DEF CutsAt
  <1>5. PICK env : env = Envelope(pr)
    OBVIOUS
  <1>6. p = FirstCut(C, env)
    <2>1. At(rc, env, r) = FirstCut({n \in DOMAIN rc : rc[n] >= r}, env)
      BY DEF At, FirstCut
    <2>2. FirstCut({n \in DOMAIN rc : rc[n] >= r}, env) = FirstCut(C, env)
      BY <1>4
    <2> QED
      BY <1>1, <1>5, <2>1, <2>2
  <1>7. CASE C = {}
    BY <1>2, <1>6, <1>7 DEF BestAt, FirstCut
  <1>8. CASE C # {}
    <2>1. PICK f : f = CHOOSE n \in C : \A k \in C : n <= k
      OBVIOUS
    <2>2. \E n \in C : \A k \in C : n <= k
      BY <1>4, <1>8, LeastOf
    <2>3. f \in C /\ \A k \in C : f <= k
      BY <2>1, <2>2
    <2>4. f \in 1 .. N
      BY <1>4, <2>3
    <2>5. p = Top(pr, N, f)
      <3>1. env[f] = Top(pr, N, f)
        BY <1>3, <1>5, <2>4, EnvelopeIsTop
      <3> QED
        BY <1>6, <1>8, <2>1, <3>1 DEF FirstCut
    <2>6. IsTop(p, pr, N, f)
      BY <1>3, <2>4, <2>5, TopIs
    <2>7. \A n \in C : n \in f .. N
      BY <1>4, <2>3, <2>4
    <2>8. \A n \in f .. N : n \in 1 .. N /\ n \in C
      BY <1>3, <2>3, <2>4
    <2>9. p \in {PrecisionAt(en, n) : n \in C}
      <3>1. PICK k \in f .. N : p = pr[k]
        BY <2>6 DEF IsTop
      <3> QED
        BY <1>3, <2>8, <3>1
    <2>10. \A x \in {PrecisionAt(en, n) : n \in C} : x <= p
      <3> SUFFICES ASSUME NEW n \in C PROVE PrecisionAt(en, n) <= p
        OBVIOUS
      <3>1. n \in f .. N /\ n \in 1 .. N
        BY <2>7, <2>8
      <3>2. pr[n] <= p
        BY <2>6, <3>1 DEF IsTop
      <3> QED
        BY <1>3, <3>1, <3>2
    <2> QED
      BY <1>2, <1>8, <2>9, <2>10 DEF BestAt
  <1> QED
    BY <1>7, <1>8

-----------------------------------------------------------------------------
(* The ranking of all images. *)

GoodEval(e) == Scored(e.dts) /\ IsFiniteSet(e.regular)
GoodEvals(evs) == IsList(evs) /\ \A i \in DOMAIN evs : GoodEval(evs[i])

\* The detections of an image that take part.
LEMMA KeptScored ==
  ASSUME NEW dts, Scored(dts), NEW n \in Nat
  PROVE  Scored(FirstOf(dts, n))
  <1>1. PICK a : a = FirstOf(dts, n)
    OBVIOUS
  <1>2. IsList(a) /\ \A k \in DOMAIN a : k \in DOMAIN dts /\ a[k] = dts[k]
    BY <1>1, FirstList DEF Scored
  <1> QED
    BY <1>1, <1>2 DEF Scored

\* The limits of detections per image are numbers, and there is one.
LEMMA LimitsAre == (\A m \in DOMAIN MaxDets : MaxDets[m] \in Nat) /\ Len(MaxDets) \in DOMAIN MaxDets
  <1>1. MaxDets \in Seq(Nat) /\ MaxDets # <<>>
    BY Options
  <1> QED
    BY <1>1

\* An image that is good is evaluated well.
LEMMA ImageEvaluated ==
  ASSUME NEW im, GoodImage(im), NEW cat, NEW rng,
         NEW e, e = EvaluateImg(OfClass(im.gts, cat), ByScore(OfClass(im.dts, cat)), rng)
  PROVE  GoodEval(e)
  <1>1. PICK gts, dts : gts = OfClass(im.gts, cat) /\ dts = ByScore(OfClass(im.dts, cat))
    OBVIOUS
  <1>2. Annotated(gts)
    <2>1. PICK s : s = im.gts
      OBVIOUS
    <2>2. PICK I \in SUBSET DOMAIN s : I = {i \in DOMAIN s : s[i].class_id = cat}
      OBVIOUS
    <2>3. gts = Among(s, I)
      BY <1>1, <2>1, <2>2 DEF OfClass
    <2>4. Annotated(s)
      BY <2>1 DEF GoodImage
    <2> QED
      BY <2>3, <2>4, ChosenAnnotated
  <1>3. Scored(dts)
    <2>1. PICK s : s = im.dts
      OBVIOUS
    <2>2. Scored(s) /\ dts = ByScore(OfClass(s, cat))
      BY <1>1, <2>1 DEF GoodImage
    <2> QED
      BY <2>2, RankedScored
  <1>4. PICK most \in Nat : most = MaxDets[Len(MaxDets)]
    BY LimitsAre
  <1>5. e.dts = FirstOf(dts, most) /\ e.regular = {g \in DOMAIN gts : ~GtIgnored(gts[g], rng)}
    BY <1>1, <1>4 DEF EvaluateImg
  <1>6. IsFiniteSet(DOMAIN gts)
    <2>1. PICK n \in Nat : DOMAIN gts = 1 .. n
      BY <1>2, ListLen DEF Annotated
    <2>2. 1 \in Int /\ n \in Int
      OBVIOUS
    <2> QED
      BY <2>1, <2>2, FS_Interval
  <1>7. e.regular \in SUBSET DOMAIN gts
    BY <1>5
  <1>8. IsFiniteSet(e.regular)
    BY <1>6, <1>7, FS_Subset
  <1> QED
    BY <1>3, <1>5, <1>8, KeptScored DEF GoodEval

\* Each image of a category and an area.
LEMMA AllEvaluated ==
  ASSUME NEW ims, IsList(ims), \A i \in DOMAIN ims : GoodImage(ims[i]), NEW cat, NEW rng,
         NEW evs, evs = EvaluateAll(ims, cat, rng)
  PROVE  GoodEvals(evs) /\ DOMAIN evs = DOMAIN ims
  <1>1. PICK n \in Nat : DOMAIN ims = 1 .. n
    BY ListLen
  <1>2. DOMAIN evs = 1 .. n /\ evs = [i \in 1 .. n |-> evs[i]]
    BY <1>1 DEF EvaluateAll
  <1>3. IsList(evs)
    BY <1>2, ListOf
  <1>4. ASSUME NEW i \in DOMAIN evs PROVE GoodEval(evs[i])
    <2>1. PICK im, e : im = ims[i] /\ e = evs[i]
      OBVIOUS
    <2>2. e = EvaluateImg(OfClass(im.gts, cat), ByScore(OfClass(im.dts, cat)), rng) /\ GoodImage(im)
      BY <1>1, <1>2, <1>4, <2>1 DEF EvaluateAll
    <2> QED
      BY <2>1, <2>2, ImageEvaluated
  <1> QED
    BY <1>1, <1>2, <1>3, <1>4 DEF GoodEvals

InCount(evs, t, m, p) ==
  /\ p[1] \in DOMAIN evs /\ evs[p[1]].valid /\ p = <<p[1], p[2]>>
  /\ p[2] \in DOMAIN FirstOf(evs[p[1]].dts, MaxDets[m]) /\ ~evs[p[1]].ignore[t][p[2]]

\* Membership, place by place.
LEMMA CountedAre ==
  ASSUME NEW evs, NEW t, NEW m
  PROVE  \A p : p \in Counted(evs, t, m) <=> InCount(evs, t, m, p)
  BY DEF Counted, InCount

\* The detections that count are places of detections, finitely many.
LEMMA CountedPlaces ==
  ASSUME NEW evs, GoodEvals(evs), NEW t, NEW m \in DOMAIN MaxDets, NEW all, all = Counted(evs, t, m)
  PROVE  /\ IsFiniteSet(all)
         /\ \A p \in all : /\ p[1] \in DOMAIN evs /\ p[1] \in Int
                           /\ p[2] \in DOMAIN evs[p[1]].dts /\ p[2] \in Int
                           /\ p = <<p[1], p[2]>> /\ Score(evs, p) \in Int
  <1>1. PICK most \in Nat : most = MaxDets[m]
    BY LimitsAre
  <1>2. PICK n \in Nat : DOMAIN evs = 1 .. n
    BY ListLen DEF GoodEvals
  <1>3. ASSUME NEW p \in all
        PROVE  /\ p[1] \in 1 .. n /\ p[2] \in 1 .. most /\ p = <<p[1], p[2]>>
               /\ p[2] \in DOMAIN evs[p[1]].dts /\ Score(evs, p) \in Int
    <2>1. PICK i \in 1 .. n : i = p[1]
      BY <1>2, CountedAre DEF InCount
    <2>2. PICK d, dts : d = p[2] /\ dts = evs[i].dts
      OBVIOUS
    <2>3. p = <<i, d>> /\ d \in DOMAIN FirstOf(dts, most)
      BY <1>1, <2>1, <2>2, CountedAre DEF InCount
    <2>4. Scored(dts)
      BY <1>2, <2>2 DEF GoodEvals, GoodEval
    <2>5. PICK a : a = FirstOf(dts, most)
      OBVIOUS
    <2>6. PICK l \in Nat : l = Len(dts)
      BY <2>4, ListLen DEF Scored
    <2>7. IsList(a) /\ Len(a) = (IF l < most THEN l ELSE most) /\ \A k \in DOMAIN a : k \in DOMAIN dts
      BY <2>4, <2>5, <2>6, FirstList DEF Scored
    <2>8. DOMAIN a = 1 .. Len(a)
      BY <2>7, ListLen
    <2>9. d \in 1 .. most /\ d \in DOMAIN dts
      BY <2>3, <2>5, <2>7, <2>8
    <2>10. dts[d].score \in Int
      BY <2>4, <2>9 DEF Scored
    <2> QED
      BY <2>1, <2>2, <2>3, <2>9, <2>10 DEF Score
  <1>4. all \in SUBSET ((1 .. n) \X (1 .. most))
    BY <1>3
  <1>5. IsFiniteSet((1 .. n) \X (1 .. most))
    <2>1. 1 \in Int /\ n \in Int /\ most \in Int
      OBVIOUS
    <2>2. IsFiniteSet(1 .. n) /\ IsFiniteSet(1 .. most)
      BY <2>1, FS_Interval
    <2> QED
      BY <2>2, FS_Product
  <1>6. IsFiniteSet(all)
    BY <1>4, <1>5, FS_Subset
  <1>7. \A p \in all : p[1] \in Int /\ p[2] \in Int
    BY <1>3
  <1> QED
    BY <1>2, <1>3, <1>6, <1>7

AheadOrder(evs, all) == {q \in all \X all : Ahead(evs, q[1], q[2])}

\* They can be ranked.
LEMMA AheadRanks ==
  ASSUME NEW evs, NEW all,
         \A p \in all : p[1] \in Int /\ p[2] \in Int /\ p = <<p[1], p[2]>> /\ Score(evs, p) \in Int
  PROVE  /\ IsOrder(AheadOrder(evs, all), all)
         /\ \A p, q \in all : <<p, q>> \in AheadOrder(evs, all) <=> Ahead(evs, p, q)
  <1>1. PICK L : L = AheadOrder(evs, all)
    OBVIOUS
  <1>2. \A p, q \in all : <<p, q>> \in L <=> Ahead(evs, p, q)
    BY <1>1 DEF AheadOrder
  <1>3. \A p \in all : Ahead(evs, p, p)
    BY DEF Ahead, Listed
  <1>4. \A p, q \in all : Ahead(evs, p, q) \/ Ahead(evs, q, p)
    BY DEF Ahead, Listed
  <1>5. ASSUME NEW p \in all, NEW q \in all, Ahead(evs, p, q), Ahead(evs, q, p) PROVE p = q
    <2>1. p[1] = q[1] /\ p[2] = q[2]
      BY <1>5 DEF Ahead, Listed
    <2> QED
      BY <2>1
  <1>6. ASSUME NEW p \in all, NEW q \in all, NEW r \in all, Ahead(evs, p, q), Ahead(evs, q, r)
        PROVE  Ahead(evs, p, r)
    BY <1>6 DEF Ahead, Listed
  <1> QED
    BY <1>1, <1>2, <1>3, <1>4, <1>5, <1>6 DEF IsOrder

\* So they are a list.
LEMMA EntriesAre ==
  ASSUME NEW evs, GoodEvals(evs), NEW t, NEW m \in DOMAIN MaxDets, NEW all, all = Counted(evs, t, m)
  PROVE  /\ Cardinality(all) \in Nat
         /\ Entries(evs, t, m) = [k \in 1 .. Cardinality(all) |->
                                    Entry(evs, t, Ranked(AheadOrder(evs, all), all, k))]
  <1>1. Cardinality(all) \in Nat
    BY CountedPlaces, FS_CardinalityType
  <1> QED
    BY <1>1 DEF Entries, AheadOrder

\* The objects that count are finitely many.
LEMMA RegularFinite ==
  ASSUME NEW evs, GoodEvals(evs)
  PROVE  IsFiniteSet(UNION {{i} \X evs[i].regular : i \in {i \in DOMAIN evs : evs[i].valid}})
  <1>1. PICK I : I = {i \in DOMAIN evs : evs[i].valid}
    OBVIOUS
  <1>2. PICK n \in Nat : DOMAIN evs = 1 .. n
    BY ListLen DEF GoodEvals
  <1>3. IsFiniteSet(I)
    <2>1. I \in SUBSET (1 .. n)
      BY <1>1, <1>2
    <2> QED
      BY <2>1, AmongPicks
  <1>4. PICK S : S = {{i} \X evs[i].regular : i \in I}
    OBVIOUS
  <1>5. IsFiniteSet(S)
    <2>1. PICK f : f = [i \in I |-> {i} \X evs[i].regular]
      OBVIOUS
    <2>2. f \in Surjection(I, S)
      BY <1>4, <2>1 DEF Surjection
    <2> QED
      BY <1>3, <2>2, FS_Surjection
  <1>6. \A T \in S : IsFiniteSet(T)
    <2> SUFFICES ASSUME NEW i \in I PROVE IsFiniteSet({i} \X evs[i].regular)
      BY <1>4
    <2>1. PICK R : R = evs[i].regular
      OBVIOUS
    <2>2. IsFiniteSet(R) /\ IsFiniteSet({i})
      BY <1>1, <2>1, FS_Singleton DEF GoodEvals, GoodEval
    <2> QED
      BY <2>1, <2>2, FS_Product
  <1>7. IsFiniteSet(UNION S)
    BY <1>5, <1>6, FS_UNION
  <1> QED
    BY <1>1, <1>4, <1>7

\* So their number is one.
LEMMA NpigCounts ==
  ASSUME NEW evs, GoodEvals(evs)
  PROVE  Npig(evs) \in Nat
  BY RegularFinite, FS_CardinalityType DEF Npig

-----------------------------------------------------------------------------
(* Category by category, area by area. *)

Areas == Len(AreaRng)

\* How many turns there are.
LEMMA BoundsAre == /\ NumClasses \in Nat \ {0} /\ Areas \in Nat \ {0} /\ DOMAIN AreaRng = 1 .. Areas
                   /\ DOMAIN Cats = 1 .. NumClasses /\ Len(Cats) = NumClasses
  <1>1. NumClasses \in Nat \ {0} /\ IsList(AreaRng) /\ AreaRng # <<>>
    BY Options
  <1>2. Areas \in Nat /\ DOMAIN AreaRng = 1 .. Areas
    BY <1>1, ListLen DEF Areas
  <1>3. Areas # 0
    <2>1. AreaRng \in Seq(Range(AreaRng))
      BY <1>1 DEF IsList
    <2> QED
      BY <1>1, <2>1 DEF Areas
  <1>4. PICK c : c = Cats
    OBVIOUS
  <1>5. DOMAIN c = 1 .. NumClasses /\ c = [k \in 1 .. NumClasses |-> c[k]]
    BY <1>4 DEF Cats
  <1>6. Len(c) = NumClasses
    BY <1>1, <1>5, ListOf
  <1> QED
    BY <1>1, <1>2, <1>3, <1>4, <1>5, <1>6

Scoring(ims, k, a) == Accumulate(EvaluateAll(ims, Cats[k], AreaRng[a]))
Past(k, a, w, over) == k < w[1] \/ (k = w[1] /\ (a < w[2] \/ (over /\ a = w[2])))
SoFar(ims, w, over) ==
  [k \in 1 .. NumClasses |-> [a \in 1 .. Areas |->
     IF Past(k, a, w, over) THEN Scoring(ims, k, a) ELSE <<>>]]

IsTurnOf(w) == w[1] \in 1 .. NumClasses /\ w[2] \in 1 .. Areas /\ w = <<w[1], w[2]>>

\* What has been scored so far, of which images.
ScoreInv ==
  /\ pc \in Before \cup {"images"} => at = <<1, 1>>
  /\ pc \notin Before \cup {"images"} =>
       /\ IsTurnOf(at)
       /\ curves = SoFar(images, at, pc \in {"next", "done"})
       /\ pc \in {"accumulate", "next"} => evals = EvaluateAll(images, Cats[at[1]], AreaRng[at[2]])
       /\ pc = "done" => at = <<NumClasses, Areas>> /\ metrics = Summary(curves)

Put(c, w, x) == [c EXCEPT ![w[1]][w[2]] = x]

\* The one more that a turn scores.
LEMMA OneMore ==
  ASSUME NEW ims, NEW w, IsTurnOf(w), NEW c, NEW d, c = SoFar(ims, w, FALSE),
         NEW x, x = Scoring(ims, w[1], w[2]), d = Put(c, w, x)
  PROVE  d = SoFar(ims, w, TRUE)
  <1>1. PICK i \in 1 .. NumClasses, j \in 1 .. Areas : i = w[1] /\ j = w[2]
    BY DEF IsTurnOf
  <1>2. NumClasses \in Nat /\ Areas \in Nat
    BY BoundsAre
  <1>3. /\ DOMAIN c = 1 .. NumClasses
        /\ \A k \in 1 .. NumClasses : DOMAIN c[k] = 1 .. Areas
        /\ \A k \in 1 .. NumClasses : c[k] = [a \in 1 .. Areas |-> c[k][a]]
        /\ \A k \in 1 .. NumClasses : \A a \in 1 .. Areas :
             c[k][a] = IF Past(k, a, w, FALSE) THEN Scoring(ims, k, a) ELSE <<>>
    BY DEF SoFar
  <1>4. d = [k \in 1 .. NumClasses |-> [a \in 1 .. Areas |-> IF k = i /\ a = j THEN x ELSE c[k][a]]]
    <2>1. d = [c EXCEPT ![i] = [c[i] EXCEPT ![j] = x]]
      BY <1>1 DEF Put
    <2>2. PICK y : y = [c[i] EXCEPT ![j] = x]
      OBVIOUS
    <2>3. d = [k \in 1 .. NumClasses |-> IF k = i THEN y ELSE c[k]]
      BY <1>3, <2>1, <2>2
    <2>4. y = [a \in 1 .. Areas |-> IF a = j THEN x ELSE c[i][a]]
      BY <1>3, <2>2
    <2>5. \A k \in 1 .. NumClasses : (IF k = i THEN y ELSE c[k])
                                     = [a \in 1 .. Areas |-> IF k = i /\ a = j THEN x ELSE c[k][a]]
      <3> SUFFICES ASSUME NEW k \in 1 .. NumClasses
                   PROVE  (IF k = i THEN y ELSE c[k])
                          = [a \in 1 .. Areas |-> IF k = i /\ a = j THEN x ELSE c[k][a]]
        OBVIOUS
      <3>1. CASE k = i
        BY <2>4, <3>1
      <3>2. CASE k # i
        BY <1>3, <3>2
      <3> QED
        BY <3>1, <3>2
    <2> QED
      BY <2>3, <2>5
  <1>5. \A k \in 1 .. NumClasses : \A a \in 1 .. Areas :
          Past(k, a, w, TRUE) <=> Past(k, a, w, FALSE) \/ (k = i /\ a = j)
    BY <1>1 DEF Past
  <1>6. \A k \in 1 .. NumClasses : \A a \in 1 .. Areas :
          (IF k = i /\ a = j THEN x ELSE c[k][a])
          = IF Past(k, a, w, TRUE) THEN Scoring(ims, k, a) ELSE <<>>
    BY <1>1, <1>3, <1>5
  <1>7. \A k \in 1 .. NumClasses :
          [a \in 1 .. Areas |-> IF k = i /\ a = j THEN x ELSE c[k][a]]
          = [a \in 1 .. Areas |-> IF Past(k, a, w, TRUE) THEN Scoring(ims, k, a) ELSE <<>>]
    BY <1>6
  <1> QED
    BY <1>4, <1>7 DEF SoFar

\* And the next turn has scored the same.
LEMMA NextTurn ==
  ASSUME NEW w, IsTurnOf(w), w # <<NumClasses, Areas>>, NEW v,
         v = IF w[2] < Areas THEN <<w[1], w[2] + 1>> ELSE <<w[1] + 1, 1>>
  PROVE  IsTurnOf(v) /\ \A ims : SoFar(ims, w, TRUE) = SoFar(ims, v, FALSE)
  <1>1. PICK i \in 1 .. NumClasses, j \in 1 .. Areas : i = w[1] /\ j = w[2] /\ w = <<i, j>>
    BY DEF IsTurnOf
  <1>2. NumClasses \in Nat \ {0} /\ Areas \in Nat \ {0}
    BY BoundsAre
  <1>3. v = IF j < Areas THEN <<i, j + 1>> ELSE <<i + 1, 1>>
    BY <1>1
  <1>4. IsTurnOf(v)
    <2>1. CASE j < Areas
      BY <1>2, <1>3, <2>1 DEF IsTurnOf
    <2>2. CASE ~(j < Areas)
      <3>1. j = Areas /\ i # NumClasses
        BY <1>1, <1>2, <2>2
      <3> QED
        BY <1>2, <1>3, <2>2, <3>1 DEF IsTurnOf
    <2> QED
      BY <2>1, <2>2
  <1>5. \A k \in 1 .. NumClasses : \A a \in 1 .. Areas : Past(k, a, w, TRUE) <=> Past(k, a, v, FALSE)
    <2>1. CASE j < Areas
      BY <1>1, <1>2, <1>3, <2>1 DEF Past
    <2>2. CASE ~(j < Areas)
      BY <1>1, <1>2, <1>3, <2>2 DEF Past
    <2> QED
      BY <2>1, <2>2
  <1> QED
    BY <1>4, <1>5 DEF SoFar

\* Nothing is scored at first, and everything in the end.
LEMMA NoTurnYet ==
  IsTurnOf(<<1, 1>>)
  /\ \A ims : [k \in DOMAIN Cats |-> [a \in DOMAIN AreaRng |-> <<>>]] = SoFar(ims, <<1, 1>>, FALSE)
  <1>1. /\ NumClasses \in Nat \ {0} /\ Areas \in Nat \ {0}
        /\ DOMAIN AreaRng = 1 .. Areas /\ DOMAIN Cats = 1 .. NumClasses
    BY BoundsAre
  <1>2. \A k \in 1 .. NumClasses : \A a \in 1 .. Areas : ~Past(k, a, <<1, 1>>, FALSE)
    BY <1>1 DEF Past
  <1>3. ASSUME NEW ims
        PROVE  [k \in DOMAIN Cats |-> [a \in DOMAIN AreaRng |-> <<>>]] = SoFar(ims, <<1, 1>>, FALSE)
    <2>1. \A k \in 1 .. NumClasses :
            [a \in 1 .. Areas |-> <<>>]
            = [a \in 1 .. Areas |-> IF Past(k, a, <<1, 1>>, FALSE) THEN Scoring(ims, k, a) ELSE <<>>]
      BY <1>2
    <2> QED
      BY <1>1, <2>1 DEF SoFar
  <1>4. IsTurnOf(<<1, 1>>)
    BY <1>1 DEF IsTurnOf
  <1> QED
    BY <1>3, <1>4

\* After the last turn the curves are those of CocoEvaluate.
LEMMA AllScored ==
  ASSUME NEW ims
  PROVE  SoFar(ims, <<NumClasses, Areas>>, TRUE) = Curves(ims, Cats)
  <1>1. /\ NumClasses \in Nat \ {0} /\ Areas \in Nat \ {0}
        /\ DOMAIN AreaRng = 1 .. Areas /\ DOMAIN Cats = 1 .. NumClasses
    BY BoundsAre
  <1>2. \A k \in 1 .. NumClasses : \A a \in 1 .. Areas : Past(k, a, <<NumClasses, Areas>>, TRUE)
    BY <1>1 DEF Past
  <1>3. SoFar(ims, <<NumClasses, Areas>>, TRUE)
        = [k \in 1 .. NumClasses |-> [a \in 1 .. Areas |-> Scoring(ims, k, a)]]
    BY <1>2 DEF SoFar
  <1> QED
    BY <1>1, <1>3 DEF Curves, Scoring

\* Every step keeps to that.
LEMMA ScoreInvHolds == Spec => []ScoreInv
  <1>1. Init => ScoreInv
    BY DEF Init, ScoreInv, Before
  <1>2. ScoreInv /\ [Next]_vars => ScoreInv'
    <2> SUFFICES ASSUME ScoreInv, [Next]_vars PROVE ScoreInv'
      OBVIOUS
    <2>1. CASE Load \/ Begin \/ EvaluateOne \/ EvaluateBatch
      <3>1. pc \in Before \cup {"images"} /\ pc' \in Before \cup {"images"} /\ at' = at
        BY <2>1 DEF Load, Begin, EvaluateOne, EvaluateBatch, Before
      <3> QED
        BY <3>1 DEF ScoreInv
    <2>2. CASE ImagesDone
      <3>1. /\ pc = "images" /\ pc' = "evaluate" /\ at' = at
            /\ curves' = [k \in DOMAIN Cats |-> [a \in DOMAIN AreaRng |-> <<>>]]
        BY <2>2 DEF ImagesDone
      <3>2. at' = <<1, 1>>
        BY <3>1 DEF ScoreInv
      <3>3. curves' = SoFar(images', <<1, 1>>, FALSE) /\ IsTurnOf(<<1, 1>>)
        BY <3>1, NoTurnYet
      <3>4. curves' = SoFar(images', at', pc' \in {"next", "done"}) /\ IsTurnOf(at')
        <4>1. (pc' \in {"next", "done"}) = FALSE
          BY <3>1
        <4> QED
          BY <3>2, <3>3, <4>1
      <3> QED
        BY <3>1, <3>4 DEF ScoreInv, Before
    <2>3. CASE EvaluateCategory
      <3>1. /\ pc = "evaluate" /\ pc' = "accumulate" /\ at' = at /\ images' = images /\ curves' = curves
            /\ evals' = EvaluateAll(images, Cats[at[1]], AreaRng[at[2]])
        BY <2>3 DEF EvaluateCategory
      <3>2. (pc' \in {"next", "done"}) = FALSE /\ (pc \in {"next", "done"}) = FALSE
        BY <3>1
      <3>3. IsTurnOf(at) /\ curves = SoFar(images, at, FALSE)
        BY <3>1, <3>2 DEF ScoreInv, Before
      <3>4. IsTurnOf(at') /\ curves' = SoFar(images', at', pc' \in {"next", "done"})
        BY <3>1, <3>2, <3>3
      <3>5. evals' = EvaluateAll(images', Cats[at'[1]], AreaRng[at'[2]])
        BY <3>1
      <3> QED
        BY <3>1, <3>4, <3>5 DEF ScoreInv, Before, Cats
    <2>4. CASE AccumulateCategory
      <3>1. /\ pc = "accumulate" /\ pc' = "next" /\ at' = at /\ images' = images /\ evals' = evals
            /\ curves' = [curves EXCEPT ![at[1]][at[2]] = Accumulate(evals)]
        BY <2>4 DEF AccumulateCategory
      <3>2. (pc' \in {"next", "done"}) = TRUE /\ (pc \in {"next", "done"}) = FALSE
        BY <3>1
      <3>3. /\ IsTurnOf(at) /\ curves = SoFar(images, at, FALSE)
            /\ evals = EvaluateAll(images, Cats[at[1]], AreaRng[at[2]])
        BY <3>1, <3>2 DEF ScoreInv, Before
      <3>4. curves' = SoFar(images, at, TRUE)
        <4>1. PICK w, ims, c, d : w = at /\ ims = images /\ c = curves /\ d = curves'
          OBVIOUS
        <4>2. PICK x : x = Accumulate(evals)
          OBVIOUS
        <4>3. x = Scoring(ims, w[1], w[2])
          BY <3>3, <4>1, <4>2 DEF Scoring
        <4>4. d = Put(c, w, x) /\ c = SoFar(ims, w, FALSE) /\ IsTurnOf(w)
          BY <3>1, <3>3, <4>1, <4>2 DEF Put
        <4> QED
          BY <4>1, <4>3, <4>4, OneMore
      <3>5. IsTurnOf(at') /\ curves' = SoFar(images', at', pc' \in {"next", "done"})
        BY <3>1, <3>2, <3>3, <3>4
      <3>6. evals' = EvaluateAll(images', Cats[at'[1]], AreaRng[at'[2]])
        BY <3>1, <3>3
      <3> QED
        BY <3>1, <3>5, <3>6 DEF ScoreInv, Before, Cats
    <2>5. CASE NextArea
      <3>1. /\ pc = "next" /\ pc' = "evaluate" /\ images' = images /\ curves' = curves
            /\ at # <<NumClasses, Areas>>
            /\ at' = IF at[2] < Areas THEN <<at[1], at[2] + 1>> ELSE <<at[1] + 1, 1>>
        BY <2>5, BoundsAre DEF NextArea, Areas
      <3>2. (pc' \in {"next", "done"}) = FALSE /\ (pc \in {"next", "done"}) = TRUE
        BY <3>1
      <3>3. IsTurnOf(at) /\ curves = SoFar(images, at, TRUE)
        BY <3>1, <3>2 DEF ScoreInv, Before
      <3>4. IsTurnOf(at') /\ SoFar(images, at, TRUE) = SoFar(images, at', FALSE)
        <4>1. PICK w, v : w = at /\ v = at'
          OBVIOUS
        <4>2. /\ IsTurnOf(w) /\ w # <<NumClasses, Areas>>
              /\ v = IF w[2] < Areas THEN <<w[1], w[2] + 1>> ELSE <<w[1] + 1, 1>>
          BY <3>1, <3>3, <4>1
        <4>3. IsTurnOf(v) /\ \A ims : SoFar(ims, w, TRUE) = SoFar(ims, v, FALSE)
          BY <4>2, NextTurn
        <4> QED
          BY <4>1, <4>3
      <3>5. curves' = SoFar(images', at', pc' \in {"next", "done"})
        BY <3>1, <3>2, <3>3, <3>4
      <3> QED
        BY <3>1, <3>4, <3>5 DEF ScoreInv, Before
    <2>6. CASE Summarize
      <3>1. /\ pc = "next" /\ pc' = "done" /\ images' = images /\ curves' = curves /\ at' = at
            /\ at = <<NumClasses, Areas>> /\ metrics' = Summary(curves)
        BY <2>6, BoundsAre DEF Summarize, Areas
      <3>2. (pc' \in {"next", "done"}) = TRUE /\ (pc \in {"next", "done"}) = TRUE
        BY <3>1
      <3>3. IsTurnOf(at) /\ curves = SoFar(images, at, TRUE)
        BY <3>1, <3>2 DEF ScoreInv, Before
      <3>4. metrics' = Summary(curves')
        BY <3>1
      <3> QED
        BY <3>1, <3>2, <3>3, <3>4 DEF ScoreInv, Before, Areas
    <2>7. CASE UNCHANGED vars
      BY <2>7 DEF vars, ScoreInv, Cats, IsTurnOf, Areas
    <2> QED
      BY <2>1, <2>2, <2>3, <2>4, <2>5, <2>6, <2>7 DEF Next
  <1> QED
    BY <1>1, <1>2, PTL DEF Spec

\* The images of the run.
LEMMA ImagesAreGood ==
  ASSUME SplitInv, pc \notin Before
  PROVE  IsList(images) /\ \A i \in DOMAIN images : GoodImage(images[i])
  BY DEF SplitInv, Before, Progress, Accounts

\* The curve of a category and an area that has objects.
LEMMA PrecisionOf ==
  ASSUME NEW evs, GoodEvals(evs), Npig(evs) > 0, NEW t \in DOMAIN IouThrs, NEW m \in DOMAIN MaxDets,
         NEW r \in DOMAIN RecThrs, NEW p, p = Accumulate(evs)[t][m].precision[r],
         NEW en, en = Entries(evs, t, m), NEW npig, npig = Npig(evs)
  PROVE  BestAt(en, npig, RecThrs[r], p)
  <1>1. npig \in Nat \ {0}
    BY NpigCounts
  <1>2. evs # <<>>
    <2> SUFFICES ASSUME evs = <<>> PROVE FALSE
      OBVIOUS
    <2>1. DOMAIN evs = {}
      OBVIOUS
    <2>2. UNION {{i} \X evs[i].regular : i \in {i \in DOMAIN evs : evs[i].valid}} = {}
      BY <2>1
    <2>3. Npig(evs) = Cardinality({})
      BY <2>2 DEF Npig
    <2> QED
      BY <1>1, <2>3, FS_EmptySet
  <1>3. PICK x \in Int : x = RecThrs[r]
    BY Options
  <1>4. p = At(Rc(en, npig), Envelope(Pr(en)), x)
    <2>1. Accumulate(evs)[t][m] = Curve(evs, t, m)
      BY DEF Accumulate
    <2>2. Curve(evs, t, m).precision = [j \in DOMAIN RecThrs |-> At(Rc(en, npig), Envelope(Pr(en)), RecThrs[j])]
      BY <1>1, <1>2 DEF Curve
    <2> QED
      BY <1>3, <2>1, <2>2
  <1>5. PICK N \in Nat : DOMAIN en = 1 .. N
    BY EntriesAre
  <1>6. BestAt(en, npig, x, p)
    BY <1>1, <1>4, <1>5, CurveIsBest
  <1> QED
    BY <1>3, <1>6

\* The curves of the run, then.
LEMMA BestPrecision == SplitInv /\ ScoreInv => PrecisionIsBest
  <1> SUFFICES ASSUME SplitInv, ScoreInv, pc = "next", Npig(evals) > 0,
                      NEW t \in DOMAIN IouThrs, NEW m \in DOMAIN MaxDets, NEW r \in DOMAIN RecThrs
               PROVE  BestAt(Entries(evals, t, m), Npig(evals), RecThrs[r],
                             curves[at[1]][at[2]][t][m].precision[r])
    BY DEF PrecisionIsBest, BestAt, CutsAt, PrecisionAt
  <1>1. PICK ims, evs, w : ims = images /\ evs = evals /\ w = at
    OBVIOUS
  <1>2. /\ IsTurnOf(w) /\ curves = SoFar(ims, w, TRUE)
        /\ evs = EvaluateAll(ims, Cats[w[1]], AreaRng[w[2]])
    <2>1. (pc \in {"next", "done"}) = TRUE
      OBVIOUS
    <2> QED
      BY <1>1, <2>1 DEF ScoreInv, Before
  <1>3. IsList(ims) /\ \A i \in DOMAIN ims : GoodImage(ims[i])
    BY <1>1, ImagesAreGood DEF Before
  <1>4. PICK cat, rng : cat = Cats[w[1]] /\ rng = AreaRng[w[2]]
    OBVIOUS
  <1>5. GoodEvals(evs)
    BY <1>2, <1>3, <1>4, AllEvaluated
  <1>6. curves[w[1]][w[2]] = Accumulate(evs)
    <2>1. Past(w[1], w[2], w, TRUE)
      BY DEF Past
    <2> QED
      BY <1>2, <2>1 DEF SoFar, IsTurnOf, Scoring
  <1>7. PICK p : p = Accumulate(evs)[t][m].precision[r]
    OBVIOUS
  <1>8. BestAt(Entries(evs, t, m), Npig(evs), RecThrs[r], p)
    BY <1>1, <1>5, <1>7, PrecisionOf
  <1> QED
    BY <1>1, <1>6, <1>7, <1>8

\* In every category and area that has objects, the precision reported at a
\* recall threshold is the best of all cuts of the ranking that reach it: what
\* the right-to-left loop and the search of Accumulate compute.
THEOREM PrecisionIsBestHolds == Spec => []PrecisionIsBest
  <1> QED
    BY SplitInvHolds, ScoreInvHolds, BestPrecision, PTL

-----------------------------------------------------------------------------
(* The same images in another order. *)

\* p takes the places of 1 .. n to each other.
IsShuffle(p, n) ==
  /\ \A k \in 1 .. n : p[k] \in 1 .. n
  /\ \A j, k \in 1 .. n : p[j] = p[k] => j = k
  /\ \A i \in 1 .. n : \E k \in 1 .. n : p[k] = i

\* The pairs of B are those of A with their images moved by p.
Moved(B, A, p, n) ==
  /\ \A q \in A : q[1] \in 1 .. n /\ q = <<q[1], q[2]>>
  /\ \A q \in B : q[1] \in 1 .. n /\ q = <<q[1], q[2]>>
  /\ \A k \in 1 .. n : \A g : <<k, g>> \in B <=> <<p[k], g>> \in A

Move(B, p) == [q \in B |-> <<p[q[1]], q[2]>>]

\* Moving the images moves the pairs one to one.
LEMMA MoveIsBijection ==
  ASSUME NEW n \in Nat, NEW p, IsShuffle(p, n), NEW A, NEW B, Moved(B, A, p, n)
  PROVE  Move(B, p) \in Bijection(B, A)
  <1>1. PICK h : h = Move(B, p)
    OBVIOUS
  <1>2. DOMAIN h = B /\ h = [q \in B |-> h[q]] /\ \A q \in B : h[q] = <<p[q[1]], q[2]>>
    BY <1>1 DEF Move
  <1>3. \A q \in B : h[q] \in A
    BY <1>2 DEF Moved
  <1>4. ASSUME NEW q \in B, NEW r \in B, h[q] = h[r] PROVE q = r
    <2>1. p[q[1]] = p[r[1]] /\ q[2] = r[2]
      BY <1>2, <1>4
    <2>2. q[1] = r[1]
      BY <2>1 DEF Moved, IsShuffle
    <2> QED
      BY <2>1, <2>2 DEF Moved
  <1>5. ASSUME NEW x \in A PROVE \E q \in B : h[q] = x
    <2>1. PICK k \in 1 .. n : p[k] = x[1]
      BY DEF Moved, IsShuffle
    <2>2. PICK q : q = <<k, x[2]>>
      OBVIOUS
    <2>3. <<p[k], x[2]>> \in A /\ x = <<x[1], x[2]>>
      BY <2>1 DEF Moved
    <2>4. q \in B
      BY <2>2, <2>3 DEF Moved
    <2>5. h[q] = <<p[k], x[2]>>
      BY <1>2, <2>2, <2>4
    <2> QED
      BY <2>1, <2>3, <2>4, <2>5
  <1>6. h \in [B -> A]
    BY <1>2, <1>3
  <1> QED
    BY <1>1, <1>4, <1>5, <1>6 DEF Bijection, Injection, IsInjective, Surjection

\* As many of the ones as of the others.
LEMMA BijectionCounts ==
  ASSUME NEW I, IsFiniteSet(I), NEW J, NEW h \in Bijection(I, J)
  PROVE  IsFiniteSet(J) /\ Cardinality(I) = Cardinality(J)
  BY FS_Bijection DEF ExistsBijection

\* A map that keeps the order keeps the ranks.
LEMMA RankMoves ==
  ASSUME NEW I, IsFiniteSet(I), NEW L, IsOrder(L, I), NEW J, IsFiniteSet(J), NEW M, IsOrder(M, J),
         NEW h \in Bijection(I, J),
         \A i, j \in I : <<i, j>> \in L <=> <<h[i], h[j]>> \in M,
         NEW k \in 1 .. Cardinality(I)
  PROVE  Ranked(L, I, k) \in I /\ Ranked(M, J, k) = h[Ranked(L, I, k)]
  <1>1. /\ h \in [I -> J]
        /\ \A i, j \in I : h[i] = h[j] => i = j
        /\ \A y \in J : \E i \in I : h[i] = y
    BY DEF Bijection, Injection, IsInjective, Surjection
  <1>2. PICK i : i = Ranked(L, I, k)
    OBVIOUS
  <1>3. i \in I /\ Cardinality(UpTo(L, I, i)) = k
    <2>1. \E j \in I : Cardinality(UpTo(L, I, j)) = k
      BY RanksOnce
    <2> QED
      BY <1>2, <2>1 DEF Ranked
  <1>4. PICK S, T : S = UpTo(L, I, i) /\ T = UpTo(M, J, h[i])
    OBVIOUS
  <1>5. PICK g : g = [j \in S |-> h[j]]
    OBVIOUS
  <1>6. S \in SUBSET I /\ T \in SUBSET J
    BY <1>4 DEF UpTo
  <1>7. \A j \in I : j \in S <=> h[j] \in T
    BY <1>1, <1>3, <1>4 DEF UpTo
  <1>8. g \in Bijection(S, T)
    <2>1. g \in [S -> T]
      BY <1>5, <1>6, <1>7
    <2>2. \A a, b \in S : g[a] = g[b] => a = b
      BY <1>1, <1>5, <1>6
    <2>3. \A y \in T : \E a \in S : g[a] = y
      BY <1>1, <1>5, <1>6, <1>7
    <2> QED
      BY <2>1, <2>2, <2>3 DEF Bijection, Injection, IsInjective, Surjection
  <1>9. IsFiniteSet(S)
    BY <1>6, FS_Subset
  <1>10. Cardinality(T) = k
    BY <1>3, <1>4, <1>8, <1>9, BijectionCounts
  <1>11. PICK x : x = h[i]
    OBVIOUS
  <1>12. x \in J /\ Cardinality(UpTo(M, J, x)) = k
    BY <1>1, <1>3, <1>4, <1>10, <1>11
  <1>13. Ranked(M, J, k) = x
    <2>1. PICK y : y = Ranked(M, J, k)
      OBVIOUS
    <2>2. y \in J /\ Cardinality(UpTo(M, J, y)) = k
      BY <1>12, <2>1 DEF Ranked
    <2>3. \A a, b \in J : Cardinality(UpTo(M, J, a)) = Cardinality(UpTo(M, J, b)) => a = b
      BY RanksOnce
    <2> QED
      BY <1>12, <2>1, <2>2, <2>3
  <1> QED
    BY <1>2, <1>3, <1>11, <1>13

-----------------------------------------------------------------------------
(* The same evaluations in another order. *)

Reordered(evb, evs, p, n) ==
  /\ DOMAIN evs = 1 .. n /\ DOMAIN evb = 1 .. n
  /\ \A k \in 1 .. n : evb[k] = evs[p[k]]

Distinct(evs, t, m) ==
  \A q, r \in Counted(evs, t, m) : Score(evs, q) = Score(evs, r) => q = r

\* The same number of objects that count.
LEMMA NpigMoves ==
  ASSUME NEW n \in Nat, NEW p, IsShuffle(p, n), NEW evs, NEW evb, Reordered(evb, evs, p, n),
         GoodEvals(evb)
  PROVE  Npig(evb) = Npig(evs)
  <1>1. PICK A : A = UNION {{i} \X evs[i].regular : i \in {i \in DOMAIN evs : evs[i].valid}}
    OBVIOUS
  <1>2. PICK B : B = UNION {{i} \X evb[i].regular : i \in {i \in DOMAIN evb : evb[i].valid}}
    OBVIOUS
  <1>3. \A q : q \in A <=> /\ q = <<q[1], q[2]>> /\ q[1] \in 1 .. n
                           /\ evs[q[1]].valid /\ q[2] \in evs[q[1]].regular
    BY <1>1 DEF Reordered
  <1>4. \A q : q \in B <=> /\ q = <<q[1], q[2]>> /\ q[1] \in 1 .. n
                           /\ evb[q[1]].valid /\ q[2] \in evb[q[1]].regular
    BY <1>2 DEF Reordered
  <1>5. Moved(B, A, p, n)
    <2>1. \A k \in 1 .. n : \A g : <<k, g>> \in B <=> evb[k].valid /\ g \in evb[k].regular
      BY <1>4
    <2>2. \A k \in 1 .. n : \A g : <<p[k], g>> \in A <=> evs[p[k]].valid /\ g \in evs[p[k]].regular
      BY <1>3 DEF IsShuffle
    <2> QED
      BY <1>3, <1>4, <2>1, <2>2 DEF Moved, Reordered
  <1>6. PICK h \in Bijection(B, A) : TRUE
    BY <1>5, MoveIsBijection
  <1>7. IsFiniteSet(B)
    BY <1>2, RegularFinite
  <1>8. Cardinality(B) = Cardinality(A)
    BY <1>6, <1>7, BijectionCounts
  <1> QED
    BY <1>1, <1>2, <1>8 DEF Npig

\* The same ranking.
LEMMA EntriesMove ==
  ASSUME NEW n \in Nat, NEW p, IsShuffle(p, n), NEW evs, NEW evb, Reordered(evb, evs, p, n),
         GoodEvals(evb), GoodEvals(evs), NEW t, NEW m \in DOMAIN MaxDets, Distinct(evs, t, m)
  PROVE  Entries(evb, t, m) = Entries(evs, t, m)
  <1>1. PICK A, B : A = Counted(evs, t, m) /\ B = Counted(evb, t, m)
    OBVIOUS
  <1>2. Moved(B, A, p, n)
    <2>1. \A q : q \in A <=> InCount(evs, t, m, q)
      BY <1>1, CountedAre
    <2>2. \A q : q \in B <=> InCount(evb, t, m, q)
      BY <1>1, CountedAre
    <2>3. \A k \in 1 .. n : \A g : InCount(evb, t, m, <<k, g>>) <=> InCount(evs, t, m, <<p[k], g>>)
      <3> SUFFICES ASSUME NEW k \in 1 .. n, NEW g
                   PROVE  InCount(evb, t, m, <<k, g>>) <=> InCount(evs, t, m, <<p[k], g>>)
        OBVIOUS
      <3>1. PICK e, i : e = evb[k] /\ i = p[k] /\ i \in 1 .. n /\ e = evs[i]
        BY DEF Reordered, IsShuffle
      <3> QED
        BY <3>1 DEF InCount, Reordered
    <2>4. \A q \in A : q[1] \in 1 .. n /\ q = <<q[1], q[2]>>
      BY <2>1 DEF InCount, Reordered
    <2>5. \A q \in B : q[1] \in 1 .. n /\ q = <<q[1], q[2]>>
      BY <2>2 DEF InCount, Reordered
    <2> QED
      BY <2>1, <2>2, <2>3, <2>4, <2>5 DEF Moved
  <1>3. PICK h : h = Move(B, p)
    OBVIOUS
  <1>4. h \in Bijection(B, A)
    BY <1>2, <1>3, MoveIsBijection
  <1>5. \A q \in B : h[q] \in A /\ h[q] = <<p[q[1]], q[2]>> /\ q[1] \in 1 .. n
    <2>1. \A q \in B : h[q] \in A
      BY <1>4 DEF Bijection, Injection
    <2> QED
      BY <1>2, <1>3, <2>1 DEF Move, Moved
  <1>6. /\ IsFiniteSet(A)
        /\ \A q \in A : q[1] \in Int /\ q[2] \in Int /\ q = <<q[1], q[2]>> /\ Score(evs, q) \in Int
    BY <1>1, CountedPlaces
  <1>7. /\ IsFiniteSet(B)
        /\ \A q \in B : q[1] \in Int /\ q[2] \in Int /\ q = <<q[1], q[2]>> /\ Score(evb, q) \in Int
    BY <1>1, CountedPlaces
  <1>8. PICK L, M : L = AheadOrder(evb, B) /\ M = AheadOrder(evs, A)
    OBVIOUS
  <1>9. IsOrder(L, B) /\ \A q, r \in B : <<q, r>> \in L <=> Ahead(evb, q, r)
    BY <1>7, <1>8, AheadRanks
  <1>10. IsOrder(M, A) /\ \A q, r \in A : <<q, r>> \in M <=> Ahead(evs, q, r)
    BY <1>6, <1>8, AheadRanks
  <1>11. \A q \in B : Score(evb, q) = Score(evs, h[q]) /\ Entry(evb, t, q) = Entry(evs, t, h[q])
    <2> SUFFICES ASSUME NEW q \in B
                 PROVE  Score(evb, q) = Score(evs, h[q]) /\ Entry(evb, t, q) = Entry(evs, t, h[q])
      OBVIOUS
    <2>1. PICK x : x = h[q] /\ x[1] = p[q[1]] /\ x[2] = q[2]
      BY <1>5
    <2>2. evb[q[1]] = evs[x[1]]
      BY <1>5, <2>1 DEF Reordered
    <2> QED
      BY <2>1, <2>2 DEF Score, Entry
  <1>12. \A q, r \in B : <<q, r>> \in L <=> <<h[q], h[r]>> \in M
    <2> SUFFICES ASSUME NEW q \in B, NEW r \in B PROVE Ahead(evb, q, r) <=> Ahead(evs, h[q], h[r])
      BY <1>5, <1>9, <1>10
    <2>1. PICK x, y \in A : x = h[q] /\ y = h[r]
      BY <1>5
    <2>2. Score(evb, q) = Score(evs, x) /\ Score(evb, r) = Score(evs, y)
      BY <1>11, <2>1
    <2>3. \A a, b \in B : h[a] = h[b] => a = b
      BY <1>4 DEF Bijection, Injection, IsInjective
    <2>4. Score(evs, x) = Score(evs, y) => x = y
      BY <1>1 DEF Distinct
    <2>5. Listed(q, q) /\ Listed(x, x)
      BY <1>6, <1>7 DEF Listed
    <2>6. CASE x = y
      <3>1. q = r
        BY <2>1, <2>3, <2>6
      <3> QED
        BY <2>1, <2>2, <2>5, <2>6, <3>1 DEF Ahead
    <2>7. CASE x # y
      BY <2>1, <2>2, <2>4, <2>7 DEF Ahead
    <2> QED
      BY <2>6, <2>7
  <1>13. Cardinality(B) \in Nat /\ Cardinality(B) = Cardinality(A)
    BY <1>4, <1>7, BijectionCounts, FS_CardinalityType
  <1>14. Entries(evb, t, m) = [k \in 1 .. Cardinality(B) |-> Entry(evb, t, Ranked(L, B, k))]
    <2>1. Entries(evb, t, m) = [k \in 1 .. Cardinality(B) |-> Entry(evb, t, Ranked(AheadOrder(evb, B), B, k))]
      BY <1>1, EntriesAre
    <2> QED
      BY <1>8, <2>1
  <1>15. Entries(evs, t, m) = [k \in 1 .. Cardinality(A) |-> Entry(evs, t, Ranked(M, A, k))]
    <2>1. Entries(evs, t, m) = [k \in 1 .. Cardinality(A) |-> Entry(evs, t, Ranked(AheadOrder(evs, A), A, k))]
      BY <1>1, EntriesAre
    <2> QED
      BY <1>8, <2>1
  <1>16. ASSUME NEW k \in 1 .. Cardinality(B)
         PROVE  Ranked(L, B, k) \in B /\ Ranked(M, A, k) = h[Ranked(L, B, k)]
    <2>1. IsOrder(L, B) /\ IsOrder(M, A) /\ IsFiniteSet(A) /\ IsFiniteSet(B)
      BY <1>6, <1>7, <1>9, <1>10
    <2> QED
      BY <1>4, <1>12, <2>1, RankMoves
  <1>17. \A k \in 1 .. Cardinality(B) : Entry(evb, t, Ranked(L, B, k)) = Entry(evs, t, Ranked(M, A, k))
    BY <1>11, <1>16
  <1> QED
    BY <1>13, <1>14, <1>15, <1>17

\* So the same curves.
LEMMA AccumulateMoves ==
  ASSUME NEW n \in Nat, NEW p, IsShuffle(p, n), NEW evs, NEW evb, Reordered(evb, evs, p, n),
         GoodEvals(evb), GoodEvals(evs),
         \A t \in DOMAIN IouThrs : \A m \in DOMAIN MaxDets : Distinct(evs, t, m)
  PROVE  Accumulate(evb) = Accumulate(evs)
  <1>1. Npig(evb) = Npig(evs)
    BY NpigMoves
  <1>2. evb = <<>> <=> evs = <<>>
    <2>1. \A s : IsList(s) => (s = <<>> <=> DOMAIN s = {})
      <3> SUFFICES ASSUME NEW s, IsList(s), DOMAIN s = {} PROVE s = <<>>
        OBVIOUS
      <3>1. s \in Seq(Range(s))
        BY DEF IsList
      <3> QED
        BY <3>1
    <2> QED
      BY <2>1 DEF GoodEvals, Reordered
  <1>3. \A t \in DOMAIN IouThrs : \A m \in DOMAIN MaxDets : Entries(evb, t, m) = Entries(evs, t, m)
    BY EntriesMove
  <1>4. \A t \in DOMAIN IouThrs : \A m \in DOMAIN MaxDets : Curve(evb, t, m) = Curve(evs, t, m)
    BY <1>1, <1>2, <1>3 DEF Curve
  <1> QED
    BY <1>4 DEF Accumulate

-----------------------------------------------------------------------------
(* The images in the order of their indices. *)

\* a has elements of s from different places, g.
FromPlaces(g, a, s) ==
  /\ \A k \in DOMAIN a : g[k] \in DOMAIN s /\ a[k] = s[g[k]]
  /\ \A j, k \in DOMAIN a : g[j] = g[k] => j = k

\* What is evaluated are detections of the image, each once.
LEMMA ChosenPlaces ==
  ASSUME NEW s, Scored(s), NEW cat, NEW dts, dts = ByScore(OfClass(s, cat))
  PROVE  \E g : FromPlaces(g, dts, s)
  <1>1. PICK I \in SUBSET DOMAIN s : I = {i \in DOMAIN s : s[i].class_id = cat}
    OBVIOUS
  <1>2. PICK a : a = Among(s, I)
    OBVIOUS
  <1>3. PICK n \in Nat : DOMAIN s = 1 .. n
    BY ListLen DEF Scored
  <1>4. Cardinality(I) \in Nat /\ \E p : Picks(Among(s, I), s, I, p)
    BY <1>1, <1>3, AmongPicks
  <1>5. PICK c \in Nat : c = Cardinality(I)
    BY <1>4
  <1>6. PICK p : Picks(a, s, I, p)
    BY <1>2, <1>4
  <1>7. /\ DOMAIN a = 1 .. c
        /\ \A k \in 1 .. c : a[k] = s[p[k]] /\ p[k] \in I
        /\ \A j, k \in 1 .. c : p[j] = p[k] => j = k
    BY <1>5, <1>6 DEF Picks
  <1>8. \A k \in 1 .. c : a[k].score \in Int
    BY <1>1, <1>7 DEF Scored
  <1>9. PICK key : key = [i \in DOMAIN a |-> -a[i].score]
    OBVIOUS
  <1>10. \A i \in 1 .. c : key[i] \in Int
    <2> SUFFICES ASSUME NEW i \in 1 .. c PROVE key[i] \in Int
      OBVIOUS
    <2>1. PICK x \in Int : x = a[i].score
      BY <1>8
    <2>2. key[i] = -x
      BY <1>7, <1>9, <2>1
    <2> QED
      BY <2>2
  <1>11. dts = SortedBy(a, key)
    BY <1>1, <1>2, <1>9 DEF ByScore, OfClass
  <1>12. PICK J : J = 1 .. c
    OBVIOUS
  <1>12a. PICK q : Picks(SortedBy(a, key), a, J, q)
    BY <1>7, <1>10, <1>12, SortedPicks
  <1>13. Cardinality(J) = c
    <2>1. 1 \in Int /\ c \in Int
      OBVIOUS
    <2>2. Cardinality(1 .. c) = IF 1 > c THEN 0 ELSE c - 1 + 1
      BY <2>1, FS_Interval
    <2> QED
      BY <1>12, <2>2
  <1>14. /\ DOMAIN dts = 1 .. c
         /\ \A k \in 1 .. c : dts[k] = a[q[k]] /\ q[k] \in 1 .. c
         /\ \A j, k \in 1 .. c : q[j] = q[k] => j = k
    <2>1. PICK z : z = dts
      OBVIOUS
    <2>2. Picks(z, a, J, q)
      BY <1>11, <1>12a, <2>1
    <2>3. z = [k \in 1 .. c |-> a[q[k]]] /\ (\A k \in 1 .. c : q[k] \in J)
      BY <1>13, <2>2 DEF Picks
    <2>4. \A j, k \in 1 .. c : q[j] = q[k] => j = k
      BY <1>13, <2>2 DEF Picks
    <2>5. DOMAIN z = 1 .. c /\ \A k \in 1 .. c : z[k] = a[q[k]]
      BY <2>3
    <2> QED
      BY <1>12, <2>1, <2>3, <2>4, <2>5
  <1>15. PICK g : g = [k \in 1 .. c |-> p[q[k]]]
    OBVIOUS
  <1>16. \A k \in 1 .. c : g[k] \in DOMAIN s /\ dts[k] = s[g[k]]
    BY <1>1, <1>7, <1>14, <1>15
  <1>17. \A j, k \in 1 .. c : g[j] = g[k] => j = k
    BY <1>7, <1>14, <1>15
  <1> QED
    BY <1>14, <1>16, <1>17 DEF FromPlaces

\* Also of those that MaxDets leaves.
LEMMA ImagePlaces ==
  ASSUME NEW im, GoodImage(im), NEW cat, NEW rng,
         NEW e, e = EvaluateImg(OfClass(im.gts, cat), ByScore(OfClass(im.dts, cat)), rng)
  PROVE  \E g : FromPlaces(g, e.dts, im.dts)
  <1>1. PICK s, dts : s = im.dts /\ dts = ByScore(OfClass(s, cat))
    OBVIOUS
  <1>2. Scored(s)
    BY <1>1 DEF GoodImage
  <1>3. PICK g : FromPlaces(g, dts, s)
    BY <1>1, <1>2, ChosenPlaces
  <1>4. PICK most \in Nat : most = MaxDets[Len(MaxDets)]
    BY LimitsAre
  <1>5. PICK a : a = FirstOf(dts, most)
    OBVIOUS
  <1>6. e.dts = a
    BY <1>1, <1>4, <1>5 DEF EvaluateImg
  <1>7. IsList(dts)
    BY <1>1, <1>2, RankedScored DEF Scored
  <1>8. \A k \in DOMAIN a : k \in DOMAIN dts /\ a[k] = dts[k]
    BY <1>5, <1>7, FirstList
  <1>9. FromPlaces(g, a, s)
    BY <1>3, <1>8 DEF FromPlaces
  <1> QED
    BY <1>1, <1>6, <1>9

\* What DistinctScores says, of any images.
DifferentScores(ims) ==
  \A i, j \in DOMAIN ims : \A d \in DOMAIN ims[i].dts, f \in DOMAIN ims[j].dts :
    <<i, d>> = <<j, f>> \/ ims[i].dts[d].score # ims[j].dts[f].score

\* Then no two entries of a ranking have the same score.
LEMMA DistinctCounted ==
  ASSUME NEW ims, IsList(ims), \A i \in DOMAIN ims : GoodImage(ims[i]), DifferentScores(ims),
         NEW cat, NEW rng, NEW evs, evs = EvaluateAll(ims, cat, rng),
         NEW t, NEW m \in DOMAIN MaxDets
  PROVE  Distinct(evs, t, m)
  <1>1. GoodEvals(evs) /\ DOMAIN evs = DOMAIN ims
    BY AllEvaluated
  <1>2. \A q \in Counted(evs, t, m) :
          q[1] \in DOMAIN ims /\ q[2] \in DOMAIN evs[q[1]].dts /\ q = <<q[1], q[2]>>
    BY <1>1, CountedPlaces
  <1>3. \A i \in DOMAIN ims : \E g : FromPlaces(g, evs[i].dts, ims[i].dts)
    <2> SUFFICES ASSUME NEW i \in DOMAIN ims PROVE \E g : FromPlaces(g, evs[i].dts, ims[i].dts)
      OBVIOUS
    <2>1. PICK im, e : im = ims[i] /\ e = evs[i]
      OBVIOUS
    <2>2. GoodImage(im) /\ e = EvaluateImg(OfClass(im.gts, cat), ByScore(OfClass(im.dts, cat)), rng)
      BY <2>1 DEF EvaluateAll
    <2>3. \E g : FromPlaces(g, e.dts, im.dts)
      BY <2>2, ImagePlaces
    <2> QED
      BY <2>1, <2>3
  <1> SUFFICES ASSUME NEW q \in Counted(evs, t, m), NEW r \in Counted(evs, t, m),
                      Score(evs, q) = Score(evs, r)
               PROVE  q = r
    BY DEF Distinct
  <1>4. PICK i, j \in DOMAIN ims : i = q[1] /\ j = r[1]
    BY <1>2
  <1>5. PICK d, f : d = q[2] /\ f = r[2]
    OBVIOUS
  <1>6. d \in DOMAIN evs[i].dts /\ f \in DOMAIN evs[j].dts /\ q = <<i, d>> /\ r = <<j, f>>
    BY <1>2, <1>4, <1>5
  <1>7. evs[i].dts[d].score = evs[j].dts[f].score
    BY <1>4, <1>5 DEF Score
  <1>8. PICK g : FromPlaces(g, evs[i].dts, ims[i].dts)
    BY <1>3, <1>4
  <1>9. PICK h : FromPlaces(h, evs[j].dts, ims[j].dts)
    BY <1>3, <1>4
  <1>10. /\ g[d] \in DOMAIN ims[i].dts /\ evs[i].dts[d] = ims[i].dts[g[d]]
         /\ h[f] \in DOMAIN ims[j].dts /\ evs[j].dts[f] = ims[j].dts[h[f]]
    BY <1>6, <1>8, <1>9 DEF FromPlaces
  <1>11. PICK x, y : x = g[d] /\ y = h[f]
    OBVIOUS
  <1>12. <<i, x>> = <<j, y>>
    BY <1>4, <1>7, <1>10, <1>11 DEF DifferentScores
  <1>13. i = j /\ x = y
    BY <1>12
  <1>14. g[f] = h[f] => d = f
    BY <1>6, <1>8, <1>11, <1>13 DEF FromPlaces
  <1>15. ims[i].dts[g[f]] = ims[i].dts[h[f]] /\ g[f] \in DOMAIN ims[i].dts
    BY <1>6, <1>8, <1>10, <1>13 DEF FromPlaces
  <1>16. <<i, g[f]>> = <<j, h[f]>>
    BY <1>4, <1>10, <1>13, <1>15 DEF DifferentScores
  <1> QED
    BY <1>6, <1>13, <1>14, <1>16

Shuffles(b, ims, p, n) ==
  /\ IsShuffle(p, n) /\ DOMAIN ims = 1 .. n /\ DOMAIN b = 1 .. n
  /\ \A k \in 1 .. n : b[k] = ims[p[k]]

\* Sorting the images by their indices shuffles them.
LEMMA SortedShuffles ==
  ASSUME NEW ims, IsList(ims), \A i \in DOMAIN ims : ims[i].index \in Int,
         NEW key, key = [i \in DOMAIN ims |-> ims[i].index], NEW b, b = SortedBy(ims, key)
  PROVE  \E n \in Nat : \E p : Shuffles(b, ims, p, n)
  <1>1. PICK n \in Nat : DOMAIN ims = 1 .. n
    BY ListLen
  <1>2. \A i \in 1 .. n : key[i] \in Int
    BY <1>1
  <1>2a. PICK J : J = 1 .. n
    OBVIOUS
  <1>3. PICK p : Picks(SortedBy(ims, key), ims, J, p)
    BY <1>1, <1>2, <1>2a, SortedPicks
  <1>4. Cardinality(J) = n
    <2>1. 1 \in Int /\ n \in Int
      OBVIOUS
    <2>2. Cardinality(1 .. n) = IF 1 > n THEN 0 ELSE n - 1 + 1
      BY <2>1, FS_Interval
    <2> QED
      BY <1>2a, <2>2
  <1>5. DOMAIN b = 1 .. n /\ \A k \in 1 .. n : b[k] = ims[p[k]]
    BY <1>2a, <1>3, <1>4 DEF Picks
  <1>6. IsShuffle(p, n)
    BY <1>2a, <1>3, <1>4 DEF Picks, IsShuffle
  <1>7. Shuffles(b, ims, p, n)
    BY <1>1, <1>5, <1>6 DEF Shuffles
  <1> QED
    BY <1>1, <1>7

\* The curves of shuffled images are the same.
LEMMA CurvesMove ==
  ASSUME NEW n \in Nat, NEW p, NEW ims, NEW b, IsList(ims), IsList(b), Shuffles(b, ims, p, n),
         \A i \in DOMAIN ims : GoodImage(ims[i]), DifferentScores(ims)
  PROVE  Curves(b, Cats) = Curves(ims, Cats)
  <1>0. /\ IsShuffle(p, n) /\ DOMAIN ims = 1 .. n /\ DOMAIN b = 1 .. n
        /\ \A k \in 1 .. n : b[k] = ims[p[k]]
    BY DEF Shuffles
  <1>1. \A k \in DOMAIN b : GoodImage(b[k])
    BY <1>0 DEF IsShuffle
  <1>2. ASSUME NEW cat, NEW rng
        PROVE  Accumulate(EvaluateAll(b, cat, rng)) = Accumulate(EvaluateAll(ims, cat, rng))
    <2>1. PICK evs, evb : evs = EvaluateAll(ims, cat, rng) /\ evb = EvaluateAll(b, cat, rng)
      OBVIOUS
    <2>2. GoodEvals(evs) /\ GoodEvals(evb)
      BY <1>1, <2>1, AllEvaluated
    <2>3. Reordered(evb, evs, p, n)
      <3>1. DOMAIN evs = 1 .. n /\ DOMAIN evb = 1 .. n
        BY <1>0, <2>1 DEF EvaluateAll
      <3>2. ASSUME NEW k \in 1 .. n PROVE evb[k] = evs[p[k]]
        <4>1. PICK i \in 1 .. n : i = p[k]
          BY <1>0 DEF IsShuffle
        <4>2. evb[k] = EvaluateImg(OfClass(b[k].gts, cat), ByScore(OfClass(b[k].dts, cat)), rng)
          BY <1>0, <2>1 DEF EvaluateAll
        <4>3. evs[i] = EvaluateImg(OfClass(ims[i].gts, cat), ByScore(OfClass(ims[i].dts, cat)), rng)
          BY <1>0, <2>1 DEF EvaluateAll
        <4>4. b[k] = ims[i]
          BY <1>0, <4>1
        <4> QED
          BY <4>1, <4>2, <4>3, <4>4
      <3> QED
        BY <3>1, <3>2 DEF Reordered
    <2>4. \A t \in DOMAIN IouThrs : \A m \in DOMAIN MaxDets : Distinct(evs, t, m)
      BY <2>1, DistinctCounted
    <2>5. Accumulate(evb) = Accumulate(evs)
      BY <1>0, <2>2, <2>3, <2>4, AccumulateMoves
    <2> QED
      BY <2>1, <2>5
  <1>3. \A k \in DOMAIN Cats : \A a \in DOMAIN AreaRng :
          Accumulate(EvaluateAll(b, Cats[k], AreaRng[a])) = Accumulate(EvaluateAll(ims, Cats[k], AreaRng[a]))
    BY <1>2
  <1> QED
    BY <1>3 DEF Curves

\* The report of the run, then.
LEMMA SameReport == SplitInv /\ ScoreInv => OrderDoesNotMatter
  <1> SUFFICES ASSUME SplitInv, ScoreInv, pc = "done", DistinctScores
               PROVE  metrics = CocoEvaluate(InOrder, Cats)
    BY DEF OrderDoesNotMatter
  <1>1. PICK ims, b, key : /\ ims = images /\ key = [i \in DOMAIN ims |-> ims[i].index]
                           /\ b = SortedBy(ims, key)
    OBVIOUS
  <1>2. b = InOrder
    BY <1>1 DEF InOrder
  <1>3. IsList(ims) /\ \A i \in DOMAIN ims : GoodImage(ims[i])
    BY <1>1, ImagesAreGood DEF Before
  <1>4. \A i \in DOMAIN ims : ims[i].index \in Int
    <2>1. \A i \in DOMAIN images : images[i].index \in DOMAIN ds.samples
      BY DEF SplitInv, Before, Progress, Accounts, Places
    <2>2. IsList(ds.samples)
      BY DEF SplitInv, Before, GoodSamples
    <2>3. PICK n \in Nat : DOMAIN ds.samples = 1 .. n
      BY <2>2, ListLen
    <2> QED
      BY <1>1, <2>1, <2>3
  <1>5. PICK n \in Nat : \E p : Shuffles(b, ims, p, n)
    BY <1>1, <1>3, <1>4, SortedShuffles
  <1>5a. PICK p : Shuffles(b, ims, p, n)
    BY <1>5
  <1>6. DifferentScores(ims)
    BY <1>1 DEF DistinctScores, DifferentScores
  <1>7. IsList(b)
    <2>1. \A i \in DOMAIN ims : key[i] \in Int
      BY <1>1, <1>4
    <2> QED
      BY <1>1, <1>3, <2>1, SortedList
  <1>8. Curves(b, Cats) = Curves(ims, Cats)
    BY <1>3, <1>5, <1>5a, <1>6, <1>7, CurvesMove
  <1>9. metrics = Summary(Curves(ims, Cats))
    <2>1. (pc \in {"next", "done"}) = TRUE
      OBVIOUS
    <2>2. curves = SoFar(ims, <<NumClasses, Areas>>, TRUE) /\ metrics = Summary(curves)
      BY <1>1, <2>1 DEF ScoreInv, Before
    <2> QED
      BY <2>2, AllScored
  <1> QED
    BY <1>2, <1>8, <1>9 DEF CocoEvaluate

\* The report of a run is that of its images in the order of the dataset, in
\* whatever order the loader of EvaluateModel took them, when no two detections
\* have the same score: then the ranking of Accumulate does not depend on it.
THEOREM OrderDoesNotMatterHolds == Spec => []OrderDoesNotMatter
  <1> QED
    BY SplitInvHolds, ScoreInvHolds, SameReport, PTL
=============================================================================
