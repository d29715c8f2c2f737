-------------------------- MODULE PredictionProofs ---------------------------
(***************************************************************************)
(* The tiles of AxisOrigins miss nothing, for every size of image and of   *)
(* tile and for every overlap; and what a tile finds whole is found in the *)
(* result of the merge.                                                    *)
(***************************************************************************)
EXTENDS Prediction, WellFoundedInduction, TLAPS

-----------------------------------------------------------------------------
(* Arithmetic of one axis. *)

LEMMA StepBounds ==
  ASSUME NEW slice \in Nat \ {0}, NEW tenths \in Nat
  PROVE  /\ Rounded(tenths, slice) \in Nat
         /\ StepOf(slice, tenths) \in 1 .. slice
         /\ StepOf(slice, tenths) = 1 \/ StepOf(slice, tenths) = slice - Rounded(tenths, slice)
  <1>1. 2 * tenths * slice \in Nat
    OBVIOUS
  <1>2. \A n \in Nat : (n + 10) \div 20 \in Nat
    OBVIOUS
  <1>3. Rounded(tenths, slice) \in Nat
    BY <1>1, <1>2 DEF Rounded
  <1> QED
    BY <1>3 DEF StepOf, Larger

\* Origins are only ever added.
LEMMA WithKeeps ==
  ASSUME NEW origins \in Seq(Int), NEW o \in Int
  PROVE  /\ With(origins, o) \in Seq(Int)
         /\ \A i \in DOMAIN origins : /\ i \in DOMAIN With(origins, o)
                                      /\ With(origins, o)[i] = origins[i]
         /\ \E i \in DOMAIN With(origins, o) : With(origins, o)[i] = o
         /\ \A i \in DOMAIN With(origins, o) :
              \/ With(origins, o)[i] = o
              \/ i \in DOMAIN origins /\ With(origins, o)[i] = origins[i]
  <1>1. CASE origins # <<>> /\ origins[Len(origins)] = o
    BY <1>1 DEF With
  <1>2. CASE ~(origins # <<>> /\ origins[Len(origins)] = o)
    <2>1. With(origins, o) = Append(origins, o)
      BY <1>2 DEF With
    <2>2. DOMAIN origins = 1 .. Len(origins) /\ Len(origins) \in Nat
      OBVIOUS
    <2>3. /\ Append(origins, o) \in Seq(Int)
          /\ DOMAIN Append(origins, o) = 1 .. Len(origins) + 1
          /\ Append(origins, o)[Len(origins) + 1] = o
          /\ \A i \in 1 .. Len(origins) : Append(origins, o)[i] = origins[i]
      OBVIOUS
    <2> HIDE DEF With
    <2> QED
      BY <2>1, <2>2, <2>3
  <1> QED
    BY <1>1, <1>2

\* What AxisOrigins has after some of its turns: tiles within the image that
\* hold everything that ends before the one of the turn before does.
Within(origins, img, slice) ==
  \A i \in DOMAIN origins : 0 <= origins[i] /\ (img > slice => origins[i] + slice <= img)

Held(origins, a, b, img, slice) ==
  \E i \in DOMAIN origins : origins[i] <= a /\ b <= Smaller(origins[i] + slice, img)

HeldUpTo(end, origins, img, slice, tenths) ==
  \A a, b \in 0 .. img :
    a < b /\ b <= end /\ Fits(a, b, slice, tenths) => Held(origins, a, b, img, slice)

Partial(origins, at, img, slice, tenths) ==
  /\ at \in Nat /\ origins \in Seq(Int)
  /\ Within(origins, img, slice)
  /\ at > 0 => HeldUpTo(at - StepOf(slice, tenths) + slice, origins, img, slice, tenths)

\* What fits the overlap and does not begin after the next origin ends before
\* the last tile does.
LEMMA NothingBetween ==
  ASSUME NEW slice \in Nat \ {0}, NEW tenths \in Nat, NEW at \in Nat,
         NEW a \in Nat, NEW b \in Nat, a < at, Fits(a, b, slice, tenths)
  PROVE  b <= at - StepOf(slice, tenths) + slice
  <1> DEFINE step == StepOf(slice, tenths)
             r == Rounded(tenths, slice)
  <1>1. r \in Nat /\ step \in 1 .. slice /\ (step = 1 \/ step = slice - r)
    BY StepBounds
  <1>2. (b = a + 1 \/ b - a <= r) /\ b - a <= slice
    BY DEF Fits
  <1> HIDE DEF step, r
  <1>3. b <= at - step + slice
    BY <1>1, <1>2
  <1> QED
    BY <1>3 DEF step

LEMMA CoversMeans ==
  ASSUME NEW origins, NEW img \in Nat, NEW slice \in Nat, NEW tenths \in Nat
  PROVE  Covers(origins, img, slice, tenths)
           <=> Within(origins, img, slice) /\ HeldUpTo(img, origins, img, slice, tenths)
  BY DEF Covers, Within, HeldUpTo, Held

LEMMA SmallImage ==
  ASSUME NEW img \in Nat, NEW slice \in Nat \ {0}, NEW tenths \in Nat, img <= slice
  PROVE  Covers(<<0>>, img, slice, tenths)
  <1>1. <<0>>[1] = 0 /\ DOMAIN <<0>> = {1}
    OBVIOUS
  <1> QED
    BY <1>1 DEF Covers, Smaller

LEMMA OneTurn ==
  ASSUME NEW img \in Nat, NEW slice \in Nat \ {0}, NEW tenths \in Nat, NEW at, NEW origins,
         img > slice, Partial(origins, at, img, slice, tenths)
  PROVE  LET next == With(origins, Origin(at, slice, img))
         IN  IF IsLast(at, slice, img) THEN next \in Seq(Int) /\ Covers(next, img, slice, tenths)
             ELSE Partial(next, at + StepOf(slice, tenths), img, slice, tenths)
  <1> DEFINE o == Origin(at, slice, img)
             next == With(origins, o)
             step == StepOf(slice, tenths)
  <1>1. at \in Nat /\ origins \in Seq(Int) /\ Within(origins, img, slice)
    BY DEF Partial
  <1>2. /\ o \in Nat /\ o <= at /\ o + slice <= img
        /\ IsLast(at, slice, img) => o + slice = img
        /\ ~IsLast(at, slice, img) => o = at
    BY <1>1 DEF Origin, IsLast
  <1>3. step \in 1 .. slice
    BY StepBounds
  <1>4. /\ next \in Seq(Int)
        /\ \A i \in DOMAIN origins : i \in DOMAIN next /\ next[i] = origins[i]
        /\ \E i \in DOMAIN next : next[i] = o
        /\ \A i \in DOMAIN next : \/ next[i] = o
                                  \/ i \in DOMAIN origins /\ next[i] = origins[i]
    <2>1. origins \in Seq(Int) /\ o \in Int
      BY <1>1, <1>2
    <2> HIDE DEF o
    <2> QED
      BY <2>1, WithKeeps
  <1> HIDE DEF o, next, step
  <1>5. Within(next, img, slice)
    <2> SUFFICES ASSUME NEW i \in DOMAIN next
                 PROVE  0 <= next[i] /\ next[i] + slice <= img
      BY DEF Within
    <2>1. CASE next[i] = o
      <3>1. o \in Nat /\ o + slice <= img
        BY <1>2
      <3> QED
        BY <2>1, <3>1
    <2>2. CASE i \in DOMAIN origins /\ next[i] = origins[i]
      <3>1. 0 <= origins[i] /\ origins[i] + slice <= img
        BY <2>2, <1>1 DEF Within
      <3> QED
        BY <2>2, <3>1
    <2> QED
      BY <2>1, <2>2, <1>4
  <1>6. HeldUpTo(o + slice, next, img, slice, tenths)
    <2> SUFFICES ASSUME NEW a \in 0 .. img, NEW b \in 0 .. img, a < b, b <= o + slice,
                        Fits(a, b, slice, tenths)
                 PROVE  Held(next, a, b, img, slice)
      BY DEF HeldUpTo
    <2>1. CASE o <= a
      <3>1. PICK i \in DOMAIN next : next[i] = o
        BY <1>4
      <3>2. b <= Smaller(next[i] + slice, img)
        BY <3>1, <1>2 DEF Smaller
      <3> QED
        BY <2>1, <3>1, <3>2 DEF Held
    <2>2. CASE a < o
      <3>1. a < at /\ at > 0
        BY <2>2, <1>1, <1>2
      <3>2. b <= at - step + slice
        BY <3>1, <1>1, NothingBetween DEF step
      <3>3. Held(origins, a, b, img, slice)
        BY <3>1, <3>2 DEF Partial, HeldUpTo, step
      <3> QED
        BY <3>3, <1>4 DEF Held
    <2> QED
      BY <2>1, <2>2, <1>2
  <1>7. CASE IsLast(at, slice, img)
    <2>1. HeldUpTo(img, next, img, slice, tenths)
      BY <1>6, <1>7, <1>2
    <2> QED
      BY <1>4, <1>5, <1>7, <2>1, CoversMeans DEF next, o
  <1>8. CASE ~IsLast(at, slice, img)
    <2>1. (at + step) - step + slice = o + slice
      BY <1>8, <1>1, <1>2, <1>3
    <2>2. Partial(next, at + step, img, slice, tenths)
      <3>1. at + step \in Nat
        BY <1>1, <1>3
      <3>2. HeldUpTo((at + step) - step + slice, next, img, slice, tenths)
        BY <1>6, <2>1
      <3> QED
        BY <3>1, <3>2, <1>4, <1>5 DEF Partial, step
    <2> QED
      BY <1>8, <2>2 DEF next, o, step
  <1> QED
    BY <1>7, <1>8

LEMMA NoTurn ==
  ASSUME NEW img \in Nat, NEW slice \in Nat \ {0}, NEW tenths \in Nat
  PROVE  Partial(<<>>, 0, img, slice, tenths)
  BY DEF Partial, Within

-----------------------------------------------------------------------------
(* The invariant: the columns and then the rows are being found. *)

ColumnsFound == xs \in Seq(Int) /\ Covers(xs, Width[path], SliceW, OverlapW)
RowsFound    == ys \in Seq(Int) /\ Covers(ys, Height[path], SliceH, OverlapH)

AxesInv ==
  /\ pc \in {"columns", "rows", "slices", "tiles", "nms", "forward", "save"} => path \in Readable
  /\ pc = "columns" => /\ Partial(xs, x, Width[path], SliceW, OverlapW)
                       /\ y = 0 /\ ys = <<>>
  /\ pc = "rows" => /\ ColumnsFound
                    /\ Partial(ys, y, Height[path], SliceH, OverlapH)
  /\ pc \in {"slices", "tiles"} => ColumnsFound /\ RowsFound

LEMMA Sizes ==
  ASSUME AxesInv, pc \in {"columns", "rows", "slices", "tiles"}
  PROVE  /\ Width[path] \in Nat /\ Height[path] \in Nat
         /\ SliceW \in Nat \ {0} /\ SliceH \in Nat \ {0}
         /\ OverlapW \in Nat /\ OverlapH \in Nat
  BY TileSizes, PictureSizes DEF AxesInv

LEMMA AxesStep == AxesInv /\ [Next]_vars => AxesInv'
  <1> SUFFICES ASSUME AxesInv, [Next]_vars PROVE AxesInv'
    OBVIOUS
  <1>1. CASE Load
    <2>1. CASE pc' = "columns"
      <3>1. path' \in Readable /\ Width[path'] \in Nat
        BY <1>1, <2>1, PictureSizes DEF Load
      <3>2. Partial(<<>>, 0, Width[path'], SliceW, OverlapW)
        BY <3>1, TileSizes, NoTurn
      <3> QED
        BY <1>1, <2>1, <3>1, <3>2 DEF Load, AxesInv
    <2>2. CASE pc' # "columns"
      BY <1>1, <2>2 DEF Load, AxesInv
    <2> QED
      BY <2>1, <2>2
  <1>2. CASE Column
    <2>1. pc = "columns" /\ y = 0 /\ ys = <<>> /\ y' = y /\ ys' = ys /\ path' = path
          /\ path \in Readable /\ pc' \in {"columns", "rows"}
      BY <1>2 DEF Column, AxesInv
    <2>2. Partial(<<>>, 0, Height[path], SliceH, OverlapH)
      BY <2>1, Sizes, NoTurn
    <2>3. CASE Width[path] <= SliceW
      <3>1. <<0>> \in Seq(Int) /\ Covers(<<0>>, Width[path], SliceW, OverlapW)
        BY <2>1, <2>3, Sizes, SmallImage
      <3> QED
        BY <1>2, <2>1, <2>2, <2>3, <3>1 DEF Column, AxesInv, ColumnsFound
    <2>4. CASE ~(Width[path] <= SliceW)
      <3>1. Width[path] > SliceW /\ Partial(xs, x, Width[path], SliceW, OverlapW)
        BY <2>1, <2>4, Sizes DEF AxesInv
      <3>2. IF IsLast(x, SliceW, Width[path])
            THEN /\ With(xs, Origin(x, SliceW, Width[path])) \in Seq(Int)
                 /\ Covers(With(xs, Origin(x, SliceW, Width[path])), Width[path], SliceW, OverlapW)
            ELSE Partial(With(xs, Origin(x, SliceW, Width[path])), x + StepX,
                         Width[path], SliceW, OverlapW)
        BY <2>1, <3>1, Sizes, OneTurn DEF StepX
      <3> QED
        BY <1>2, <2>1, <2>2, <2>4, <3>2 DEF Column, AxesInv, ColumnsFound
    <2> QED
      BY <2>3, <2>4
  <1>3. CASE Row
    <2>1. pc = "rows" /\ x' = x /\ xs' = xs /\ path' = path /\ path \in Readable
          /\ pc' \in {"rows", "slices"} /\ ColumnsFound /\ ColumnsFound'
      BY <1>3 DEF Row, AxesInv, ColumnsFound
    <2>2. CASE Height[path] <= SliceH
      <3>1. <<0>> \in Seq(Int) /\ Covers(<<0>>, Height[path], SliceH, OverlapH)
        BY <2>1, <2>2, Sizes, SmallImage
      <3> QED
        BY <1>3, <2>1, <2>2, <3>1 DEF Row, AxesInv, RowsFound
    <2>3. CASE ~(Height[path] <= SliceH)
      <3>1. Height[path] > SliceH /\ Partial(ys, y, Height[path], SliceH, OverlapH)
        BY <2>1, <2>3, Sizes DEF AxesInv
      <3>2. IF IsLast(y, SliceH, Height[path])
            THEN /\ With(ys, Origin(y, SliceH, Height[path])) \in Seq(Int)
                 /\ Covers(With(ys, Origin(y, SliceH, Height[path])), Height[path], SliceH, OverlapH)
            ELSE Partial(With(ys, Origin(y, SliceH, Height[path])), y + StepY,
                         Height[path], SliceH, OverlapH)
        BY <2>1, <3>1, Sizes, OneTurn DEF StepY
      <3> QED
        BY <1>3, <2>1, <2>3, <3>2 DEF Row, AxesInv, RowsFound
    <2> QED
      BY <2>2, <2>3
  <1>4. CASE Slices
    BY <1>4 DEF Slices, AxesInv, ColumnsFound, RowsFound
  <1>5. CASE DetectTile
    BY <1>5 DEF DetectTile, AxesInv, ColumnsFound, RowsFound
  <1>6. CASE Resolve \/ Done \/ TilesDone \/ Keep \/ Merged \/ Forward \/ Save
    <2>1. /\ pc' \notin {"columns", "rows", "slices", "tiles"}
          /\ pc' \in {"nms", "forward", "save"} =>
               path' = path /\ pc \in {"tiles", "nms", "forward"}
      BY <1>6 DEF Resolve, Done, TilesDone, Keep, Merged, Forward, Save
    <2> QED
      BY <2>1 DEF AxesInv
  <1>7. CASE UNCHANGED vars
    BY <1>7 DEF vars, AxesInv, ColumnsFound, RowsFound
  <1> QED
    BY <1>1, <1>2, <1>3, <1>4, <1>5, <1>6, <1>7 DEF Next

\* For every image, tile and overlap the grid of AxisOrigins covers the image,
\* no tile leaves it, and what is no larger than the overlap is whole in one.
THEOREM TilesMissNothing == Spec => []WholeInSomeTile
  <1>1. Init => AxesInv
    BY DEF Init, AxesInv
  <1>2. AxesInv => WholeInSomeTile
    BY DEF AxesInv, WholeInSomeTile, ColumnsFound, RowsFound
  <1> QED
    BY <1>1, <1>2, AxesStep, PTL DEF Spec

-----------------------------------------------------------------------------
(* The least and the greatest of coordinates. *)

LEMMA Extremes ==
  ASSUME NEW n \in Nat, NEW S, S \subseteq 0 .. n, S # {}
  PROVE  /\ Min(S) \in S /\ \A k \in S : Min(S) <= k
         /\ Max(S) \in S /\ \A k \in S : k <= Max(S)
  <1>1. ASSUME NEW T, T \subseteq Nat, T # {} PROVE \E k \in T : \A l \in T : k <= l
    <2>1. PICK k \in T : \A l \in T : ~(<<l, k>> \in OpToRel(<, Nat))
      BY <1>1, NatLessThanWellFounded, WFMin
    <2>2. \A l \in T : ~(l < k)
      BY <1>1, <2>1 DEF OpToRel
    <2>3. k \in Nat /\ \A l \in T : l \in Nat
      BY <1>1
    <2> QED
      BY <2>2, <2>3
  <1>2. Min(S) \in S /\ \A k \in S : Min(S) <= k
    <2>1. S \subseteq Nat
      OBVIOUS
    <2>2. \E k \in S : \A l \in S : k <= l
      BY <1>1, <2>1
    <2> QED
      BY <2>2 DEF Min
  <1>3. Max(S) \in S /\ \A k \in S : k <= Max(S)
    <2> DEFINE T == {n - k : k \in S}
    <2>1. T \subseteq Nat /\ T # {}
      <3>1. \A k \in S : n - k \in Nat
        OBVIOUS
      <3> QED
        BY <3>1
    <2> HIDE DEF T
    <2>2. PICK t \in T : \A l \in T : t <= l
      BY <1>1, <2>1
    <2>3. PICK k \in S : t = n - k
      BY <2>2 DEF T
    <2>4. \A l \in S : k >= l
      <3> SUFFICES ASSUME NEW l \in S PROVE k >= l
        OBVIOUS
      <3>1. n - l \in T
        BY DEF T
      <3>2. n - k <= n - l
        BY <2>2, <2>3, <3>1
      <3> QED
        BY <3>2
    <2>5. \E c \in S : \A l \in S : c >= l
      BY <2>4
    <2>6. Max(S) \in S /\ \A l \in S : Max(S) >= l
      BY <2>5 DEF Max
    <2> QED
      BY <2>6
  <1> QED
    BY <1>2, <1>3

\* Row i and column j of the grid are place k of the list of tiles.
IsPlace(k, n, i, j) == 1 + ((k - 1) % n) = j /\ 1 + (k - 1) \div n = i

LEMMA PlaceOfTile ==
  ASSUME NEW n \in Nat \ {0}, NEW m \in Nat, NEW i \in 1 .. m, NEW j \in 1 .. n
  PROVE  \E k \in 1 .. m * n : IsPlace(k, n, i, j)
  <1> DEFINE q == (i - 1) * n + (j - 1)
  <1>1. (i - 1) * n \in Nat /\ (m - i) * n \in Nat
    <2>1. i - 1 \in Nat /\ m - i \in Nat
      OBVIOUS
    <2> QED
      BY <2>1
  <1>2. (i - 1) * n = i * n - n /\ (m - i) * n = m * n - i * n /\ i * n \in Nat /\ m * n \in Nat
    OBVIOUS
  <1>3. q \in Nat /\ q + 1 \in 1 .. m * n
    BY <1>1, <1>2
  <1>4. PICK r \in 0 .. n - 1 : r = j - 1
    OBVIOUS
  <1>5. PICK d \in Nat : d = i - 1
    OBVIOUS
  <1>6. q = d * n + r
    BY <1>4, <1>5
  <1> HIDE DEF q
  <1>7. PICK e \in Nat : e = q \div n
    BY <1>3
  <1>8. PICK s \in 0 .. n - 1 : s = q % n
    BY <1>3
  <1>9. q = e * n + s
    <2>1. q = n * e + s
      BY <1>3, <1>7, <1>8
    <2> QED
      BY <2>1
  <1>10. \A a, b \in Nat : a < b => a * n + n <= b * n
    <2> SUFFICES ASSUME NEW a \in Nat, NEW b \in Nat, a < b PROVE a * n + n <= b * n
      OBVIOUS
    <2>1. b - a - 1 \in Nat
      OBVIOUS
    <2>2. (b - a - 1) * n \in Nat
      BY <2>1
    <2>3. (b - a - 1) * n = b * n - a * n - n
      OBVIOUS
    <2>4. a * n \in Nat /\ b * n \in Nat
      OBVIOUS
    <2> QED
      BY <2>2, <2>3, <2>4
  <1>11. d * n \in Nat /\ e * n \in Nat
    OBVIOUS
  <1>12. e = d
    <2>1. ~(e < d)
      BY <1>6, <1>9, <1>10, <1>11
    <2>2. ~(d < e)
      BY <1>6, <1>9, <1>10, <1>11
    <2> QED
      BY <2>1, <2>2
  <1>13. s = r
    BY <1>6, <1>9, <1>11, <1>12
  <1>14. PICK k \in 1 .. m * n : k = q + 1
    BY <1>3
  <1>15. k - 1 = q
    BY <1>3, <1>14
  <1>16. IsPlace(k, n, i, j)
    BY <1>4, <1>5, <1>7, <1>8, <1>12, <1>13, <1>15 DEF IsPlace
  <1> QED
    BY <1>16

LEMMA TileOfPlace ==
  ASSUME NEW n \in Nat, NEW m \in Nat, NEW k \in 1 .. m * n
  PROVE  n # 0 /\ 1 + ((k - 1) % n) \in 1 .. n /\ 1 + (k - 1) \div n \in 1 .. m
  <1>1. n # 0
    <2> SUFFICES ASSUME n = 0 PROVE FALSE
      OBVIOUS
    <2>1. m * n = 0
      OBVIOUS
    <2> QED
      BY <2>1
  <1>2. PICK q \in Nat : q = k - 1
    <2>1. m * n \in Nat
      OBVIOUS
    <2> QED
      BY <2>1
  <1>3. q % n \in 0 .. n - 1
    BY <1>1
  <1>4. PICK e \in Nat : e = q \div n
    BY <1>1
  <1>5. e * n <= q
    <2>1. q = n * e + (q % n)
      BY <1>1, <1>4
    <2>2. n * e = e * n /\ e * n \in Nat
      OBVIOUS
    <2> QED
      BY <1>3, <2>1, <2>2
  <1>6. e < m
    <2> SUFFICES ASSUME m <= e PROVE FALSE
      OBVIOUS
    <2>1. e - m \in Nat
      OBVIOUS
    <2>2. (e - m) * n \in Nat /\ (e - m) * n = e * n - m * n
      BY <2>1
    <2>3. m * n \in Nat /\ e * n \in Nat
      OBVIOUS
    <2>4. m * n <= q
      BY <1>5, <2>2, <2>3
    <2> QED
      BY <1>2, <2>3, <2>4
  <1> QED
    BY <1>1, <1>2, <1>3, <1>4, <1>6

\* The tiles of the grid.
Grid(columns, rows, w, h) ==
  {Tile(columns[j], rows[i], w, h) : j \in DOMAIN columns, i \in DOMAIN rows}

LEMMA SlicesAreGrid ==
  ASSUME NEW columns \in Seq(Int), NEW rows \in Seq(Int), NEW w, NEW h,
         NEW all, all = ComputeSlices(columns, rows, w, h)
  PROVE  /\ all \in Seq(Grid(columns, rows, w, h))
         /\ \A t \in Grid(columns, rows, w, h) : \E k \in DOMAIN all : all[k] = t
  <1>1. PICK n \in Nat : n = Len(columns) /\ DOMAIN columns = 1 .. n
    OBVIOUS
  <1>2. PICK m \in Nat : m = Len(rows) /\ DOMAIN rows = 1 .. m
    OBVIOUS
  <1>3. PICK G : G = Grid(columns, rows, w, h)
    OBVIOUS
  <1>4. PICK size \in Nat : size = m * n
    OBVIOUS
  <1>5. all = [k \in 1 .. size |-> Tile(columns[1 + ((k - 1) % n)], rows[1 + (k - 1) \div n], w, h)]
    BY <1>1, <1>2, <1>4 DEF ComputeSlices
  <1>6. ASSUME NEW k \in 1 .. size PROVE all[k] \in G
    <2>1. 1 + ((k - 1) % n) \in 1 .. n /\ 1 + (k - 1) \div n \in 1 .. m
      BY <1>4, TileOfPlace
    <2> QED
      BY <1>1, <1>2, <1>3, <1>5, <2>1 DEF Grid
  <1>7. all \in [1 .. size -> G]
    BY <1>5, <1>6
  <1>8. all \in Seq(G)
    BY <1>7
  <1>9. ASSUME NEW t \in G PROVE \E k \in DOMAIN all : all[k] = t
    <2>1. PICK j \in 1 .. n, i \in 1 .. m : t = Tile(columns[j], rows[i], w, h)
      BY <1>1, <1>2, <1>3 DEF Grid
    <2>2. n \in Nat \ {0}
      OBVIOUS
    <2>3. PICK k \in 1 .. m * n : IsPlace(k, n, i, j)
      BY <2>2, PlaceOfTile
    <2>4. k \in 1 .. size /\ k \in DOMAIN all
      BY <1>4, <1>7
    <2> QED
      BY <1>5, <2>1, <2>3, <2>4 DEF IsPlace
  <1> QED
    BY <1>3, <1>8, <1>9

-----------------------------------------------------------------------------
(* Boxes of the picture. *)

Boxes(w, h) == [x0 : 0 .. w, y0 : 0 .. h, x1 : 0 .. w, y1 : 0 .. h]

TileIn(t, w, h) == /\ t.x0 \in Nat /\ t.y0 \in Nat
                   /\ t.x1 \in Int /\ t.x1 <= w /\ t.y1 \in Int /\ t.y1 <= h

InPicture(o, w, h) == o.box \in Boxes(w, h) /\ o.box.x0 < o.box.x1 /\ o.box.y0 < o.box.y1

\* A box as it comes out of the crop, in coordinates of the image again.
Back(b, t) == Moved(Moved(Common(b, t), -t.x0, -t.y0), t.x0, t.y0)

LEMMA BackIsCommon ==
  ASSUME NEW w \in Nat, NEW h \in Nat, NEW t, TileIn(t, w, h), NEW o, InPicture(o, w, h)
  PROVE  Back(o.box, t) = Common(o.box, t)
  <1>1. PICK b \in Boxes(w, h) : b = o.box
    BY DEF InPicture
  <1>2. b.x0 \in Int /\ b.x1 \in Int /\ b.y0 \in Int /\ b.y1 \in Int
    BY DEF Boxes
  <1>3. PICK a0 \in Int : a0 = Larger(b.x0, t.x0)
    BY <1>2 DEF Larger, TileIn
  <1>4. PICK c0 \in Int : c0 = Larger(b.y0, t.y0)
    BY <1>2 DEF Larger, TileIn
  <1>5. PICK a1 \in Int : a1 = Smaller(b.x1, t.x1)
    BY <1>2 DEF Smaller, TileIn
  <1>6. PICK c1 \in Int : c1 = Smaller(b.y1, t.y1)
    BY <1>2 DEF Smaller, TileIn
  <1>7. Common(b, t) = [x0 |-> a0, y0 |-> c0, x1 |-> a1, y1 |-> c1]
    BY <1>3, <1>4, <1>5, <1>6 DEF Common
  <1>8. PICK dx \in Int : dx = t.x0
    BY DEF TileIn
  <1>9. PICK dy \in Int : dy = t.y0
    BY DEF TileIn
  <1>10. /\ (a0 + (-dx)) + dx = a0 /\ (a1 + (-dx)) + dx = a1
         /\ (c0 + (-dy)) + dy = c0 /\ (c1 + (-dy)) + dy = c1
    OBVIOUS
  <1>11. Back(b, t) = [x0 |-> (a0 + (-dx)) + dx, y0 |-> (c0 + (-dy)) + dy,
                       x1 |-> (a1 + (-dx)) + dx, y1 |-> (c1 + (-dy)) + dy]
    BY <1>7, <1>8, <1>9 DEF Back, Moved
  <1> QED
    BY <1>1, <1>7, <1>10, <1>11

\* A part stays in the picture, and what is whole in the tile is as it was.
LEMMA PartOfObject ==
  ASSUME NEW w \in Nat, NEW h \in Nat, NEW t, TileIn(t, w, h), NEW o, InPicture(o, w, h)
  PROVE  /\ Meets(o.box, t) => Common(o.box, t) \in Boxes(w, h)
         /\ Inside(o.box, t) => Meets(o.box, t) /\ Common(o.box, t) = o.box
  <1>1. PICK b \in Boxes(w, h) : b = o.box /\ b.x0 < b.x1 /\ b.y0 < b.y1
    BY DEF InPicture
  <1>2. /\ b.x0 \in 0 .. w /\ b.x1 \in 0 .. w /\ b.y0 \in 0 .. h /\ b.y1 \in 0 .. h
        /\ b = [x0 |-> b.x0, y0 |-> b.y0, x1 |-> b.x1, y1 |-> b.y1]
    BY DEF Boxes
  <1>3. ASSUME Meets(b, t) PROVE Common(b, t) \in Boxes(w, h)
    <2>1. Larger(b.x0, t.x0) \in 0 .. w /\ Smaller(b.x1, t.x1) \in 0 .. w
      BY <1>2, <1>3 DEF Meets, Larger, Smaller, TileIn
    <2>2. Larger(b.y0, t.y0) \in 0 .. h /\ Smaller(b.y1, t.y1) \in 0 .. h
      BY <1>2, <1>3 DEF Meets, Larger, Smaller, TileIn
    <2> QED
      BY <2>1, <2>2 DEF Common, Boxes
  <1>4. ASSUME Inside(b, t) PROVE Meets(b, t) /\ Common(b, t) = b
    <2>1. Meets(b, t)
      BY <1>1, <1>2, <1>4 DEF Inside, Meets, TileIn
    <2>2. /\ Larger(b.x0, t.x0) = b.x0 /\ Smaller(b.x1, t.x1) = b.x1
          /\ Larger(b.y0, t.y0) = b.y0 /\ Smaller(b.y1, t.y1) = b.y1
      BY <1>2, <1>4 DEF Inside, Larger, Smaller, TileIn
    <2>3. Common(b, t) = b
      BY <1>2, <2>2 DEF Common
    <2> QED
      BY <2>1, <2>3
  <1> QED
    BY <1>1, <1>3, <1>4

\* The detection of an object that is seen whole.
WholeOf(o) == [cls |-> o.cls, box |-> o.box, score |-> o.score]

\* What a tile contributes: boxes of the picture, and its whole objects.
LEMMA SeenInTile ==
  ASSUME NEW w \in Nat, NEW h \in Nat, NEW t, TileIn(t, w, h),
         NEW objects, \A o \in objects : InPicture(o, w, h),
         NEW found, found = ShiftedBack(Detect(objects, t), t)
  PROVE  /\ \A d \in found : d.box \in Boxes(w, h)
         /\ \A o \in objects : Inside(o.box, t) => WholeOf(o) \in found
  <1> DEFINE Score(o) == IF Inside(o.box, t) THEN o.score ELSE o.part
             Crop(o) == [cls |-> o.cls, box |-> Moved(Common(o.box, t), -t.x0, -t.y0), score |-> Score(o)]
             Shift(d) == [cls |-> d.cls, box |-> Moved(d.box, t.x0, t.y0), score |-> d.score]
             seen == {q \in objects : Meets(q.box, t)}
  <1>1. Detect(objects, t) = {Crop(o) : o \in seen}
    BY DEF Detect
  <1>2. found = {Shift(d) : d \in Detect(objects, t)}
    BY DEF ShiftedBack
  <1>3. \A o \in seen : Shift(Crop(o)) = [cls |-> o.cls, box |-> Back(o.box, t), score |-> Score(o)]
    BY DEF Back
  <1>4. \A o \in seen : Back(o.box, t) = Common(o.box, t)
    BY BackIsCommon
  <1>5. ASSUME NEW d \in found PROVE d.box \in Boxes(w, h)
    <2>1. PICK o \in seen : d = Shift(Crop(o))
      BY <1>1, <1>2
    <2>2. d.box = Common(o.box, t)
      BY <1>3, <1>4, <2>1
    <2>3. Common(o.box, t) \in Boxes(w, h)
      BY PartOfObject
    <2> QED
      BY <2>2, <2>3
  <1>6. ASSUME NEW o \in objects, Inside(o.box, t) PROVE WholeOf(o) \in found
    <2>1. Meets(o.box, t) /\ Common(o.box, t) = o.box
      BY <1>6, PartOfObject
    <2>2. o \in seen /\ Score(o) = o.score
      BY <1>6, <2>1
    <2>3. Shift(Crop(o)) = WholeOf(o)
      BY <1>3, <1>4, <2>1, <2>2 DEF WholeOf
    <2>4. Crop(o) \in Detect(objects, t)
      BY <1>1, <2>2
    <2>5. Shift(Crop(o)) \in found
      BY <1>2, <2>4
    <2> QED
      BY <2>3, <2>5
  <1> QED
    BY <1>5, <1>6

\* The tiles of a grid that covers the picture, and a small object in it.
LEMMA GridCovers ==
  ASSUME NEW w \in Nat, NEW h \in Nat, NEW columns \in Seq(Int), NEW rows \in Seq(Int),
         Covers(columns, w, SliceW, OverlapW), Covers(rows, h, SliceH, OverlapH)
  PROVE  /\ \A t \in Grid(columns, rows, w, h) : TileIn(t, w, h)
         /\ \A o : InPicture(o, w, h) /\ Small(o.box)
                     => \E t \in Grid(columns, rows, w, h) : Inside(o.box, t)
  <1>1. ASSUME NEW t \in Grid(columns, rows, w, h) PROVE TileIn(t, w, h)
    <2>1. PICK j \in DOMAIN columns, i \in DOMAIN rows : t = Tile(columns[j], rows[i], w, h)
      BY DEF Grid
    <2>2. columns[j] \in Nat /\ rows[i] \in Nat
      BY DEF Covers
    <2> QED
      BY <2>1, <2>2, TileSizes DEF Tile, TileIn, Smaller
  <1>2. ASSUME NEW o, InPicture(o, w, h), Small(o.box)
        PROVE  \E t \in Grid(columns, rows, w, h) : Inside(o.box, t)
    <2>1. PICK b \in Boxes(w, h) : b = o.box /\ b.x0 < b.x1 /\ b.y0 < b.y1
      BY <1>2 DEF InPicture
    <2>2. b.x0 \in 0 .. w /\ b.x1 \in 0 .. w /\ b.y0 \in 0 .. h /\ b.y1 \in 0 .. h
      BY DEF Boxes
    <2>3. PICK j \in DOMAIN columns : columns[j] <= b.x0 /\ b.x1 <= Smaller(columns[j] + SliceW, w)
      BY <1>2, <2>1, <2>2 DEF Covers, Small
    <2>4. PICK i \in DOMAIN rows : rows[i] <= b.y0 /\ b.y1 <= Smaller(rows[i] + SliceH, h)
      BY <1>2, <2>1, <2>2 DEF Covers, Small
    <2>5. Inside(b, Tile(columns[j], rows[i], w, h))
      BY <2>3, <2>4 DEF Inside, Tile
    <2>6. Tile(columns[j], rows[i], w, h) \in Grid(columns, rows, w, h)
      BY DEF Grid
    <2> QED
      BY <2>1, <2>5, <2>6
  <1> QED
    BY <1>1, <1>2

-----------------------------------------------------------------------------
(* The merge. *)

LEMMA OverlapsBack ==
  ASSUME NEW w \in Nat, NEW h \in Nat, NEW a \in Boxes(w, h), NEW b \in Boxes(w, h), Overlaps(a, b)
  PROVE  Overlaps(b, a)
  <1>1. /\ a.x0 \in Int /\ a.x1 \in Int /\ a.y0 \in Int /\ a.y1 \in Int
        /\ b.x0 \in Int /\ b.x1 \in Int /\ b.y0 \in Int /\ b.y1 \in Int
    BY DEF Boxes
  <1>2. Common(a, b) = Common(b, a)
    <2>1. /\ Larger(a.x0, b.x0) = Larger(b.x0, a.x0) /\ Larger(a.y0, b.y0) = Larger(b.y0, a.y0)
          /\ Smaller(a.x1, b.x1) = Smaller(b.x1, a.x1) /\ Smaller(a.y1, b.y1) = Smaller(b.y1, a.y1)
      BY <1>1 DEF Larger, Smaller
    <2> QED
      BY <2>1 DEF Common
  <1>3. Area(a) \in Int /\ Area(b) \in Int
    <2>1. \A k, l \in Int : Larger(k, l) \in Int
      BY DEF Larger
    <2>2. \A k, l \in Int : k * l \in Int
      OBVIOUS
    <2>3. 0 \in Int /\ a.x1 - a.x0 \in Int /\ a.y1 - a.y0 \in Int /\ b.x1 - b.x0 \in Int /\ b.y1 - b.y0 \in Int
      BY <1>1
    <2>4. /\ Larger(0, a.x1 - a.x0) \in Int /\ Larger(0, a.y1 - a.y0) \in Int
          /\ Larger(0, b.x1 - b.x0) \in Int /\ Larger(0, b.y1 - b.y0) \in Int
      BY <2>1, <2>3
    <2> QED
      BY <2>2, <2>4 DEF Area
  <1>4. Inter(a, b) = Inter(b, a)
    BY <1>2 DEF Inter
  <1>5. Area(a) + Area(b) - Inter(a, b) = Area(b) + Area(a) - Inter(b, a)
    <2>1. PICK A \in Int : A = Area(a)
      BY <1>3
    <2>2. PICK B \in Int : B = Area(b)
      BY <1>3
    <2>3. PICK I \in Int : I = Inter(a, b)
      <3>1. PICK x0 \in Int : x0 = Larger(a.x0, b.x0)
        BY <1>1 DEF Larger
      <3>2. PICK y0 \in Int : y0 = Larger(a.y0, b.y0)
        BY <1>1 DEF Larger
      <3>3. PICK x1 \in Int : x1 = Smaller(a.x1, b.x1)
        BY <1>1 DEF Smaller
      <3>4. PICK y1 \in Int : y1 = Smaller(a.y1, b.y1)
        BY <1>1 DEF Smaller
      <3>5. PICK wide \in Int : wide = Larger(0, x1 - x0)
        BY DEF Larger
      <3>6. PICK high \in Int : high = Larger(0, y1 - y0)
        BY DEF Larger
      <3>7. Inter(a, b) = wide * high
        BY <3>1, <3>2, <3>3, <3>4, <3>5, <3>6 DEF Inter, Common, Area
      <3>8. wide * high \in Int
        OBVIOUS
      <3> QED
        BY <3>7, <3>8
    <2>4. A + B - I = B + A - I
      OBVIOUS
    <2> QED
      BY <1>4, <2>1, <2>2, <2>3, <2>4
  <1> QED
    BY <1>4, <1>5 DEF Overlaps

LEMMA HullHolds ==
  ASSUME NEW w \in Nat, NEW h \in Nat, NEW S, S \subseteq Boxes(w, h), NEW b \in S
  PROVE  Inside(b, Hull(S))
  <1> DEFINE X0 == {e.x0 : e \in S}
             X1 == {e.x1 : e \in S}
             Y0 == {e.y0 : e \in S}
             Y1 == {e.y1 : e \in S}
  <1>1. \A e \in S : e.x0 \in 0 .. w /\ e.x1 \in 0 .. w /\ e.y0 \in 0 .. h /\ e.y1 \in 0 .. h
    BY DEF Boxes
  <1>2. X0 \subseteq 0 .. w /\ X1 \subseteq 0 .. w /\ Y0 \subseteq 0 .. h /\ Y1 \subseteq 0 .. h
    BY <1>1
  <1>3. b.x0 \in X0 /\ b.x1 \in X1 /\ b.y0 \in Y0 /\ b.y1 \in Y1
    OBVIOUS
  <1>4. Hull(S) = [x0 |-> Min(X0), y0 |-> Min(Y0), x1 |-> Max(X1), y1 |-> Max(Y1)]
    BY DEF Hull
  <1> HIDE DEF X0, X1, Y0, Y1
  <1>5. X0 # {} /\ X1 # {} /\ Y0 # {} /\ Y1 # {}
    BY <1>3
  <1>6. Min(X0) <= b.x0 /\ b.x1 <= Max(X1)
    BY <1>2, <1>3, <1>5, Extremes
  <1>7. Min(Y0) <= b.y0 /\ b.y1 <= Max(Y1)
    BY <1>2, <1>3, <1>5, Extremes
  <1> QED
    BY <1>4, <1>6, <1>7 DEF Inside

\* What is kept stands for itself and for what it removes.
StandsFor(k, e, merge) ==
  k.cls = e.cls /\ IF merge THEN Inside(e.box, k.box)
                   ELSE k.box = e.box \/ Overlaps(e.box, k.box)

LEMMA KeptStandsFor ==
  ASSUME NEW w \in Nat, NEW h \in Nat, NEW ds, \A d \in ds : d.box \in Boxes(w, h),
         NEW merge, NEW d \in ds, NEW e \in {d} \cup RemovedBy(d, ds)
  PROVE  StandsFor(Kept(d, ds, merge), e, merge)
  <1>1. e \in ds /\ e.cls = d.cls /\ (e = d \/ Overlaps(d.box, e.box))
    BY DEF RemovedBy
  <1>2. CASE merge
    <2> DEFINE S == {f.box : f \in {d} \cup RemovedBy(d, ds)}
    <2>1. S \subseteq Boxes(w, h) /\ e.box \in S
      BY DEF RemovedBy
    <2>2. Kept(d, ds, merge) = [cls |-> d.cls, score |-> d.score, box |-> Hull(S)]
      BY <1>2 DEF Kept
    <2> HIDE DEF S
    <2>3. PICK b \in S : b = e.box
      BY <2>1
    <2>4. Inside(b, Hull(S))
      BY <2>1, HullHolds
    <2>5. Kept(d, ds, merge).cls = d.cls /\ Kept(d, ds, merge).box = Hull(S)
      BY <2>2
    <2> QED
      BY <1>1, <1>2, <2>3, <2>4, <2>5 DEF StandsFor
  <1>3. CASE ~merge
    <2>1. Kept(d, ds, merge) = d
      BY <1>3 DEF Kept
    <2>2. PICK a \in Boxes(w, h) : a = d.box
      OBVIOUS
    <2>3. PICK b \in Boxes(w, h) : b = e.box
      BY <1>1
    <2>4. e = d \/ Overlaps(a, b)
      BY <1>1, <2>2, <2>3
    <2>5. a = b \/ Overlaps(b, a)
      BY <2>2, <2>3, <2>4, OverlapsBack
    <2> QED
      BY <1>1, <1>3, <2>1, <2>2, <2>3, <2>5 DEF StandsFor
  <1> QED
    BY <1>2, <1>3

-----------------------------------------------------------------------------
(* From the tiles to the merge. *)

SmallEnough(o) == Small(o.box) /\ o.score >= ConfTile
FoundBy(o, ds) == \E d \in ds : StandsFor(d, o, cfg.merge)

InPool(t) == \A o \in scene[path] : Inside(o.box, t) /\ o.score >= ConfTile => WholeOf(o) \in pool

TilesOfImage == Grid(xs, ys, Width[path], Height[path])

\* A tile is still to be looked at, or its whole objects are in the pool; a
\* detection leaves the pool for one that stands for it.
FoundInv ==
  /\ scene \in Scenes
  /\ pc = "forward" => ~cfg.sahi
  /\ pc \in {"columns", "rows", "slices"} => pool = {}
  /\ pc \in {"tiles", "nms"} => \A d \in pool : d.box \in Boxes(Width[path], Height[path])
  /\ pc = "tiles" => /\ tiles \in Seq(TilesOfImage)
                     /\ \A t \in TilesOfImage : (\E k \in DOMAIN tiles : tiles[k] = t) \/ InPool(t)
  /\ pc = "nms" => \A o \in scene[path] : SmallEnough(o) => WholeOf(o) \in pool \/ FoundBy(o, dets)
  /\ pc = "save" /\ cfg.sahi => \A o \in scene[path] : SmallEnough(o) => FoundBy(o, dets)

LEMMA ImageInPicture ==
  ASSUME AxesInv, FoundInv, pc \in {"columns", "rows", "slices", "tiles", "nms", "save"}
  PROVE  /\ Width[path] \in Nat /\ Height[path] \in Nat
         /\ \A o \in scene[path] : InPicture(o, Width[path], Height[path])
  <1>1. path \in Readable /\ scene \in Scenes
    BY DEF AxesInv, FoundInv
  <1> QED
    BY <1>1, PictureSizes, SceneBoxes DEF InPicture, Boxes

LEMMA SlicesFound == ASSUME AxesInv, FoundInv, Slices PROVE FoundInv'
  <1>1. /\ pc = "slices" /\ pc' = "tiles" /\ scene' = scene /\ cfg' = cfg /\ path' = path
        /\ xs' = xs /\ ys' = ys /\ pool' = pool /\ pool = {}
        /\ tiles' = ComputeSlices(xs, ys, Width[path], Height[path])
    BY DEF Slices, FoundInv
  <1>2. xs \in Seq(Int) /\ ys \in Seq(Int)
    BY <1>1 DEF AxesInv, ColumnsFound, RowsFound
  <1>3. PICK all : all = ComputeSlices(xs, ys, Width[path], Height[path])
    OBVIOUS
  <1>4. PICK w : w = Width[path]
    OBVIOUS
  <1>5. PICK h : h = Height[path]
    OBVIOUS
  <1>6. PICK columns \in Seq(Int) : columns = xs
    BY <1>2
  <1>7. PICK rows \in Seq(Int) : rows = ys
    BY <1>2
  <1>8. /\ all \in Seq(Grid(columns, rows, w, h))
        /\ \A t \in Grid(columns, rows, w, h) : \E k \in DOMAIN all : all[k] = t
    BY <1>3, <1>4, <1>5, <1>6, <1>7, SlicesAreGrid
  <1>9. TilesOfImage' = Grid(columns, rows, w, h) /\ tiles' = all
    BY <1>1, <1>3, <1>4, <1>5, <1>6, <1>7 DEF TilesOfImage
  <1> QED
    BY <1>1, <1>8, <1>9 DEF FoundInv

LEMMA DetectTileFound == ASSUME AxesInv, FoundInv, DetectTile PROVE FoundInv'
  <1>1. /\ pc = "tiles" /\ pc' = "tiles" /\ scene' = scene /\ cfg' = cfg /\ path' = path
        /\ xs' = xs /\ ys' = ys /\ tiles # <<>> /\ tiles' = Tail(tiles)
        /\ pool' = pool \cup Above(ShiftedBack(Detect(scene[path], tiles[1]), tiles[1]), ConfTile)
    BY DEF DetectTile
  <1>2. PICK w \in Nat : w = Width[path]
    BY <1>1, ImageInPicture
  <1>3. PICK h \in Nat : h = Height[path]
    BY <1>1, ImageInPicture
  <1>4. PICK objects : objects = scene[path]
    OBVIOUS
  <1>5. \A o \in objects : InPicture(o, w, h)
    BY <1>1, <1>2, <1>3, <1>4, ImageInPicture
  <1>6. PICK G : G = TilesOfImage
    OBVIOUS
  <1>7. tiles \in Seq(G) /\ \A t \in G : (\E k \in DOMAIN tiles : tiles[k] = t) \/ InPool(t)
    BY <1>1, <1>6 DEF FoundInv
  <1>8. PICK t \in G : t = tiles[1]
    BY <1>1, <1>7
  <1>9. TileIn(t, w, h)
    <2>1. PICK columns \in Seq(Int) : columns = xs /\ Covers(columns, w, SliceW, OverlapW)
      BY <1>1, <1>2 DEF AxesInv, ColumnsFound
    <2>2. PICK rows \in Seq(Int) : rows = ys /\ Covers(rows, h, SliceH, OverlapH)
      BY <1>1, <1>3 DEF AxesInv, RowsFound
    <2>3. G = Grid(columns, rows, w, h)
      BY <1>2, <1>3, <1>6, <2>1, <2>2 DEF TilesOfImage
    <2> QED
      BY <2>1, <2>2, <2>3, GridCovers
  <1>10. PICK found : found = ShiftedBack(Detect(objects, t), t)
    OBVIOUS
  <1>11. /\ \A d \in found : d.box \in Boxes(w, h)
         /\ \A o \in objects : Inside(o.box, t) => WholeOf(o) \in found
    BY <1>5, <1>9, <1>10, SeenInTile
  <1>12. pool' = pool \cup {d \in found : d.score >= ConfTile}
    BY <1>1, <1>4, <1>8, <1>10 DEF Above
  <1>13. \A d \in pool' : d.box \in Boxes(w, h)
    BY <1>1, <1>2, <1>3, <1>11, <1>12 DEF FoundInv
  <1>14. InPool(t)'
    <2>1. ASSUME NEW o \in objects, Inside(o.box, t), o.score >= ConfTile PROVE WholeOf(o) \in pool'
      <3>1. WholeOf(o) \in found /\ WholeOf(o).score = o.score
        BY <1>11, <2>1 DEF WholeOf
      <3> QED
        BY <1>12, <2>1, <3>1
    <2> QED
      BY <1>1, <1>4, <2>1 DEF InPool
  <1>15. \A u : InPool(u) => InPool(u)'
    BY <1>1, <1>12 DEF InPool
  <1>16. PICK f \in Seq(G) : f = tiles
    BY <1>7
  <1>17. Tail(f) \in Seq(G) /\ \A k \in DOMAIN f : k = 1 \/ (k - 1 \in DOMAIN Tail(f) /\ Tail(f)[k - 1] = f[k])
    <2>1. f # <<>>
      BY <1>1, <1>16
    <2> QED
      BY <2>1
  <1>18. \A u \in G : (\E k \in DOMAIN tiles' : tiles'[k] = u) \/ InPool(u)'
    <2> SUFFICES ASSUME NEW u \in G PROVE (\E k \in DOMAIN tiles' : tiles'[k] = u) \/ InPool(u)'
      OBVIOUS
    <2>1. CASE InPool(u)
      BY <1>15, <2>1
    <2>2. ASSUME NEW k \in DOMAIN f, f[k] = u
          PROVE  (\E l \in DOMAIN tiles' : tiles'[l] = u) \/ InPool(u)'
      <3>1. CASE k = 1
        BY <1>8, <1>14, <1>16, <2>2, <3>1
      <3>2. CASE k # 1
        <4>1. k - 1 \in DOMAIN tiles' /\ tiles'[k - 1] = u
          BY <1>1, <1>16, <1>17, <2>2, <3>2
        <4> QED
          BY <4>1
      <3> QED
        BY <3>1, <3>2
    <2> QED
      BY <1>7, <1>16, <2>1, <2>2
  <1>19. TilesOfImage' = G
    BY <1>1, <1>6 DEF TilesOfImage
  <1> QED
    BY <1>1, <1>2, <1>3, <1>13, <1>16, <1>17, <1>18, <1>19 DEF FoundInv

\* The whole image, given to the network beside the tiles, adds boxes of it.
LEMMA SeenInPicture ==
  ASSUME NEW w \in Nat, NEW h \in Nat, NEW t, t = [x0 |-> 0, y0 |-> 0, x1 |-> w, y1 |-> h],
         NEW objects, \A o \in objects : InPicture(o, w, h)
  PROVE  \A d \in Detect(objects, t) : d.box \in Boxes(w, h)
  <1>1. TileIn(t, w, h) /\ t.x0 = 0 /\ t.y0 = 0
    BY DEF TileIn
  <1>2. \A b \in Boxes(w, h) : Moved(b, -0, -0) = b
    <2> SUFFICES ASSUME NEW b \in Boxes(w, h) PROVE Moved(b, -0, -0) = b
      OBVIOUS
    <2>1. /\ b.x0 \in Int /\ b.x1 \in Int /\ b.y0 \in Int /\ b.y1 \in Int
          /\ b = [x0 |-> b.x0, y0 |-> b.y0, x1 |-> b.x1, y1 |-> b.y1]
      BY DEF Boxes
    <2> QED
      BY <2>1 DEF Moved
  <1>3. ASSUME NEW d \in Detect(objects, t) PROVE d.box \in Boxes(w, h)
    <2>1. PICK o \in objects : Meets(o.box, t) /\ d.box = Moved(Common(o.box, t), -t.x0, -t.y0)
      BY DEF Detect
    <2>2. PICK b \in Boxes(w, h) : b = Common(o.box, t)
      BY <1>1, <2>1, PartOfObject
    <2> QED
      BY <1>1, <1>2, <2>1, <2>2
  <1> QED
    BY <1>3

LEMMA TilesDoneFound == ASSUME AxesInv, FoundInv, TilesDone PROVE FoundInv'
  <1>1. /\ pc = "tiles" /\ pc' = "nms" /\ tiles = <<>>
        /\ scene' = scene /\ cfg' = cfg /\ path' = path /\ dets' = dets
        /\ pool' = pool \cup IF cfg.full THEN Above(Detect(scene[path], Whole), ConfTile) ELSE {}
    BY DEF TilesDone
  <1>2. PICK w \in Nat : w = Width[path]
    BY <1>1, ImageInPicture
  <1>3. PICK h \in Nat : h = Height[path]
    BY <1>1, ImageInPicture
  <1>4. PICK objects : objects = scene[path] /\ \A o \in objects : InPicture(o, w, h)
    BY <1>1, <1>2, <1>3, ImageInPicture
  <1>5. \A t \in TilesOfImage : InPool(t)
    BY <1>1 DEF FoundInv
  <1>6. ASSUME NEW o \in objects, SmallEnough(o) PROVE WholeOf(o) \in pool
    <2>1. PICK columns \in Seq(Int) : columns = xs /\ Covers(columns, w, SliceW, OverlapW)
      BY <1>1, <1>2 DEF AxesInv, ColumnsFound
    <2>2. PICK rows \in Seq(Int) : rows = ys /\ Covers(rows, h, SliceH, OverlapH)
      BY <1>1, <1>3 DEF AxesInv, RowsFound
    <2>3. PICK t \in Grid(columns, rows, w, h) : Inside(o.box, t)
      BY <1>4, <1>6, <2>1, <2>2, GridCovers DEF SmallEnough
    <2>4. t \in TilesOfImage
      BY <1>2, <1>3, <2>1, <2>2 DEF TilesOfImage
    <2> QED
      BY <1>4, <1>5, <1>6, <2>3, <2>4 DEF InPool, SmallEnough
  <1>7. \A d \in pool' : d.box \in Boxes(w, h)
    <2>1. \A d \in pool : d.box \in Boxes(w, h)
      BY <1>1, <1>2, <1>3 DEF FoundInv
    <2>2. PICK t : t = Whole /\ t = [x0 |-> 0, y0 |-> 0, x1 |-> w, y1 |-> h]
      BY <1>2, <1>3 DEF Whole
    <2>3. \A d \in Detect(objects, t) : d.box \in Boxes(w, h)
      BY <1>4, <2>2, SeenInPicture
    <2>4. \A d \in pool' : d \in pool \/ d \in Detect(objects, t)
      BY <1>1, <1>4, <2>2 DEF Above
    <2> QED
      BY <2>1, <2>3, <2>4
  <1> QED
    BY <1>1, <1>2, <1>3, <1>4, <1>6, <1>7 DEF FoundInv

LEMMA KeepFound == ASSUME AxesInv, FoundInv, Keep PROVE FoundInv'
  <1>1. /\ pc = "nms" /\ pc' = "nms"
        /\ scene' = scene /\ cfg' = cfg /\ path' = path
    BY DEF Keep
  <1>2. PICK d \in FirstOf(pool) : /\ dets' = dets \cup {Kept(d, pool, cfg.merge)}
                                  /\ pool' = pool \ ({d} \cup RemovedBy(d, pool))
    BY DEF Keep
  <1>3. d \in pool
    BY DEF FirstOf
  <1>4. PICK w \in Nat : w = Width[path]
    BY <1>1, ImageInPicture
  <1>5. PICK h \in Nat : h = Height[path]
    BY <1>1, ImageInPicture
  <1>6. \A e \in pool : e.box \in Boxes(w, h)
    BY <1>1, <1>4, <1>5 DEF FoundInv
  <1>7. ASSUME NEW o \in scene[path], SmallEnough(o) PROVE WholeOf(o) \in pool' \/ FoundBy(o, dets)'
    <2>1. WholeOf(o) \in pool \/ FoundBy(o, dets)
      BY <1>1, <1>7 DEF FoundInv
    <2>2. CASE FoundBy(o, dets)
      BY <1>1, <1>2, <2>2 DEF FoundBy
    <2>3. CASE WholeOf(o) \in {d} \cup RemovedBy(d, pool)
      <3>1. PICK ds : ds = pool
        OBVIOUS
      <3>2. PICK merge : merge = cfg.merge
        OBVIOUS
      <3>3. PICK e \in {d} \cup RemovedBy(d, ds) : e = WholeOf(o)
        BY <2>3, <3>1
      <3>4. StandsFor(Kept(d, ds, merge), e, merge)
        BY <1>3, <1>6, <3>1, KeptStandsFor
      <3>5. e.cls = o.cls /\ e.box = o.box
        BY <3>3 DEF WholeOf
      <3>6. StandsFor(Kept(d, pool, cfg.merge), o, cfg.merge)
        BY <3>1, <3>2, <3>4, <3>5 DEF StandsFor
      <3> QED
        BY <1>1, <1>2, <3>6 DEF FoundBy
    <2> QED
      BY <1>2, <2>1, <2>2, <2>3
  <1> QED
    BY <1>1, <1>2, <1>4, <1>5, <1>6, <1>7 DEF FoundInv

LEMMA FoundStep == AxesInv /\ FoundInv /\ [Next]_vars => FoundInv'
  <1> SUFFICES ASSUME AxesInv, FoundInv, [Next]_vars PROVE FoundInv'
    OBVIOUS
  <1>1. CASE Resolve
    BY <1>1 DEF Resolve, FoundInv
  <1>2. CASE Load
    BY <1>2 DEF Load, FoundInv
  <1>3. CASE Done
    BY <1>3 DEF Done, FoundInv
  <1>4. CASE Column
    BY <1>4 DEF Column, FoundInv
  <1>5. CASE Row
    BY <1>5 DEF Row, FoundInv
  <1>6. CASE Slices
    BY <1>6, SlicesFound
  <1>7. CASE DetectTile
    BY <1>7, DetectTileFound
  <1>8. CASE TilesDone
    BY <1>8, TilesDoneFound
  <1>9. CASE Keep
    BY <1>9, KeepFound
  <1>10. CASE Merged
    BY <1>10 DEF Merged, FoundInv, FoundBy
  <1>11. CASE Forward
    BY <1>11 DEF Forward, FoundInv
  <1>12. CASE Save
    BY <1>12 DEF Save, FoundInv
  <1>13. CASE UNCHANGED vars
    BY <1>13 DEF vars, FoundInv, FoundBy, InPool, TilesOfImage
  <1> QED
    BY <1>1, <1>2, <1>3, <1>4, <1>5, <1>6, <1>7, <1>8, <1>9, <1>10, <1>11, <1>12, <1>13 DEF Next

\* For every image, tile, overlap, IoU threshold and scene: an object no larger
\* than the overlap is in the result of the merge, whatever else was found.
THEOREM SmallObjectsFound == Spec => []SmallObjectIsFound
  <1>1. Init => AxesInv /\ FoundInv
    BY DEF Init, AxesInv, FoundInv
  <1>2. FoundInv => SmallObjectIsFound
    <2> SUFFICES ASSUME FoundInv, pc = "save", cfg.sahi, NEW o \in scene[path],
                        Small(o.box), o.score >= ConfTile
                 PROVE  \E d \in dets : d.cls = o.cls /\ IF cfg.merge THEN Inside(o.box, d.box)
                                                          ELSE d.box = o.box \/ Overlaps(o.box, d.box)
      BY DEF SmallObjectIsFound
    <2>1. PICK d \in dets : StandsFor(d, o, cfg.merge)
      BY DEF FoundInv, FoundBy, SmallEnough
    <2> QED
      BY <2>1 DEF StandsFor
  <1> QED
    BY <1>1, <1>2, AxesStep, FoundStep, PTL DEF Spec
=============================================================================
