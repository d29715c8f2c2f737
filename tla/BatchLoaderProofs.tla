-------------------------- MODULE BatchLoaderProofs --------------------------
(***************************************************************************)
(* What holds of BatchLoader for every split, batch size and pool, under   *)
(* every schedule of its workers.                                          *)
(***************************************************************************)
EXTENDS BatchLoader, WellFoundedInduction, TLAPS

-----------------------------------------------------------------------------
(* Arithmetic of the batches. *)

LEMMA Dimensions ==
  /\ N \in Nat \ {0} /\ BatchSize \in Nat \ {0} /\ Hardware \in Nat \ {0}
  /\ Split \in [1..N -> Nat] /\ Samples \subseteq Nat
  /\ NumBatches \in Nat
  /\ None \notin Nat
  <1>1. N = Len(Split) /\ Split \in Seq(Nat)
    BY SplitAssumption DEF N
  <1>2. N \in Nat \ {0} /\ Split \in [1..N -> Nat]
    BY <1>1, SplitAssumption
  <1> QED
    BY <1>2, BatchAssumption, HardwareAssumption, NoneAssumption
    DEF Samples, N, NumBatches

LEMMA TimesMonotone ==
  ASSUME NEW a \in Nat, NEW b \in Nat, NEW c \in Nat, a <= b
  PROVE  a * c <= b * c
  OBVIOUS

LEMMA FloorBound ==
  ASSUME NEW a \in Nat, NEW b \in Nat \ {0}, NEW q \in Nat, q < a \div b
  PROVE  q * b + b <= a
  <1>1. (a \div b) * b <= a
    OBVIOUS
  <1>2. q + 1 <= a \div b /\ a \div b \in Nat
    OBVIOUS
  <1>3. (q + 1) * b <= (a \div b) * b
    BY <1>2
  <1>4. (q + 1) * b = q * b + b
    OBVIOUS
  <1> QED
    BY <1>1, <1>3, <1>4, <1>2

\* Every batch has at least one sample and lies within the split.
LEMMA BatchBounds ==
  ASSUME NEW i \in BatchIds
  PROVE  /\ i \in Nat /\ Begin(i) \in Nat /\ Begin(i) = i * BatchSize
         /\ Count(i) \in Nat \ {0}
         /\ Begin(i) + Count(i) <= N
         /\ Count(i) <= BatchSize
  <1>1. i \in Nat /\ i < (N + BatchSize - 1) \div BatchSize
    BY Dimensions DEF BatchIds, NumBatches, N
  <1>2. i * BatchSize + BatchSize <= N + BatchSize - 1
    BY <1>1, FloorBound, Dimensions
  <1>3. i * BatchSize \in Nat
    BY <1>1, Dimensions
  <1>4. i * BatchSize <= N - 1
    BY <1>2, <1>3, Dimensions
  <1>5. Begin(i) = i * BatchSize
    BY DEF Begin
  <1>6. Count(i) = IF i * BatchSize + BatchSize < N THEN BatchSize
                   ELSE N - i * BatchSize
    BY <1>3, Dimensions DEF Count, End, Begin, N
  <1> QED
    BY <1>1, <1>2, <1>3, <1>4, <1>5, <1>6, Dimensions

LEMMA SampleInSplit ==
  ASSUME OrderIsPermutation, call \in BatchIds, NEW k \in 0..(Count(call) - 1)
  PROVE  Begin(call) + k + 1 \in 1..N /\ SampleAt(k) \in Samples /\ SampleAt(k) \in Nat
  <1>1. Begin(call) + k + 1 \in 1..N
    BY BatchBounds, Dimensions
  <1>2. indices \in [1..N -> Samples]
    BY DEF OrderIsPermutation, IsOrder, N, Samples
  <1> QED
    BY <1>1, <1>2, Dimensions DEF SampleAt

\* Two different batches have no position in common.
LEMMA BatchesApart ==
  ASSUME NEW i \in BatchIds, NEW j \in BatchIds, i < j
  PROVE  Begin(i) + Count(i) <= Begin(j)
  <1>1. i + 1 <= j
    BY BatchBounds
  <1>2. (i + 1) * BatchSize <= j * BatchSize
    BY <1>1, BatchBounds, Dimensions, TimesMonotone
  <1>3. (i + 1) * BatchSize = i * BatchSize + BatchSize
    BY BatchBounds, Dimensions
  <1>4. i * BatchSize + BatchSize <= j * BatchSize
    BY <1>2, <1>3
  <1>5. i * BatchSize \in Nat /\ j * BatchSize \in Nat
    BY BatchBounds
  <1> QED
    BY <1>4, <1>5, BatchBounds, Dimensions

\* Every position of the epoch's order falls in a batch.
LEMMA BatchOfPosition ==
  ASSUME NEW p \in 1..N
  PROVE  \E i \in BatchIds : p - 1 \in Begin(i)..(Begin(i) + Count(i) - 1)
  <1> DEFINE q == (p - 1) \div BatchSize
  <1>1. p - 1 \in Nat /\ p - 1 < N /\ BatchSize \in Nat \ {0} /\ N \in Nat
    BY Dimensions
  <1>2. q \in Nat /\ q * BatchSize <= p - 1 /\ p - 1 < q * BatchSize + BatchSize
    BY <1>1
  <1>3. q < NumBatches
    <2> HIDE DEF q
    <2>1. q * BatchSize \in Nat
      BY <1>1, <1>2
    <2>2. q * BatchSize + BatchSize <= N + BatchSize - 1
      BY <1>1, <1>2, <2>1
    <2>3. (q + 1) * BatchSize <= N + BatchSize - 1
      BY <1>1, <1>2, <2>2
    <2>4. q + 1 <= (N + BatchSize - 1) \div BatchSize
      <3> DEFINE a == N + BatchSize - 1
                 d == a \div BatchSize
      <3>1. a \in Nat /\ d \in Nat /\ a < d * BatchSize + BatchSize
        BY <1>1
      <3> HIDE DEF a, d
      <3>2. (q + 1) * BatchSize < (d + 1) * BatchSize
        BY <1>1, <1>2, <2>3, <3>1 DEF a
      <3>3. ~(d + 1 <= q + 1)
        BY <1>1, <1>2, <3>1, <3>2, TimesMonotone
      <3> QED
        BY <1>2, <3>1, <3>3 DEF a, d
    <2> QED
      BY <1>2, <2>4, Dimensions DEF NumBatches
  <1> HIDE DEF q
  <1>4. q \in BatchIds
    BY <1>2, <1>3, Dimensions DEF BatchIds
  <1>5. Count(q) = IF q * BatchSize + BatchSize < N THEN BatchSize ELSE N - q * BatchSize
    BY <1>1, <1>2 DEF Count, End, Begin
  <1>6. Begin(q) = q * BatchSize /\ q * BatchSize \in Nat /\ Count(q) \in Nat
    BY <1>4, BatchBounds
  <1> QED
    BY <1>1, <1>2, <1>4, <1>5, <1>6

-----------------------------------------------------------------------------
(* Permutations. *)

\* Sorting an order of the split gives an order of the split: the ascending
\* order the CHOOSE looks for exists, the split itself.
LEMMA SortedIsOrder ==
  ASSUME NEW o, IsOrder(o)
  PROVE  IsOrder(Sorted(o))
  <1> DEFINE Ascending(r) == /\ \A i, j \in 1..N : i < j => r[i] < r[j]
                             /\ \A i \in 1..N : \E j \in 1..N : r[j] = o[i]
  <1>1. o \in [1..N -> Samples] /\ \A s \in Samples : \E i \in 1..N : o[i] = s
    BY DEF IsOrder, N, Samples
  <1>2. {o[i] : i \in 1..N} = Samples
    BY <1>1
  <1>3. Split \in [1..N -> Samples] /\ \A s \in Samples : \E i \in 1..N : Split[i] = s
    BY Dimensions DEF Samples, N
  <1>4. Ascending(Split)
    BY <1>1, <1>3, SplitAssumption DEF N
  <1>5. \E r \in [1..N -> Samples] : Ascending(r)
    BY <1>3, <1>4
  <1>6. Sorted(o) = CHOOSE r \in [1..N -> Samples] : Ascending(r)
    BY <1>2 DEF Sorted
  <1> HIDE DEF Ascending
  <1>7. Sorted(o) \in [1..N -> Samples] /\ Ascending(Sorted(o))
    BY <1>5, <1>6
  <1> DEFINE r == Sorted(o)
  <1> HIDE DEF r
  <1>8. \A i, j \in 1..N : i # j => r[i] # r[j]
    <2> SUFFICES ASSUME NEW i \in 1..N, NEW j \in 1..N, i # j PROVE r[i] # r[j]
      OBVIOUS
    <2>1. r[i] \in Nat /\ r[j] \in Nat
      BY <1>7, Dimensions DEF r
    <2>2. i < j \/ j < i
      BY Dimensions
    <2> QED
      BY <1>7, <2>1, <2>2 DEF Ascending, r
  <1>9. \A s \in Samples : \E i \in 1..N : r[i] = s
    BY <1>1, <1>7 DEF Ascending, r
  <1> QED
    BY <1>7, <1>8, <1>9 DEF IsOrder, N, Samples, r

\* Exchanging two positions of an order gives an order.
LEMMA SwappedIsOrder ==
  ASSUME NEW o, IsOrder(o), NEW i \in 1..N, NEW j \in 1..N
  PROVE  IsOrder(Swapped(o, i, j))
  <1> DEFINE r == Swapped(o, i, j)
  <1>1. /\ o \in [1..N -> Samples]
        /\ \A a, b \in 1..N : a # b => o[a] # o[b]
        /\ \A s \in Samples : \E a \in 1..N : o[a] = s
    BY DEF IsOrder, N, Samples
  <1>2. \A a \in 1..N : r[a] = IF a = j THEN o[i] ELSE IF a = i THEN o[j] ELSE o[a]
    BY <1>1 DEF Swapped
  <1>3. r \in [1..N -> Samples]
    BY <1>1 DEF Swapped
  <1> HIDE DEF r
  <1>4. \A a, b \in 1..N : a # b => r[a] # r[b]
    BY <1>1, <1>2
  <1>5. \A s \in Samples : \E a \in 1..N : r[a] = s
    <2> SUFFICES ASSUME NEW s \in Samples PROVE \E a \in 1..N : r[a] = s
      OBVIOUS
    <2>1. PICK a \in 1..N : o[a] = s
      BY <1>1
    <2> QED
      BY <1>2, <2>1
  <1> QED
    BY <1>3, <1>4, <1>5 DEF IsOrder, N, Samples, r

\* The partner of a Fisher-Yates swap is one of the positions up to it.
LEMMA PartnerInRange ==
  ASSUME NEW s \in Seeds, NEW i \in 2..N
  PROVE  Partner(s, i) \in 1..i
  <1>1. Draw(s, i) \in Nat /\ i \in Nat \ {0}
    BY DrawAssumption, Dimensions DEF N
  <1> QED
    BY <1>1 DEF Partner

-----------------------------------------------------------------------------
(* The inductive invariant. *)

LEMMA InitInv == Init => TypeOK /\ LoaderInv
  <1> SUFFICES ASSUME Init PROVE TypeOK /\ LoaderInv
    OBVIOUS
  <1>1. Split \in [1..N -> Samples] /\ \A s \in Samples : \E i \in 1..N : Split[i] = s
    BY Dimensions DEF Samples, N
  <1>2. \A i, j \in 1..N : i # j => Split[i] # Split[j]
    <2> SUFFICES ASSUME NEW i \in 1..N, NEW j \in 1..N, i # j PROVE Split[i] # Split[j]
      OBVIOUS
    <2>1. i < j \/ j < i
      BY Dimensions
    <2>2. Split[i] \in Nat /\ Split[j] \in Nat
      BY Dimensions
    <2> QED
      BY <2>1, <2>2, SplitAssumption DEF N
  <1>3. OrderIsPermutation
    BY <1>1, <1>2 DEF Init, OrderIsPermutation, IsOrder, N, Samples
  <1>4. 0 \in BatchIds
    <2>1. N + BatchSize - 1 \in Nat /\ N + BatchSize - 1 >= BatchSize
      BY Dimensions
    <2>2. (N + BatchSize - 1) \div BatchSize >= 1
      BY <2>1, Dimensions
    <2> QED
      BY <2>2, Dimensions DEF BatchIds, NumBatches, N
  <1>5. TypeOK
    BY <1>1, <1>4, Dimensions DEF Init, TypeOK, Workers
  <1>6. GotInv
    BY DEF Init, GotInv, Nothing, BatchIds
  <1> QED
    BY <1>3, <1>5, <1>6
    DEF Init, LoaderInv, RestInv, PoolInv, ClaimInv, SlotInv, Active

LEMMA ThreadsBound ==
  ASSUME NEW n \in Nat \ {0}
  PROVE  Threads(n) \in 1..Hardware /\ Threads(n) <= n
  BY Dimensions DEF Threads

\* A running worker means a call of At is in progress.
LEMMA WorkerActive ==
  ASSUME LoaderInv, NEW w \in Workers, pc[w] # "off"
  PROVE  Active
  BY DEF LoaderInv, RestInv

\* What a worker's step leaves alone.
LEMMA Unmoved ==
  ASSUME UNCHANGED <<indices, call>>
  PROVE  /\ \A k : SampleAt(k)' = SampleAt(k)
         /\ Count(call)' = Count(call)
         /\ Count(call') = Count(call)
  BY DEF SampleAt, Begin, Count, End, N

\* What every worker's step preserves: it touches neither the order, the
\* pool nor what was returned before.
LEMMA WorkerFrame ==
  ASSUME TypeOK, LoaderInv, Active,
         UNCHANGED <<loader, main, call, spawned, joined>>,
         \A v \in Workers : pc'[v] = "off" <=> pc[v] = "off",
         slots' = [k \in DOMAIN slots |-> slots'[k]]
  PROVE  /\ OrderIsPermutation' /\ RestInv' /\ PoolInv' /\ GotInv' /\ Active'
         /\ DOMAIN slots = 0..(Count(call) - 1)
  <1>1. UNCHANGED <<indices, got, seed, swap, seen>>
    BY DEF loader
  <1>2. OrderIsPermutation' /\ RestInv' /\ GotInv' /\ Active'
    BY <1>1 DEF LoaderInv, OrderIsPermutation, RestInv, Active, GotInv
  <1>3. DOMAIN slots = 0..(Count(call) - 1)
    BY DEF LoaderInv, PoolInv
  <1>4. PoolInv'
    BY <1>1, <1>3, Unmoved DEF LoaderInv, PoolInv
  <1> QED
    BY <1>2, <1>3, <1>4

\* A worker that holds a slot holds it alone, and the slot is in the batch.
LEMMA OwnSlot ==
  ASSUME TypeOK, LoaderInv, NEW w \in Workers, Holding(w)
  PROVE  /\ Active /\ mine[w] \in DOMAIN slots /\ mine[w] \in 0..(Count(call) - 1)
         /\ mine[w] < cursor
         /\ DOMAIN slots = 0..(Count(call) - 1)
         /\ \A v \in Workers \ {w} : Holding(v) => mine[v] # mine[w]
  <1>1. Active
    BY WorkerActive DEF Holding
  <1>2. Count(call) \in Nat /\ mine[w] \in Nat
    BY BatchBounds DEF TypeOK
  <1>3. DOMAIN slots = 0..(Count(call) - 1)
    BY <1>1 DEF LoaderInv, PoolInv
  <1>4. mine[w] < Count(call) /\ mine[w] < cursor
        /\ \A v \in Workers \ {w} : Holding(v) => mine[v] # mine[w]
    BY <1>1 DEF LoaderInv, ClaimInv, SlotsNotShared
  <1> QED
    BY <1>1, <1>2, <1>3, <1>4

\* SlotInv after a worker's step, with what the step leaves alone unprimed.
LEMMA SlotInvNext ==
  ASSUME UNCHANGED <<indices, call>>,
         \A v \in Workers :
           /\ pc'[v] \in {"decode", "target"} => slots'[mine'[v]] = EmptySlot
           /\ pc'[v] = "target" =>
                img'[v] = IF SampleAt(mine'[v]) \in Decodable
                          THEN SampleAt(mine'[v]) + 1 ELSE None
           /\ pc'[v] = "image" => /\ slots'[mine'[v]] = Half(SampleAt(mine'[v]))
                                  /\ img'[v] = Slot(SampleAt(mine'[v])).image,
         \A k \in DOMAIN slots' :
           IF k >= cursor' THEN slots'[k] = EmptySlot
           ELSE \/ slots'[k] = Slot(SampleAt(k))
                \/ \E v \in Workers : Holding(v)' /\ mine'[v] = k
  PROVE  SlotInv'
  <1>1. \A s : Half(s)' = Half(s) /\ Slot(s)' = Slot(s)
    BY DEF Half, EmptySlot
  <1>2. EmptySlot' = EmptySlot
    BY DEF EmptySlot
  <1> QED
    BY <1>1, <1>2, Unmoved DEF SlotInv

LEMMA ClaimStep ==
  ASSUME TypeOK, LoaderInv, NEW w \in Workers, Claim(w)
  PROVE  TypeOK' /\ LoaderInv'
  <1>1. /\ pc[w] = "claim" /\ cursor' = cursor + 1
        /\ mine' = [mine EXCEPT ![w] = cursor]
        /\ pc' = [pc EXCEPT ![w] = IF cursor < Count(call) THEN "decode" ELSE "done"]
        /\ UNCHANGED <<loader, main, call, slots, spawned, joined, img>>
    BY DEF Claim, Claimed
  <1>2. Active
    BY <1>1, WorkerActive
  <1>3. Count(call) \in Nat \ {0} /\ cursor \in Nat
    BY BatchBounds DEF TypeOK
  <1>4. UNCHANGED <<indices, call, got, seed, swap, seen>>
    BY <1>1 DEF loader
  <1>5. TypeOK'
    BY <1>1, <1>3, <1>4 DEF TypeOK
  <1>6. /\ pc'[w] = IF cursor < Count(call) THEN "decode" ELSE "done"
        /\ mine'[w] = cursor
        /\ \A v \in Workers \ {w} : pc'[v] = pc[v] /\ mine'[v] = mine[v]
    BY <1>1 DEF TypeOK
  <1>7. OrderIsPermutation' /\ RestInv' /\ GotInv'
    BY <1>1, <1>2, <1>4
    DEF LoaderInv, OrderIsPermutation, RestInv, Active, GotInv
  <1>8. PoolInv'
    BY <1>1, <1>2, <1>4, <1>6, Unmoved DEF LoaderInv, PoolInv, Active
  <1>9. ClaimInv'
    BY <1>1, <1>2, <1>3, <1>4, <1>6, Unmoved
    DEF LoaderInv, ClaimInv, SlotsNotShared, Holding, Active, TypeOK
  <1>10. SlotInv'
    <2>1. \A k \in DOMAIN slots : k \in Nat /\ k < Count(call)
      BY <1>2, <1>3 DEF LoaderInv, PoolInv
    <2>2. cursor < Count(call) => slots[cursor] = EmptySlot
      BY <1>2, <1>3 DEF LoaderInv, PoolInv, SlotInv
    <2>3. \A v \in Workers : Holding(v) => Holding(v)' /\ mine'[v] = mine[v]
      BY <1>1, <1>6 DEF Holding
    <2>4. cursor < Count(call) => Holding(w)' /\ mine'[w] = cursor
      BY <1>6 DEF Holding
    <2>5. \A k \in DOMAIN slots :
            IF k >= cursor' THEN slots[k] = EmptySlot
            ELSE \/ slots[k] = Slot(SampleAt(k))
                 \/ \E v \in Workers : Holding(v)' /\ mine'[v] = k
      BY <1>1, <1>2, <1>3, <2>1, <2>3, <2>4 DEF LoaderInv, SlotInv
    <2>6. \A v \in Workers :
            /\ pc'[v] \in {"decode", "target"} => slots[mine'[v]] = EmptySlot
            /\ pc'[v] = "target" =>
                 img[v] = IF SampleAt(mine'[v]) \in Decodable
                          THEN SampleAt(mine'[v]) + 1 ELSE None
            /\ pc'[v] = "image" => /\ slots[mine'[v]] = Half(SampleAt(mine'[v]))
                                   /\ img[v] = Slot(SampleAt(mine'[v])).image
      BY <1>2, <1>6, <2>2 DEF LoaderInv, SlotInv
    <2> QED
      BY <1>1, <1>4, <2>5, <2>6, SlotInvNext
  <1> QED
    BY <1>5, <1>7, <1>8, <1>9, <1>10 DEF LoaderInv

LEMMA DecodeStep ==
  ASSUME TypeOK, LoaderInv, NEW w \in Workers, Decode(w)
  PROVE  TypeOK' /\ LoaderInv'
  <1>1. /\ pc[w] = "decode"
        /\ img' = [img EXCEPT ![w] = IF SampleAt(mine[w]) \in Decodable
                                     THEN SampleAt(mine[w]) + 1 ELSE None]
        /\ pc' = [pc EXCEPT ![w] = "target"]
        /\ UNCHANGED <<loader, main, call, cursor, slots, spawned, joined, mine>>
    BY DEF Decode
  <1>2. Holding(w)
    BY <1>1 DEF Holding
  <1>3. pc'[w] = "target" /\ \A v \in Workers \ {w} : pc'[v] = pc[v]
    BY <1>1 DEF TypeOK
  <1>4. UNCHANGED <<indices, got, seed, swap, seen>>
    BY <1>1 DEF loader
  <1>5. Active
    BY <1>2, OwnSlot
  <1>6. slots' = [k \in DOMAIN slots |-> slots'[k]]
    BY <1>1, <1>5 DEF LoaderInv, PoolInv
  <1>7. OrderIsPermutation' /\ RestInv' /\ PoolInv' /\ GotInv' /\ Active'
    BY <1>1, <1>3, <1>5, <1>6, WorkerFrame
  <1>8. TypeOK'
    <2>1. SampleAt(mine[w]) \in Nat
      BY <1>2, OwnSlot, SampleInSplit DEF TypeOK, LoaderInv
    <2>2. img' \in [Workers -> Nat \cup {None}]
      BY <1>1, <2>1 DEF TypeOK
    <2>3. pc' \in [Workers -> {"off", "claim", "decode", "target", "image", "done"}]
      BY <1>1 DEF TypeOK
    <2> QED
      BY <1>1, <1>4, <2>2, <2>3 DEF TypeOK
  <1>9. \A v \in Workers : Holding(v)' <=> Holding(v)
    BY <1>1, <1>3 DEF Holding
  <1>10. ClaimInv'
    BY <1>1, <1>3, <1>4, <1>5, <1>9, Unmoved
    DEF LoaderInv, ClaimInv, SlotsNotShared
  <1>11. SlotInv'
    <2>1. \A k \in DOMAIN slots' :
            IF k >= cursor' THEN slots'[k] = EmptySlot
            ELSE \/ slots'[k] = Slot(SampleAt(k))
                 \/ \E v \in Workers : Holding(v)' /\ mine'[v] = k
      BY <1>1, <1>5, <1>9 DEF LoaderInv, SlotInv
    <2>3. \A v \in Workers :
            /\ pc'[v] \in {"decode", "target"} => slots'[mine'[v]] = EmptySlot
            /\ pc'[v] = "target" =>
                 img'[v] = IF SampleAt(mine'[v]) \in Decodable
                           THEN SampleAt(mine'[v]) + 1 ELSE None
            /\ pc'[v] = "image" => /\ slots'[mine'[v]] = Half(SampleAt(mine'[v]))
                                   /\ img'[v] = Slot(SampleAt(mine'[v])).image
      BY <1>1, <1>3, <1>5 DEF LoaderInv, SlotInv, TypeOK
    <2> QED
      BY <1>4, <2>1, <2>3, <1>1, SlotInvNext
  <1> QED
    BY <1>7, <1>8, <1>10, <1>11 DEF LoaderInv

LEMMA StoreTargetStep ==
  ASSUME TypeOK, LoaderInv, NEW w \in Workers, StoreTarget(w)
  PROVE  TypeOK' /\ LoaderInv'
  <1> DEFINE m == mine[w]
             s == SampleAt(m)
  <1>1. /\ pc[w] = "target"
        /\ img' = [img EXCEPT ![w] = IF img[w] = None THEN 0 ELSE img[w]]
        /\ pc' = [pc EXCEPT ![w] = "image"]
        /\ UNCHANGED <<loader, main, call, cursor, spawned, joined, mine>>
    BY DEF StoreTarget
  <1>0. slots' = [slots EXCEPT ![m].target = IF img[w] = None THEN <<>> ELSE Target(s)]
    BY DEF StoreTarget
  <1>2. Holding(w)
    BY <1>1 DEF Holding
  <1>3. pc'[w] = "image" /\ \A v \in Workers \ {w} : pc'[v] = pc[v] /\ img'[v] = img[v]
    BY <1>1 DEF TypeOK
  <1>4. UNCHANGED <<indices, got, seed, swap, seen>>
    BY <1>1 DEF loader
  <1>5. /\ Active /\ m \in DOMAIN slots /\ m \in 0..(Count(call) - 1) /\ m < cursor
        /\ \A v \in Workers \ {w} : Holding(v) => mine[v] # m
    BY <1>2, OwnSlot
  <1>6. s \in Nat
    BY <1>5, SampleInSplit DEF TypeOK, LoaderInv
  <1>7. /\ slots[m] = EmptySlot
        /\ img[w] = IF s \in Decodable THEN s + 1 ELSE None
    BY <1>1, <1>5 DEF LoaderInv, SlotInv
  <1>8. /\ slots' = [slots EXCEPT ![m] = [slots[m] EXCEPT !.target = Slot(s).target]]
        /\ img'[w] = Slot(s).image
    <2>1. (IF img[w] = None THEN <<>> ELSE Target(s)) = Slot(s).target
      BY <1>6, <1>7, NoneAssumption DEF Slot
    <2>2. img'[w] = Slot(s).image
      BY <1>1, <1>6, <1>7, NoneAssumption DEF Slot, TypeOK
    <2> QED
      BY <1>0, <2>1, <2>2
  <1>9. /\ slots'[m] = Half(s)
        /\ \A k \in DOMAIN slots \ {m} : slots'[k] = slots[k]
        /\ DOMAIN slots' = DOMAIN slots
    BY <1>5, <1>7, <1>8 DEF Half
  <1>10. slots' = [k \in DOMAIN slots |-> slots'[k]]
    BY <1>5, <1>8 DEF LoaderInv, PoolInv
  <1>11. OrderIsPermutation' /\ RestInv' /\ PoolInv' /\ GotInv' /\ Active'
    BY <1>1, <1>3, <1>5, <1>10, WorkerFrame
  <1>12. TypeOK'
    <2>1. img' \in [Workers -> Nat \cup {None}]
      BY <1>1 DEF TypeOK
    <2>2. pc' \in [Workers -> {"off", "claim", "decode", "target", "image", "done"}]
      BY <1>1 DEF TypeOK
    <2> QED
      BY <1>1, <1>4, <2>1, <2>2 DEF TypeOK
  <1>13. \A v \in Workers : Holding(v)' <=> Holding(v)
    BY <1>1, <1>3 DEF Holding
  <1>14. ClaimInv'
    BY <1>1, <1>3, <1>4, <1>5, <1>13, Unmoved DEF LoaderInv, ClaimInv, SlotsNotShared
  <1>15. SlotInv'
    <2>1. \A k \in DOMAIN slots' :
            IF k >= cursor' THEN slots'[k] = EmptySlot
            ELSE \/ slots'[k] = Slot(SampleAt(k))
                 \/ \E v \in Workers : Holding(v)' /\ mine'[v] = k
      <3> SUFFICES ASSUME NEW k \in DOMAIN slots, k # m
                   PROVE  IF k >= cursor THEN slots[k] = EmptySlot
                          ELSE \/ slots[k] = Slot(SampleAt(k))
                               \/ \E v \in Workers : Holding(v) /\ mine[v] = k
        <4>1. ~(m >= cursor)
          BY <1>5 DEF TypeOK
        <4> QED
          BY <1>1, <1>2, <1>9, <1>13, <4>1
      <3> QED
        BY <1>5 DEF LoaderInv, SlotInv
    <2>2. \A v \in Workers \ {w} : Holding(v) => mine[v] \in DOMAIN slots /\ mine[v] # m
      BY <1>5, OwnSlot
    <2>3. \A v \in Workers :
            /\ pc'[v] \in {"decode", "target"} => slots'[mine'[v]] = EmptySlot
            /\ pc'[v] = "target" =>
                 img'[v] = IF SampleAt(mine'[v]) \in Decodable
                           THEN SampleAt(mine'[v]) + 1 ELSE None
            /\ pc'[v] = "image" => /\ slots'[mine'[v]] = Half(SampleAt(mine'[v]))
                                   /\ img'[v] = Slot(SampleAt(mine'[v])).image
      BY <1>1, <1>3, <1>5, <1>8, <1>9, <2>2 DEF LoaderInv, SlotInv, Holding
    <2> QED
      BY <1>1, <1>4, <2>1, <2>3, SlotInvNext
  <1> QED
    BY <1>11, <1>12, <1>14, <1>15 DEF LoaderInv

LEMMA StoreImageStep ==
  ASSUME TypeOK, LoaderInv, NEW w \in Workers, StoreImage(w)
  PROVE  TypeOK' /\ LoaderInv'
  <1> DEFINE m == mine[w]
             s == SampleAt(m)
  <1>1. /\ pc[w] = "image"
        /\ pc' = [pc EXCEPT ![w] = "claim"]
        /\ UNCHANGED <<loader, main, call, cursor, spawned, joined, mine, img>>
    BY DEF StoreImage
  <1>0. slots' = [slots EXCEPT ![m] =
                        [target |-> slots[m].target, image |-> img[w], index |-> s]]
    BY DEF StoreImage
  <1>2. Holding(w)
    BY <1>1 DEF Holding
  <1>3. pc'[w] = "claim" /\ \A v \in Workers \ {w} : pc'[v] = pc[v]
    BY <1>1 DEF TypeOK
  <1>4. UNCHANGED <<indices, got, seed, swap, seen>>
    BY <1>1 DEF loader
  <1>5. /\ Active /\ m \in DOMAIN slots /\ m \in 0..(Count(call) - 1) /\ m < cursor
        /\ \A v \in Workers \ {w} : Holding(v) => mine[v] # m
    BY <1>2, OwnSlot
  <1>6. slots[m] = Half(s) /\ img[w] = Slot(s).image
    BY <1>1, <1>5 DEF LoaderInv, SlotInv
  <1>7. slots' = [slots EXCEPT ![m] = Slot(s)]
    <2>1. slots[m].target = Slot(s).target
      BY <1>6 DEF Half, EmptySlot
    <2>2. [target |-> slots[m].target, image |-> img[w], index |-> s] = Slot(s)
      BY <1>6, <2>1 DEF Slot
    <2> QED
      BY <1>0, <2>2
  <1>8. /\ \A k \in DOMAIN slots \ {m} : slots'[k] = slots[k]
        /\ DOMAIN slots' = DOMAIN slots
    BY <1>7
  <1>9. slots'[m] = Slot(s)
    BY <1>5, <1>7
  <1>10. slots' = [k \in DOMAIN slots |-> slots'[k]]
    BY <1>5, <1>7 DEF LoaderInv, PoolInv
  <1>11. OrderIsPermutation' /\ RestInv' /\ PoolInv' /\ GotInv' /\ Active'
    BY <1>1, <1>3, <1>5, <1>10, WorkerFrame
  <1>12. TypeOK'
    <2>1. img' \in [Workers -> Nat \cup {None}]
      BY <1>1 DEF TypeOK
    <2>2. pc' \in [Workers -> {"off", "claim", "decode", "target", "image", "done"}]
      BY <1>1 DEF TypeOK
    <2> QED
      BY <1>1, <1>4, <2>1, <2>2 DEF TypeOK
  <1>13. ~Holding(w)' /\ \A v \in Workers \ {w} : Holding(v)' <=> Holding(v)
    BY <1>1, <1>3 DEF Holding
  <1>14. ClaimInv'
    BY <1>1, <1>3, <1>4, <1>5, <1>13, Unmoved DEF LoaderInv, ClaimInv, SlotsNotShared
  <1>15. SlotInv'
    <2>1. \A k \in DOMAIN slots' :
            IF k >= cursor' THEN slots'[k] = EmptySlot
            ELSE \/ slots'[k] = Slot(SampleAt(k))
                 \/ \E v \in Workers : Holding(v)' /\ mine'[v] = k
      <3> SUFFICES ASSUME NEW k \in DOMAIN slots, k # m
                   PROVE  IF k >= cursor THEN slots[k] = EmptySlot
                          ELSE \/ slots[k] = Slot(SampleAt(k))
                               \/ \E v \in Workers \ {w} : Holding(v) /\ mine[v] = k
        <4>1. ~(m >= cursor)
          BY <1>5 DEF TypeOK
        <4> QED
          BY <1>1, <1>8, <1>9, <1>13, <4>1
      <3> QED
        BY <1>5 DEF LoaderInv, SlotInv
    <2>2. \A v \in Workers \ {w} : Holding(v) => mine[v] \in DOMAIN slots /\ mine[v] # m
      BY <1>5, OwnSlot
    <2>3. \A v \in Workers :
            /\ pc'[v] \in {"decode", "target"} => slots'[mine'[v]] = EmptySlot
            /\ pc'[v] = "target" =>
                 img'[v] = IF SampleAt(mine'[v]) \in Decodable
                          THEN SampleAt(mine'[v]) + 1 ELSE None
            /\ pc'[v] = "image" => /\ slots'[mine'[v]] = Half(SampleAt(mine'[v]))
                                   /\ img'[v] = Slot(SampleAt(mine'[v])).image
      BY <1>1, <1>3, <1>5, <1>8, <2>2 DEF LoaderInv, SlotInv, Holding
    <2> QED
      BY <1>1, <1>4, <2>1, <2>3, SlotInvNext
  <1> QED
    BY <1>11, <1>12, <1>14, <1>15 DEF LoaderInv

-----------------------------------------------------------------------------
(* The steps of the caller's thread. *)

\* Outside of At only the order and what was returned are left to check.
LEMMA RestFrame ==
  ASSUME LoaderInv, main \notin {"spawn", "join"}, main' \notin {"spawn", "join"},
         UNCHANGED <<call, cursor, slots, spawned, joined, workers>>
  PROVE  ~Active /\ ~Active' /\ RestInv' /\ PoolInv' /\ ClaimInv' /\ SlotInv'
  BY DEF LoaderInv, Active, RestInv, PoolInv, ClaimInv, SlotInv, workers

LEMMA StartReshuffleStep ==
  ASSUME TypeOK, LoaderInv, NEW s \in Seeds, StartReshuffle(s)
  PROVE  TypeOK' /\ LoaderInv'
  <1>1. /\ main = "idle" /\ main' = "swap" /\ seed' = s /\ swap' = N
        /\ indices' = Sorted(indices) /\ got' = Nothing
        /\ UNCHANGED <<call, cursor, slots, spawned, joined, workers>>
    BY DEF StartReshuffle
  <1>2. RestInv' /\ PoolInv' /\ ClaimInv' /\ SlotInv'
    BY <1>1, RestFrame
  <1>3. IsOrder(Sorted(indices))
    BY SortedIsOrder DEF LoaderInv, OrderIsPermutation
  <1>4. OrderIsPermutation'
    BY <1>1, <1>3 DEF OrderIsPermutation, IsOrder, N, Samples
  <1>5. indices' \in [1..N -> Samples]
    BY <1>1, <1>3 DEF IsOrder
  <1>6. TypeOK'
    BY <1>1, <1>5, Dimensions DEF TypeOK, workers
  <1>7. GotInv'
    BY <1>1 DEF GotInv, Nothing
  <1> QED
    BY <1>2, <1>4, <1>6, <1>7 DEF LoaderInv

LEMMA SwapStep ==
  ASSUME TypeOK, LoaderInv, Swap
  PROVE  TypeOK' /\ LoaderInv'
  <1>1. /\ main = "swap" /\ main' = "swap" /\ swap > 1 /\ swap' = swap - 1
        /\ indices' = Swapped(indices, swap, Partner(seed, swap))
        /\ UNCHANGED <<got, seed, call, cursor, slots, spawned, joined, workers>>
    BY DEF Swap
  <1>2. RestInv' /\ PoolInv' /\ ClaimInv' /\ SlotInv'
    BY <1>1, RestFrame
  <1>3. seed \in Seeds /\ swap \in 2..N
    BY <1>1, Dimensions DEF TypeOK
  <1>4. swap \in 1..N /\ Partner(seed, swap) \in 1..N
    BY <1>3, PartnerInRange, Dimensions
  <1>5. IsOrder(indices')
    BY <1>1, <1>4, SwappedIsOrder DEF LoaderInv, OrderIsPermutation
  <1>6. OrderIsPermutation'
    BY <1>5 DEF OrderIsPermutation, IsOrder, N, Samples
  <1>7. indices' \in [1..N -> Samples]
    BY <1>5 DEF IsOrder
  <1>8. TypeOK'
    BY <1>1, <1>3, <1>7, Dimensions DEF TypeOK, workers
  <1>9. GotInv'
    BY <1>1 DEF LoaderInv, GotInv, Nothing
  <1> QED
    BY <1>2, <1>6, <1>8, <1>9 DEF LoaderInv

LEMMA EndReshuffleStep ==
  ASSUME TypeOK, LoaderInv, EndReshuffle
  PROVE  TypeOK' /\ LoaderInv'
  <1>1. /\ main = "swap" /\ main' = "idle"
        /\ UNCHANGED <<indices, got, seed, swap, call, cursor, slots, spawned, joined, workers>>
    BY DEF EndReshuffle
  <1>2. RestInv' /\ PoolInv' /\ ClaimInv' /\ SlotInv'
    BY <1>1, RestFrame
  <1>3. OrderIsPermutation' /\ TypeOK' /\ GotInv'
    BY <1>1 DEF LoaderInv, OrderIsPermutation, TypeOK, GotInv, workers
  <1> QED
    BY <1>2, <1>3 DEF LoaderInv

LEMMA StartAtStep ==
  ASSUME TypeOK, LoaderInv, NEW i \in 0..NumBatches, StartAt(i)
  PROVE  TypeOK' /\ LoaderInv'
  <1>1. /\ main = "idle" /\ i < NumBatches /\ main' = "spawn" /\ call' = i
        /\ slots' = [k \in 0..(Count(i) - 1) |-> EmptySlot]
        /\ UNCHANGED <<loader, cursor, spawned, joined, workers>>
    BY DEF StartAt, InRange
  <1>2. i \in BatchIds
    BY <1>1, Dimensions DEF BatchIds
  <1>3. UNCHANGED <<indices, got, seed, swap, seen, pc, mine, img>>
    BY <1>1 DEF loader, workers
  <1>4. cursor = 0 /\ spawned = 0 /\ joined = 0 /\ \A w \in Workers : pc[w] = "off"
    BY <1>1 DEF LoaderInv, RestInv, Active
  <1>5. TypeOK'
    BY <1>1, <1>2, <1>3 DEF TypeOK
  <1>6. OrderIsPermutation' /\ GotInv' /\ RestInv'
    BY <1>1, <1>3 DEF LoaderInv, OrderIsPermutation, GotInv, RestInv, Active
  <1>7. Count(i) \in Nat \ {0} /\ Count(call)' = Count(i)
    BY <1>1, <1>2, BatchBounds DEF Count, Begin, End, N
  <1>8. Threads(Count(call))' = Threads(Count(i)) /\ Threads(Count(i)) \in Nat
    BY <1>7, ThreadsBound, Dimensions DEF Threads
  <1>9. PoolInv'
    BY <1>1, <1>3, <1>4, <1>7, <1>8, Dimensions DEF PoolInv, Workers
  <1>10. ClaimInv'
    BY <1>1, <1>3, <1>4 DEF ClaimInv, SlotsNotShared, Holding
  <1>11. SlotInv'
    <2>1. \A k \in DOMAIN slots' : k >= cursor' /\ slots'[k] = EmptySlot
      BY <1>1, <1>4, <1>7
    <2>2. EmptySlot' = EmptySlot
      BY DEF EmptySlot
    <2> QED
      BY <1>3, <1>4, <2>1, <2>2 DEF SlotInv
  <1> QED
    BY <1>5, <1>6, <1>9, <1>10, <1>11 DEF LoaderInv

LEMMA SpawnStep ==
  ASSUME TypeOK, LoaderInv, Spawn
  PROVE  TypeOK' /\ LoaderInv'
  <1> DEFINE n == spawned + 1
  <1>1. /\ main = "spawn" /\ main' = "spawn" /\ spawned < Threads(Count(call))
        /\ spawned' = n /\ pc' = [pc EXCEPT ![n] = "claim"]
        /\ UNCHANGED <<loader, call, cursor, slots, joined, mine, img>>
    BY DEF Spawn
  <1>2. UNCHANGED <<indices, got, seed, swap, seen>>
    BY <1>1 DEF loader
  <1>3. Count(call) \in Nat \ {0} /\ Threads(Count(call)) \in 1..Hardware
    BY BatchBounds, ThreadsBound DEF TypeOK
  <1>4. n \in Workers /\ n <= Threads(Count(call)) /\ n \in Nat
    BY <1>1, <1>3, Dimensions DEF TypeOK, Workers
  <1>5. Active /\ joined = 0 /\ pc[n] = "off"
    BY <1>1, <1>4 DEF LoaderInv, PoolInv, Active, TypeOK
  <1>6. pc'[n] = "claim" /\ \A v \in Workers \ {n} : pc'[v] = pc[v]
    BY <1>1, <1>4 DEF TypeOK
  <1>7. TypeOK'
    BY <1>1, <1>2, <1>3, <1>4, Dimensions DEF TypeOK
  <1>8. OrderIsPermutation' /\ RestInv' /\ GotInv' /\ Active'
    BY <1>1, <1>2 DEF LoaderInv, OrderIsPermutation, RestInv, GotInv, Active
  <1>9. Threads(Count(call))' = Threads(Count(call)) /\ Count(call)' = Count(call)
    BY <1>1, <1>2, Unmoved DEF Threads
  <1>10. PoolInv'
    <2>1. \A v \in Workers : pc'[v] # "off" <=> joined < v /\ v <= n
      <3> TAKE v \in Workers
      <3>1. v \in Nat
        BY Dimensions DEF Workers
      <3>2. pc[v] # "off" <=> joined < v /\ v <= spawned
        BY <1>5 DEF LoaderInv, PoolInv
      <3> QED
        BY <1>4, <1>5, <1>6, <3>1, <3>2, Dimensions DEF TypeOK
    <2>2. slots = [k \in 0..(Count(call) - 1) |-> slots[k]]
      BY <1>5 DEF LoaderInv, PoolInv
    <2>3. main' # "join" /\ joined' = 0 /\ joined' <= spawned'
      BY <1>1, <1>4, <1>5
    <2>4. joined' = joined /\ slots' = slots /\ spawned' = n
      BY <1>1
    <2> QED
      BY <1>4, <1>5, <1>9, <2>1, <2>2, <2>3, <2>4 DEF PoolInv
  <1>11. \A v \in Workers : Holding(v)' <=> Holding(v)
    BY <1>5, <1>6 DEF Holding
  <1>12. ClaimInv'
    BY <1>1, <1>2, <1>5, <1>6, <1>11, Unmoved DEF LoaderInv, ClaimInv, SlotsNotShared
  <1>13. SlotInv'
    <2>1. \A v \in Workers :
            /\ pc'[v] \in {"decode", "target"} => slots'[mine'[v]] = EmptySlot
            /\ pc'[v] = "target" =>
                 img'[v] = IF SampleAt(mine'[v]) \in Decodable
                           THEN SampleAt(mine'[v]) + 1 ELSE None
            /\ pc'[v] = "image" => /\ slots'[mine'[v]] = Half(SampleAt(mine'[v]))
                                   /\ img'[v] = Slot(SampleAt(mine'[v])).image
      BY <1>1, <1>5, <1>6 DEF LoaderInv, SlotInv
    <2>2. \A k \in DOMAIN slots' :
            IF k >= cursor' THEN slots'[k] = EmptySlot
            ELSE \/ slots'[k] = Slot(SampleAt(k))
                 \/ \E v \in Workers : Holding(v)' /\ mine'[v] = k
      BY <1>1, <1>5, <1>11 DEF LoaderInv, SlotInv
    <2> QED
      BY <1>1, <1>2, <2>1, <2>2, SlotInvNext
  <1> QED
    BY <1>7, <1>8, <1>10, <1>12, <1>13 DEF LoaderInv

LEMMA AllSpawnedStep ==
  ASSUME TypeOK, LoaderInv, AllSpawned
  PROVE  TypeOK' /\ LoaderInv'
  <1>1. /\ main = "spawn" /\ spawned = Threads(Count(call)) /\ main' = "join"
        /\ UNCHANGED <<loader, call, cursor, slots, spawned, joined, workers>>
    BY DEF AllSpawned
  <1>2. UNCHANGED <<indices, got, seed, swap, seen, pc, mine, img>>
    BY <1>1 DEF loader, workers
  <1>3. TypeOK' /\ OrderIsPermutation' /\ RestInv' /\ GotInv' /\ Active /\ Active'
    BY <1>1, <1>2 DEF LoaderInv, TypeOK, OrderIsPermutation, RestInv, GotInv, Active
  <1>4. Threads(Count(call))' = Threads(Count(call)) /\ Count(call)' = Count(call)
    BY <1>1, <1>2, Unmoved DEF Threads
  <1>5. PoolInv'
    BY <1>1, <1>2, <1>3, <1>4 DEF LoaderInv, PoolInv
  <1>6. ClaimInv'
    BY <1>1, <1>2, <1>3, <1>4 DEF LoaderInv, ClaimInv, SlotsNotShared, Holding
  <1>7. SlotInv'
    BY <1>1, <1>2, <1>3, SlotInvNext DEF LoaderInv, SlotInv, Holding
  <1> QED
    BY <1>3, <1>5, <1>6, <1>7 DEF LoaderInv

LEMMA JoinStep ==
  ASSUME TypeOK, LoaderInv, Join
  PROVE  TypeOK' /\ LoaderInv'
  <1> DEFINE n == joined + 1
  <1>1. /\ main = "join" /\ joined < spawned /\ pc[n] = "done" /\ joined' = n
        /\ pc' = [pc EXCEPT ![n] = "off"] /\ mine' = [mine EXCEPT ![n] = 0]
        /\ img' = [img EXCEPT ![n] = None]
        /\ UNCHANGED <<loader, main, call, cursor, slots, spawned>>
    BY DEF Join
  <1>2. UNCHANGED <<indices, got, seed, swap, seen>>
    BY <1>1 DEF loader
  <1>3. n \in Workers /\ n \in Nat /\ n <= spawned
    BY <1>1, Dimensions DEF TypeOK, Workers
  <1>4. Active /\ Active'
    BY <1>1 DEF Active
  <1>5. /\ pc'[n] = "off"
        /\ \A v \in Workers \ {n} : pc'[v] = pc[v] /\ mine'[v] = mine[v] /\ img'[v] = img[v]
    BY <1>1, <1>3 DEF TypeOK
  <1>6. cursor >= Count(call)
    BY <1>1, <1>3, <1>4 DEF LoaderInv, ClaimInv
  <1>7. TypeOK'
    BY <1>1, <1>2, <1>3, Dimensions DEF TypeOK
  <1>8. OrderIsPermutation' /\ RestInv' /\ GotInv'
    BY <1>1, <1>2, <1>4 DEF LoaderInv, OrderIsPermutation, RestInv, GotInv, Active
  <1>9. Threads(Count(call))' = Threads(Count(call)) /\ Count(call)' = Count(call)
    BY <1>1, <1>2, Unmoved DEF Threads
  <1>10. PoolInv'
    <2>1. \A v \in Workers : pc'[v] # "off" <=> n < v /\ v <= spawned
      <3> TAKE v \in Workers
      <3>1. v \in Nat
        BY Dimensions DEF Workers
      <3>2. pc[v] # "off" <=> joined < v /\ v <= spawned
        BY <1>4 DEF LoaderInv, PoolInv
      <3> QED
        BY <1>3, <1>5, <3>1, <3>2, Dimensions DEF TypeOK
    <2> QED
      BY <1>1, <1>3, <1>4, <1>9, <2>1 DEF LoaderInv, PoolInv
  <1>11. ~Holding(n) /\ \A v \in Workers : Holding(v)' <=> Holding(v)
    BY <1>1, <1>5 DEF Holding
  <1>12. ClaimInv'
    BY <1>1, <1>2, <1>4, <1>5, <1>6, <1>11, Unmoved DEF LoaderInv, ClaimInv, SlotsNotShared
  <1>13. SlotInv'
    <2>1. \A v \in Workers :
            /\ pc'[v] \in {"decode", "target"} => slots'[mine'[v]] = EmptySlot
            /\ pc'[v] = "target" =>
                 img'[v] = IF SampleAt(mine'[v]) \in Decodable
                           THEN SampleAt(mine'[v]) + 1 ELSE None
            /\ pc'[v] = "image" => /\ slots'[mine'[v]] = Half(SampleAt(mine'[v]))
                                   /\ img'[v] = Slot(SampleAt(mine'[v])).image
      BY <1>1, <1>4, <1>5 DEF LoaderInv, SlotInv
    <2>2. \A k \in DOMAIN slots' :
            IF k >= cursor' THEN slots'[k] = EmptySlot
            ELSE \/ slots'[k] = Slot(SampleAt(k))
                 \/ \E v \in Workers : Holding(v)' /\ mine'[v] = k
      BY <1>1, <1>4, <1>5, <1>11 DEF LoaderInv, SlotInv
    <2> QED
      BY <1>1, <1>2, <2>1, <2>2, SlotInvNext
  <1> QED
    BY <1>7, <1>8, <1>10, <1>12, <1>13 DEF LoaderInv

\* Slots not yet claimed are the only empty ones no worker holds; a worker
\* is joined only after the last claim, and at least one was started.
LEMMA FilledWhenJoined == TypeOK /\ LoaderInv => JoinedMeansFilled
  <1> SUFFICES ASSUME TypeOK, LoaderInv, main = "join", joined = spawned,
                      NEW k \in DOMAIN slots
               PROVE  slots[k] = Slot(SampleAt(k))
    BY DEF JoinedMeansFilled, AllJoined
  <1>1. Active
    BY DEF Active
  <1>2. Count(call) \in Nat \ {0} /\ k \in 0..(Count(call) - 1)
    BY <1>1, BatchBounds DEF TypeOK, LoaderInv, PoolInv
  <1>3. joined >= 1
    BY <1>1, <1>2, ThreadsBound, Dimensions DEF LoaderInv, PoolInv
  <1>4. cursor >= Count(call)
    BY <1>1, <1>3, Dimensions DEF LoaderInv, ClaimInv, TypeOK
  <1>5. ~(k >= cursor) \/ slots[k] = Slot(SampleAt(k))
    BY <1>2, <1>4 DEF TypeOK
  <1>6. \A w \in Workers : ~Holding(w)
    <2> SUFFICES ASSUME NEW w \in Workers PROVE pc[w] = "off"
      BY DEF Holding
    <2>1. pc[w] # "off" <=> joined < w /\ w <= spawned
      BY <1>1 DEF LoaderInv, PoolInv
    <2> QED
      BY <2>1, Dimensions DEF Workers, TypeOK
  <1> QED
    BY <1>1, <1>5, <1>6 DEF LoaderInv, SlotInv

LEMMA ReturnedBatch ==
  ASSUME TypeOK, LoaderInv, main = "join", AllJoined
  PROVE  slots = Batch(indices, call)
  <1>1. slots = [k \in 0..(Count(call) - 1) |-> slots[k]]
    BY DEF LoaderInv, PoolInv, Active
  <1>2. \A k \in 0..(Count(call) - 1) : slots[k] = Slot(indices[Begin(call) + k + 1])
    BY <1>1, FilledWhenJoined DEF JoinedMeansFilled, SampleAt
  <1> QED
    BY <1>1, <1>2 DEF Batch

LEMMA ReturnStep ==
  ASSUME TypeOK, LoaderInv, Return
  PROVE  TypeOK' /\ LoaderInv'
  <1>1. /\ main = "join" /\ AllJoined /\ main' = "idle"
        /\ got' = [got EXCEPT ![call] = slots]
        /\ call' = 0 /\ cursor' = 0 /\ slots' = <<>> /\ spawned' = 0 /\ joined' = 0
        /\ UNCHANGED <<indices, seed, swap, seen, workers>>
    BY DEF Return
  <1>2. 0 \in BatchIds
    <2>1. call \in BatchIds
      BY DEF TypeOK
    <2> QED
      BY <2>1, Dimensions DEF BatchIds
  <1>3. TypeOK'
    BY <1>1, <1>2, Dimensions DEF TypeOK, workers
  <1>4. \A w \in Workers : pc[w] = "off"
    <2> SUFFICES ASSUME NEW w \in Workers PROVE pc[w] = "off"
      OBVIOUS
    <2>1. pc[w] # "off" <=> joined < w /\ w <= spawned
      BY <1>1 DEF LoaderInv, PoolInv, Active
    <2> QED
      BY <1>1, <2>1, Dimensions DEF AllJoined, Workers, TypeOK
  <1>5. OrderIsPermutation' /\ RestInv' /\ PoolInv' /\ ClaimInv' /\ SlotInv'
    BY <1>1, <1>4
    DEF LoaderInv, OrderIsPermutation, RestInv, PoolInv, ClaimInv, SlotInv, Active, workers
  <1>6. GotInv'
    BY <1>1, ReturnedBatch DEF LoaderInv, GotInv
  <1> QED
    BY <1>3, <1>5, <1>6 DEF LoaderInv

-----------------------------------------------------------------------------
(* Every step, and the properties. *)

LEMMA StutterStep ==
  ASSUME TypeOK, LoaderInv, UNCHANGED vars
  PROVE  TypeOK' /\ LoaderInv'
  <1>1. UNCHANGED <<indices, got, seed, swap, seen, main, call, cursor, slots,
                    spawned, joined, pc, mine, img>>
    BY DEF vars, loader, workers
  <1>2. TypeOK' /\ OrderIsPermutation' /\ RestInv' /\ GotInv'
    BY <1>1 DEF TypeOK, LoaderInv, OrderIsPermutation, RestInv, Active, GotInv
  <1>3. PoolInv'
    BY <1>1, Unmoved DEF LoaderInv, PoolInv, Active, Threads
  <1>4. ClaimInv'
    BY <1>1, Unmoved DEF LoaderInv, ClaimInv, SlotsNotShared, Holding, Active
  <1>5. SlotInv'
    <2>1. CASE ~Active
      BY <1>1, <2>1 DEF SlotInv, Active
    <2>2. CASE Active
      BY <1>1, <2>2, SlotInvNext DEF LoaderInv, SlotInv, Holding
    <2> QED
      BY <2>1, <2>2
  <1> QED
    BY <1>2, <1>3, <1>4, <1>5 DEF LoaderInv

LEMMA NextInv == TypeOK /\ LoaderInv /\ [Next]_vars => TypeOK' /\ LoaderInv'
  <1> SUFFICES ASSUME TypeOK, LoaderInv, [Next]_vars
               PROVE  TypeOK' /\ LoaderInv'
    OBVIOUS
  <1>1. CASE \E s \in Seeds : StartReshuffle(s)
    BY <1>1, StartReshuffleStep
  <1>2. CASE \E i \in 0..NumBatches : StartAt(i)
    BY <1>2, StartAtStep
  <1>3. CASE Caller
    BY <1>3, SwapStep, EndReshuffleStep, SpawnStep, AllSpawnedStep, JoinStep, ReturnStep
    DEF Caller
  <1>4. CASE \E w \in Workers : Work(w)
    BY <1>4, ClaimStep, DecodeStep, StoreTargetStep, StoreImageStep DEF Work
  <1>5. CASE UNCHANGED vars
    BY <1>5, StutterStep
  <1> QED
    BY <1>1, <1>2, <1>3, <1>4, <1>5 DEF Next

\* The invariant behind all of the others: order, pool, claims and slots.
THEOREM LoaderInvariant == Spec => [](TypeOK /\ LoaderInv)
  <1>1. Init => TypeOK /\ LoaderInv
    BY InitInv
  <1>2. TypeOK /\ LoaderInv /\ [Next]_vars => TypeOK' /\ LoaderInv'
    BY NextInv
  <1> QED
    BY <1>1, <1>2, PTL DEF Spec

\* Every variable keeps its type: no call is ever for a missing batch.
THEOREM TypeCorrect == Spec => []TypeOK
  BY LoaderInvariant, PTL

\* indices_ is a permutation of the split at every step of a shuffle,
\* whatever the generator draws.
THEOREM ShufflesPermute == Spec => []OrderIsPermutation
  <1>1. TypeOK /\ LoaderInv => OrderIsPermutation
    BY DEF LoaderInv
  <1> QED
    BY <1>1, LoaderInvariant, PTL

\* Whatever the size of the pool, no two worker threads write the same slot
\* of a batch: At needs no lock.
THEOREM NoSharedSlot == Spec => []SlotsNotShared
  <1>1. TypeOK /\ LoaderInv => SlotsNotShared
    BY WorkerActive DEF LoaderInv, ClaimInv, SlotsNotShared, Holding
  <1> QED
    BY <1>1, LoaderInvariant, PTL

\* When the pool is joined the batch is complete and is what a serial
\* decode would have produced.
THEOREM JoinedPoolFilledBatch == Spec => []JoinedMeansFilled
  <1>1. TypeOK /\ LoaderInv => JoinedMeansFilled
    BY FilledWhenJoined
  <1> QED
    BY <1>1, LoaderInvariant, PTL

LEMMA BatchesCoverOrder ==
  ASSUME TypeOK, LoaderInv
  PROVE  EpochCoversSplit
  <1> DEFINE delivered == {i \in BatchIds : got[i] # None}
             Held(i) == {got[i][k].index : k \in DOMAIN got[i]}
             Places(i) == (Begin(i) + 1)..(Begin(i) + Count(i))
  <1>1. /\ indices \in [1..N -> Samples]
        /\ \A a, b \in 1..N : a # b => indices[a] # indices[b]
        /\ \A s \in Samples : \E a \in 1..N : indices[a] = s
    BY DEF LoaderInv, OrderIsPermutation, IsOrder
  <1>2. ASSUME NEW i \in delivered
        PROVE  /\ Held(i) = {indices[p] : p \in Places(i)}
               /\ Places(i) \subseteq 1..N
    <2>1. got[i] = Batch(indices, i)
      BY DEF LoaderInv, GotInv
    <2>2. /\ DOMAIN got[i] = 0..(Count(i) - 1)
          /\ \A k \in 0..(Count(i) - 1) : got[i][k] = Slot(indices[Begin(i) + k + 1])
      BY <2>1 DEF Batch
    <2>3. /\ DOMAIN got[i] = 0..(Count(i) - 1)
          /\ \A k \in 0..(Count(i) - 1) : got[i][k].index = indices[Begin(i) + k + 1]
      <3>1. \A x : Slot(x).index = x
        BY DEF Slot
      <3> QED
        BY <2>2, <3>1
    <2>4. Begin(i) \in Nat /\ Count(i) \in Nat /\ Begin(i) + Count(i) <= N
      BY BatchBounds
    <2>5. ASSUME NEW k \in DOMAIN got[i]
          PROVE  \E p \in Places(i) : got[i][k].index = indices[p]
      <3>1. Begin(i) + k + 1 \in Places(i)
        BY <2>3, <2>4
      <3> QED
        BY <2>3, <3>1
    <2>6. ASSUME NEW p \in Places(i) PROVE indices[p] \in Held(i)
      <3>1. p - Begin(i) - 1 \in 0..(Count(i) - 1) /\ Begin(i) + (p - Begin(i) - 1) + 1 = p
        BY <2>4
      <3> QED
        BY <2>3, <3>1
    <2>7. Places(i) \subseteq 1..N
      BY <2>4, Dimensions
    <2> QED
      BY <2>5, <2>6, <2>7
  <1>3. ASSUME NEW i \in BatchIds, NEW j \in BatchIds, i # j
        PROVE  Places(i) \cap Places(j) = {}
    <2>1. /\ i \in Nat /\ j \in Nat
          /\ Begin(i) \in Nat /\ Count(i) \in Nat /\ Begin(j) \in Nat /\ Count(j) \in Nat
      BY BatchBounds
    <2>2. i < j \/ j < i
      BY <1>3, <2>1
    <2>3. Begin(i) + Count(i) <= Begin(j) \/ Begin(j) + Count(j) <= Begin(i)
      BY <2>2, BatchesApart
    <2> QED
      BY <2>1, <2>3
  <1> HIDE DEF Held, Places
  <1>4. ASSUME NEW i \in delivered, NEW j \in delivered, i # j
        PROVE  Held(i) \cap Held(j) = {}
    <2> SUFFICES ASSUME NEW a \in Places(i), NEW b \in Places(j), indices[a] = indices[b]
                 PROVE  FALSE
      BY <1>2
    <2>1. a # b
      BY <1>3, <1>4
    <2> QED
      BY <1>1, <1>2, <2>1
  <1>5. ASSUME delivered = BatchIds
        PROVE  UNION {Held(i) : i \in BatchIds} = Samples
    <2>1. ASSUME NEW i \in BatchIds PROVE Held(i) \subseteq Samples
      BY <1>1, <1>2, <1>5
    <2>2. ASSUME NEW s \in Samples PROVE \E i \in BatchIds : s \in Held(i)
      <3>1. PICK a \in 1..N : indices[a] = s
        BY <1>1
      <3>2. PICK i \in BatchIds : a - 1 \in Begin(i)..(Begin(i) + Count(i) - 1)
        BY BatchOfPosition
      <3>3. a \in Places(i)
        BY <3>2, BatchBounds, Dimensions DEF Places
      <3> QED
        BY <1>2, <1>5, <3>1, <3>3
    <2> QED
      BY <2>1, <2>2
  <1> QED
    BY <1>4, <1>5 DEF EpochCoversSplit, Held

\* The batches of an epoch are disjoint and together are the split, whatever
\* its size, the batch size and the order the batches are asked for.
THEOREM EpochSeesEverySampleOnce == Spec => []EpochCoversSplit
  <1>1. TypeOK /\ LoaderInv => EpochCoversSplit
    BY BatchesCoverOrder
  <1> QED
    BY <1>1, LoaderInvariant, PTL

-----------------------------------------------------------------------------
(* Refinement. *)

LEMMA SerialNames ==
  /\ \A o : Serial!IsOrder(o) <=> IsOrder(o)
  /\ \A o, i : Serial!Batch(o, i) = Batch(o, i)
  /\ Serial!BatchIds = BatchIds /\ Serial!Nothing = Nothing
  BY DEF Serial!IsOrder, Serial!N, Serial!Samples, IsOrder, N, Samples,
         Serial!Batch, Serial!Count, Serial!End, Serial!Begin, Serial!Slot, Serial!Target,
         Batch, Count, End, Begin, Slot, Target,
         Serial!BatchIds, Serial!NumBatches, BatchIds, NumBatches,
         Serial!Nothing, Nothing

LEMMA SerialStep ==
  ASSUME TypeOK, LoaderInv, TypeOK', LoaderInv', [Next]_vars
  PROVE  [Serial!Next]_Serial!vars
  <1>1. ASSUME IsOrder(indices'), got' = Nothing PROVE Serial!Next
    BY <1>1, SerialNames DEF Serial!Next, Serial!Reshuffle
  <1>2. IsOrder(indices')
    BY DEF LoaderInv, OrderIsPermutation, IsOrder, N, Samples
  <1>3. CASE \E s \in Seeds : StartReshuffle(s)
    BY <1>1, <1>2, <1>3 DEF StartReshuffle
  <1>4. CASE Swap
    <2>1. got' = Nothing
      BY <1>4 DEF Swap, LoaderInv, GotInv
    <2> QED
      BY <1>1, <1>2, <2>1
  <1>5. CASE Return
    <2>1. slots = Batch(indices, call) /\ call \in BatchIds
      BY <1>5, ReturnedBatch DEF Return, TypeOK
    <2>2. Serial!Deliver(call)
      BY <1>5, <2>1, SerialNames DEF Return, Serial!Deliver
    <2> QED
      BY <2>1, <2>2, SerialNames DEF Serial!Next
  <1>6. ASSUME UNCHANGED <<indices, got>> PROVE UNCHANGED Serial!vars
    BY <1>6 DEF Serial!vars
  <1>7. CASE \/ \E i \in 0..NumBatches : StartAt(i)
             \/ EndReshuffle \/ Spawn \/ AllSpawned \/ Join
             \/ \E w \in Workers : Work(w)
             \/ UNCHANGED vars
    BY <1>6, <1>7
    DEF StartAt, EndReshuffle, Spawn, AllSpawned, Join, Work, Claim, Decode,
        StoreTarget, StoreImage, vars, loader
  <1> QED
    BY <1>3, <1>4, <1>5, <1>7 DEF Next, Caller

\* The parallel loader implements the serial one: the threads of At cannot be
\* told from a loop over the batch.
THEOREM Refinement == Spec => ImplementsSerialLoader
  <1>1. Init => Serial!Init
    BY SerialNames DEF Init, Serial!Init
  <1>2. TypeOK /\ LoaderInv /\ (TypeOK /\ LoaderInv)' /\ [Next]_vars
          => [Serial!Next]_Serial!vars
    BY SerialStep
  <1> QED
    BY <1>1, <1>2, LoaderInvariant, PTL DEF Spec, Serial!Spec, ImplementsSerialLoader

-----------------------------------------------------------------------------
(* The order of a seed. *)

\* h tells the swaps of seed s down to position j: h[N] is the split and h[k]
\* the order that is left when swap k is the next.
ShuffledBy(h, s, j) ==
  /\ h[N] = Split
  /\ \A k \in (j + 1)..N : h[k - 1] = Swapped(h[k], k, Partner(s, k))

\* A reshuffle in progress is on its seed's way down from the split, and what a
\* seed gave before is where that way ends.
ShuffleInv ==
  /\ seen = [s \in Seeds |-> seen[s]]
  /\ main = "swap" => /\ seed \in Seeds /\ swap \in 1..N
                      /\ \E h : ShuffledBy(h, seed, swap) /\ h[swap] = indices
  /\ \A s \in Seeds : seen[s] # None => \E h : ShuffledBy(h, s, 1) /\ h[1] = seen[s]
  /\ main # "swap" /\ seed # None => seen[seed] = indices

\* A nonempty set of naturals has a least element.
LEMMA LeastOf ==
  ASSUME NEW E \in SUBSET Nat, E # {}
  PROVE  \E d \in E : \A e \in E : d <= e
  <1>1. PICK d \in E : \A e \in E : <<e, d>> \notin OpToRel(<, Nat)
    BY NatLessThanWellFounded, WFMin
  <1>2. ASSUME NEW e \in E PROVE d <= e
    <2>1. d \in Nat /\ e \in Nat
      OBVIOUS
    <2>2. ~(e < d)
      BY <1>1, <2>1 DEF OpToRel
    <2> QED
      BY <2>1, <2>2
  <1> QED
    BY <1>2

\* Sorting an order of the split gives the split back: an ascending order of
\* its samples is unique.
LEMMA SortedIsSplit ==
  ASSUME NEW o, IsOrder(o)
  PROVE  Sorted(o) = Split
  <1> DEFINE r == Sorted(o)
             E == {k \in 1..N : r[k] # Split[k]}
  <1>1. IsOrder(r)
    BY SortedIsOrder
  <1>2. \A a, b \in 1..N : a < b => r[a] < r[b]
    <2> DEFINE Asc(x) == /\ \A i, j \in 1..N : i < j => x[i] < x[j]
                         /\ \A i \in 1..N : \E j \in 1..N : x[j] = o[i]
    <2>1. {o[i] : i \in 1..N} = Samples
      BY DEF IsOrder, N, Samples
    <2>2. r = CHOOSE x \in [1..N -> Samples] : Asc(x)
      BY <2>1 DEF Sorted
    <2>3. Split \in [1..N -> Samples] /\ Asc(Split)
      <3>1. Split \in [1..N -> Samples] /\ \A s \in Samples : \E i \in 1..N : Split[i] = s
        BY Dimensions DEF Samples, N
      <3>2. o \in [1..N -> Samples]
        BY DEF IsOrder, N, Samples
      <3> QED
        BY <3>1, <3>2, SplitAssumption DEF N
    <2> HIDE DEF Asc, r
    <2>4. Asc(r)
      BY <2>2, <2>3
    <2> QED
      BY <2>4 DEF Asc
  <1> HIDE DEF r
  <1>3. r \in [1..N -> Samples] /\ Split \in [1..N -> Samples] /\ N \in Nat
    BY <1>1, Dimensions DEF IsOrder, Samples, N
  <1>4. /\ \A a, b \in 1..N : a < b => Split[a] < Split[b]
        /\ \A a \in 1..N : \E b \in 1..N : r[b] = Split[a]
        /\ \A a \in 1..N : \E b \in 1..N : Split[b] = r[a]
        /\ \A a \in 1..N : r[a] \in Nat /\ Split[a] \in Nat
    <2>1. \A a, b \in 1..N : a < b => Split[a] < Split[b]
      BY SplitAssumption DEF N
    <2>2. \A s \in Samples : \E b \in 1..N : r[b] = s
      BY <1>1 DEF IsOrder, Samples, N
    <2>3. \A s \in Samples : \E b \in 1..N : Split[b] = s
      BY DEF Samples, N
    <2>4. \A s \in Samples : s \in Nat
      BY Dimensions
    <2>5. \A a \in 1..N : r[a] \in Samples /\ Split[a] \in Samples
      BY <1>3
    <2> QED
      BY <2>1, <2>2, <2>3, <2>4, <2>5
  <1>5. E = {}
    <2> SUFFICES ASSUME E # {} PROVE FALSE
      OBVIOUS
    <2>1. PICK k \in E : \A e \in E : k <= e
      <3>1. E \in SUBSET Nat
        BY <1>3
      <3> HIDE DEF E
      <3> QED
        BY <3>1, LeastOf
    <2>2. k \in 1..N /\ r[k] # Split[k] /\ \A j \in 1..N : j < k => r[j] = Split[j]
      BY <1>3, <2>1
    <2>3. PICK a \in 1..N : r[a] = Split[k]
      BY <1>4, <2>2
    <2>4. PICK b \in 1..N : Split[b] = r[k]
      BY <1>4, <2>2
    <2>5. k < a /\ k < b
      <3>1. a # k /\ b # k
        BY <2>2, <2>3, <2>4
      <3>2. ~(a < k)
        <4> SUFFICES ASSUME a < k PROVE FALSE
          OBVIOUS
        <4>1. Split[a] = Split[k] /\ Split[a] < Split[k]
          BY <1>4, <2>2, <2>3
        <4>2. Split[a] \in Nat /\ Split[k] \in Nat
          BY <1>4, <2>2, <2>3
        <4> QED
          BY <4>1, <4>2
      <3>3. ~(b < k)
        <4> SUFFICES ASSUME b < k PROVE FALSE
          OBVIOUS
        <4>1. r[b] = r[k] /\ r[b] < r[k]
          BY <1>2, <2>2, <2>4
        <4>2. r[b] \in Nat /\ r[k] \in Nat
          BY <1>4, <2>2, <2>4
        <4> QED
          BY <4>1, <4>2
      <3> QED
        BY <1>3, <2>2, <3>1, <3>2, <3>3
    <2>6. r[k] < Split[k] /\ Split[k] < r[k]
      BY <1>2, <1>4, <2>2, <2>3, <2>4, <2>5
    <2>7. r[k] \in Nat /\ Split[k] \in Nat
      BY <1>4, <2>2
    <2> QED
      BY <2>6, <2>7
  <1>6. r = Split
    BY <1>3, <1>5
  <1> QED
    BY <1>6 DEF r

\* The swaps of a seed lead from the split to one order.
LEMMA ShuffleUnique ==
  ASSUME NEW s, NEW g, NEW h, ShuffledBy(g, s, 1), ShuffledBy(h, s, 1)
  PROVE  g[1] = h[1]
  <1> DEFINE E == {d \in 0 .. N - 1 : g[N - d] # h[N - d]}
  <1>1. N \in Nat \ {0}
    BY Dimensions
  <1>2. CASE E = {}
    <2>1. N - 1 \in 0 .. N - 1 /\ N - (N - 1) = 1
      BY <1>1
    <2> QED
      BY <1>2, <2>1
  <1>3. CASE E # {}
    <2>1. PICK d \in E : \A e \in E : d <= e
      <3>1. E \in SUBSET Nat
        BY <1>1
      <3> HIDE DEF E
      <3> QED
        BY <1>3, <3>1, LeastOf
    <2>2. d \in 0 .. N - 1 /\ g[N - d] # h[N - d]
      BY <2>1
    <2>3. d # 0
      BY <1>1, <2>2 DEF ShuffledBy
    <2>4. d - 1 \in 0 .. N - 1 /\ ~(d <= d - 1) /\ N - (d - 1) \in 2..N /\ (N - (d - 1)) - 1 = N - d
      BY <1>1, <2>2, <2>3
    <2>5. g[N - (d - 1)] = h[N - (d - 1)]
      BY <2>1, <2>4
    <2> DEFINE k == N - (d - 1)
    <2>6. k \in (1 + 1)..N /\ k - 1 = N - d /\ g[k] = h[k]
      BY <2>4, <2>5
    <2> HIDE DEF k
    <2>7. g[k - 1] = Swapped(g[k], k, Partner(s, k)) /\ h[k - 1] = Swapped(h[k], k, Partner(s, k))
      BY <2>6 DEF ShuffledBy
    <2> QED
      BY <2>2, <2>6, <2>7
  <1> QED
    BY <1>2, <1>3

\* A reshuffle starts from the split and swaps by its seed; whoever asks for
\* batches in between changes neither the order nor what was seen.
LEMMA NextShuffleInv == TypeOK /\ LoaderInv /\ ShuffleInv /\ [Next]_vars => ShuffleInv'
  <1> SUFFICES ASSUME TypeOK, LoaderInv, ShuffleInv, [Next]_vars PROVE ShuffleInv'
    OBVIOUS
  <1>1. N \in Nat \ {0}
    BY Dimensions
  <1>2. CASE \E s \in Seeds : StartReshuffle(s)
    <2>1. PICK s \in Seeds : /\ main' = "swap" /\ seed' = s /\ swap' = N /\ seen' = seen
                             /\ indices' = Sorted(indices)
      BY <1>2 DEF StartReshuffle
    <2>2. indices' = Split
      BY <2>1, SortedIsSplit DEF LoaderInv, OrderIsPermutation
    <2>3. PICK h : h = [k \in 1..N |-> Split]
      OBVIOUS
    <2>4. ShuffledBy(h, s, N) /\ h[N] = Split
      BY <1>1, <2>3 DEF ShuffledBy
    <2>5. \E g : ShuffledBy(g, s, N) /\ g[N] = indices'
      BY <2>2, <2>4
    <2> QED
      BY <1>1, <2>1, <2>5 DEF ShuffleInv
  <1>3. CASE Swap
    <2>1. /\ main = "swap" /\ main' = "swap" /\ swap > 1 /\ swap' = swap - 1 /\ seed' = seed
          /\ seen' = seen /\ indices' = Swapped(indices, swap, Partner(seed, swap))
      BY <1>3 DEF Swap
    <2>2. swap \in 2..N /\ seed \in Seeds
      BY <1>1, <2>1 DEF ShuffleInv
    <2>3. PICK h : ShuffledBy(h, seed, swap) /\ h[swap] = indices
      BY <2>1 DEF ShuffleInv
    <2>4. PICK g : g = [k \in 1..N |-> IF k = swap - 1 THEN Swapped(h[swap], swap, Partner(seed, swap))
                                       ELSE h[k]]
      OBVIOUS
    <2>5. g[swap - 1] = Swapped(h[swap], swap, Partner(seed, swap)) /\ \A k \in swap..N : g[k] = h[k]
      BY <1>1, <2>2, <2>4
    <2>6. ShuffledBy(g, seed, swap - 1)
      <3>1. ASSUME NEW k \in (swap - 1 + 1)..N PROVE g[k - 1] = Swapped(g[k], k, Partner(seed, k))
        <4>1. k = swap \/ (k \in (swap + 1)..N /\ k - 1 \in swap..N /\ k \in swap..N)
          BY <1>1, <2>2
        <4>2. swap \in swap..N
          BY <1>1, <2>2
        <4> QED
          BY <2>3, <2>5, <4>1, <4>2 DEF ShuffledBy
      <3>2. g[N] = Split
        BY <1>1, <2>2, <2>3, <2>5 DEF ShuffledBy
      <3> QED
        BY <3>1, <3>2 DEF ShuffledBy
    <2>7. \E f : ShuffledBy(f, seed, swap - 1) /\ f[swap - 1] = indices'
      BY <2>1, <2>3, <2>5, <2>6
    <2>8. swap - 1 \in 1..N
      BY <1>1, <2>2
    <2> QED
      BY <2>1, <2>2, <2>7, <2>8 DEF ShuffleInv
  <1>4. CASE EndReshuffle
    <2>1. /\ main = "swap" /\ main' = "idle" /\ swap <= 1 /\ seed' = seed /\ indices' = indices
          /\ seen' = [seen EXCEPT ![seed] = IF @ = None THEN indices ELSE @]
      BY <1>4 DEF EndReshuffle
    <2>2. swap = 1 /\ seed \in Seeds
      BY <1>1, <2>1 DEF ShuffleInv
    <2>3. PICK h : ShuffledBy(h, seed, 1) /\ h[1] = indices
      BY <2>1, <2>2 DEF ShuffleInv
    <2>4. seen[seed] # None => seen[seed] = indices
      BY <2>2, <2>3, ShuffleUnique DEF ShuffleInv
    <2>5. seen' = [s \in Seeds |-> seen'[s]] /\ \A s \in Seeds : seen'[s] = IF s = seed THEN indices ELSE seen[s]
      BY <2>1, <2>2, <2>4 DEF ShuffleInv
    <2>6. ASSUME NEW s \in Seeds, seen'[s] # None
          PROVE  \E g : ShuffledBy(g, s, 1) /\ g[1] = seen'[s]
      <3>1. CASE s = seed
        BY <2>3, <2>5, <3>1
      <3>2. CASE s # seed
        BY <2>5, <2>6, <3>2 DEF ShuffleInv
      <3> QED
        BY <3>1, <3>2
    <2> QED
      BY <2>1, <2>2, <2>5, <2>6 DEF ShuffleInv
  <1>5. ASSUME UNCHANGED <<indices, seed, seen>>, main # "swap", main' # "swap"
        PROVE  ShuffleInv'
    BY <1>5 DEF ShuffleInv
  <1>6. CASE UNCHANGED vars
    BY <1>6 DEF vars, loader, ShuffleInv
  <1>7. CASE \E i \in 0..NumBatches : StartAt(i)
    BY <1>5, <1>7 DEF StartAt, loader
  <1>8. CASE Spawn \/ AllSpawned \/ Join \/ Return
    BY <1>5, <1>8 DEF Spawn, AllSpawned, Join, Return, loader
  <1>9. CASE \E w \in Workers : Work(w)
    <2>1. UNCHANGED <<loader, main>>
      BY <1>9 DEF Work, Claim, Decode, StoreTarget, StoreImage
    <2> QED
      BY <2>1 DEF loader, ShuffleInv
  <1> QED
    BY <1>2, <1>3, <1>4, <1>6, <1>7, <1>8, <1>9 DEF Next, Caller

\* The order of an epoch depends on its seed alone, whatever the generator
\* draws and whichever epochs came before: a resumed run sees the batches the
\* interrupted one would have seen.
THEOREM OrderOfSeed == Spec => []SameSeedSameOrder
  <1>1. Init => ShuffleInv
    BY DEF Init, ShuffleInv
  <1>2. ShuffleInv => SameSeedSameOrder
    BY DEF ShuffleInv, SameSeedSameOrder
  <1> QED
    BY <1>1, <1>2, NextShuffleInv, LoaderInvariant, PTL DEF Spec
=============================================================================
