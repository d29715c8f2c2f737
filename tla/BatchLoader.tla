----------------------------- MODULE BatchLoader -----------------------------
(***************************************************************************)
(* data::DataLoader (src/data/loader.cpp): Reshuffle's sort and Fisher-    *)
(* Yates swaps, and At(i), whose worker threads share one atomic cursor    *)
(* and write the slots of one batch while the caller waits to join them.   *)
(* The caller may ask for any batch, in any order and more than once, and  *)
(* may reshuffle between two calls, as RunTrainTorch and EvaluateModel do. *)
(***************************************************************************)
EXTENDS EpochBatches

CONSTANTS Hardware,     \* max(1, hardware_concurrency)
          Seeds,        \* the seeds Reshuffle is called with
          Draw(_, _)    \* Draw(s, i): what rng() gives for swap i of seed s

ASSUME HardwareAssumption == Hardware \in Nat \ {0}
ASSUME DrawAssumption     == \A s \in Seeds : \A i \in 2..Len(Split) : Draw(s, i) \in Nat

VARIABLES indices,   \* indices_, an order of the split
          got,       \* batch -> what At returned since the last reshuffle
          main,      \* where the caller's thread is
          seed, swap,\* Reshuffle: the seed, and i of the next swap
          call,      \* At: the batch being collated
          cursor,    \* the atomic cursor
          slots,     \* Batch::targets, sample_indices and imgs, by slot
          spawned,   \* worker threads started
          joined,    \* worker threads joined
          pc, mine, img,   \* per worker: where it is, its slot k, its image
          seen       \* history: seed -> the order it gave before

loader  == <<indices, got, seed, swap, seen>>
workers == <<pc, mine, img>>
vars    == <<loader, main, call, cursor, slots, spawned, joined, workers>>

Serial == INSTANCE SerialLoader WITH order <- indices

Workers == 1..Hardware

EmptySlot == [target |-> None, image |-> None, index |-> None]

\* nthreads: never more than there are slots; at 1 the caller runs the worker
\* itself, which is a pool of one that it joins at once.
Threads(n) == IF n < Hardware THEN n ELSE Hardware

-----------------------------------------------------------------------------
Init == /\ indices = Split /\ got = Nothing
        /\ main = "idle"
        /\ seed = None /\ swap = 0 /\ seen = [s \in Seeds |-> None]
        /\ call = 0 /\ cursor = 0 /\ slots = <<>>
        /\ spawned = 0 /\ joined = 0
        /\ pc = [w \in Workers |-> "off"]
        /\ mine = [w \in Workers |-> 0]
        /\ img = [w \in Workers |-> None]

(* Reshuffle. *)

\* Mutant: the shuffle starts from the order of the epoch before.
Unsorted(o) == o
\* std::sort of distinct indices.
Sorted(o) ==
  CHOOSE r \in [1..N -> {o[i] : i \in 1..N}] :
    /\ \A i, j \in 1..N : i < j => r[i] < r[j]
    /\ \A i \in 1..N : \E j \in 1..N : r[j] = o[i]

\* swap(indices_[i - 1], indices_[rng() % i]), with positions from 1.
Partner(s, i) == (Draw(s, i) % i) + 1
\* Mutant: an assignment instead of a swap.
Overwritten(o, i, j) == [o EXCEPT ![i] = o[j]]
Swapped(o, i, j) == [o EXCEPT ![i] = o[j], ![j] = o[i]]

StartReshuffle(s) ==
  /\ main = "idle"
  /\ main' = "swap"
  /\ seed' = s /\ swap' = N /\ indices' = Sorted(indices)
  /\ got' = Nothing
  /\ UNCHANGED <<seen, call, cursor, slots, spawned, joined, workers>>

Swap ==
  /\ main = "swap" /\ swap > 1
  /\ indices' = Swapped(indices, swap, Partner(seed, swap))
  /\ swap' = swap - 1
  /\ UNCHANGED <<got, seed, seen, main, call, cursor, slots, spawned, joined, workers>>

EndReshuffle ==
  /\ main = "swap" /\ swap <= 1
  /\ main' = "idle"
  /\ seen' = [seen EXCEPT ![seed] = IF @ = None THEN indices ELSE @]
  /\ UNCHANGED <<indices, got, seed, swap, call, cursor, slots, spawned, joined, workers>>

-----------------------------------------------------------------------------
(* At(i), the caller's thread. *)

InRange(i) == i < NumBatches

\* An index out of range is an InvalidArgument error and changes nothing.
StartAt(i) ==
  /\ main = "idle" /\ InRange(i)
  /\ main' = "spawn"
  /\ call' = i
  /\ slots' = [k \in 0..(Count(i) - 1) |-> EmptySlot]
  /\ UNCHANGED <<loader, cursor, spawned, joined, workers>>

Spawn ==
  /\ main = "spawn" /\ spawned < Threads(Count(call))
  /\ spawned' = spawned + 1
  /\ pc' = [pc EXCEPT ![spawned + 1] = "claim"]
  /\ UNCHANGED <<loader, main, call, cursor, slots, joined, mine, img>>

AllSpawned ==
  /\ main = "spawn" /\ spawned = Threads(Count(call))
  /\ main' = "join"
  /\ UNCHANGED <<loader, call, cursor, slots, spawned, joined, workers>>

\* th.join(), in the order of the pool.
Join ==
  /\ main = "join" /\ joined < spawned
  /\ pc[joined + 1] = "done"
  /\ joined' = joined + 1
  /\ pc' = [pc EXCEPT ![joined + 1] = "off"]
  /\ mine' = [mine EXCEPT ![joined + 1] = 0]
  /\ img' = [img EXCEPT ![joined + 1] = None]
  /\ UNCHANGED <<loader, main, call, cursor, slots, spawned>>

AllJoined == joined = spawned

\* torch::stack, and the batch is returned; At's local variables are gone.
Return ==
  /\ main = "join" /\ AllJoined
  /\ main' = "idle"
  /\ got' = [got EXCEPT ![call] = slots]
  /\ call' = 0 /\ cursor' = 0 /\ slots' = <<>>
  /\ spawned' = 0 /\ joined' = 0
  /\ UNCHANGED <<indices, seed, swap, seen, workers>>

-----------------------------------------------------------------------------
(* At(i), a worker. *)

\* Mutant: load and store instead of fetch_add lose another worker's claim.
LostUpdate(w) == IF \E v \in Workers \ {w} : pc[v] = "decode" THEN cursor ELSE cursor + 1
\* Mutant: the cursor never advances.
NotAdvanced(w) == cursor
\* cursor.fetch_add(1)
Claimed(w) == cursor + 1

Claim(w) ==
  /\ pc[w] = "claim"
  /\ mine' = [mine EXCEPT ![w] = cursor]
  /\ cursor' = Claimed(w)
  /\ pc' = [pc EXCEPT ![w] = IF cursor < Count(call) THEN "decode" ELSE "done"]
  /\ UNCHANGED <<loader, main, call, slots, spawned, joined, img>>

\* Mutant: the batch's offset forgotten.
FirstSamples(k) == indices[k + 1]
\* indices_[begin + k]
SampleAt(k) == indices[Begin(call) + k + 1]

\* DecodeImage: an undefined tensor when the file cannot be decoded.
Decode(w) ==
  /\ pc[w] = "decode"
  /\ img' = [img EXCEPT ![w] = IF SampleAt(mine[w]) \in Decodable
                               THEN SampleAt(mine[w]) + 1 ELSE None]
  /\ pc' = [pc EXCEPT ![w] = "target"]
  /\ UNCHANGED <<loader, main, call, cursor, slots, spawned, joined, mine>>

\* out.targets[k]; an undefined image is replaced by a blank one.
StoreTarget(w) ==
  /\ pc[w] = "target"
  /\ slots' = [slots EXCEPT ![mine[w]].target =
                 IF img[w] = None THEN <<>> ELSE Target(SampleAt(mine[w]))]
  /\ img' = [img EXCEPT ![w] = IF @ = None THEN 0 ELSE @]
  /\ pc' = [pc EXCEPT ![w] = "image"]
  /\ UNCHANGED <<loader, main, call, cursor, spawned, joined, mine>>

\* imgs[k], out.sizes[k] and out.sample_indices[k].
StoreImage(w) ==
  /\ pc[w] = "image"
  /\ slots' = [slots EXCEPT ![mine[w]] =
                 [target |-> @.target, image |-> img[w], index |-> SampleAt(mine[w])]]
  /\ pc' = [pc EXCEPT ![w] = "claim"]
  /\ UNCHANGED <<loader, main, call, cursor, spawned, joined, mine, img>>

-----------------------------------------------------------------------------
Work(w) == Claim(w) \/ Decode(w) \/ StoreTarget(w) \/ StoreImage(w)

Caller == Swap \/ EndReshuffle \/ Spawn \/ AllSpawned \/ Join \/ Return

Next == \/ \E s \in Seeds : StartReshuffle(s)
        \/ \E i \in 0..NumBatches : StartAt(i)
        \/ Caller
        \/ \E w \in Workers : Work(w)

Spec == Init /\ [][Next]_vars

\* Every started thread is scheduled; no one promises another call.
FairSpec == Spec /\ WF_vars(Caller) /\ \A w \in Workers : WF_vars(Work(w))

-----------------------------------------------------------------------------
(* Properties. *)

\* Every variable keeps its type: among others a call in progress is for a
\* batch that exists.
TypeOK ==
  /\ indices \in [1..N -> Samples]
  /\ main \in {"idle", "swap", "spawn", "join"}
  /\ call \in BatchIds /\ cursor \in Nat
  /\ spawned \in 0..Hardware /\ joined \in 0..Hardware
  /\ pc \in [Workers -> {"off", "claim", "decode", "target", "image", "done"}]
  /\ mine \in [Workers -> Nat]
  /\ img \in [Workers -> Nat \cup {None}]
  /\ swap \in 0..N
  /\ main = "swap" => seed \in Seeds

\* indices_ stays a permutation of the split, at every step of a shuffle.
OrderIsPermutation == IsOrder(indices)

Holding(w) == pc[w] \in {"decode", "target", "image"}

\* No two workers ever hold the same slot, and nobody holds a slot outside
\* the batch: the slots are written without a lock.
SlotsNotShared ==
  \A w \in Workers : Holding(w) =>
    /\ mine[w] < Count(call) /\ mine[w] < cursor
    /\ \A v \in Workers \ {w} : Holding(v) => mine[v] # mine[w]

\* When every thread is joined each slot of the batch has been written, with
\* what a serial decode puts there: torch::stack never sees a hole.
JoinedMeansFilled ==
  main = "join" /\ AllJoined =>
    \A k \in DOMAIN slots : slots[k] = Slot(SampleAt(k))

\* The batches since a reshuffle share no sample, and together they hold the
\* whole split: an epoch sees every sample exactly once, in whatever order
\* the batches are asked for.
EpochCoversSplit ==
  LET delivered == {i \in BatchIds : got[i] # None}
      Held(i) == {got[i][k].index : k \in DOMAIN got[i]}
  IN  /\ \A i, j \in delivered : i # j => Held(i) \cap Held(j) = {}
      /\ delivered = BatchIds => UNION {Held(i) : i \in BatchIds} = Samples

\* The order of an epoch depends on its seed alone, not on the epochs before:
\* a resumed run sees the batches the interrupted one would have seen.
SameSeedSameOrder ==
  main = "idle" /\ seed # None => seen[seed] = indices

\* The parallel loader implements the serial one.
ImplementsSerialLoader == Serial!Spec

\* A call of At or Reshuffle returns.
CallsReturn == main # "idle" ~> main = "idle"

-----------------------------------------------------------------------------
(* The inductive invariant behind the safety properties. *)

Active == main \in {"spawn", "join"}

\* Outside of At there are no workers, slots or claims.
RestInv ==
  ~Active => /\ cursor = 0 /\ spawned = 0 /\ joined = 0 /\ slots = <<>>
             /\ \A w \in Workers : pc[w] = "off"

\* The pool: workers 1..spawned are started in order and joined in order.
PoolInv ==
  Active =>
    /\ slots = [k \in 0..(Count(call) - 1) |-> slots[k]]
    /\ joined <= spawned /\ spawned <= Threads(Count(call))
    /\ main = "spawn" => joined = 0
    /\ main = "join" => spawned = Threads(Count(call))
    /\ \A w \in Workers : pc[w] # "off" <=> joined < w /\ w <= spawned

\* The cursor: a slot is claimed once, and a worker stops, and so is joined,
\* only when all of them are claimed.
ClaimInv ==
  Active =>
    /\ SlotsNotShared
    /\ joined > 0 => cursor >= Count(call)
    /\ \A w \in Workers : pc[w] = "done" => cursor >= Count(call)

\* What a slot holds, by how far its worker has come.
Half(s) == [EmptySlot EXCEPT !.target = Slot(s).target]
SlotInv ==
  Active =>
    /\ \A w \in Workers :
         /\ pc[w] \in {"decode", "target"} => slots[mine[w]] = EmptySlot
         /\ pc[w] = "target" =>
              img[w] = IF SampleAt(mine[w]) \in Decodable
                       THEN SampleAt(mine[w]) + 1 ELSE None
         /\ pc[w] = "image" => /\ slots[mine[w]] = Half(SampleAt(mine[w]))
                               /\ img[w] = Slot(SampleAt(mine[w])).image
    /\ \A k \in DOMAIN slots :
         IF k >= cursor THEN slots[k] = EmptySlot
         ELSE \/ slots[k] = Slot(SampleAt(k))
              \/ \E w \in Workers : Holding(w) /\ mine[w] = k

\* What was returned is what a serial decode of the current order gives.
GotInv ==
  /\ got = [i \in BatchIds |-> got[i]]
  /\ main = "swap" => got = Nothing
  /\ \A i \in BatchIds : got[i] # None => got[i] = Batch(indices, i)

LoaderInv == OrderIsPermutation /\ RestInv /\ PoolInv /\ ClaimInv /\ SlotInv /\ GotInv
=============================================================================
