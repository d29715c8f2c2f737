---------------------------- MODULE EpochBatches -----------------------------
(***************************************************************************)
(* The batches of an epoch (src/data/loader.cpp): which positions of the   *)
(* epoch's order a batch takes, and what a collated slot of it holds.      *)
(***************************************************************************)
EXTENDS Naturals, Sequences

CONSTANTS Split,        \* IndicesOf(split): its sample indices, ascending
          BatchSize,    \* --batch
          Decodable,    \* the samples whose image can be decoded
          Boxes,        \* sample -> its boxes, each [class, crowd]
          None          \* not a value of the program: nothing there yet

ASSUME SplitAssumption == /\ Split \in Seq(Nat) /\ Len(Split) # 0
                          /\ \A i, j \in 1..Len(Split) : i < j => Split[i] < Split[j]
ASSUME BatchAssumption == BatchSize \in Nat \ {0}
ASSUME NoneAssumption  == None \notin Nat

N == Len(Split)
Samples == {Split[i] : i \in 1..N}

\* Mutant: a partial last batch is dropped.
FloorBatches == N \div BatchSize
\* DataLoader::NumBatches: the last batch may be partial.
NumBatches == (N + BatchSize - 1) \div BatchSize
BatchIds   == 0..(NumBatches - 1)

Begin(i) == i * BatchSize
End(i)   == IF Begin(i) + BatchSize < N THEN Begin(i) + BatchSize ELSE N
Count(i) == End(i) - Begin(i)

\* TargetFromSample: crowd boxes are never training targets.
Target(s) == SelectSeq(Boxes[s], LAMBDA b : ~b.crowd)

\* A slot of a batch: an image that cannot be decoded becomes a blank one
\* (0 stands for it, s + 1 for the pixels of sample s) without targets.
Slot(s) == [target |-> IF s \in Decodable THEN Target(s) ELSE <<>>,
            image  |-> IF s \in Decodable THEN s + 1 ELSE 0,
            index  |-> s]

\* A permutation of the split.
IsOrder(o) == /\ o \in [1..N -> Samples]
              /\ \A i, j \in 1..N : i # j => o[i] # o[j]
              /\ \A s \in Samples : \E i \in 1..N : o[i] = s

Batch(o, i) == [k \in 0..(Count(i) - 1) |-> Slot(o[Begin(i) + k + 1])]

\* No batch was returned yet.
Nothing == [i \in BatchIds |-> None]
=============================================================================
