---------------------------- MODULE SerialLoader -----------------------------
(***************************************************************************)
(* What data::DataLoader promises its callers: an order of the split that  *)
(* is replaced only by a reshuffle, and batches that are what one thread   *)
(* decoding the samples in that order would have produced.                 *)
(***************************************************************************)
EXTENDS EpochBatches

VARIABLES order, got
vars == <<order, got>>

Init == order = Split /\ got = Nothing

Reshuffle == IsOrder(order') /\ got' = Nothing

Deliver(i) == /\ got' = [got EXCEPT ![i] = Batch(order, i)]
              /\ UNCHANGED order

Next == Reshuffle \/ \E i \in BatchIds : Deliver(i)

Spec == Init /\ [][Next]_vars
=============================================================================
