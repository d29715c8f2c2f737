------------------------------ MODULE Denoising ------------------------------
(***************************************************************************)
(* The denoising queries of a batch.  An image is the sequence of the      *)
(* labels of its objects.  A noised box is known by the object it was made *)
(* of and by whether it stays near it (a positive) or not (a contrastive   *)
(* negative); where it lands and which labels are flipped is not modelled. *)
(* Queries, slots and groups count from zero, images and objects from one. *)
(***************************************************************************)
EXTENDS Integers, Sequences, FiniteSets

Absent == [of |-> 0, near |-> FALSE]

NoDenoising == [active |-> FALSE, groups |-> 0, gw |-> 0, num_dn |-> 0]

MaxLen(images) ==
  CHOOSE n \in {Len(images[b]) : b \in DOMAIN images} : \A b \in DOMAIN images : Len(images[b]) <= n

(* The slot of an object's query among those of its group                   *)
Positive(base, t) == base + t - 1
Negative(base, t, t_pad) == base + t_pad + t - 1

(* What is in slot s of an image of T objects: the box it was noised from,  *)
(* and the object the loss is to hold it against (tgt_index; 0 is the code's *)
(* -1, where pad_mask is false).                                            *)
Noised(s, T, G, gw, t_pad, contrastive) ==
  LET positives == {t \in 1..T : \E g \in 0..G - 1 : s = Positive(g * gw, t)}
      negatives == {t \in 1..T : contrastive /\ \E g \in 0..G - 1 : s = Negative(g * gw, t, t_pad)}
  IN  CASE positives # {} -> [of |-> CHOOSE t \in positives : TRUE, near |-> TRUE]
        [] positives = {} /\ negatives # {} -> [of |-> CHOOSE t \in negatives : TRUE, near |-> FALSE]
        [] OTHER -> Absent

(* Mutant: the rows of tgt_index in steps of the image's own objects.       *)
TgtIndexUnpadded(s, T, G, gw) ==
  LET targets == {t \in 1..T : \E g \in 0..G - 1 : s = Positive(g * T, t)}
  IN  IF targets = {} THEN 0 ELSE CHOOSE t \in targets : TRUE

TgtIndex(s, T, G, gw) ==
  LET targets == {t \in 1..T : \E g \in 0..G - 1 : s = Positive(g * gw, t)}
  IN  IF targets = {} THEN 0 ELSE CHOOSE t \in targets : TRUE

MakeDenoising(images, dn_number, contrastive) ==
  LET t_pad == MaxLen(images)
      G == dn_number
      gw == (IF contrastive THEN 2 ELSE 1) * t_pad
      num_dn == G * gw
  IN  IF t_pad = 0 \/ G <= 0 THEN NoDenoising
      ELSE [active |-> TRUE, groups |-> G, gw |-> gw, num_dn |-> num_dn,
            dn_ref |-> [b \in DOMAIN images |->
                          [s \in 0..num_dn - 1 |->
                             Noised(s, Len(images[b]), G, gw, t_pad, contrastive)]],
            tgt_index |-> [b \in DOMAIN images |->
                             [s \in 0..num_dn - 1 |-> TgtIndex(s, Len(images[b]), G, gw)]]]

(* Mutant: a group is only kept from the groups after it.                   *)
BlockedForward(dn, q, k) ==
  LET InGroup(s, i) == s \in i * dn.gw..(i + 1) * dn.gw - 1
  IN  \/ q >= dn.num_dn /\ k < dn.num_dn
      \/ \E i \in 0..dn.groups - 1 :
           /\ InGroup(q, i)
           /\ \/ k >= dn.num_dn
              \/ \E j \in i + 1..dn.groups - 1 : InGroup(k, j)

(* attn_mask: query q may not attend to query k                             *)
Blocked(dn, q, k) ==
  LET InGroup(s, i) == s \in i * dn.gw..(i + 1) * dn.gw - 1
  IN  \/ q >= dn.num_dn /\ k < dn.num_dn
      \/ \E i \in 0..dn.groups - 1 :
           /\ InGroup(q, i)
           /\ \/ k >= dn.num_dn
              \/ \E j \in 0..dn.groups - 1 : j # i /\ InGroup(k, j)

(* The pairs of a denoising query and the object it is held against         *)
BuildDnMatches(dn) ==
  [b \in DOMAIN dn.tgt_index |->
     {<<s, dn.tgt_index[b][s]>> : s \in {i \in 0..dn.num_dn - 1 : dn.tgt_index[b][i] > 0}}]
==============================================================================
