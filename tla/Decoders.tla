------------------------------ MODULE Decoders ------------------------------
(***************************************************************************)
(* The transformer layers, each with the views of its tensors that can     *)
(* fail.  A block of queries is a map as wide as the decoder whose rows    *)
(* are the queries; the memory is the sequence of levels whose tokens are  *)
(* flattened one level after the other.                                    *)
(***************************************************************************)
EXTENDS Necks

Tokens(levels) ==
  LET n[i \in 0..Len(levels)] == IF i = 0 THEN 0 ELSE n[i - 1] + levels[i].h * levels[i].w
  IN  n[Len(levels)]

Flat(levels, d) ==
  IF \A i \in DOMAIN levels : levels[i].c = d THEN Map(d, Tokens(levels), 1) ELSE Threw

------------------------------------------------------------------------------
(* Attention over the memory of several levels.                             *)

(* The offsets are a view by n_levels, so are the reference points; the     *)
(* value is split at the sizes of the levels.                               *)
MSDeformAttnCore(value, levels, d) == IF value.h = Tokens(levels) THEN Map(d, value.h, 1) ELSE Threw

MSDeformAttn(query, levels, d, n_levels, heads) ==
  LET value == Linear(Flat(levels, d), d, d)
  IN  IF d % heads = 0 /\ Len(levels) = n_levels /\ MSDeformAttnCore(value, levels, d) # Threw
      THEN Linear(query, d, d) ELSE Threw

(* D-FINE shares one value, split by head and by level, among its layers;   *)
(* the points are split by level, so there is a level for every entry of    *)
(* num_points.                                                              *)
DeformCore(levels, d, heads) == d % heads = 0 /\ Flat(levels, d) # Threw

DfMSDeform(query, levels, d, n_levels, heads) ==
  IF DeformCore(levels, d, heads) /\ Len(levels) = n_levels THEN Linear(query, d, d) ELSE Threw

------------------------------------------------------------------------------
(* Attention over the memory of one level.                                  *)

DecoupledMultiHeadAttn(q, k, v, nhead) ==
  IF q.c = k.c /\ q.c % nhead = 0 /\ v.c > 0 /\ v.c % nhead = 0 /\ k.h = v.h
  THEN Map(v.c, q.h, q.w) ELSE Threw

(* Row-column decoupled attention keeps the memory as a map                 *)
Rcda(query, src, d, nhead) ==
  IF d % nhead = 0 /\ src.c = d THEN Linear(query, d, d) ELSE Threw

------------------------------------------------------------------------------
(* Encoder layers.                                                          *)

EncoderLayer(src, d, heads) == Linear(Attention(src, d, heads), d, d)

DabEncoderLayer(src, d, heads) ==
  Linear(Attention(Linear(src, d, d), d, heads), d, d)

AnchorEncoderLayer(src, d, heads) == Linear(Plus(src, Rcda(src, src, d, heads)), d, d)

(* The deformable encoders attend over every level and keep their sizes.    *)
DeformableEncoderLayer(levels, d, n_levels, heads) ==
  IF MSDeformAttn(Flat(levels, d), levels, d, n_levels, heads) = Threw
  THEN [i \in DOMAIN levels |-> Threw] ELSE levels

------------------------------------------------------------------------------
(* Decoder layers: self-attention among the queries, attention into the     *)
(* memory, a feed-forward network.                                          *)

DetrDecoderLayer(tgt, memory, d, heads) ==
  LET sa == Plus(tgt, Attention(tgt, d, heads))
      ca == Plus(sa, IF memory.c = d THEN Attention(sa, d, heads) ELSE Threw)
  IN  Plus(ca, Linear(ca, d, d))

(* The content and the position of a query stand next to each other in the  *)
(* second attention, twice as wide as the decoder.                          *)
CondDecoderLayer(tgt, memory, d, heads) ==
  LET x == Linear(tgt, d, d)
      sa == Plus(tgt, Linear(DecoupledMultiHeadAttn(x, x, x, heads), d, d))
      keys == Linear(memory, d, d)
      tokens == IF keys = Threw THEN Threw ELSE Map(d, keys.h * keys.w, 1)
      Twice(y) == IF y.c % heads = 0 THEN Map(2 * y.c, y.h, y.w) ELSE Threw
      ca == Plus(sa, Linear(DecoupledMultiHeadAttn(Twice(sa), Twice(tokens), tokens, heads), d, d))
  IN  Plus(ca, Linear(ca, d, d))

AnchorDecoderLayer(tgt, memory, d, heads) ==
  LET sa == Plus(tgt, Attention(Linear(tgt, d, d), d, heads))
      ca == Plus(sa, Rcda(sa, memory, d, heads))
  IN  Linear(ca, d, d)

DeformableDecoderLayer(tgt, levels, d, n_levels, heads) ==
  LET sa == Plus(tgt, Attention(tgt, d, heads))
      ca == Plus(sa, MSDeformAttn(sa, levels, d, n_levels, heads))
  IN  Plus(ca, Linear(ca, d, d))

(* The layer of the shared head.                                            *)
DeformDecoderLayer(tgt, levels, d, n_levels, heads) ==
  LET sa == Plus(tgt, Attention(tgt, d, heads))
      ca == Plus(sa, MSDeformAttn(sa, levels, d, n_levels, heads))
  IN  Plus(ca, Linear(ca, d, d))

(* Heads of 32 among the queries, of 16 into the memory.                    *)
RfDecoderLayer(tgt, levels, d, n_levels) ==
  LET sa == Plus(tgt, Linear(Attention(Linear(tgt, d, d), d, d \div 32), d, d))
      ca == Plus(sa, MSDeformAttn(sa, levels, d, n_levels, d \div 16))
  IN  Plus(ca, Linear(ca, d, d))

(* The gate mixes what the layer had with what it attended to; the micro    *)
(* DEIMv2 nets add the two.                                                 *)
DfGate(x1, x2, d) == Linear(Map(x1.c + x2.c, x1.h, x1.w), 2 * d, d)

DfDecLayer(tgt, levels, d, n_levels, heads, gateway) ==
  LET sa == Plus(tgt, Attention(tgt, d, heads))
      cross == DfMSDeform(sa, levels, d, n_levels, heads)
      ca == IF gateway THEN DfGate(sa, cross, d) ELSE Plus(sa, cross)
  IN  Plus(ca, Linear(ca, d, d))
==============================================================================
