------------------------------- MODULE Layers -------------------------------
(***************************************************************************)
(* The layers of LibTorch that the networks are built from, by the shapes  *)
(* they take and give.  A feature map is [c, h, w]: its channels, rows and *)
(* columns (the batch goes through unchanged, the values are not           *)
(* modelled).  A call the library refuses with an exception gives Threw,   *)
(* which no later layer takes.                                             *)
(***************************************************************************)
EXTENDS Integers, Sequences, FiniteSets

Map(c, h, w) == [c |-> c, h |-> h, w |-> w]
Threw == Map(0, 0, 0)

Larger(a, b) == IF a < b THEN b ELSE a
CeilDiv(n, k) == (n + k - 1) \div k

(* nn::Conv2d(in, out, k).stride(s).padding(p); a 3x3 of dilation d padded *)
(* by d is the kernel 2d + 1.                                              *)
Conv(x, in, out, k, s, p) ==
  IF x.c = in /\ x.h + 2 * p >= k /\ x.w + 2 * p >= k
  THEN Map(out, (x.h + 2 * p - k) \div s + 1, (x.w + 2 * p - k) \div s + 1)
  ELSE Threw

(* nn::ConvTranspose2d(in, out, 2).stride(2) *)
ConvTranspose(x, in, out) == IF x.c = in THEN Map(out, 2 * x.h, 2 * x.w) ELSE Threw

(* MaxPool2d and AvgPool2d of kernel 3, stride 2 and padding 1 *)
Pool3(x) == Conv(x, x.c, x.c, 3, 2, 1)

(* AvgPool2d(2).stride(2).ceil_mode(true) *)
Pool2Ceil(x) == IF x.c > 0 THEN Map(x.c, CeilDiv(x.h, 2), CeilDiv(x.w, 2)) ELSE Threw

(* MaxPool2d(2).stride(1).ceil_mode(true) *)
Pool2(x) == Conv(x, x.c, x.c, 2, 1, 0)

(* F::pad and constant_pad_nd: rows below, columns to the right *)
Pad(x, rows, cols) == IF x.c > 0 THEN Map(x.c, x.h + rows, x.w + cols) ELSE Threw

(* torch::cat over the channels *)
Cat(xs) ==
  LET Width[i \in 0..Len(xs)] == IF i = 0 THEN 0 ELSE Width[i - 1] + xs[i].c
  IN  IF \A i \in DOMAIN xs : xs[i].c > 0 /\ xs[i].h = xs[1].h /\ xs[i].w = xs[1].w
      THEN Map(Width[Len(xs)], xs[1].h, xs[1].w)
      ELSE Threw

(* The sum of two maps: an extent of 1 is broadcast *)
Fits(a, b) == a = b \/ a = 1 \/ b = 1
Plus(x, y) ==
  IF x.c > 0 /\ y.c > 0 /\ Fits(x.c, y.c) /\ Fits(x.h, y.h) /\ Fits(x.w, y.w)
  THEN Map(Larger(x.c, y.c), Larger(x.h, y.h), Larger(x.w, y.w))
  ELSE Threw

(* F::interpolate by a factor of two, and to a given size *)
Upsample2(x) == IF x.c > 0 THEN Map(x.c, 2 * x.h, 2 * x.w) ELSE Threw
Resize(x, h, w) == IF x.c > 0 /\ h > 0 /\ w > 0 THEN Map(x.c, h, w) ELSE Threw

(* nn::GroupNorm(32, c): the groups share the channels evenly *)
GroupNorm(x) == IF x.c > 0 /\ x.c % 32 = 0 THEN x ELSE Threw

(* nn::Linear and the attention layers over the tokens of a map *)
Linear(x, in, out) == IF x.c = in THEN Map(out, x.h, x.w) ELSE Threw
Attention(x, d, heads) == IF x.c = d /\ d % heads = 0 THEN x ELSE Threw

(* A network of n equal layers, one after the other; each is given a map,   *)
(* not the expression that makes it, which keeps TLC's evaluation shallow.  *)
Repeat(n, x, Layer(_)) ==
  LET y[i \in 0..n] == IF i = 0 THEN x ELSE CHOOSE z \in {Layer(map) : map \in {y[i - 1]}} : TRUE
  IN  y[n]
=============================================================================
