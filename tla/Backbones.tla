------------------------------ MODULE Backbones ------------------------------
(***************************************************************************)
(* The backbones: what each makes of an image.  A constructor and its      *)
(* forward are one operator here: the widths a constructor gives its       *)
(* layers are the arguments the layers are applied with, so a width that   *)
(* does not meet the map it is applied to throws.                          *)
(***************************************************************************)
EXTENDS Layers

------------------------------------------------------------------------------
(* The plain convolutional backbone of "detr": a stem and four stages.      *)

ConvStage(x, in, out, stride) == Conv(Conv(x, in, out, 3, stride, 1), out, out, 3, 1, 1)

ConvBackbone(image, w0) ==
  LET stem == Pool3(Conv(image, 3, w0, 7, 2, 3))
      s1 == ConvStage(stem, w0, w0, 1)
      s2 == ConvStage(s1, w0, 2 * w0, 2)
      s3 == ConvStage(s2, 2 * w0, 4 * w0, 2)
  IN  ConvStage(s3, 4 * w0, 8 * w0, 2)

------------------------------------------------------------------------------
(* ResNet: Bottleneck (50, 101) and BasicBlock (18, 34).                    *)

Shortcut(x, in, out, stride, down, avgDown) ==
  CASE ~down -> x
    [] down /\ avgDown /\ stride > 1 -> Conv(Pool2Ceil(x), in, out, 1, 1, 0)
    [] OTHER -> Conv(x, in, out, 1, stride, 0)

Bottleneck(x, in, planes, stride, down, dilation, avgDown) ==
  LET narrow == Conv(x, in, planes, 1, 1, 0)
      spatial == Conv(narrow, planes, planes, 2 * dilation + 1, stride, dilation)
  IN  Plus(Conv(spatial, planes, 4 * planes, 1, 1, 0), Shortcut(x, in, 4 * planes, stride, down, avgDown))

BasicBlock(x, in, planes, stride, down, dilation, avgDown) ==
  LET first == Conv(x, in, planes, 2 * dilation + 1, stride, dilation)
  IN  Plus(Conv(first, planes, planes, 2 * dilation + 1, 1, dilation),
           Shortcut(x, in, planes, stride, down, avgDown))

(* A dilated stage dilates its second block and those after it only.        *)
BottleneckLayer(x, in, planes, blocks, stride, dilation, avgDown) ==
  LET Next(y) == Bottleneck(y, 4 * planes, planes, 1, FALSE, dilation, avgDown)
  IN  Repeat(blocks - 1, Bottleneck(x, in, planes, stride, TRUE, 1, avgDown), Next)

BasicLayer(x, in, planes, blocks, stride, dilation, avgDown) ==
  LET Next(y) == BasicBlock(y, planes, planes, 1, FALSE, dilation, avgDown)
      down == avgDown \/ stride # 1 \/ in # planes
  IN  Repeat(blocks - 1, BasicBlock(x, in, planes, stride, down, 1, avgDown), Next)

ResNetStem(image, deep) ==
  Pool3(IF deep THEN Conv(Conv(Conv(image, 3, 32, 3, 2, 1), 32, 32, 3, 1, 1), 32, 64, 3, 1, 1)
                ELSE Conv(image, 3, 64, 7, 2, 3))

(* forward_features: C3, C4 and C5; forward gives the last of them.         *)
ResNet(image, r) ==
  LET Layer(x, in, planes, i, stride, dilation) ==
        IF r.bottleneck THEN BottleneckLayer(x, in, planes, r.blocks[i], stride, dilation, r.avgDown)
                        ELSE BasicLayer(x, in, planes, r.blocks[i], stride, dilation, r.avgDown)
      e == IF r.bottleneck THEN 4 ELSE 1
      c2 == Layer(ResNetStem(image, r.deepStem), 64, 64, 1, 1, 1)
      c3 == Layer(c2, 64 * e, 128, 2, 2, 1)
      c4 == Layer(c3, 128 * e, 256, 3, 2, 1)
      c5 == Layer(c4, 256 * e, 512, 4, IF r.dc5 THEN 1 ELSE 2, IF r.dc5 THEN 2 ELSE 1)
  IN  <<c3, c4, c5>>

FeatureChannels(r) == IF r.bottleneck THEN <<512, 1024, 2048>> ELSE <<128, 256, 512>>

------------------------------------------------------------------------------
(* HGNetv2                                                                  *)

HgConv(x, in, out, k, s) == Conv(x, in, out, k, s, (k - 1) \div 2)
HgLightConv(x, in, out, k) == HgConv(HgConv(x, in, out, 1, 1), out, out, k, 1)

(* Mutant: without the padding before the two-by-two convolutions.          *)
HgStemUnpadded(image, in, mid, out) ==
  LET a == HgConv(image, in, mid, 3, 2)
      b == HgConv(HgConv(a, mid, mid \div 2, 2, 1), mid \div 2, mid, 2, 1)
  IN  HgConv(HgConv(Cat(<<Pool2(a), b>>), 2 * mid, mid, 3, 2), mid, out, 1, 1)

(* The two-by-two convolutions of the stem lose a row and a column, which   *)
(* the padding before them has added.                                       *)
HgStem(image, in, mid, out) ==
  LET a == Pad(HgConv(image, in, mid, 3, 2), 1, 1)
      b == HgConv(Pad(HgConv(a, mid, mid \div 2, 2, 1), 1, 1), mid \div 2, mid, 2, 1)
  IN  HgConv(HgConv(Cat(<<Pool2(a), b>>), 2 * mid, mid, 3, 2), mid, out, 1, 1)

HgBlock(x, in, mid, out, layers, k, residual, light) ==
  LET y[i \in 0..layers] ==
        IF i = 0 THEN x
        ELSE LET from == IF i = 1 THEN in ELSE mid
             IN  IF light THEN HgLightConv(y[i - 1], from, mid, k) ELSE HgConv(y[i - 1], from, mid, k, 1)
      all == Cat([i \in 1..layers + 1 |-> y[i - 1]])
      z == HgConv(HgConv(all, in + layers * mid, out \div 2, 1, 1), out \div 2, out, 1, 1)
  IN  IF residual THEN Plus(z, x) ELSE z

HgStage(x, s) ==
  LET down == IF s.down THEN HgConv(x, s.in, s.in, 3, 2) ELSE x
      Next(y) == HgBlock(y, s.out, s.mid, s.out, s.layers, s.k, TRUE, s.light)
  IN  Repeat(s.blocks - 1, HgBlock(down, s.in, s.mid, s.out, s.layers, s.k, FALSE, s.light), Next)

HgRow(in, mid, out, blocks, layers, k, down, light) ==
  [in |-> in, mid |-> mid, out |-> out, blocks |-> blocks, layers |-> layers, k |-> k,
   down |-> down, light |-> light]

HgArch(variant) ==
  CASE variant = "B0" -> [stem |-> <<3, 16, 16>>, stages |-> <<
         HgRow(16, 16, 64, 1, 3, 3, FALSE, FALSE), HgRow(64, 32, 256, 1, 3, 3, TRUE, FALSE),
         HgRow(256, 64, 512, 2, 3, 5, TRUE, TRUE), HgRow(512, 128, 1024, 1, 3, 5, TRUE, TRUE)>>]
    [] variant = "B2" -> [stem |-> <<3, 24, 32>>, stages |-> <<
         HgRow(32, 32, 96, 1, 4, 3, FALSE, FALSE), HgRow(96, 64, 384, 1, 4, 3, TRUE, FALSE),
         HgRow(384, 128, 768, 3, 4, 5, TRUE, TRUE), HgRow(768, 256, 1536, 1, 4, 5, TRUE, TRUE)>>]
    [] variant = "B4" -> [stem |-> <<3, 32, 48>>, stages |-> <<
         HgRow(48, 48, 128, 1, 6, 3, FALSE, FALSE), HgRow(128, 96, 512, 1, 6, 3, TRUE, FALSE),
         HgRow(512, 192, 1024, 3, 6, 5, TRUE, TRUE), HgRow(1024, 384, 2048, 1, 6, 5, TRUE, TRUE)>>]
    [] variant = "B5" -> [stem |-> <<3, 32, 64>>, stages |-> <<
         HgRow(64, 64, 128, 1, 6, 3, FALSE, FALSE), HgRow(128, 128, 512, 2, 6, 3, TRUE, FALSE),
         HgRow(512, 256, 1024, 5, 6, 5, TRUE, TRUE), HgRow(1024, 512, 2048, 2, 6, 5, TRUE, TRUE)>>]
    [] variant = "Atto" -> [stem |-> <<3, 16, 16>>, stages |-> <<
         HgRow(16, 16, 64, 1, 3, 3, FALSE, FALSE), HgRow(64, 32, 256, 1, 3, 3, TRUE, FALSE),
         HgRow(256, 64, 256, 1, 3, 3, TRUE, TRUE)>>]
    [] variant = "Femto" -> [stem |-> <<3, 16, 16>>, stages |-> <<
         HgRow(16, 16, 64, 1, 3, 3, FALSE, FALSE), HgRow(64, 32, 256, 1, 3, 3, TRUE, FALSE),
         HgRow(256, 64, 512, 1, 3, 5, TRUE, TRUE)>>]
    [] variant = "Pico" -> [stem |-> <<3, 16, 16>>, stages |-> <<
         HgRow(16, 16, 64, 1, 3, 3, FALSE, FALSE), HgRow(64, 32, 256, 1, 3, 3, TRUE, FALSE),
         HgRow(256, 64, 512, 2, 3, 5, TRUE, TRUE)>>]

(* return_idx counts the stages from zero, in ascending order.              *)
HgNetV2(image, variant, returnIdx) ==
  LET arch == HgArch(variant)
      y[i \in 0..Len(arch.stages)] ==
        IF i = 0 THEN HgStem(image, arch.stem[1], arch.stem[2], arch.stem[3])
                 ELSE HgStage(y[i - 1], arch.stages[i])
  IN  [j \in DOMAIN returnIdx |-> y[returnIdx[j] + 1]]

HgChannels(variant, returnIdx) == [j \in DOMAIN returnIdx |-> HgArch(variant).stages[returnIdx[j] + 1].out]

------------------------------------------------------------------------------
(* Vision transformers.  A patch embedding drops the pixels beyond the last *)
(* whole patch.                                                             *)

PatchEmbed(image, embed, patch) == Conv(image, 3, embed, patch, patch, 0)

(* SinCos2d splits the width in four *)
QuarterWidth(x) == IF x.c % 4 = 0 THEN x ELSE Threw

ViT(image, embed, depth, heads, patch) ==
  LET Block(y) == Attention(y, embed, heads)
  IN  Repeat(depth, QuarterWidth(PatchEmbed(image, embed, patch)), Block)

(* The windows of Dinov2Windowed and LwDetrViT: nw a side.  The view into   *)
(* windows keeps every token only when both extents divide evenly.          *)
Windows(x, nw) == IF x.h % nw = 0 /\ x.w % nw = 0 THEN x ELSE Threw

WindowedViT(image, v) ==
  LET Block(y) == Attention(y, v.embed, v.heads)
      y == Repeat(v.last + 1, Windows(PatchEmbed(image, v.embed, v.patch), v.windows), Block)
  IN  [f \in 1..v.feats |-> y]

(* DinoV3Sta: the three outputs of a transformer on the grid of sixteenths, *)
(* resized, next to the maps of the convolutional SpatialPrior.             *)
SpatialPrior(image, inplanes) ==
  LET c1 == Pool3(Conv(image, 3, inplanes, 3, 2, 1))
      c2 == Conv(c1, inplanes, 2 * inplanes, 3, 2, 1)
      c3 == Conv(c2, 2 * inplanes, 4 * inplanes, 3, 2, 1)
  IN  <<c2, c3, Conv(c3, 4 * inplanes, 4 * inplanes, 3, 2, 1)>>

(* The rotary angles are halves of a head, in quarters: head_dim / 4.       *)
RotaryWidth(d, heads) == d % heads = 0 /\ (d \div heads) % 4 = 0

DinoV3Sta(image, s) ==
  LET tokens == PatchEmbed(image, s.embed, s.patch)
      hc == image.h \div 16
      wc == image.w \div 16
      (* reshape({B, -1, h_c, w_c}) of the tokens *)
      grid == IF RotaryWidth(s.embed, s.heads) /\ tokens.h * tokens.w = hc * wc
              THEN Map(s.embed, hc, wc) ELSE Threw
      sem == <<Resize(grid, 2 * hc, 2 * wc), Resize(grid, hc, wc), Resize(grid, hc \div 2, wc \div 2)>>
      detail == SpatialPrior(image, s.inplane)
      extra == <<2 * s.inplane, 4 * s.inplane, 4 * s.inplane>>
  IN  [i \in 1..3 |-> Conv(Cat(<<sem[i], detail[i]>>), s.embed + extra[i], s.hidden, 1, 1, 0)]

------------------------------------------------------------------------------
(* Swin: a stage keeps its map, the downsample after it pads to even        *)
(* extents and gathers the four pixels of every square.                     *)

SwinPatchEmbed(image, patch, embed) ==
  Conv(Map(image.c, CeilDiv(image.h, patch) * patch, CeilDiv(image.w, patch) * patch), 3, embed, patch, patch, 0)

SwinPatchMerging(x, dim) ==
  Linear(Map(4 * x.c, CeilDiv(x.h, 2), CeilDiv(x.w, 2)), 4 * dim, 2 * dim)

SwinFeatures(s) ==
  [i \in DOMAIN s.depths |->
     IF s.dilation /\ i = Len(s.depths) THEN (s.embed * 2^(i - 1)) \div 2 ELSE s.embed * 2^(i - 1)]

SwinHasDown(s, i) == i < Len(s.depths) /\ ~(s.dilation /\ i = Len(s.depths) - 1)

Swin(image, s) ==
  LET dims == SwinFeatures(s)
      in[i \in DOMAIN s.depths] ==
        IF i = 1 THEN SwinPatchEmbed(image, s.patch, s.embed)
        ELSE LET out == Attention(in[i - 1], dims[i - 1], s.heads[i - 1])
             IN  IF SwinHasDown(s, i - 1) THEN SwinPatchMerging(out, dims[i - 1]) ELSE out
  IN  [i \in DOMAIN s.depths |-> Attention(in[i], dims[i], s.heads[i])]
==============================================================================
