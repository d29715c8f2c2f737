-------------------------------- MODULE Necks --------------------------------
(***************************************************************************)
(* The necks: what stands between a backbone and a decoder.  Each takes    *)
(* the maps of the backbone and gives the levels the decoder attends to,   *)
(* all of the decoder's width.  As in Backbones, a constructor and its     *)
(* forward are one operator.                                               *)
(***************************************************************************)
EXTENDS Backbones

Same(x, in, out, k, s) == Conv(x, in, out, k, s, (k - 1) \div 2)

------------------------------------------------------------------------------
(* Projections of the maps, one 1x1 convolution each, and extra levels of   *)
(* half the size below them.                                                *)

Projected(xs, widths, d) == [i \in DOMAIN xs |-> Same(xs[i], widths[i], d, 1, 1)]

(* Deformable-DETR and DINO: the first extra level is made of C5, the later *)
(* ones of the level above.                                                 *)
DeformableLevels(xs, d, levels) ==
  LET Level[i \in 1..levels] ==
        GroupNorm(CASE i <= 3 -> Conv(xs[i], FeatureChannels([bottleneck |-> TRUE])[i], d, 1, 1, 0)
                    [] i = 4 -> Conv(xs[3], 2048, d, 3, 2, 1)
                    [] OTHER -> Conv(Level[i - 1], d, d, 3, 2, 1))
  IN  [i \in 1..levels |-> Level[i]]

(* RF-DETR: every level below the first is made of the one above.           *)
StridedLevels(x, embed, d, levels) ==
  LET Level[i \in 1..levels] ==
        GroupNorm(IF i = 1 THEN Conv(x, embed, d, 1, 1, 0) ELSE Conv(Level[i - 1], d, d, 3, 2, 1))
  IN  [i \in 1..levels |-> Level[i]]

------------------------------------------------------------------------------
(* The blocks of the pyramids.                                              *)

(* RepVgg and DfVgg: a 3x3 and a 1x1, summed                                *)
RepVgg(x, c) == Plus(Same(x, c, c, 3, 1), Same(x, c, c, 1, 1))

CSPRep(x, in, out, blocks, hidden) ==
  LET Next(y) == RepVgg(y, hidden)
      y == Plus(Repeat(blocks, Same(x, in, hidden, 1, 1), Next), Same(x, in, hidden, 1, 1))
  IN  IF hidden = out THEN y ELSE Same(y, hidden, out, 1, 1)

(* DfCSPLayer2: one convolution, split in halves, one of them refined       *)
DfCSPLayer2(x, in, out, blocks) ==
  LET y == Same(x, in, 2 * out, 1, 1)
      half == IF y = Threw THEN Threw ELSE Map(CeilDiv(y.c, 2), y.h, y.w)
      Next(z) == RepVgg(z, out)
  IN  Plus(half, Repeat(blocks, half, Next))

(* DfRepNCSPELAN4: the input split in two, two chains off the second half,  *)
(* all four concatenated.                                                   *)
DfRepNCSPELAN4(x, c1, c2, c3, c4, n, csp2, repelan5) ==
  LET y == Same(x, c1, c3, 1, 1)
      half == IF y = Threw THEN Threw ELSE Map(c3 \div 2, y.h, y.w)
      Chain(z, in) ==
        LET refined == IF csp2 THEN DfCSPLayer2(z, in, c4, n) ELSE CSPRep(z, in, c4, n, c4)
        IN  IF repelan5 THEN refined ELSE Same(refined, c4, c4, 3, 1)
      y2 == Chain(half, c3 \div 2)
  IN  Same(Cat(<<half, half, y2, Chain(y2, c4)>>), c3 + 2 * c4, c2, 1, 1)

DfSCDown(x, c1, c2, k, s) == Same(Same(x, c1, c2, 1, 1), c2, c2, k, s)

(* The transformer layers over one level                                    *)
AIFI(x, d, heads, layers) ==
  LET Next(y) == Attention(y, d, heads) IN Repeat(layers, QuarterWidth(x), Next)

(* The two passes of a feature pyramid, down from the coarsest level and up *)
(* again: what is fused must meet at the same size.                         *)
Pyramid(proj, d, Fuse(_, _), Block(_), Down(_)) ==
  LET L == Len(proj)
      inner[i \in 1..L] ==
        IF i = L THEN proj[L]
        ELSE Block(Fuse(Upsample2(Same(inner[i + 1], d, d, 1, 1)), proj[i]))
      lateral == [i \in 2..L |-> Same(inner[i], d, d, 1, 1)]
      outs[i \in 1..L] ==
        IF i = 1 THEN inner[1] ELSE Block(Fuse(Down(outs[i - 1]), lateral[i]))
  IN  [i \in 1..L |-> outs[i]]

------------------------------------------------------------------------------
(* RtDetrImpl::Encode behind the backbone; e = [d, width, heads, layers,    *)
(* expansion (hundredths)].                                                 *)
RtEncode(feats, channels, e) ==
  LET proj == Projected(feats, channels, e.width)
      topped == [i \in DOMAIN proj |->
                   IF i = Len(proj) THEN AIFI(proj[i], e.width, e.heads, e.layers) ELSE proj[i]]
      Fuse(a, b) == Cat(<<a, b>>)
      Block(x) == CSPRep(x, 2 * e.width, e.width, 3, (e.width * e.expansion) \div 100)
      Down(x) == Same(x, e.width, e.width, 3, 2)
      outs == Pyramid(topped, e.width, Fuse, Block, Down)
  IN  Projected(outs, [i \in DOMAIN outs |-> e.width], e.d)

(* round(3 * depth_mult) and floor(expansion * hidden_dim / 2), from        *)
(* hundredths                                                               *)
ElanBlocks(e) == (3 * e.depth + 50) \div 100
ElanWidth(e) == (e.width * e.expansion) \div 200

InputProj(x, in, d, allowIdentity) ==
  IF allowIdentity /\ in = d THEN x ELSE Conv(x, in, d, 1, 1, 0)

(* DfHybridEncoder; e = [width, heads, layers, expansion, depth, refined    *)
(* (use_encoder_idx, from one), deimv2, repelan5].  DEIMv2 sums what the    *)
(* others concatenate.                                                      *)
DfHybridEncoder(feats, channels, e) ==
  LET proj == [i \in DOMAIN feats |-> InputProj(feats[i], channels[i], e.width, e.deimv2)]
      topped == [i \in DOMAIN proj |->
                   IF i \in e.refined THEN AIFI(proj[i], e.width, e.heads, e.layers) ELSE proj[i]]
      fuseIn == IF e.deimv2 THEN e.width ELSE 2 * e.width
      Fuse(a, b) == IF e.deimv2 THEN Plus(a, b) ELSE Cat(<<a, b>>)
      Block(x) == DfRepNCSPELAN4(x, fuseIn, e.width, 2 * e.width, ElanWidth(e), ElanBlocks(e),
                                 e.deimv2, e.repelan5)
      Down(x) == DfSCDown(x, e.width, e.width, 3, 2)
  IN  Pyramid(topped, e.width, Fuse, Block, Down)

LiteDown(x, d) == Conv(Pool3(x), d, d, 1, 1, 0)

DfGapFusion(x, d) == Same(Plus(x, Map(x.c, 1, 1)), d, d, 1, 1)

DfLiteEncoder(x, in, e) ==
  LET proj == InputProj(x, in, e.width, TRUE)
      ds1 == DfGapFusion(LiteDown(proj, e.width), e.width)
      Block(y) == DfRepNCSPELAN4(y, e.width, e.width, 2 * e.width, ElanWidth(e), ElanBlocks(e), TRUE, FALSE)
      out0 == Block(Plus(proj, Upsample2(ds1)))
  IN  <<out0, Block(Plus(ds1, LiteDown(out0, e.width)))>>

------------------------------------------------------------------------------
(* The projectors of RF-DETR and LW-DETR over the maps of a transformer.    *)

C2f(x, c1, c2, n) ==
  LET c == c2 \div 2
      y == Same(x, c1, 2 * c, 1, 1)
      part[i \in 1..2 + n] ==
        IF i <= 2 THEN (IF y = Threw THEN Threw ELSE Map(c, y.h, y.w))
                  ELSE Same(Same(part[i - 1], c, c, 3, 1), c, c, 3, 1)
  IN  Same(Cat([i \in 1..2 + n |-> part[i]]), (2 + n) * c, c2, 1, 1)

RfDetrProjector(feats, in, out) == C2f(Cat(feats), Len(feats) * in, out, 3)

SamplingLayer(x, in, scale) ==
  CASE scale = "double" /\ in > 512 -> ConvTranspose(Same(x, in, in \div 2, 1, 1), in \div 2, in \div 4)
    [] scale = "double" /\ in <= 512 -> ConvTranspose(x, in, in \div 2)
    [] OTHER -> Same(x, in, in, 3, 2)

(* Mutant: one width for every "double" scale.                              *)
ScaleProjectorHalved(feats, in, out, scale) ==
  C2f(Cat([f \in DOMAIN feats |-> SamplingLayer(feats[f], in, scale)]),
      (IF scale = "double" THEN in \div 2 ELSE in) * Len(feats), out, 3)

ScaleProjector(feats, in, out, scale) ==
  LET interm == CASE scale = "double" /\ in > 512 -> in \div 4
                  [] scale = "double" /\ in <= 512 -> in \div 2
                  [] OTHER -> in
  IN  C2f(Cat([f \in DOMAIN feats |-> SamplingLayer(feats[f], in, scale)]),
          interm * Len(feats), out, 3)

LwDetrMultiScaleProjector(feats, in, out, scales) ==
  [l \in DOMAIN scales |-> ScaleProjector(feats, in, out, scales[l])]
==============================================================================
