------------------------------- MODULE Models -------------------------------
(***************************************************************************)
(* The registered models: what RegisterBuiltins enters in the registry,    *)
(* the configuration each is built with, and what each computes between an *)
(* image and the output of its decoder.  A model is the record of its      *)
(* Config, with the fields of the source; "family" tells which class it    *)
(* is.                                                                     *)
(***************************************************************************)
EXTENDS Decoders, TLC

------------------------------------------------------------------------------
(* What the Config structures share, and what ReadConfig takes from a YAML  *)
(* file.  The models of family "anchor", "dfine" and "rf_real" read none.   *)

Base == [hidden_dim |-> 256, nheads |-> 8, enc_layers |-> 6, dec_layers |-> 6, num_queries |-> 300,
         num_classes |-> 91, num_levels |-> 1, imgsz |-> 640, focal |-> TRUE, denoising |-> FALSE,
         dense_o2m_k |-> 0]

Shared == {"hidden_dim", "nheads", "enc_layers", "dec_layers", "num_queries", "num_classes", "imgsz"}
Reads == [detr |-> Shared \cup {"backbone_width"}, detr_r50 |-> Shared, conditional |-> Shared,
          dab |-> Shared, deformable |-> Shared \cup {"num_levels"}, dino |-> Shared \cup {"num_levels"},
          rt_detr |-> Shared \cup {"num_levels", "backbone", "enc_dim", "hidden_expansion", "dense_o2m_k"},
          rf_detr |-> (Shared \ {"enc_layers"})
                        \cup {"num_levels", "vit_embed", "vit_depth", "vit_heads", "patch"},
          anchor |-> {}, rf_real |-> {}, dfine |-> {}]

R18 == [blocks |-> <<2, 2, 2, 2>>, bottleneck |-> FALSE]
R34 == [blocks |-> <<3, 4, 6, 3>>, bottleneck |-> FALSE]
R50 == [blocks |-> <<3, 4, 6, 3>>, bottleneck |-> TRUE]
R101 == [blocks |-> <<3, 4, 23, 3>>, bottleneck |-> TRUE]

BackboneFor(name) ==
  CASE name = "r18" -> R18 [] name = "r34" -> R34 [] name = "r101" -> R101 [] OTHER -> R50

Plain(r, dc5) == r @@ [dc5 |-> dc5, deepStem |-> FALSE, avgDown |-> FALSE]

------------------------------------------------------------------------------
(* DETR, on the convolutional backbone and on ResNet.                       *)

DetrConfig == [family |-> "detr", backbone_width |-> 64, num_queries |-> 100, focal |-> FALSE] @@ Base

R50Config(r, dc5) ==
  [family |-> "detr_r50", resnet |-> Plain(r, dc5), num_queries |-> 100, focal |-> FALSE] @@ Base

DenseEncode(net, src) ==
  LET Layer(y) == EncoderLayer(y, net.hidden_dim, net.nheads)
  IN  <<Repeat(net.enc_layers, src, Layer)>>

DetrEncode(net, image) ==
  LET w0 == net.backbone_width
  IN  DenseEncode(net, Conv(ConvBackbone(image, w0), 8 * w0, net.hidden_dim, 1, 1, 0))

DetrResNetEncode(net, image) ==
  DenseEncode(net, Conv(ResNet(image, net.resnet)[3], 2048, net.hidden_dim, 1, 1, 0))

------------------------------------------------------------------------------
(* Conditional-DETR, DAB-DETR and DN-DETR, Anchor-DETR.                     *)

ConditionalConfig == [family |-> "conditional", resnet |-> Plain(R50, FALSE)] @@ Base

DabConfig(denoising) ==
  [family |-> "dab", resnet |-> Plain(R50, FALSE), denoising |-> denoising] @@ Base

ConditionalEncode(net, image) ==
  DenseEncode(net, Conv(ResNet(image, net.resnet)[3], 2048, net.hidden_dim, 1, 1, 0))

DabEncode(net, image) ==
  LET Layer(y) == DabEncoderLayer(y, net.hidden_dim, net.nheads)
      src == Conv(ResNet(image, net.resnet)[3], 2048, net.hidden_dim, 1, 1, 0)
  IN  <<Repeat(net.enc_layers, src, Layer)>>

AnchorTransformerConfig == [num_position |-> 300, num_pattern |-> 3]

AnchorConfig(dc5) ==
  [family |-> "anchor", resnet |-> Plain(R50, dc5), imgsz |-> 800,
   num_queries |-> AnchorTransformerConfig.num_pattern * AnchorTransformerConfig.num_position] @@ Base

AnchorEncode(net, image) ==
  LET Layer(y) == AnchorEncoderLayer(y, net.hidden_dim, net.nheads)
      src == GroupNorm(Conv(ResNet(image, net.resnet)[3], 2048, net.hidden_dim, 1, 1, 0))
  IN  <<Repeat(net.enc_layers, src, Layer)>>

------------------------------------------------------------------------------
(* Deformable-DETR and DINO: four levels and a deformable encoder.          *)

DeformableConfig == [family |-> "deformable", resnet |-> Plain(R50, FALSE), num_levels |-> 4] @@ Base

DinoConfig(denoising) ==
  [family |-> "dino", resnet |-> Plain(R50, FALSE), num_levels |-> 4, num_queries |-> 900,
   denoising |-> denoising] @@ Base

DeformableEncode(net, image) ==
  LET Layer(y) == DeformableEncoderLayer(y, net.hidden_dim, net.num_levels, net.nheads)
      srcs == DeformableLevels(ResNet(image, net.resnet), net.hidden_dim, net.num_levels)
  IN  Repeat(net.enc_layers, srcs, Layer)

DinoEncode(net, image) ==
  LET Layer(y) == DeformableEncoderLayer(y, net.hidden_dim, net.num_levels, net.nheads)
      srcs == DeformableLevels(ResNet(image, net.resnet), net.hidden_dim, net.num_levels)
  IN  Repeat(net.enc_layers, srcs, Layer)

------------------------------------------------------------------------------
(* RT-DETR: the sizes of its versions, the DEIM recipe, contrastive         *)
(* denoising.  enc_dim 0 stands for hidden_dim.                             *)

RtConfig ==
  [family |-> "rt_detr", backbone |-> "r50", enc_dim |-> 0, hidden_expansion |-> 100, enc_layers |-> 1,
   num_classes |-> 80, num_levels |-> 3] @@ Base

SizeSpec(backbone, hidden, dec_layers, enc_dim, expansion, dense_k) ==
  [backbone |-> backbone, hidden_dim |-> hidden, dec_layers |-> dec_layers, enc_dim |-> enc_dim,
   hidden_expansion |-> expansion, dense_o2m_k |-> dense_k] @@ RtConfig

kSizes(dense_k) ==
  [n |-> SizeSpec("r18", 128, 3, 128, 50, dense_k), s |-> SizeSpec("r18", 256, 3, 256, 50, dense_k),
   m |-> SizeSpec("r34", 256, 4, 256, 50, dense_k), l |-> SizeSpec("r50", 256, 6, 256, 100, dense_k),
   x |-> SizeSpec("r101", 256, 6, 384, 100, dense_k)]

kDenseV3 == 6

RtDetrCdn == [denoising |-> TRUE] @@ RtConfig

RtDetrEncode(net, image) ==
  LET r == BackboneFor(net.backbone) @@ [dc5 |-> FALSE, deepStem |-> TRUE, avgDown |-> TRUE]
      e == [d |-> net.hidden_dim, width |-> IF net.enc_dim > 0 THEN net.enc_dim ELSE net.hidden_dim,
            heads |-> net.nheads, layers |-> net.enc_layers, expansion |-> net.hidden_expansion]
  IN  RtEncode(SubSeq(ResNet(image, r), 1, net.num_levels), FeatureChannels(r), e)

------------------------------------------------------------------------------
(* RF-DETR on the plain ViT, and RF-DETR-Nano and LW-DETR on the windowed   *)
(* ones.  "last" is the last block that runs: the deepest output.           *)

RfConfig ==
  [family |-> "rf_detr", vit_embed |-> 256, vit_depth |-> 4, vit_heads |-> 8, patch |-> 16,
   num_classes |-> 90, num_levels |-> 3] @@ Base

RfDetrCdn == [denoising |-> TRUE] @@ RfConfig

RfSize(embed, heads, patch, dec_layers, imgsz) ==
  [vit_embed |-> embed, vit_heads |-> heads, vit_depth |-> 12, patch |-> patch,
   dec_layers |-> dec_layers, imgsz |-> imgsz] @@ RfConfig

RfDetrEncode(net, image) ==
  LET feat == ViT(image, net.vit_embed, net.vit_depth, net.vit_heads, net.patch)
  IN  StridedLevels(feat, net.vit_embed, net.hidden_dim, net.num_levels)

RfDetrRealConfig ==
  [family |-> "rf_real", num_queries |-> 300, imgsz |-> 384, dec_layers |-> 2, scales |-> <<>>,
   vit |-> [embed |-> 384, heads |-> 6, patch |-> 16, windows |-> 2, last |-> 11, feats |-> 4]] @@ Base

LwDetr(embed, d_model, queries, last, feats, scales) ==
  [imgsz |-> 640, num_queries |-> queries, dec_layers |-> 3, hidden_dim |-> d_model, scales |-> scales,
   num_levels |-> IF scales = <<>> THEN 1 ELSE Len(scales),
   vit |-> [embed |-> embed, heads |-> 12, patch |-> 16, windows |-> 4, last |-> last, feats |-> feats]]
     @@ RfDetrRealConfig

RfRealEncode(net, image) ==
  LET feats == WindowedViT(image, net.vit)
  IN  IF net.scales = <<>> THEN <<RfDetrProjector(feats, net.vit.embed, net.hidden_dim)>>
                           ELSE LwDetrMultiScaleProjector(feats, net.vit.embed, net.hidden_dim, net.scales)

------------------------------------------------------------------------------
(* D-FINE, DEIM and DEIMv2.  hidden_dim is the width of the decoder,        *)
(* neck_dim that of the neck; the sizes count use_encoder_idx from one.     *)

DFineConfig ==
  [family |-> "dfine", backbone |-> "B4", return_idx |-> <<1, 2, 3>>, sta |-> <<>>, neck_dim |-> 256,
   num_classes |-> 80, num_levels |-> 3, num_encoder_layers |-> 1, expansion |-> 100,
   depth_mult |-> 100, use_encoder_idx |-> {3}, lite_encoder |-> FALSE, neck_repelan5 |-> FALSE,
   decoder_deimv2 |-> FALSE, decoder_gateway |-> TRUE] @@ Base

SizeConfig ==
  [n |-> [backbone |-> "B0", return_idx |-> <<2, 3>>, hidden_dim |-> 128, neck_dim |-> 128,
          num_levels |-> 2, expansion |-> 34, depth_mult |-> 50, use_encoder_idx |-> {2},
          dec_layers |-> 3] @@ DFineConfig,
   s |-> [backbone |-> "B0", expansion |-> 50, depth_mult |-> 34, dec_layers |-> 3] @@ DFineConfig,
   m |-> [backbone |-> "B2", depth_mult |-> 67, dec_layers |-> 4] @@ DFineConfig,
   l |-> DFineConfig,
   x |-> [backbone |-> "B5", neck_dim |-> 384] @@ DFineConfig]

Deimv2N == [decoder_deimv2 |-> TRUE] @@ SizeConfig.n

Micro(backbone, hidden, imgsz) ==
  [imgsz |-> imgsz, backbone |-> backbone, return_idx |-> <<2>>, neck_dim |-> hidden,
   hidden_dim |-> hidden, num_levels |-> 2, dec_layers |-> 3, expansion |-> 34, depth_mult |-> 50,
   lite_encoder |-> TRUE, decoder_deimv2 |-> TRUE, decoder_gateway |-> FALSE] @@ DFineConfig

DinoSize(embed, heads, hidden, layers, inplane, expansion, depth) ==
  [sta |-> [embed |-> embed, heads |-> heads, patch |-> 16, inplane |-> inplane, hidden |-> hidden],
   neck_dim |-> hidden, hidden_dim |-> hidden, dec_layers |-> layers, expansion |-> expansion,
   depth_mult |-> depth, decoder_deimv2 |-> TRUE, neck_repelan5 |-> TRUE] @@ DFineConfig

DFineEncode(net, image) ==
  LET onSta == net.sta # <<>>
      feats == IF onSta THEN DinoV3Sta(image, net.sta) ELSE HgNetV2(image, net.backbone, net.return_idx)
      channels == IF onSta THEN [i \in 1..3 |-> net.sta.hidden] ELSE HgChannels(net.backbone, net.return_idx)
      e == [width |-> net.neck_dim, heads |-> net.nheads, layers |-> net.num_encoder_layers,
            expansion |-> net.expansion, depth |-> net.depth_mult, refined |-> net.use_encoder_idx,
            deimv2 |-> net.decoder_deimv2, repelan5 |-> net.neck_repelan5]
      neck == IF net.lite_encoder THEN DfLiteEncoder(feats[1], channels[1], e)
                                  ELSE DfHybridEncoder(feats, channels, e)
  IN  [i \in DOMAIN neck |-> InputProj(neck[i], net.neck_dim, net.hidden_dim, TRUE)]

------------------------------------------------------------------------------
(* The registry.                                                            *)

Builtins ==
  ("detr" :> DetrConfig) @@ ("detr-r50" :> R50Config(R50, FALSE)) @@ ("detr-r101" :> R50Config(R101, FALSE))
  @@ ("detr-r50-dc5" :> R50Config(R50, TRUE)) @@ ("detr-r101-dc5" :> R50Config(R101, TRUE))
  @@ ("deformable-detr" :> DeformableConfig) @@ ("conditional-detr" :> ConditionalConfig)
  @@ ("dab-detr" :> DabConfig(FALSE)) @@ ("dn-detr" :> DabConfig(TRUE))
  @@ ("dino" :> DinoConfig(FALSE)) @@ ("dino-cdn" :> DinoConfig(TRUE))

AnchorDetrs == ("anchor-detr" :> AnchorConfig(FALSE)) @@ ("anchor-detr-dc5" :> AnchorConfig(TRUE))

RtDetrs ==
  LET Version(v, dense_k) ==
        LET z == kSizes(dense_k)
        IN  ((v \o "-n") :> z.n) @@ ((v \o "-s") :> z.s) @@ ((v \o "-m") :> z.m) @@ ((v \o "-l") :> z.l)
            @@ ((v \o "-x") :> z.x) @@ (v :> z.l)
      plain == kSizes(0)
  IN  Version("rt-detr", 0) @@ Version("rt-detrv2", 0) @@ Version("rt-detrv3", kDenseV3)
      @@ ("deim-rt-s" :> plain.s) @@ ("deim-rt-m" :> plain.m) @@ ("deim-rt-l" :> plain.l)
      @@ ("rt-detr-cdn" :> RtDetrCdn)

RfDetrs ==
  ("rf-detr" :> RfConfig) @@ ("rf-detr-cdn" :> RfDetrCdn) @@ ("rf-detr-nano" :> RfDetrRealConfig)
  @@ ("lw-detr-tiny" :> LwDetr(192, 256, 100, 5, 3, <<>>))
  @@ ("lw-detr-small" :> LwDetr(192, 256, 300, 9, 4, <<>>))
  @@ ("lw-detr-medium" :> LwDetr(384, 256, 300, 9, 4, <<>>))
  @@ ("lw-detr-large" :> LwDetr(384, 384, 300, 9, 4, <<"double", "half">>))
  @@ ("lw-detr-xlarge" :> LwDetr(768, 384, 300, 9, 4, <<"double", "half">>))
  @@ ("rf-detr-n" :> RfSize(384, 6, 16, 2, 384)) @@ ("rf-detr-s" :> RfSize(384, 6, 16, 3, 512))
  @@ ("rf-detr-m" :> RfSize(384, 6, 16, 4, 576)) @@ ("rf-detr-l" :> RfSize(384, 6, 16, 4, 704))
  @@ ("rf-detr-x" :> RfSize(768, 12, 20, 5, 700))

DFines ==
  LET Under(prefix, suffix, sizes) ==
        [name \in {prefix \o z \o suffix : z \in sizes} |->
           SizeConfig[CHOOSE z \in sizes : name = prefix \o z \o suffix]]
  IN  Under("dfine-", "", {"n", "s", "m", "l", "x"}) @@ Under("dfine-", "-obj", {"s", "m", "l", "x"})
      @@ Under("deim-", "", {"n", "s", "m", "l", "x"}) @@ ("deimv2-n" :> Deimv2N)
      @@ ("deimv2-atto" :> Micro("Atto", 64, 320)) @@ ("deimv2-femto" :> Micro("Femto", 96, 416))
      @@ ("deimv2-pico" :> Micro("Pico", 112, 640))
      @@ ("deimv2-s" :> DinoSize(192, 3, 192, 4, 16, 34, 67)) @@ ("deimv2-m" :> DinoSize(256, 4, 256, 4, 16, 67, 100))
      @@ ("deimv2-l" :> DinoSize(384, 6, 224, 4, 32, 100, 100))
      @@ ("deimv2-x" :> DinoSize(384, 6, 256, 6, 64, 125, 137))

Registered == Builtins @@ AnchorDetrs @@ RtDetrs @@ RfDetrs @@ DFines

(* Registry::Build with a YAML configuration, a record of the keys it sets. *)
Build(name, yaml) ==
  LET row == Registered[name]
  IN  [k \in DOMAIN row |-> IF k \in DOMAIN yaml \cap Reads[row.family] THEN yaml[k] ELSE row[k]]

------------------------------------------------------------------------------
(* The forward of a model, in the steps the callers can tell apart.         *)

Encode(net, image) ==
  CASE net.family = "detr" -> DetrEncode(net, image)
    [] net.family = "detr_r50" -> DetrResNetEncode(net, image)
    [] net.family = "conditional" -> ConditionalEncode(net, image)
    [] net.family = "dab" -> DabEncode(net, image)
    [] net.family = "anchor" -> AnchorEncode(net, image)
    [] net.family = "deformable" -> DeformableEncode(net, image)
    [] net.family = "dino" -> DinoEncode(net, image)
    [] net.family = "rt_detr" -> RtDetrEncode(net, image)
    [] net.family = "rf_detr" -> RfDetrEncode(net, image)
    [] net.family = "rf_real" -> RfRealEncode(net, image)
    [] net.family = "dfine" -> DFineEncode(net, image)

LayerOf(net, tgt, levels) ==
  LET d == net.hidden_dim
  IN  CASE net.family \in {"detr", "detr_r50"} -> DetrDecoderLayer(tgt, levels[1], d, net.nheads)
        [] net.family \in {"conditional", "dab"} -> CondDecoderLayer(tgt, levels[1], d, net.nheads)
        [] net.family = "anchor" -> AnchorDecoderLayer(tgt, levels[1], d, net.nheads)
        [] net.family = "deformable" -> DeformableDecoderLayer(tgt, levels, d, net.num_levels, net.nheads)
        [] net.family \in {"dino", "rt_detr", "rf_detr"} ->
             DeformDecoderLayer(tgt, levels, d, net.num_levels, net.nheads)
        [] net.family = "rf_real" -> RfDecoderLayer(tgt, levels, d, net.num_levels)
        [] net.family = "dfine" -> DfDecLayer(tgt, levels, d, net.num_levels, net.nheads, net.decoder_gateway)

(* The models that choose their queries among the tokens, and those that    *)
(* give the output of every layer in training.                              *)
TwoStage(net) == net.family \in {"dino", "rt_detr", "rf_detr", "rf_real", "dfine"}
DeepSupervised(net) == net.family \notin {"anchor", "rf_real", "dfine"}

(* The width of the class head: a softmax has a slot for no object.         *)
ClassWidth(net) == IF net.family \in {"detr", "detr_r50"} THEN net.num_classes + 1 ELSE net.num_classes
==============================================================================
