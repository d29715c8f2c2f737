---------------------------- MODULE MCCommandLine ----------------------------
(***************************************************************************)
(* Three networks, the files their authors ship and some that do not fit,  *)
(* and command lines that leave out or break one option at a time.         *)
(***************************************************************************)
EXTENDS CommandLine

MCRegistered == {"detr", "detr-r50", "dfine-n"}

\* The parameters and buffers of a network; the configuration decides the
\* number of classes.
Net(parameters, buffers) == [parameters |-> parameters, buffers |-> buffers]

R50(classes) ==
  Net(<< <<<<"backbone", "conv1", "weight">>, 1>>, <<<<"encoder", "0", "linear1">>, 1>>,
         <<<<"decoder", "0", "cross_attn">>, 1>>, <<<<"decoder_norm", "weight">>, 1>>,
         <<<<"class_embed">>, classes>>, <<<<"bbox_embed", "0">>, 1>>,
         <<<<"bbox_embed", "2">>, 1>>, <<<<"bbox_embed", "4">>, 4>> >>, <<>>)

Compact(classes) ==
  Net(<< <<<<"backbone", "0", "weight">>, 1>>, <<<<"encoder", "0", "linear1">>, 1>>,
         <<<<"decoder_norm", "weight">>, 1>>, <<<<"class_embed">>, classes>> >>, <<>>)

DFineN == Net(<< <<<<"backbone", "stem">>, 1>>, <<<<"encoder", "downsample_convs", "0", "cv1">>, 1>>,
                 <<<<"decoder", "up_proj">>, 1>> >>,
              << <<<<"encoder", "bn", "num_batches_tracked">>, 1>> >>)

Classes(c) == IF c.config = "few" THEN 20 ELSE 91

MCParams(c) == CASE c.model = "detr-r50" -> R50(Classes(c))
                 [] c.model = "dfine-n"  -> DFineN
                 [] c.model = "detr"     -> Compact(Classes(c))

\* A file: names, and the parameter that each tensor was trained for.
T(name, p, shape) == <<name, [shape |-> shape, data |-> <<"trained", p>>]>>

UpstreamR50 ==
  << T(<<"transformer", "decoder", "norm", "weight">>, <<"decoder_norm", "weight">>, 1),
     T(<<"transformer", "decoder", "layers", "0", "multihead_attn">>, <<"decoder", "0", "cross_attn">>, 1),
     T(<<"transformer", "encoder", "layers", "0", "linear1">>, <<"encoder", "0", "linear1">>, 1),
     T(<<"bbox_embed", "layers", "0">>, <<"bbox_embed", "0">>, 1),
     T(<<"bbox_embed", "layers", "1">>, <<"bbox_embed", "2">>, 1),
     T(<<"bbox_embed", "layers", "2">>, <<"bbox_embed", "4">>, 4),
     T(<<"class_embed">>, <<"class_embed">>, 91),
     T(<<"backbone", "0", "body", "bn1", "num_batches_tracked">>, <<"none">>, 1),
     T(<<"backbone", "0", "body", "conv1", "weight">>, <<"backbone", "conv1", "weight">>, 1) >>

UpstreamDFine ==
  << T(<<"backbone", "stem">>, <<"backbone", "stem">>, 1),
     T(<<"backbone", "bn", "num_batches_tracked">>, <<"none">>, 1),
     T(<<"encoder", "downsample_convs", "0", "0", "cv1">>, <<"encoder", "downsample_convs", "0", "cv1">>, 1),
     T(<<"encoder", "bn", "num_batches_tracked">>, <<"encoder", "bn", "num_batches_tracked">>, 1),
     T(<<"decoder", "up_proj">>, <<"decoder", "up_proj">>, 1),
     T(<<"decoder", "up">>, <<"none">>, 1), T(<<"decoder", "decoder", "reg_scale">>, <<"none">>, 1),
     T(<<"decoder", "anchors">>, <<"none">>, 1),
     T(<<"decoder", "denoising_class_embed", "weight">>, <<"none">>, 1) >>

\* A detr-r50 wrapped by DataParallel: no name fits.
Wrapped == << T(<<"module", "class_embed">>, <<"class_embed">>, 91) >>

MCShipped == [r50 |-> UpstreamR50, dfine |-> UpstreamDFine, wrapped |-> Wrapped,
              torn |-> Unreadable]

Command(verb, model, weights) ==
  [verbs |-> {verb}, list |-> FALSE, model |-> model, weights |-> weights,
   config |-> "full", device |-> [kind |-> "cuda", tail |-> "0"],
   data |-> "good", source |-> "images", format |-> "pth"]

WeightFiles == DOMAIN MCShipped \cup {"last", "detr-r50.pth", "detr.pth", "dfine-n.pth"}

Plain == {Command(v, m, w) : v \in {"val", "export"}, m \in MCRegistered,
                             w \in WeightFiles}
         \cup {Command("train", m, "") : m \in MCRegistered}
         \cup {[Command(v, "detr-r50", w) EXCEPT !.config = "few"] :
                 v \in {"val", "export"}, w \in WeightFiles}

Base(v) == Command(v, "detr-r50", "r50")

Broken ==
  {[Base(v) EXCEPT !.model = x] : v \in Verbs, x \in {"", "unknown"}}
  \cup {[Base(v) EXCEPT !.weights = x] : v \in Verbs, x \in {"", "absent"}}
  \cup {[Base(v) EXCEPT !.data = x] : v \in Verbs, x \in {"", "bad"}}
  \cup {[Base(v) EXCEPT !.source = x] : v \in Verbs, x \in {"", "nothing", "images"}}
  \cup {[Base(v) EXCEPT !.config = "broken"] : v \in Verbs}
  \cup {[Base(v) EXCEPT !.device.kind = "tpu"] : v \in Verbs}
  \cup {[Base(v) EXCEPT !.device.tail = "too many digits"] : v \in Verbs}
  \cup {[Base("export") EXCEPT !.format = x] : x \in {"onnx", "trt"}}
  \cup {[Base("val") EXCEPT !.verbs = x] : x \in {{}, {"val", "test"}}}
  \cup {[Base("val") EXCEPT !.list = TRUE]}

MCCommands == Plain \cup Broken
=============================================================================
