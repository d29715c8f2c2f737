---------------------------- MODULE MCTrainStep ------------------------------
EXTENDS TrainStep

\* Every registered model, at its own size, at the default, at the other
\* models' sizes, and at sizes that are odd, tiny, flat or of another aspect.
Squares == {8, 100, 320, 384, 416, 512, 576, 608, 640, 700, 704, 800}
Sizes == {<<n, n>> : n \in Squares} \cup {<<800, 1066>>, <<640, 480>>, <<336, 352>>, <<16, 4864>>}

Forwards ==
  {[net |-> Registered[name], h |-> size[1], w |-> size[2], training |-> FALSE,
    images |-> << <<>> >>, dn_number |-> 0, contrastive |-> FALSE] :
     name \in DOMAIN Registered, size \in Sizes}

\* Small models for training, as a YAML file makes them.
Yaml == [hidden_dim |-> 32, nheads |-> 4, num_queries |-> 3, dec_layers |-> 2, enc_layers |-> 1,
         num_classes |-> 2, imgsz |-> 64, dense_o2m_k |-> 2]

Training(name, yaml, images, n, c) ==
  [net |-> Build(name, yaml), h |-> 64, w |-> 64, training |-> TRUE, images |-> images,
   dn_number |-> n, contrastive |-> c]

\* Labels 0 and 1 are known, 2 is the softmax's no object, 3 is beyond all.
Pairs == {<< <<>>, <<>> >>, << <<0, 1>>, <<>> >>, << <<1>>, <<0, 0>> >>, << <<0, 2>>, <<1>> >>,
          << <<0>>, <<3>> >>}
Few == [num_queries |-> 1] @@ Yaml

Denoised == {"dn-detr", "dino-cdn", "rt-detr-cdn", "rf-detr-cdn"}
Trainings ==
  {Training(name, [dec_layers |-> l] @@ Yaml, images, n, c) :
     name \in Denoised, l \in {1, 3}, images \in Pairs, n \in {0, 1, 3}, c \in BOOLEAN}
  \cup {Training(name, yaml, images, 2, FALSE) :
          name \in {"detr", "detr-r50", "conditional-detr", "dab-detr", "deformable-detr", "dino", "rt-detr"},
          yaml \in {Yaml, Few}, images \in Pairs}
  \cup {Training("rt-detrv3-s", yaml, images, 2, FALSE) :
          yaml \in {Yaml, Few}, images \in {<< <<0, 1>> >>, << <<0, 1>>, <<>> >>, << <<1, 2>> >>}}

MCJobs == Forwards \cup Trainings
=============================================================================
