------------------------------ MODULE Evaluation -----------------------------
(***************************************************************************)
(* --val and --test from the dataset to the report: LoadDataset, then      *)
(* EvaluateModel (src/eval/evaluator.cpp), which takes the images one by   *)
(* one or in batches, then CocoEvaluate category by category.              *)
(***************************************************************************)
EXTENDS Datasets, CocoEval

CONSTANTS Cases,        \* [root, opt, net]: what --data names, the options
                        \* [raw, split, single, focal, max_images, batch], and
                        \* what the network answers to each image it can read
          SizeOf,       \* path -> <<w, h>> of the image there
          Blank,        \* the network's answer to a blank image
          Objects,      \* whatever is annotated somewhere
          NumClasses, ImgSz, TopK

IsList(s) == s \in Seq(Range(s))

ASSUME Options == /\ NumClasses \in Nat \ {0} /\ TopK \in Nat
                  /\ IouThrs \in Seq(Int) /\ MaxDets \in Seq(Nat) \ {<<>>}
                  /\ AreaRng # <<>> /\ IsList(AreaRng) /\ RecThrs \in Seq(Int) /\ Unit \in Nat
                  /\ \A c \in Cases : /\ c.opt.max_images \in Nat /\ c.opt.batch \in Nat \ {0}
                                       /\ c.opt.raw \in BOOLEAN

\* The documents that are there; parsed, they have lists, and label files are
\* those of the images. Classes have names or numbers of which there are some.
CocoDocs(root) == CASE root.kind = "json" -> {root.val}
                    [] root.kind = "directory" -> {root.train, root.val} \ {Absent}
                    [] OTHER -> {}
Yamls(root) == CASE root.kind = "yaml" -> {root.yaml} \ {Malformed}
                 [] root.kind = "directory" -> {root.yaml} \ {Absent, Malformed}
                 [] OTHER -> {}

ASSUME CocoFiles ==
  \A c \in Cases : \A doc \in CocoDocs(c.root) :
    /\ doc # Absent
    /\ CocoParses(doc) =>
         /\ IsList(doc.images)
         /\ doc.annotations # Absent =>
              /\ IsList(doc.annotations)
              /\ \A i \in DOMAIN doc.annotations : doc.annotations[i].obj \in Objects

ASSUME YoloFiles ==
  \A c \in Cases : \A yaml \in Yamls(c.root) :
    /\ yaml.names # Absent => IsFiniteSet(DOMAIN yaml.names.of) /\ DOMAIN yaml.names.of \subseteq Int
    /\ \A files \in {yaml.train, yaml.val, yaml.test} \ {Absent} :
         IsList(files) /\ Range(files) \subseteq DOMAIN yaml.labels \cap Int
    /\ \A f \in DOMAIN yaml.labels :
         yaml.labels[f] # Absent =>
           /\ IsList(yaml.labels[f])
           /\ \A line \in Range(yaml.labels[f]) : line # Malformed => line.obj \in Objects

\* The ids of the categories of a file are different.
ASSUME CategoryIds ==
  \A c \in Cases : \A doc \in CocoDocs(c.root) :
    CocoParses(doc) =>
      LET cats == doc.categories
      IN  /\ IsList(cats) /\ \A k \in DOMAIN cats : cats[k].id \in Int
          /\ \A j, k \in DOMAIN cats : cats[j].id = cats[k].id => j = k

\* Every box the network answers has a score for each class and overlaps
\* every object by something.
IsAnswer(outputs) ==
  /\ IsList(outputs)
  /\ \A q \in DOMAIN outputs : /\ \A c \in 1 .. NumClasses : outputs[q].score[c] \in Int
                               /\ \A o \in Objects : outputs[q].box.iou[o] \in Int

ASSUME Answers == /\ IsAnswer(Blank)
                  /\ \A c \in Cases : \A p \in DOMAIN c.net : IsAnswer(c.net[p])

VARIABLES root, opt, net, ds,
          order,    \* the indices of the samples still to be evaluated
          images,   \* eval_images, each with the index it came from
          at,       \* <<category, area range>> being scored
          evals, curves, metrics, pc

vars == <<root, opt, net, ds, order, images, at, evals, curves, metrics, pc>>

Cats == [c \in 1 .. NumClasses |-> c - 1]

-----------------------------------------------------------------------------
(* PostprocessImage. A query is [box, score: class -> score]; with a       *)
(* softmax there is one more class, for no object.                         *)

Pairs(outputs) ==
  [k \in 1 .. Len(outputs) * NumClasses |->
     LET query == outputs[1 + (k - 1) \div NumClasses]
         label == (k - 1) % NumClasses
     IN  [class_id |-> label, score |-> query.score[label + 1], box |-> query.box]]

\* The first of the best classes: "no object" is dropped before, not after.
BestOf(query) ==
  LET real == 1 .. NumClasses
      best == {c \in real : \A d \in real : query.score[d] <= query.score[c]}
      c    == CHOOSE c \in best : \A d \in best : c <= d
  IN  [class_id |-> c - 1, score |-> query.score[c], box |-> query.box]

Px(quarters, w, h) == (quarters * w * h) \div 4

PostprocessImage(outputs, w, h, focal) ==
  LET found == IF focal THEN FirstOf(ByScore(Pairs(outputs)), TopK)
               ELSE [q \in DOMAIN outputs |-> BestOf(outputs[q])]
  IN  [d \in DOMAIN found |->
         [class_id |-> found[d].class_id, score |-> found[d].score,
          area |-> Px(found[d].box.area, w, h), iou |-> found[d].box.iou]]

MakeGt(s, w, h) ==
  [b \in DOMAIN s.boxes |->
     [class_id |-> s.boxes[b].class_id, iscrowd |-> s.boxes[b].iscrowd,
      obj |-> s.boxes[b].obj,
      area |-> Px(IF s.boxes[b].area > 0 THEN s.boxes[b].area ELSE s.boxes[b].bbox, w, h)]]

EvalImage(i, w, h, outputs) ==
  [index |-> i, gts |-> MakeGt(ds.samples[i], w, h),
   dts |-> PostprocessImage(outputs, w, h, opt.focal)]

-----------------------------------------------------------------------------
Init == /\ \E c \in Cases : root = c.root /\ opt = c.opt /\ net = c.net
        /\ ds = Failed /\ order = <<>> /\ images = <<>>
        /\ at = <<1, 1>> /\ evals = <<>> /\ curves = <<>>
        /\ metrics = <<>> /\ pc = "load"

\* RunEvalTorch: a dataset that does not load ends the command.
Load ==
  /\ pc = "load"
  /\ ds' = LoadDataset(root, opt.raw)
  /\ pc' = IF ds'.ok THEN "begin" ELSE "refused"
  /\ UNCHANGED <<root, opt, net, order, images, at, evals, curves, metrics>>

Orders(s) == {o \in [DOMAIN s -> Range(s)] : Range(o) = Range(s)}

\* One by one in order, up to the limit; or the loader's order of its seed.
Begin ==
  LET mine == IndicesOf(ds, opt.split)
      most == IF opt.max_images > 0 THEN FirstOf(mine, opt.max_images) ELSE mine
  IN  /\ pc = "begin"
      /\ order' \in IF opt.single THEN {most} ELSE Orders(mine)
      /\ pc' = "images"
      /\ UNCHANGED <<root, opt, net, ds, images, at, evals, curves, metrics>>

Decodable == DOMAIN net

\* LoadRgb, the network, and the picture's own size; else the image is skipped.
EvaluateOne ==
  /\ pc = "images" /\ opt.single /\ order # <<>>
  /\ LET i == order[1]
         p == ds.samples[i].path
     IN  images' = IF p \notin Decodable THEN images
                   ELSE Append(images, EvalImage(i, SizeOf[p][1], SizeOf[p][2], net[p]))
  /\ order' = Tail(order)
  /\ UNCHANGED <<root, opt, net, ds, at, evals, curves, metrics, pc>>

CappedEarly == opt.max_images > 0 /\ Len(images) + opt.batch >= opt.max_images

Capped == opt.max_images > 0 /\ Len(images) >= opt.max_images

\* One batch of the loader: a blank for an image that cannot be read, and the
\* size that the annotations give, the network's own when they give none.
InBatch(i) ==
  LET s == ds.samples[i]
      w == IF s.w > 0 THEN s.w ELSE ImgSz
      h == IF s.h > 0 THEN s.h ELSE ImgSz
  IN  EvalImage(i, w, h, IF s.path \in Decodable THEN net[s.path] ELSE Blank)

EvaluateBatch ==
  /\ pc = "images" /\ ~opt.single /\ order # <<>> /\ ~Capped
  /\ LET batch == FirstOf(order, opt.batch)
     IN  /\ images' = images \o [j \in DOMAIN batch |-> InBatch(batch[j])]
         /\ order' = SubSeq(order, Len(batch) + 1, Len(order))
  /\ UNCHANGED <<root, opt, net, ds, at, evals, curves, metrics, pc>>

ImagesDone ==
  /\ pc = "images"
  /\ order = <<>> \/ (~opt.single /\ Capped)
  /\ pc' = "evaluate"
  /\ curves' = [k \in DOMAIN Cats |-> [a \in DOMAIN AreaRng |-> <<>>]]
  /\ UNCHANGED <<root, opt, net, ds, order, images, at, evals, metrics>>

EvaluateCategory ==
  /\ pc = "evaluate"
  /\ evals' = EvaluateAll(images, Cats[at[1]], AreaRng[at[2]])
  /\ pc' = "accumulate"
  /\ UNCHANGED <<root, opt, net, ds, order, images, at, curves, metrics>>

AccumulateCategory ==
  /\ pc = "accumulate"
  /\ curves' = [curves EXCEPT ![at[1]][at[2]] = Accumulate(evals)]
  /\ pc' = "next"
  /\ UNCHANGED <<root, opt, net, ds, order, images, at, evals, metrics>>

NextArea ==
  /\ pc = "next" /\ at # <<Len(Cats), Len(AreaRng)>>
  /\ at' = IF at[2] < Len(AreaRng) THEN <<at[1], at[2] + 1>> ELSE <<at[1] + 1, 1>>
  /\ pc' = "evaluate"
  /\ UNCHANGED <<root, opt, net, ds, order, images, evals, curves, metrics>>

Summarize ==
  /\ pc = "next" /\ at = <<Len(Cats), Len(AreaRng)>>
  /\ metrics' = Summary(curves)
  /\ pc' = "done"
  /\ UNCHANGED <<root, opt, net, ds, order, images, at, evals, curves>>

Next == \/ Load \/ Begin \/ EvaluateOne \/ EvaluateBatch \/ ImagesDone
        \/ EvaluateCategory \/ AccumulateCategory \/ NextArea \/ Summarize

Spec == Init /\ [][Next]_vars

-----------------------------------------------------------------------------
(* Properties *)

\* What a detection is matched with is the best of what the better scored
\* ones left, an object that counts before one that is ignored: the greedy
\* loop of EvaluateImg with its early break is that choice, for every order
\* in which the objects were annotated.
Left(e, t, d) == {g \in DOMAIN e.gts : e.gts[g].iscrowd
                                       \/ \A b \in 1 .. d - 1 : e.match[t][b] # g}

Prefers(e, d, rng, g, h) ==
  LET ig == GtIgnored(e.gts[g], rng)
      ih == GtIgnored(e.gts[h], rng)
  IN  (~ig /\ ih) \/ (ig = ih /\ Iou(e.dts[d], e.gts[g]) > Iou(e.dts[d], e.gts[h]))

MatchesBestLeft ==
  pc = "accumulate" =>
    \A i \in DOMAIN evals : \A t \in DOMAIN IouThrs : \A d \in DOMAIN evals[i].dts :
      LET e    == evals[i]
          near == {g \in Left(e, t, d) : Iou(e.dts[d], e.gts[g]) >= IouThrs[t]}
          m    == e.match[t][d]
      IN  IF near = {} THEN m = 0
          ELSE m \in near /\ \A g \in near : ~Prefers(e, d, AreaRng[at[2]], g, m)

\* The precision of a recall threshold is the best that any cut of the ranking
\* has at that recall or more.
PrecisionIsBest ==
  pc = "next" /\ Npig(evals) > 0 =>
    \A t \in DOMAIN IouThrs : \A m \in DOMAIN MaxDets :
      LET en == Entries(evals, t, m)
      IN  \A r \in DOMAIN RecThrs :
            LET cuts == {n \in DOMAIN en : Unit * Hits(en, n) >= RecThrs[r] * Npig(evals)}
                best == {(Unit * Hits(en, n)) \div n : n \in cuts}
                p    == curves[at[1]][at[2]][t][m].precision[r]
            IN  IF cuts = {} THEN p = 0 ELSE p \in best /\ \A x \in best : x <= p

\* The report does not depend on the order in which the loader, or nobody,
\* shuffled the images, as long as no two detections have the same score.
DistinctScores ==
  \A i, j \in DOMAIN images : \A d \in DOMAIN images[i].dts, f \in DOMAIN images[j].dts :
    <<i, d>> = <<j, f>> \/ images[i].dts[d].score # images[j].dts[f].score

InOrder == SortedBy(images, [i \in DOMAIN images |-> images[i].index])

OrderDoesNotMatter ==
  pc = "done" /\ DistinctScores => metrics = CocoEvaluate(InOrder, Cats)

\* A dataset is what its files say: of each split it has the objects of the
\* usable annotations, of whatever image and in whatever order they are
\* listed, each on its image, and no others. The class of an object is the
\* place of its category in the order of the ids of its own file, or the
\* number of its label line.
LastWith(ims, k, id) == ims[k].id = id /\ \A j \in DOMAIN ims : ims[j].id = id => j <= k

Place(cats, id) == Cardinality({c \in Range(cats) : c.id <= id})

Used(doc, k, a) ==
  /\ LastWith(doc.images, k, a.image) /\ doc.images[k].w > 0 /\ doc.images[k].h > 0
  /\ a.box # Absent /\ \E c \in Range(doc.categories) : c.id = a.category

DocOf(place, split) ==
  CASE split = "val" -> place.val
    [] split = "train" /\ place.kind = "directory" -> place.train
    [] OTHER -> Absent

Annotations(doc, raw) ==
  IF doc = Absent \/ doc.annotations = Absent THEN {}
  ELSE LET entry(k, i) == <<doc.images[k].file, doc.annotations[i].obj,
                            IF raw THEN doc.annotations[i].category
                            ELSE Place(doc.categories, doc.annotations[i].category) - 1>>
       IN  UNION {{entry(k, i) : i \in {j \in DOMAIN doc.annotations : Used(doc, k, doc.annotations[j])}} :
                    k \in DOMAIN doc.images}

LabelLines(yaml, split) ==
  LET lines(f) == IF yaml.labels[f] = Absent THEN {} ELSE Range(yaml.labels[f]) \ {Malformed}
  IN  IF yaml[split] = Absent THEN {}
      ELSE UNION {{<<f, line.obj, line.cls>> : line \in lines(f)} : f \in Range(yaml[split])}

Stated(place, split, raw) ==
  IF DetectFormat(place) = "yolo" THEN LabelLines(place.yaml, split)
  ELSE Annotations(DocOf(place, split), raw)

Held(ss, split) ==
  UNION {{<<ss[i].path, box.obj, box.class_id>> : box \in Range(ss[i].boxes)} :
           i \in {j \in DOMAIN ss : ss[j].split = split}}

\* And the names of the classes are those of the file: of both annotation
\* files when they have the same categories, else of the first one, and of
\* every number a list or a map without gaps has a name for.
NamesOfDoc(doc, names) ==
  \A c \in Range(doc.categories) : names[Place(doc.categories, c.id)] = c.name

NamesOfYaml(given, names) ==
  given # Absent =>
    LET n == Cardinality(DOMAIN given.of)
    IN  IF given.listed THEN names = given.of
        ELSE DOMAIN given.of = 0 .. n - 1 => \A k \in 0 .. n - 1 : names[k + 1] = given.of[k]

First(place) == IF place.kind = "directory" /\ place.train # Absent THEN place.train ELSE place.val

SameCategories(doc, other) == Range(doc.categories) = Range(other.categories)

NamesClasses(place, names) ==
  IF DetectFormat(place) = "yolo" THEN NamesOfYaml(place.yaml.names, names)
  ELSE \A doc \in CocoDocs(place) : SameCategories(doc, First(place)) => NamesOfDoc(doc, names)

LoadedAsAnnotated ==
  ds.ok => /\ \A split \in {"train", "val", "test"} :
                 Held(ds.samples, split) = Stated(root, split, opt.raw)
           /\ NamesClasses(root, ds.class_names)

\* What is scored are samples of the split asked for, each once: all of them
\* without a limit but the unreadable ones of the single path. With a limit
\* a batch run does not end before it while samples are left, and a single
\* run does not go past it.
EvaluatesTheSplit ==
  pc \notin {"load", "refused", "begin", "images"} =>
    LET scored == {images[i].index : i \in DOMAIN images}
        mine   == Range(IndicesOf(ds, opt.split))
        bad    == {i \in mine : ds.samples[i].path \notin Decodable}
        n      == Cardinality(scored)
    IN  /\ n = Len(images) /\ scored \subseteq mine
        /\ opt.max_images = 0 =>
             scored = IF opt.single THEN mine \ bad ELSE mine
        /\ opt.max_images > 0 /\ ~opt.single => n >= opt.max_images \/ scored = mine
        /\ opt.max_images > 0 /\ opt.single => n <= opt.max_images
=============================================================================
