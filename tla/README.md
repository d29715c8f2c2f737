# Models of detrcpp

TLA+ models of [detrcpp](../src/README.md), a C++ library and command line for
training, evaluating, running and exporting DETR-family detectors. The modules
are translated from the sources named in `PROJECT.json` (`map` gives the lines
of every definition). TLC checks them on small instances; TLAPS proves the
safety properties for every value of the constants.

Paths below are relative to the repository: `train/` stands for
`src/train/` and `include/detr/train/`, and so on; `main.cpp` is
`apps/detrcpp/main.cpp`.

## 1. Inventory

| Part | State it keeps | Operations | Talks to |
| --- | --- | --- | --- |
| Command line (`main.cpp`) | options; loop variable and best average of a training | `--train`, `--resume`, `--val`, `--test`, `--predict`, `--export`, `--list` | everything, by calls |
| Trainer (`train/trainer`) | model, AdamW, EMA, learning rates | `OnEpochStart`, `TrainStep` | criterion, matcher, EMA |
| Checkpoints (`train/checkpoint`) | three files per tag | `Save`, `Load` | weights, trainer, file system |
| EMA (`train/ema`) | shadow parameters | `Update`, `State`, `LoadState`, `CopyTo` | model |
| Data loader (`data/loader`) | the order of the epoch; during `At`: a pool of threads, an atomic cursor, the slots of a batch | `Reshuffle`, `NumBatches`, `At` | dataset, image decoding |
| Datasets (`data/dataset,coco,yolo`) | samples, class names | load, split, merge, `Shuffle` | files |
| Tracker (`track/bytetrack`) | tracks, next id, frame number | `Update`, `Reset` | linear assignment |
| Linear assignment (`core/assignment`) | none between calls; during one: potentials, a partial matching, a search tree | `LinearSumAssignment` | tracker, matcher |
| Matcher, criterion, denoising (`train/`) | none between calls | `HungarianMatch`, `OneToManyMatch`, `Compute`, `MakeDenoising`, `BuildDnMatches` | trainer, networks |
| Networks (`models/`) | parameters; during a forward: feature maps, queries, auxiliary outputs | `Encode`, `RunCore`, the decoder loops | trainer, evaluation, prediction |
| Model registry (`models/registry`) | name -> factory | `Register`, `Build` | command line, networks |
| Weights: files (`weights/pth,zip,pickle_vm,legacy_pickle`) | VM stack, memo and storages during a load; the entries written so far during a save | `SavePth`, `LoadPth` | checkpoints, export |
| Weights: names (`weights/state_dict,remapper,torch_bridge`) | state dictionary, report | `Apply`, `LoadStateDictInto`, `StateDictFromModule` | command line, networks |
| Evaluation (`eval/`) | images with boxes and detections; matches and curves | `EvaluateModel`, `CocoEvaluate` | loader, networks |
| Prediction: slicing, NMS (`infer/`) | origins, pool of detections | `AxisOrigins`, `SahiDetect`, `NmsPerClass`, `PostprocessImage` | networks, image I/O |
| Device choice, image sources (`core/device`, `io/`) | none | `ParseDevice`, `ResolveImageSources`, `DrawRect` | command line |
| Logging (`log/`) | registry of loggers, sinks, level | `Get`, `SetGlobalLevel`, `EnableJsonSink` | everything |
| ONNX export, parity and golden tools | none | graph emission, comparisons | - |

A training run is a loop in `main.cpp`: the loader gives a batch, the trainer
sends it through a network and its loss, and the checkpoint manager writes the
result at the end of an epoch. The other verbs load a file into a network, name
by name, and then evaluate, predict or export. The only shared memory between
threads is the batch under construction in the loader; the only state between
processes is the files.

What is hard to get right, and hard to test:

* **Crashes in the middle of a checkpoint.** `Save` writes `<tag>.pth`,
  `<tag>.model.pth` and `<tag>.opt` one after the other and in place; each of
  them loads on its own, and `Load` compares nothing. Which mixtures of old and
  new parts can a resumed run start from?
* **New runs over old files.** `run_dir` is always `runs/train`, and nothing
  looks at what is there: until its first save is over, the files of a new run
  are mixed with those of the runs before it.
* **The learning-rate drop is a multiplication**, done at the start of one
  epoch, and an epoch may start more than once.
* **Threads without locks.** The workers of `At` write the slots of one batch;
  an atomic counter is all that keeps them apart.
* **Two association rounds.** The tracker matches, rematches, relabels, spawns
  and reaps in one call, and skips corrections that are numerically impossible.
* **Half a file that opens.** A zip writer that is given up finalizes its
  archive; the loader has to notice what is missing.
* **A small virtual machine** reads every checkpoint, with a memo, marks and
  four encodings of an integer.
* **Names.** A checkpoint of another project reaches our parameters through a
  list of rewriting rules; a wrong order puts a tensor on a neighbour or leaves
  a layer with its initial values, and the program runs all the same.
* **A mask over groups of queries.** Denoising queries that reach matching ones
  make training look better than it is; the leak may take several layers.
* **Sizes.** A pyramid halves and doubles: most sizes of image that are not
  multiples of 32 fail in some models and not in others.
* **Long sequences.** Ids, coasting counters, potentials and the epoch counter
  are only wrong after many legal calls.

`PROJECT.json` lists these hazards at their lines, with the properties that
cover them, and every component with its status.

## 2. The modules

| Module | What it is |
| --- | --- |
| `ResumableRun` | What a resumable run promises about its weights: train, commit, recover. |
| `TrainingRun` | The epoch loop, trainer, EMA and checkpoints of `--train`, with crashes and failing writes. |
| `EpochBatches` | The batches of an epoch as operators: bounds, targets, slots. |
| `SerialLoader` | What the loader promises: the batches a single thread would produce. |
| `BatchLoader` | `DataLoader` with its pool of threads. |
| `TrackLives` | What the tracker promises for an identity: one life, a bounded coast. |
| `ByteTracker` | `ByteTracker::Update` and `Reset`. |
| `OptimalAssignment` | What `LinearSumAssignment` promises: a cheapest pairing of full size. |
| `Assignment` | Its augmenting-path algorithm, pass by pass. |
| `PickleVM` | The interpreter of pickles, one action per kind of opcode. |
| `StateDicts` | The ordered dictionary of tensors, as operators. |
| `PthFile` | `SavePth`, the archive, `LoadPth` and the legacy loader, on top of `PickleVM`. |
| `ModuleLoad` | Remapping rules and the loading of a state dictionary into a network, as operators. |
| `CommandLine` | The program: one command after another on one disk. |
| `Selections` | Loops that collect elements, and `std::stable_sort`, as operators. |
| `Datasets` | COCO and YOLO roots to a dataset, as operators. |
| `CocoEval` | Matching, accumulation and summary of the COCO metric, as operators. |
| `Evaluation` | `--val` and `--test`, from the root to the report. |
| `Sahi` | Tiles, detections in tiles and NMS, as operators. |
| `Prediction` | `--predict`, from the source to the saved pictures. |
| `Layers`, `Backbones`, `Necks`, `Decoders` | The shapes of feature maps through every layer, as operators. |
| `Models` | The registered models and their configurations; `Build` and `Encode`. |
| `Denoising` | `MakeDenoising` and `BuildDnMatches`: queries, mask and matches, as operators. |
| `TrainStep` | A batch through a model and, in training, through the loss. |
| `...Proofs` | Invariants, refinements and their proofs (section 4). |
| `MC...` | Constants and symmetry for TLC. |

### TrainingRun

`proc` is the place of the process: no process, top of the loop, in the batches
of an epoch, in a `Save`. `live` is what the trainer holds: the number of whole
epochs of training in the model, its buffers, the EMA and the optimizer, and
how often the learning rate was dropped. A file of `disk` is absent, torn or
complete, and then contains what memory held when it was closed, including the
`TrainState` that `AttachMeta` adds (the loop counter and the best average).
Counting epochs is enough because the properties only ask *which* epochs are in
*which* weights.

`EpochStart`, `TrainStep`, `EpochEnd`, `OpenFile`, `CloseFile` and `Finish` are
the loop of `RunTrainTorch`; `AfterSave` is what the loop does when a `Save`
returns, with or without an error (a failed save is only warned about).
`StartFresh`, `Resume` and `Evaluate` start a process. `FailFile` is a write
that fails before it touched the file, in the middle, or in the last entries of
the archive, where `ZipWriter` finalizes the file on destruction and `SavePth`
nevertheless returns an error. `Crash` ends a process anywhere. `StartFresh` has
no condition on the files: as in the program, a new run writes over those of the
run before it, one by one. All runs share one directory, so every part in memory
and on disk carries the number of the run its training began in (`of`), which
the program does not store and only properties read.

### BatchLoader

`Reshuffle` is a sort and one action per swap; `At` is the caller (`StartAt`,
`Spawn`, `AllSpawned`, `Join`, `Return`) and, per worker, `Claim` (the atomic
`fetch_add`), `Decode`, `StoreTarget` and `StoreImage`. The pixels of a sample
are a number; an image that cannot be decoded is the blank one. The single-
threaded path of `At` is a pool of one. The caller may ask for any batch, more
than once, out of range, and may reshuffle between calls.

### ByteTracker and Assignment

`tracks` is `tracks_` by id. One frame is one action, because `Update` is
synchronous; its steps (predict, two rounds of association, mark, spawn, reap)
are operators named after them. The Kalman filter and the boxes decide three
things, which the model leaves open: which of the assignments with the fewest
forbidden pairs is the cheapest, which of its pairs pass the gate, and which
corrections fail to factorize and are skipped. `used` and `skipped` record what
happened to the detections of the frame.

That an assignment of least cost comes back is what `Assignment` checks of the
algorithm. A row is added by a search: one action per pass of its inner loop,
one per step of the augmentation. Costs are integers, so sums are exact; NaN
compares with nothing, as in C++, and kInf is a value above every number
rather than a number. When no column improves `delta`, the code
reads `p[-1]`: the model ends in the state "undefined".

### PickleVM and PthFile

The bytes of a file are tokens: an opcode with its argument, or one byte of a
storage. Opcodes that differ only in how they encode the same argument are one,
except the integers, whose widths matter; a byte has `Base` values. `PthFile`
writes a file entry by entry (any of which may fail, or be the last of the
process), or takes one that PyTorch wrote in its modern or its legacy format,
and runs the machine on it: `OpenModern` and `ModernRoot` are `LoadPth`,
`OpenLegacy`, `NextArchive`, `LastArchive` and `ReadStorage` the five pickles
and the payload of `LoadLegacyPthBytes`, `TakeTensor` the cut of one tensor out
of its storage.

### ModuleLoad and CommandLine

A name is the sequence of its dotted parts, and a rule a pattern over parts; the
rules of DETR-R50 and D-FINE are those of the sources. A network is the list of
its parameters and buffers. The data of a tensor is `<<"trained", parameter>>`,
the parameter it was trained for, so a tensor on the wrong parameter shows, or
`<<"init", network, parameter>>`, a value that the network made up when it was
built. `told` collects what reports called missing. Every
command is a process: `Invoke`, the checks of the options, `Build`,
`OpenWeights`, one `LoadKey` for each entry of the dictionary, `FinishLoad`,
then the work of its verb and an exit code. `Throw` is any exception on the way.
The files on disk stay: what `--export` wrote, a later command may load.

### Datasets, CocoEval and Evaluation

A document is a record of its parsed parts, or malformed. `Load` is
`LoadDataset` for every kind of root; `EvaluateOne` and `EvaluateBatch` are the
two paths of `EvaluateModel` (the first skips an image it cannot read, the
second scores a blank one); `EvaluateCategory`, `AccumulateCategory` and
`Summarize` are `CocoEvaluate`. An overlap is one of three levels, scores are
small numbers, and precision and recall count in units that divide every count
of the instance, so that nothing is rounded.

### Sahi and Prediction

`Column` and `Row` are one turn each of the loop of `AxisOrigins`; `DetectTile`
crops, detects and shifts back; `Keep` is one turn of `NmsPerClass`. What a
network sees in a crop is left open: an object that is whole in a tile is found,
and any part of an object may be found as well, with a score of its own. Saving
may fail, which is only warned about. Boxes have whole corners.

### The networks and TrainStep

A feature map is `[c, h, w]`; a layer takes a map and gives one, or gives
`Threw` where LibTorch would throw (a sum or concatenation of maps of different
sizes, a view or reshape that does not fit, a wrong number of channels).
`Layers` is LibTorch; `Backbones` (ResNet, HGNetV2, ViT, windowed DINOv2,
DINOv3 with its spatial prior, Swin, the small convolutional one), `Necks` (the
hybrid encoders, projectors and level stacks) and `Decoders` are the networks
layer by layer; `Models` has the registered names with the numbers of their
configurations. Swin is modelled although no registered model uses it.

`TrainStep` is the forward and the loss: `Denoise` (the denoising queries before
the model), `Encoder`, `Select` (the choice of queries, the label embedding),
`DecoderLayer` and `LayerOutput` in turn, `FinalOutput`, then `Compute` once for
every term of the loss, in the order in which `Trainer::TrainStep` adds them,
and `Backward`. Each family has its own loop in the code (`deform_head.cpp`,
`dab_detr.cpp`, `conditional_detr.cpp`, ...); they have the same order of layer
and head, and the constants of a model say what differs. `seen` follows which
groups of queries each query has information of, through the mask of every
layer. Costs are not modelled, so the two matchers give any match they can, and
the optimizer and the EMA are `TrainingRun`'s.

## 3. What the runs check

| Run | Question | Result |
| --- | --- | --- |
| `training_run` | Do crashed, failed and resumed runs keep weights, learning rate and files consistent, and end? | holds |
| `best_checkpoint` | Is a new "best" checkpoint never worse than the old one? | violated |
| `lr_drop` | Is every epoch after `lr_drop` trained with the dropped rate? | violated |
| `shipped_ema` | Is the network that is evaluated from the EMA file as trained as its parameters? | violated |
| `batch_loader` | Do the threads of `At`, in every interleaving, produce the serial batches, and the batches the split? | holds |
| `byte_tracker` | Are tracks and detections one to one, coasting bounded, classes kept, ids fresh, over many frames? | holds |
| `assignment` | Does the algorithm return a cheapest pairing of full size, whenever there is one? | holds |
| `pth_file` | Does a load return exactly what was saved, or refuse, for every interrupted, foreign or truncated file? | holds |
| `command_line` | Does every tensor reach its own parameter, over sequences of commands? | holds |
| `evaluation` | Is the report that of the split asked for, by the definitions of the metric, in any order? | holds |
| `prediction` | Do the tiles see every small object, and does the merge keep it? | holds |
| `train_step` | Which sizes and labels get through which model, do denoising groups keep to themselves, is every output taught? | holds |

**training_run.** `WeightsMatchEpoch`: the weights contain exactly the epochs
the counter claims. `DropOncePerRun`: within a run the rate is never dropped
twice or early, which rests on the optimizer being saved last; a run that
resumes over an optimizer left behind by earlier runs inherits at most one drop
from each of them (section 5 has the case). `NoPartAhead`: in a resumable
checkpoint no file is newer, by run and then by epoch, than one written before
it. `RecordedBestIsOnDisk`:
a resume may forget the best epoch but never believes in one that is not on
disk. `ImplementsResumableRun`: refinement. `TrainingEnds`: liveness.

The three violated runs show the other side of the same design. "last" is saved
before `best` is updated, so it records the average of *before* its own epoch
(`best_checkpoint`). A crash between the model file and the optimizer file of
the drop epoch resumes past the drop with the old rate, and `OnEpochStart`
never sees `epoch == lr_drop` again (`lr_drop`). `ModelEma` averages parameters
only, so the statistics of batch normalisation are not in the file that is
evaluated (`shipped_ema`).

**batch_loader.** `OrderIsPermutation` at every step of a shuffle,
`SlotsNotShared` for the pool, `EpochCoversSplit` for an epoch,
`SameSeedSameOrder` for a resumed run, `ImplementsSerialLoader`, `CallsReturn`;
deadlock is checked.

**byte_tracker.** `OneDetectionOneTrack` over both rounds and the spawning,
`ConfidentIsReturned`, `CoastBounded`, `ClassesKept`, `ImplementsTrackLives`;
deadlock is checked.

**assignment.** `PotentialsFeasible`: no reduced cost is negative, and those of
matched pairs are zero, between any two rows, which is what makes the greedy
choice of the next column right. `UndefinedOnlyWithoutPairing`: the algorithm
leaves its arrays only for costs whose numbers do not pair every row.
`ImplementsOptimalAssignment`: the result has full size, is one to one and is
no dearer than any other pairing. `CallReturns`: liveness.

**pth_file.** `LoadedIsSaved`: a load that succeeds returns exactly the tensors
that were saved, in order, after a crash or a failed write at any entry and for
a legacy file cut at any byte. `WholeFilesLoad`: a file that has all the bytes
of its weights is not refused, whatever widths its integers need. `Decimal`,
`std::to_string`, is a constant: the run gives it TLC's `ToString`.

**command_line.** `OnItsOwnParameter`: no rule, order of rules or second trip
through the remapper puts a tensor on another parameter. `NoSilentInit`: a
network never works with nothing of its file, and a value that nobody trained
was called missing by a report: of this load or of the process that made it up.
`ExportedComesBack`: an exported file loads into the same network whole.

**evaluation.** `MatchesBestLeft`: the greedy loop with its early break gives
each detection the best of what better ones left, whatever the order of the
annotations. `PrecisionIsBest`: the interpolated precision is the best of any
cut with that recall. `OrderDoesNotMatter`: the report does not depend on the
order of the images. `EvaluatesTheSplit`: each sample of the split once, with a
limit a batch run scores no fewer unless these are all, and a single run no
more. `LoadedAsAnnotated`: of every split the dataset holds the objects of the
usable annotations, each on its image and under the place of its category in its
own file, and no others; the class names are those of the files, of both when
they list the same categories in whatever order, and of a YAML list or map
without gaps.

**prediction.** `WholeInSomeTile`: what is no longer than the overlap is whole
in a tile. `SmallObjectIsFound`: such an object is still in the result after the
merge. `PredictEnds`: liveness, for overlaps of a whole tile too.

**train_step.** `SizesThatRun` says exactly when a batch gets through, and so
that no other sum, view or product of any registered model fails.
`EveryModelTakesItsSize`: each model runs at the default `--imgsz` and at its
own. `DnLeaksNothing`: after any number of layers a query knows of no group but
its own. `ReconstructsItsOwnObject`: a denoising query is held against the
object it was made from, and the negatives and the padding against background.
`EveryLayerTaughtOnce`: the loss has each supervised layer once for each kind of
supervision.

### Bounds

* `TrainingRun`: two new runs of up to two epochs, one before the drop and one
  at it, two batches, two losses and NaN, two crashes and one failed write. Two
  crashes are enough to crash in the run that recovers from a crash; a failed
  write together with a crash gives every mixture of parts, and the second run
  mixes them with those of the first. The violated runs have one new run of up
  to three epochs and the fewest crashes that show them (none, or one).
* `BatchLoader`: four samples in batches of three, so the second batch is
  partial and smaller than the pool of three threads; one sample that cannot be
  decoded, one with a crowd box, two seeds.
* `ByteTracker`: two detections a frame, four frames, two ids, two classes
  (interchangeable, hence symmetric), a buffer of one frame, and scores on each
  side of and exactly at each of the three thresholds. Four frames let a track
  be born, coast, expire and be followed by a new one. `MaxId` and `MaxFrames`
  bound a run between two resets only.
* `Assignment`: every cost matrix over {-1, 0, 2, NaN} of 2x3 and of 3x2 (the
  transposed case), over {0, 1, NaN} of 3x3, and the empty shapes. Three rows
  are needed for an augmenting path that moves two earlier rows.
* `PthFile`: dictionaries of up to two tensors, with scalar and empty shapes and
  sizes on both sides of every width of an integer (bytes have four values, so
  that the widths differ at small numbers); foreign files with shared storages,
  memoized strings, wrapped dictionaries, transposed tensors and the other byte
  order; a legacy file cut at every byte.
* `CommandLine`: three networks of which two have rules, their authors' files,
  a wrapped file and a torn one, and up to `MaxCommands` = 3 commands: train or
  export, export again, use. The lines that break one option at a time make
  every early exit happen.
* `Evaluation`: two detections against three objects with every combination of
  three levels of overlap, in different orders of annotation, with a crowd, a
  small object and a second image and category; limits of 0 to 2 images,
  batches of 1 to 3, and every kind of root, broken ones included: two files
  that list their categories in different orders, an image id listed twice, YAML
  names as a list, as a map with and without a gap, and none. Matching has
  no case with more than two detections that two do not have, since it looks
  only at what the earlier ones took.
* `Prediction`: a picture of 7 by 4 in tiles of 3 by 2, whose columns overlap by
  one pixel and whose last one moves back; rows that overlap by the whole tile,
  where the step falls back on one; a picture smaller than a tile. A small
  object stands anywhere, alone or over a larger one.
* `TrainStep`: every registered model at its own size, at the default, at ten
  other squares and four other sizes; for training, small models as YAML files
  make them, one or two images of up to two objects, with equal, unequal and no
  objects, none, one or three groups with and without contrast, one to three
  decoder layers, and labels that are known, the "no object" of the softmax, or
  beyond the head. Labels beyond the head come only from a `num_classes` in a
  YAML file.

### Fairness

`TrainingRun`: the process, while it runs, takes its next step (weak fairness
of `Running`); nothing makes a user start one, and crashes and failures are
never fair. `BatchLoader`: the caller's thread and each worker thread are
scheduled; nothing makes the caller call again. `Assignment` and `Prediction`:
one thread runs the call and is scheduled. The others have no fairness and no
liveness property: each of their calls is a loop over data that is already
there. Deadlock is not checked where a call or a session ends.

## 4. What is proved

The proofs hold for every value of the constants, from the named assumptions
(`BatchesAssumption`, `SplitAssumption`, `ThreshAssumption`, `TileSizes`,
`JobsAssumption`, ...), which say no more than the types of the program's
parameters, that a split and a number of batches are not empty, as
`main.cpp` checks, and that what is to be seen in a picture lies in it.

* `TrainingRunProofs`: `TypeCorrect`, `EpochsTrainedOnce`,
  `LrDroppedOncePerRun`, `SavedInOrder`, `BestIsOnDisk`, `Refinement`, for any
  number of runs over the same files. Parts are compared by run and then by
  epoch (`NotAhead`). The invariant `RunInv` has to say what the
  parts of "last" say of one another (`LastInv`), of the process that may be
  about to overwrite them (`LastLiveInv`), and which of them the save in
  progress has already replaced (`SaveInv`): without the last, closing a file
  could not be shown to keep the first. `BestIsOnDisk` needs the same for the
  best average (`BestInv`): until a write fails, the one in memory is never
  below that of "best", and while "best" is being replaced, the new one is the
  one in memory and not above the average "last" has recorded before it.
* `BatchLoaderProofs`: `TypeCorrect`, `ShufflesPermute`, `NoSharedSlot`,
  `JoinedPoolFilledBatch`, `EpochSeesEverySampleOnce`, `OrderOfSeed`,
  `Refinement`. `LoaderInv`
  relates the pool (`PoolInv`), the claims below the cursor (`ClaimInv`) and the
  content of every slot by how far its worker has come (`SlotInv`): each slot
  below the cursor is filled or still held, and a joined worker only stopped
  because the cursor had reached the end. That batches cover the split is
  arithmetic on their bounds. `OrderOfSeed` states `SameSeedSameOrder`, about
  two shuffles of one history: `ShuffleInv` says that the order is what the
  generator of the seed makes, swap by swap, of the *sorted* split, so that no
  trace of the previous epoch is left (`SortedIsSplit`, `ShuffleUnique`).
* `ByteTrackerProofs`: `TypeCorrect`, `NoDetectionTwice`,
  `NoConfidentDetectionLost`, `CoastingIsBounded`, `ClassesAreKept`,
  `Refinement`. Lemmas read the steps of a frame off field by field
  (`PredictFields`, `CorrectFields`, `MarkFields`, `SpawnFields`), show that the
  two rounds together are one to one (`RoundsMatch`) and that the new ids are
  exactly the numbers from `next_id` on (`NewIds`, by counting); `UpdateStep`
  puts them together. The proofs use of an assignment only that it is one to
  one, so they hold for any matching algorithm.
* `AssignmentProofs`: `SearchCorrect`, `Feasible`, `OnlyWithoutPairing`,
  `ReturnsLeastPairing`, for costs of every size and sign, NaN included, and
  problems of every shape. `SearchInv` has the matching of the rows added so far
  (`MatchInv`: on the way back along the path, all columns but `j0`, which leaves
  out exactly the current row), the tree (`TreeInv`: each of its columns
  holds a row), the least reduced costs from it (`SlackInv`), the tight path
  that `way` describes, and that it ends in column 0 (`PathInv`) and the potentials (`FeasInv`: no reduced cost
  below zero, those of matched pairs zero, no potential of a column above zero
  and that of a free one zero). When no column improves `delta`, the rows of the
  tree have numbers in columns of the tree only, which are one too few: no
  pairing exists. When all rows are in, any other pairing costs at least the sum
  of the potentials, which is what the pairing found costs: the refinement of
  `OptimalAssignment`. The facts on sums come first in the module; the induction
  over sets that these need is done by a least counterexample.
* `PredictionProofs`: `TilesMissNothing`, which states `WholeInSomeTile` for
  every size of image and tile and every overlap. The invariant says that while
  `AxisOrigins` runs, everything that ends before the end of the next tile is
  already whole in a tile, and that the next tile starts within a step of the
  last one; a step is at least one pixel and at most a tile less the overlap
  unless the overlap is a whole tile. `SmallObjectsFound` states
  `SmallObjectIsFound` for every scene of objects in the picture (`SceneBoxes`)
  and every IoU threshold. `FoundInv` follows an object from the grid to the
  result: the list of tiles is the grid (`SlicesAreGrid`, a division), a tile is
  still to come or its whole objects are in the pool (`SeenInTile`: cutting and
  shifting back is the identity on them), and a detection leaves the pool only
  for one that stands for it (`StandsFor`, with `OverlapsBack` or `HullHolds`).
* `TrainStepProofs`: for every batch, every number of groups and queries, with
  and without contrast, and every depth of decoder. `GroupsStayApart` states
  `DnLeaksNothing`: `MaskIsolates` shows from the blocks of `attn_mask` that a
  query may only look at its own group, or at nothing but matching queries if it
  is one; then "each query knows of its own group alone" is preserved by a layer.
  `LayersTaughtOnce` states `EveryLayerTaughtOnce`: `TaughtInv` says which
  outputs have been collected when (`OutputsAfter`, `OutputsComplete`) and that
  the terms added are a prefix of those to add, which `TodoOnce` shows to be each
  due term once. `ObjectsRebuilt` states `ReconstructsItsOwnObject`: two groups
  never share a slot (`SlotOfObject`, a division), so a query is held against at
  most one object, the one its box was noised from (`HeldAt`, `NearIsHeld`), and
  a match of such pairs contests no query (`ClassesOfPairs`); `RebuildInv` adds
  that no term exists before the loss.
* `EvaluationProofs`: for every dataset whose lists are lists (`CocoFiles`,
  `YoloFiles`), every limit and batch size (`Options`), every order of the
  loader and every network whose scores and overlaps can be compared
  (`Answers`). `EvaluatesTheSplitHolds` states `EvaluatesTheSplit`: by `SplitInv`
  the indices still in the order and those of the images are places of the split
  and all different (`Accounts`), an index that is in neither was passed over for
  a reason (`Covers`), and the images stay within the limit (`Bounded`); a
  shuffle of the split has each place once because it has as many
  (`StartsShuffled`), and the single path and the batches take the next ones off
  (`Proceeds`). `MatchesBestLeftHolds` states `MatchesBestLeft`: after each
  object the loop keeps the best so far (`LookKeeps`), where the early break is
  right only because the sort by "ignore" leaves nothing that counts behind an
  ignored object (`RegularAreFirst`). A sort is described by ranks, and that
  each rank is one place's is counted (`RanksOnce`). `LoadedAsAnnotatedHolds`
  states `LoadedAsAnnotated` for files that give each category an id of its own
  (`CategoryIds`): an annotation is used exactly when its image, box and category
  allow it (`AnnotationsAre`, `BoxSays`), a sample has the boxes of its own image
  and the last image of an id gets them (`SampleSays`, `CocoHeld`), label files
  are those of the images of the split (`LabelsSay`, `SplitHeld`), and no
  concatenation of splits loses, adds or changes a box (`MergedHeld`,
  `YoloHeld`). A class is the place of its category among the ids, whatever the
  order of the list, so two files with the same categories agree (`NamesServe`),
  and the keys of a map without gaps are their own places (`YamlNames`).
  `PrecisionIsBestHolds` states `PrecisionIsBest`, for overlaps and scores of any
  size: more of a ranking has no fewer hits (`HitsGrow`), a quotient reaches
  a recall when its counts do (`FloorReaches`), and the envelope is the best of what follows, by a least counterexample from the
  end (`EnvelopeIsTop`); `CurveIsBest` puts them together for the list of
  detections, which `EntriesAre` and `AheadRanks` describe by places and ranks.
  `ScoreInv` says what has been matched and accumulated when.
  `OrderDoesNotMatterHolds` states `OrderDoesNotMatter`: an order of images is a
  bijection of places (`MoveIsBijection`) that takes ranks, counts of objects and
  entries with it (`RankMoves`, `NpigMoves`, `EntriesMove`), so two orders
  accumulate the same curves (`AccumulateMoves`, `CurvesMove`), provided no two
  detections have one score, as the property says (`DistinctCounted`,
  `SortedShuffles`).
* `WeightProofs`: for all networks, rules, files and commands such that a
  network has each name once and two commands for the same one build the same
  (`Networks`), its rules leave its own names alone (`OwnNames`), and the files
  that come with the program were trained (`ShippedTrained`).
  `NoSilentInitHolds` states `NoSilentInit`: `SilentInv` says that whatever is on
  disk or in the dictionary was trained or is in `told`, and so is what is in the
  network, except for parameters that this process made up and has not loaded,
  which the report will list as missing; `ApplyTensors` and `ApplyNothing` are what the
  remapper does to the dictionary. `ExportedComesBackHolds` states
  `ExportedComesBack`: `ReturnInv` follows a file that was exported, whose names
  the rules leave where they are (`ExportUntouched`), key by key into the network
  that is built again.
  `LoadedIsSavedHolds` states `LoadedIsSaved` for every file of `SavePth`: any
  list of tensors with different names, of any types and shapes whose sizes,
  strides and element counts are int64 and whose bytes are those of their
  elements (`SavedDicts`), for every even number of values of a byte
  (`BaseAssumption`); a save may fail or be cut off anywhere. An integer is read
  back as it was written, in each of its four widths (`PutIntIs`). The pickle
  of n tensors is three tokens, n turns and two tokens, and a tensor with d axes
  takes a turn of 20 + 2d (`TokensAre`, `TensorTokens`). `RoundTrip` is the
  invariant. Its `Reading` says what lies on the stack at each place of the
  pickle: the names and tensors of the turns that are over (`Ground`) and what
  this turn has pushed in each of its phases (`Phase`), which every token of the
  turn is shown to continue (`TokenStep`), so that at the end the dictionary is
  that of the weights (`Weights`) and all its tensors are picked (`PicksAll`).
  `Kept` says that no entry of the file holds anything but the bytes of its
  tensor, since no two tensors share an entry (`EntryAdded`), and `Taken` which
  tensors have been cut out. The induction over the tensors and over the bytes
  of an integer goes by a least counterexample (`Induct`).

Only model-checked: all liveness; `LoadedIsSaved` for files that PyTorch wrote,
and `WholeFilesLoad`; `OnItsOwnParameter`, `SizesThatRun` and
`EveryModelTakesItsSize`. How PyTorch lays out a pickle is no code of this
program and is known by example only, and `WholeFilesLoad` is about what the
machine refuses, which is where no action of it is ENABLED.
`OnItsOwnParameter` is true of the rules of the registered models and the names
in the files they are for, and not of any rules; the two about sizes are true of
the configurations of the registered models, and not of any: they are finite
statements, which TLC decides. The type invariants of loader and tracker and
`JoinedMeansFilled` are proved and not run.

## 5. Where the code and its own words differ

Three disagreements are shown by runs (section 3). The others were met while
translating, and the modules follow the code:

* `track/bytetrack.hpp:72` speaks of coasting tracks among those returned;
  `bytetrack.cpp:314` returns only those updated in the frame, and no property
  says which of the two is right.
* An unmatched detection "must exceed" `new_track_thresh` to start a track
  (`track/bytetrack.hpp:35`); `bytetrack.cpp:297` also starts one at the
  threshold itself. `ConfidentIsReturned` speaks of scores above it only.
* A new run writes over the files of the last one (`main.cpp:283-301`). When it
  crashes in its first save, between two files, the older ones stay and all
  three load: a resume then has the new model with the optimizer of the old run,
  possibly with its learning rate already dropped. It trains with a rate dropped
  before `lr_drop`, which `trainer.hpp:32` calls the epoch at which it is
  decayed, and drops it again there. `DropOncePerRun` bounds this by one drop
  for each run involved and does not rule it out.
* In one-to-many matching "each GT supervises its top-k queries"
  (`trainer.cpp:94`); a query that two objects claim is given both labels by one
  `index_copy_` (`criterion.cpp:31`), whose order is not defined, and supervises
  one of them. `TargetClasses` lets either win.
* `--imgsz` is described as shared by all models (`main.cpp:780`); some of the
  registered models ignore it, and the default of 640 overrides the sizes of
  the RF-DETR models.
* `--max-eval` is to "cap evaluation to N images" (`main.cpp:806`) and the log
  says "capped to N" (`main.cpp:443`); on the batched path the limit is tested
  before a batch only (`evaluator.cpp:87`), so up to a batch less one image more
  are scored. `EvaluatesTheSplit` asks for no fewer and leaves the excess open.
* YOLO names given as an int-keyed map are said to preserve "class index order"
  (`yolo.cpp:76`); the values are pushed one after the other, so after a gap in
  the keys every class has the name of another. Of two COCO files with different
  categories the names of the first stay for both (`dataset.cpp:137`), although
  each numbers its classes on its own. `LoadedAsAnnotated` asks for names only
  where neither is the case.
* An image that cannot be decoded is skipped on the one path of evaluation and
  scored as a blank one on the other; samples of a YOLO root have no size and
  are scored at the size of the network on the batched path.
* An exported `.pth` is said to load in the original projects too
  (`main.cpp:679`); its tensors have the names of this library's modules
  (`StateDictFromModule`), which the remappers turn the others into and not back.
* The option that makes denoising contrastive is never set by the command line.
* Predicted pictures are named after the stem of their source: two sources with
  one stem overwrite each other.

## 6. Not modelled, and the plan

Not modelled:

* The values of tensors: attention, losses, boxes, position encodings,
  optimizer arithmetic, and the Kalman filter. What they decide is a choice.
* ONNX export: a straight-line emission of one graph, whose correctness is
  numerical. The parity and golden tools are comparison programs.
* Logging: a map under one mutex over the sinks of spdlog.
* The strict load of `torch_bridge.cpp` (only tests ask for it) and the
  conversions of `tensor.cpp`.
* Augmentation, letterboxing, image codecs, directory listing, and the parsing
  of JSON and YAML. A key of a YAML map of names that is no integer, on which
  `ParseNames` throws, counts as such parsing.
* In training, BatchNorm refuses a map with one value per channel (one image,
  one pixel); the sizes of `TrainStep` do not include it.
* Registration of models happens in one thread before `main`; its mutex guards
  nothing that runs concurrently here.

What would come next:

1. Compositions: `TrainingRun` with `BatchLoader` (a resumed epoch sees the
   batches the interrupted one would have seen), `Assignment` under
   `ByteTracker` in place of its choice of assignments.
