----------------------------- MODULE TrainingRun -----------------------------
(***************************************************************************)
(* `detrcpp --train`: the epoch loop of apps/detrcpp/main.cpp, the LR drop *)
(* of Trainer::OnEpochStart, ModelEma, and the three files CheckpointMgr   *)
(* writes for a tag, with what a crash, a failed write and a resume do.    *)
(*                                                                         *)
(* Weights are abstracted to the number of whole epochs of training they   *)
(* contain, kept separately for the live model, its buffers, the EMA and   *)
(* the optimizer, because the files that hold them are written one by one. *)
(* A file is "torn" from the moment it is opened until it is complete:     *)
(* SavePth and save_to write in place, and a torn archive fails to load.   *)
(* All runs train the same model in the same directory, where a new run    *)
(* finds the files of the runs before it; every part knows the run in      *)
(* which its training began.                                               *)
(***************************************************************************)
EXTENDS Naturals, Sequences

CONSTANTS Batches,     \* DataLoader::NumBatches(), not 0 (main.cpp checks)
          LrDrop,      \* TrainConfig::lr_drop; 0 disables the drop
          Losses,      \* average losses an epoch can end with
          DblMax,      \* numeric_limits<double>::max()
          NaN,         \* an average that compares false with everything
          MaxEpochs,   \* bound: largest --epochs of an invocation
          MaxRuns,     \* bound: runs started without --resume
          MaxCrashes,  \* bound: process crashes
          MaxFails     \* bound: checkpoint files that fail to be written

ASSUME BatchesAssumption == Batches \in Nat \ {0}
ASSUME LrDropAssumption  == LrDrop \in Nat
ASSUME LossesAssumption  == /\ Losses \subseteq Nat \ {0}
                            /\ DblMax \in Nat \ {0}
                            /\ \A x \in Losses : x < DblMax
ASSUME NaNAssumption     == NaN \notin Nat
ASSUME BoundsAssumption  == {MaxEpochs, MaxRuns, MaxCrashes, MaxFails} \subseteq Nat

VARIABLES proc,     \* where the process is
          target,   \* --epochs of this invocation
          epoch,    \* the loop variable
          batch,    \* batches of this epoch already trained
          live,     \* what the Trainer holds in memory
          best,     \* the loop's best average so far
          save,     \* the CheckpointMgr::Save in progress
          avg,      \* the average loss of the epoch just trained
          disk,     \* tag -> part -> file
          shown,    \* the weights the last evaluation of a checkpoint ran with
          runs,     \* runs started without --resume
          crashes, fails

vars == <<proc, target, epoch, batch, live, best, save, avg, disk, shown,
          runs, crashes, fails>>

Tags  == {"last", "best"}
Parts == {"ema", "model", "opt"}     \* <tag>.pth, <tag>.model.pth, <tag>.opt

-----------------------------------------------------------------------------
(* What memory and the files hold. *)

Trainer == [model : Nat, buffers : Nat, ema : Nat, opt : Nat, drops : Nat,
            of : [Parts -> Nat]]

\* A Trainer of the given run that has not been trained; no Trainer at all.
Untrained(run) == [model |-> 0, buffers |-> 0, ema |-> 0, opt |-> 0,
                   drops |-> 0, of |-> [p \in Parts |-> run]]
NoTrainer == Untrained(0)

NoSave       == [tag |-> "last", part |-> 1, open |-> FALSE,
                 epoch |-> 0, best |-> 0]

File == [state : {"absent", "torn", "ok"}, at : Nat, buffers : Nat,
         drops : Nat, epoch : Nat, best : Nat, of : Nat]

Hollow(s) == [state |-> s, at |-> 0, buffers |-> 0, drops |-> 0,
              epoch |-> 0, best |-> 0, of |-> 0]
Absent == Hollow("absent")
Torn   == Hollow("torn")

\* ModelEma::State() holds the shadow parameters only, StateDictFromModule()
\* the parameters and the buffers; AttachMeta adds the TrainState to both.
EmaFile   == [Torn EXCEPT !.state = "ok", !.at = live.ema,
                          !.of = live.of["ema"], !.epoch = save.epoch, !.best = save.best]
ModelFile == [Torn EXCEPT !.state = "ok", !.at = live.model,
                          !.buffers = live.buffers, !.of = live.of["model"],
                          !.epoch = save.epoch, !.best = save.best]
\* Optimizer::save writes the moments and every group's options, LR included.
OptFile   == [Torn EXCEPT !.state = "ok", !.at = live.opt,
                          !.drops = live.drops, !.of = live.of["opt"]]

Content(p) == IF p = "ema" THEN EmaFile
              ELSE IF p = "model" THEN ModelFile ELSE OptFile

\* Mutants: the optimizer saved first; the model saved before the EMA.
OptimizerFirst == <<"opt", "ema", "model">>
ModelFirst     == <<"model", "ema", "opt">>

\* The order CheckpointMgr::Save writes them in.
SaveOrder == <<"ema", "model", "opt">>

\* `a < b` on doubles.
Less(a, b) == a # NaN /\ b # NaN /\ a < b

Intact(t)  == \A p \in Parts : disk[t][p].state = "ok"
Written(t) == \E p \in Parts : disk[t][p].state # "absent"

-----------------------------------------------------------------------------
Init == /\ proc = "idle"
        /\ target = 0 /\ epoch = 0 /\ batch = 0
        /\ live = NoTrainer
        /\ best = DblMax /\ avg = NaN
        /\ save = NoSave
        /\ disk = [t \in Tags |-> [p \in Parts |-> Absent]]
        /\ shown = [at |-> 0, buffers |-> 0]
        /\ runs = 0 /\ crashes = 0 /\ fails = 0

\* A new run (no --resume): always in the same directory, over whatever files
\* are there.
StartFresh(n) ==
  /\ proc = "idle" /\ runs < MaxRuns
  /\ runs' = runs + 1
  /\ proc' = "epoch" /\ target' = n
  /\ epoch' = 0 /\ batch' = 0 /\ live' = Untrained(runs + 1) /\ best' = DblMax
  /\ UNCHANGED <<save, avg, disk, shown, crashes, fails>>

\* Mutant: the wrong checkpoint resumed.
FromBest == "best"
\* The tag RunTrainTorch resumes.
ResumeTag == "last"

\* Mutant: the metadata of the EMA file taken.
EmaState == disk[ResumeTag]["ema"]
\* The TrainState that CheckpointMgr::Load returns.
LoadedState == disk[ResumeTag]["model"]

\* The Trainer after CheckpointMgr::Load: each part from its own file, with
\* nothing that compares them.  The model's file holds its buffers too.
LoadedTrainer ==
  LET files == disk[ResumeTag] IN
  [model |-> files["model"].at, buffers |-> files["model"].buffers,
   ema |-> files["ema"].at,
   opt |-> files["opt"].at, drops |-> files["opt"].drops,
   of |-> [p \in Parts |-> files[p].of]]

\* --resume <dir>: a missing or damaged file ends the process with UsageError.
Resume(n) ==
  /\ proc = "idle" /\ Intact(ResumeTag)
  /\ proc' = "epoch" /\ target' = n
  /\ epoch' = LoadedState.epoch /\ batch' = 0
  /\ live' = LoadedTrainer
  /\ best' = IF LoadedState.best > 0 THEN LoadedState.best ELSE DblMax
  /\ UNCHANGED <<save, avg, disk, shown, runs, crashes, fails>>

\* --val -w <dir>/<tag>.pth: a new module, into which the EMA file is loaded
\* without strict; a buffer the file does not provide keeps its initial value.
Evaluate(t) ==
  /\ proc = "idle" /\ disk[t]["ema"].state = "ok"
  /\ shown' = [at |-> disk[t]["ema"].at, buffers |-> disk[t]["ema"].buffers]
  /\ UNCHANGED <<proc, target, epoch, batch, live, best, save, avg, disk,
                 runs, crashes, fails>>

-----------------------------------------------------------------------------
(* The epoch loop. *)

\* Trainer::OnEpochStart and Reshuffle.
EpochStart ==
  /\ proc = "epoch" /\ epoch < target
  /\ proc' = "batches" /\ batch' = 0
  /\ live' = IF LrDrop > 0 /\ epoch = LrDrop
             THEN [live EXCEPT !.drops = @ + 1] ELSE live
  /\ UNCHANGED <<target, epoch, best, save, avg, disk, shown, runs, crashes,
                 fails>>

\* Mutant: a resume past the target never meets the end condition.
AtTarget == epoch = target
LoopDone == epoch >= target

Finish ==
  /\ proc = "epoch" /\ LoopDone
  /\ proc' = "idle" /\ live' = NoTrainer
  /\ UNCHANGED <<target, epoch, batch, best, save, avg, disk, shown, runs,
                 crashes, fails>>

\* Mutant: one batch too many.
BatchLeftOffByOne == batch <= Batches
BatchLeft == batch < Batches

\* TrainStep on one batch: it touches model, buffers, optimizer and EMA.
TrainStep ==
  /\ proc = "batches" /\ BatchLeft
  /\ batch' = batch + 1
  /\ UNCHANGED <<proc, target, epoch, live, best, save, avg, disk, shown,
                 runs, crashes, fails>>

\* Mutant: the best average is updated before "last" is saved.
BestOfThisEpoch(a) == IF Less(a, best) THEN a ELSE best
\* What "last" records: the `best` of before this epoch.
RecordedBest(a) == best

\* The last batch is done: the weights now contain one more epoch.
EpochEnd(a) ==
  /\ proc = "batches" /\ batch = Batches
  /\ live' = [live EXCEPT !.model = @ + 1, !.buffers = @ + 1,
                          !.ema = @ + 1, !.opt = @ + 1]
  /\ avg' = a
  /\ save' = [tag |-> "last", part |-> 1, open |-> FALSE,
              epoch |-> epoch + 1, best |-> RecordedBest(a)]
  /\ proc' = "save"
  /\ UNCHANGED <<target, epoch, batch, best, disk, shown, runs, crashes, fails>>

-----------------------------------------------------------------------------
(* CheckpointMgr::Save: the three files in order, the first error ends it. *)

\* What the loop does when Save("last") or Save("best") returns; a failed save
\* is only warned about.
AfterSave ==
  IF save.tag = "last" /\ Less(avg, best)
  THEN /\ best' = avg
       /\ save' = [tag |-> "best", part |-> 1, open |-> FALSE,
                   epoch |-> save.epoch, best |-> avg]
       /\ UNCHANGED <<proc, epoch>>
  ELSE /\ proc' = "epoch" /\ epoch' = epoch + 1
       /\ save' = NoSave
       /\ UNCHANGED best

\* The file being written.
Part == SaveOrder[save.part]

OpenFile ==
  /\ proc = "save" /\ ~save.open
  /\ save' = [save EXCEPT !.open = TRUE]
  /\ disk' = [disk EXCEPT ![save.tag][Part] = Torn]
  /\ UNCHANGED <<proc, target, epoch, batch, live, best, avg, shown, runs,
                 crashes, fails>>

CloseFile ==
  /\ proc = "save" /\ save.open
  /\ disk' = [disk EXCEPT ![save.tag][Part] = Content(Part)]
  /\ IF save.part = Len(SaveOrder)
     THEN AfterSave
     ELSE /\ save' = [save EXCEPT !.part = @ + 1, !.open = FALSE]
          /\ UNCHANGED <<proc, epoch, best>>
  /\ UNCHANGED <<target, batch, live, avg, shown, runs, crashes, fails>>

\* The file cannot be opened (nothing was touched), or writing it fails: it
\* stays torn, or it is complete although an error is reported (only the
\* archive's trailing entries failed and ZipWriter::Reset finalized it).
FailFile ==
  /\ proc = "save" /\ fails < MaxFails
  /\ fails' = fails + 1
  /\ \/ UNCHANGED disk
     \/ /\ save.open
        /\ disk' = [disk EXCEPT ![save.tag][Part] = Content(Part)]
  /\ AfterSave
  /\ UNCHANGED <<target, batch, live, avg, shown, runs, crashes>>

Crash ==
  /\ proc # "idle" /\ crashes < MaxCrashes
  /\ crashes' = crashes + 1
  /\ proc' = "idle" /\ live' = NoTrainer /\ save' = NoSave
  /\ UNCHANGED <<target, epoch, batch, best, avg, disk, shown, runs, fails>>

-----------------------------------------------------------------------------
Running == \/ EpochStart \/ Finish \/ TrainStep
           \/ \E a \in Losses \cup {NaN} : EpochEnd(a)
           \/ OpenFile \/ CloseFile

Next == \/ \E n \in 1..MaxEpochs : StartFresh(n) \/ Resume(n)
        \/ \E t \in Tags : Evaluate(t)
        \/ Running
        \/ FailFile \/ Crash

Spec == Init /\ [][Next]_vars

\* The process runs until it ends; nobody promises it is ever started again.
FairSpec == Spec /\ WF_vars(Running)

-----------------------------------------------------------------------------
(* Properties. *)

\* Every variable keeps its type: an average is a loss or NaN, at most one
\* file is being written, every file is one of the three kinds.
TypeOK ==
  /\ proc \in {"idle", "epoch", "batches", "save"}
  /\ target \in Nat /\ epoch \in Nat /\ batch \in 0..Batches
  /\ live \in Trainer
  /\ best \in Nat \ {0} /\ avg \in Losses \cup {NaN}
  /\ save \in [tag : Tags, part : 1..3, open : BOOLEAN, epoch : Nat, best : Nat]
  /\ disk \in [Tags -> [Parts -> File]]
  /\ shown \in [at : Nat, buffers : Nat]
  /\ runs \in 0..MaxRuns /\ crashes \in 0..MaxCrashes /\ fails \in 0..MaxFails

\* The model in memory has been trained for exactly the epochs the loop
\* counter says, however often the process crashed and resumed, and a model
\* file that loads says of itself which epoch it holds: no epoch is trained
\* twice into the same weights and none is skipped.
WeightsMatchEpoch ==
  /\ proc \in {"epoch", "batches"} =>
       live.model = epoch /\ live.buffers = epoch
  /\ proc = "save" => live.model = epoch + 1 /\ live.buffers = epoch + 1
  /\ \A t \in Tags : LET f == disk[t]["model"] IN
       f.state = "ok" => f.at = f.epoch /\ f.buffers = f.epoch

\* How often a run that has begun so many epochs had to drop the LR.
Due(epochs) == IF LrDrop > 0 /\ epochs > LrDrop THEN 1 ELSE 0

\* Epochs the loop has begun when the process runs.
Begun == IF proc = "epoch" THEN epoch ELSE epoch + 1

\* OnEpochStart multiplies every LR by 0.1 each time it runs at lr_drop, and
\* a crash can make an epoch start twice.  Within a run the LR is still never
\* dropped twice, nor before its epoch: the optimizer is saved after the
\* model.  A run that resumes over an optimizer an earlier run left behind
\* inherits at most one drop from each run since the optimizer was new.
DropOncePerRun ==
  /\ proc # "idle" =>
       live.drops + live.of["opt"] <= live.of["model"] + Due(Begun)
  /\ LET model == disk["last"]["model"]
         opt == disk["last"]["opt"]
     IN  model.state = "ok" /\ opt.state = "ok" =>
           opt.drops + opt.of <= model.of + Due(model.epoch)

\* Training <<run, epochs>> that is not beyond another: of an earlier run, or
\* of no more epochs of the same one.
NotAhead(a, b) == a[1] < b[1] \/ (a[1] = b[1] /\ a[2] <= b[2])

\* Of the files of a resumable checkpoint none is newer than one written
\* before it, whichever runs left them: the optimizer never knows an epoch
\* the model has not seen, the model none that the EMA file has not seen, and
\* neither is of a later run.
NoPartAhead ==
  LET ema == disk["last"]["ema"]
      model == disk["last"]["model"]
      opt == disk["last"]["opt"]
  IN  Intact("last") =>
        /\ NotAhead(<<opt.of, opt.at>>, <<model.of, model.at>>)
        /\ NotAhead(<<model.of, model.epoch>>, <<ema.of, ema.epoch>>)

\* As long as no write failed, the best average "last" records is never below
\* that of the checkpoint kept under "best": a resume may forget the best
\* epoch, it never believes in one that is not on disk.
RecordedBestIsOnDisk ==
  LET l == disk["last"]["model"]
      b == disk["best"]["model"]
  IN  fails = 0 /\ l.state = "ok" /\ b.state = "ok" => b.best <= l.best

\* The files, phases and counters implement the abstract resumable run: what
\* is recovered is what was committed, of the run that committed it, and what
\* is committed is in memory.
Abstract == INSTANCE ResumableRun WITH
              alive   <- proc # "idle",
              live    <- [run |-> live.of["model"], epochs |-> live.model],
              state   <- disk["last"]["model"].state,
              durable <- [run |-> disk["last"]["model"].of,
                          epochs |-> disk["last"]["model"].at]
ImplementsResumableRun == Abstract!Spec

\* A process that no longer crashes trains all the epochs it was asked for
\* and ends, whatever happens to the checkpoints it writes.
TrainingEnds ==
  (crashes = MaxCrashes /\ proc # "idle") ~> (proc = "idle" /\ epoch >= target)

-----------------------------------------------------------------------------
(* The inductive invariant behind the safety properties. *)

\* Epochs the loop has trained when the process runs.
Trained == IF proc = "save" THEN epoch + 1 ELSE epoch

LiveInv ==
  /\ proc = "idle" => live = NoTrainer
  /\ proc # "idle" =>
       /\ live.model = Trained /\ live.buffers = Trained
       /\ NotAhead(<<live.of["opt"], live.opt>>, <<live.of["model"], live.model>>)
       /\ live.of["model"] <= live.of["ema"] /\ live.of["ema"] <= runs
       /\ live.drops + live.of["opt"] <= live.of["model"] + Due(Begun)

\* What a file says on its own, whatever the process does.
FileInv ==
  /\ \A t \in Tags : LET f == disk[t]["model"] IN
       f.state = "ok" => f.at = f.epoch /\ f.buffers = f.epoch
  /\ \A p \in Parts : LET f == disk["last"][p] IN
       f.state = "ok" => f.of <= runs /\ f.drops + f.of <= runs + 1
  /\ LET f == disk["last"]["model"] IN f.state # "ok" => f.at = 0 /\ f.of = 0

\* What the files of "last" say of one another ...
LastInv ==
  LET ema == disk["last"]["ema"]
      model == disk["last"]["model"]
      opt == disk["last"]["opt"]
  IN  /\ model.state = "ok" /\ ema.state = "ok" =>
           /\ model.of <= ema.of
           /\ NotAhead(<<model.of, model.epoch>>, <<ema.of, ema.epoch>>)
      /\ model.state = "ok" /\ opt.state = "ok" =>
           /\ NotAhead(<<opt.of, opt.at>>, <<model.of, model.at>>)
           /\ opt.drops + opt.of <= model.of + Due(model.epoch)

\* ... and of the process that may write them again.
LastLiveInv ==
  LET model == disk["last"]["model"]
      opt == disk["last"]["opt"]
  IN  proc # "idle" =>
        /\ model.state = "ok" =>
             NotAhead(<<model.of, model.epoch>>, <<live.of["model"], Trained>>)
        /\ opt.state = "ok" =>
             /\ NotAhead(<<opt.of, opt.at>>, <<live.of["model"], live.model>>)
             /\ opt.drops + opt.of <= live.of["model"] + Due(Trained)

\* The parts of "last" that this save has already written.
SaveInv ==
  proc = "save" =>
    /\ save.epoch = epoch + 1
    /\ save.tag = "last" /\ save.part >= 2 =>
         LET f == disk["last"]["ema"] IN
         f.state = "ok" /\ f.epoch = epoch + 1 /\ f.of = live.of["ema"]
    /\ save.tag = "last" /\ save.part = 3 =>
         LET f == disk["last"]["model"] IN
         f.state = "ok" /\ f.epoch = epoch + 1 /\ f.of = live.of["model"]

RunInv == LiveInv /\ FileInv /\ LastInv /\ LastLiveInv /\ SaveInv

\* The best averages in the files of "last" and "best" and in the loop, while
\* no write has failed. The loop is below "best" only while it writes "best".
BestOnDisk ==
  LET l == disk["last"]["model"]
      b == disk["best"]["model"]
  IN  /\ Written("best") => Written("last")
      /\ l.state = "ok" => l.best > 0
      /\ l.best <= DblMax /\ b.best <= DblMax
      /\ l.state = "ok" /\ b.state = "ok" => b.best <= l.best

BestInLoop ==
  LET l == disk["last"]["model"]
      b == disk["best"]["model"]
  IN  /\ best <= DblMax
      /\ proc \in {"epoch", "batches"} /\ b.state = "ok" => b.best <= best
      /\ proc = "save" => save.best = best
      /\ proc = "save" /\ save.tag = "last" =>
           /\ b.state = "ok" => b.best <= best
           /\ save.part = 3 => l.state = "ok" /\ l.best = best
      /\ proc = "save" /\ save.tag = "best" =>
           /\ l.state = "ok" /\ best <= l.best
           /\ save.part = 3 => b.state = "ok" /\ b.best = best

BestInv == fails = 0 => BestOnDisk /\ BestInLoop

-----------------------------------------------------------------------------
(* What the repository's text says and the program does not do. *)

\* "new best avg loss" (main.cpp:351): a checkpoint saved as the best is not
\* worse than the one of the same run that it replaces.
BestImproves ==
  proc = "save" /\ save.tag = "best" =>
    \A p \in {"ema", "model"} : LET f == disk["best"][p] IN
      f.state = "ok" /\ f.of = live.of[p] => save.best <= f.best

\* "epoch at which to decay all LRs 10x" (trainer.hpp:32): from that epoch on
\* training uses the dropped LR.
TrainsWithDroppedLr ==
  proc = "batches" /\ LrDrop > 0 /\ epoch >= LrDrop => live.drops >= 1

\* "EMA weights (primary - what we ship/evaluate)" (checkpoint.hpp:5): a
\* network evaluated from the EMA file is as trained as its parameters.
EvaluatesTrainedNetwork == shown.buffers = shown.at
=============================================================================
