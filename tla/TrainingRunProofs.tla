-------------------------- MODULE TrainingRunProofs --------------------------
(***************************************************************************)
(* What holds of TrainingRun for every number of batches, every lr_drop,   *)
(* every set of losses and any number of crashes and failed writes.        *)
(***************************************************************************)
EXTENDS TrainingRun, TLAPS

-----------------------------------------------------------------------------
(* Files and the trainer. *)

LEMMA HollowType == Absent \in File /\ Torn \in File
  BY DEF Absent, Torn, Hollow, File

LEMMA UntrainedType ==
  NoTrainer \in Trainer /\ \A r \in Nat : Untrained(r) \in Trainer
  BY DEF NoTrainer, Untrained, Trainer

LEMMA ContentType ==
  ASSUME TypeOK, NEW p \in Parts
  PROVE  Content(p) \in File
  BY DEF TypeOK, Content, EmaFile, ModelFile, OptFile, Torn, Hollow, File, Parts, Trainer

LEMMA PartType ==
  ASSUME TypeOK
  PROVE  Part \in Parts /\ Len(SaveOrder) = 3 /\ (save.part # 3 => save.part + 1 \in 1..3)
  <1>1. save.part \in 1..3
    BY DEF TypeOK
  <1> QED
    BY <1>1 DEF Part, SaveOrder, Parts

LEMMA AfterSaveType ==
  ASSUME TypeOK, AfterSave
  PROVE  /\ proc' \in {"save", "epoch", proc} /\ epoch' \in Nat
         /\ best' \in Nat \ {0}
         /\ save' \in [tag : Tags, part : 1..3, open : BOOLEAN, epoch : Nat, best : Nat]
  <1>1. CASE save.tag = "last" /\ Less(avg, best)
    <2>1. avg \in Losses /\ avg \in Nat \ {0}
      BY <1>1, LossesAssumption DEF TypeOK, Less
    <2>2. /\ best' = avg /\ proc' = proc /\ epoch' = epoch
          /\ save' = [tag |-> "best", part |-> 1, open |-> FALSE,
                      epoch |-> save.epoch, best |-> avg]
      BY <1>1 DEF AfterSave
    <2>3. save' \in [tag : Tags, part : 1..3, open : BOOLEAN, epoch : Nat, best : Nat]
      BY <2>1, <2>2 DEF TypeOK, Tags
    <2> QED
      BY <2>1, <2>2, <2>3 DEF TypeOK
  <1>2. CASE ~(save.tag = "last" /\ Less(avg, best))
    <2>1. /\ best' = best /\ proc' = "epoch" /\ epoch' = epoch + 1
          /\ save' = NoSave
      BY <1>2 DEF AfterSave
    <2>2. NoSave \in [tag : Tags, part : 1..3, open : BOOLEAN, epoch : Nat, best : Nat]
      BY DEF NoSave, Tags
    <2>3. save' \in [tag : Tags, part : 1..3, open : BOOLEAN, epoch : Nat, best : Nat]
      BY <2>1, <2>2
    <2> QED
      BY <2>1, <2>3 DEF TypeOK
  <1> QED
    BY <1>1, <1>2

\* Every reachable state is well typed: in particular the best average is
\* always a positive number, whatever a resumed checkpoint records.
THEOREM TypeCorrect == Spec => []TypeOK
  <1>1. Init => TypeOK
    <2> SUFFICES ASSUME Init PROVE TypeOK
      OBVIOUS
    <2>1. disk \in [Tags -> [Parts -> File]]
      BY HollowType DEF Init
    <2>2. save \in [tag : Tags, part : 1..3, open : BOOLEAN, epoch : Nat, best : Nat]
      BY DEF Init, NoSave, Tags
    <2> QED
      BY <2>1, <2>2, UntrainedType, LossesAssumption, BatchesAssumption, BoundsAssumption
      DEF Init, TypeOK
  <1>2. TypeOK /\ [Next]_vars => TypeOK'
    <2> SUFFICES ASSUME TypeOK, [Next]_vars PROVE TypeOK'
      OBVIOUS
    <2>1. CASE \E n \in 1..MaxEpochs : StartFresh(n)
      <3>1. runs + 1 \in 0..MaxRuns
        BY <2>1, BoundsAssumption DEF StartFresh, TypeOK
      <3> QED
        BY <2>1, <3>1, UntrainedType, LossesAssumption, BatchesAssumption
        DEF StartFresh, TypeOK
    <2>2. CASE \E n \in 1..MaxEpochs : Resume(n)
      <3>1. \A p \in Parts : disk[ResumeTag][p] \in File
        BY DEF TypeOK, ResumeTag, Tags
      <3>2. LoadedState \in File
        BY <3>1 DEF LoadedState, Parts
      <3>3. LoadedTrainer \in Trainer
        BY <3>1 DEF LoadedTrainer, Parts, File, Trainer
      <3>4. LoadedState.epoch \in Nat /\ LoadedState.best \in Nat
        BY <3>2 DEF File
      <3> QED
        BY <2>2, <3>3, <3>4, LossesAssumption, BatchesAssumption DEF Resume, TypeOK
    <2>3. CASE \E t \in Tags : Evaluate(t)
      BY <2>3 DEF Evaluate, TypeOK, File, Parts
    <2>4. CASE EpochStart
      BY <2>4, BatchesAssumption DEF EpochStart, TypeOK, Trainer
    <2>5. CASE Finish
      BY <2>5, UntrainedType DEF Finish, TypeOK
    <2>6. CASE TrainStep
      BY <2>6, BatchesAssumption DEF TrainStep, BatchLeft, TypeOK
    <2>7. CASE \E a \in Losses \cup {NaN} : EpochEnd(a)
      <3>1. PICK a \in Losses \cup {NaN} : EpochEnd(a)
        BY <2>7
      <3>2. save' \in [tag : Tags, part : 1..3, open : BOOLEAN, epoch : Nat, best : Nat]
        BY <3>1 DEF EpochEnd, RecordedBest, TypeOK, Tags
      <3>3. live' \in Trainer
        <4>1. live \in Trainer
          BY DEF TypeOK
        <4>2. /\ live.model \in Nat /\ live.buffers \in Nat /\ live.ema \in Nat
              /\ live.opt \in Nat /\ live.drops \in Nat /\ live.of \in [Parts -> Nat]
          BY <4>1 DEF Trainer
        <4>3. live' = [model |-> live.model + 1, buffers |-> live.buffers + 1,
                       ema |-> live.ema + 1, opt |-> live.opt + 1,
                       drops |-> live.drops, of |-> live.of]
          BY <3>1, <4>1 DEF EpochEnd, Trainer
        <4> QED
          BY <4>2, <4>3 DEF Trainer
      <3> QED
        BY <3>1, <3>2, <3>3 DEF EpochEnd, TypeOK
    <2>8. CASE OpenFile
      BY <2>8, PartType, HollowType DEF OpenFile, TypeOK
    <2>9. CASE CloseFile
      <3>1. disk' \in [Tags -> [Parts -> File]]
        BY <2>9, PartType, ContentType DEF CloseFile, TypeOK
      <3>2. CASE save.part = Len(SaveOrder)
        BY <2>9, <3>1, <3>2, AfterSaveType DEF CloseFile, TypeOK
      <3>3. CASE save.part # Len(SaveOrder)
        BY <2>9, <3>1, <3>3, PartType DEF CloseFile, TypeOK
      <3> QED
        BY <3>2, <3>3
    <2>10. CASE FailFile
      <3>1. disk' \in [Tags -> [Parts -> File]]
        <4>1. CASE UNCHANGED disk
          BY <4>1 DEF TypeOK
        <4>2. CASE disk' = [disk EXCEPT ![save.tag][Part] = Content(Part)]
          BY <4>2, PartType, ContentType DEF TypeOK
        <4> QED
          BY <2>10, <4>1, <4>2 DEF FailFile
      <3> QED
        BY <2>10, <3>1, AfterSaveType, BoundsAssumption DEF FailFile, TypeOK
    <2>11. CASE Crash
      BY <2>11, UntrainedType, BoundsAssumption DEF Crash, TypeOK, NoSave, Tags
    <2>12. CASE UNCHANGED vars
      BY <2>12 DEF vars, TypeOK
    <2> QED
      BY <2>1, <2>2, <2>3, <2>4, <2>5, <2>6, <2>7, <2>8, <2>9, <2>10, <2>11, <2>12
      DEF Next, Running
  <1> QED
    BY <1>1, <1>2, PTL DEF Spec

-----------------------------------------------------------------------------
(* One file of a save. *)

\* The numbers the invariant compares.
LEMMA Numbers ==
  ASSUME TypeOK
  PROVE  /\ \A t \in Tags, p \in Parts :
              /\ disk[t][p] \in File
              /\ disk[t][p].at \in Nat /\ disk[t][p].epoch \in Nat
              /\ disk[t][p].drops \in Nat /\ disk[t][p].of \in Nat
         /\ \A p \in Parts : live.of[p] \in Nat
         /\ live.model \in Nat /\ live.opt \in Nat /\ live.drops \in Nat
         /\ epoch \in Nat /\ LrDrop \in Nat /\ runs \in Nat
         /\ Due(epoch) \in {0, 1} /\ Due(epoch + 1) \in {0, 1}
         /\ Due(epoch) <= Due(epoch + 1)
  <1>1. \A t \in Tags, p \in Parts : disk[t][p] \in File
    BY DEF TypeOK
  <1>2. live \in Trainer
    BY DEF TypeOK
  <1>3. epoch \in Nat /\ LrDrop \in Nat /\ runs \in Nat
    BY LrDropAssumption, BoundsAssumption DEF TypeOK
  <1>4. /\ Due(epoch) \in {0, 1} /\ Due(epoch + 1) \in {0, 1}
        /\ Due(epoch) <= Due(epoch + 1)
    BY <1>3 DEF Due
  <1> QED
    BY <1>1, <1>2, <1>3, <1>4 DEF File, Trainer

\* What a write leaves true of the files and of the process that resumes.
DiskAfter ==
  LET model == disk'["last"]["model"]
      opt == disk'["last"]["opt"]
  IN  /\ FileInv' /\ LastInv'
      /\ model.state = "ok" =>
           NotAhead(<<model.of, model.epoch>>, <<live.of["model"], epoch + 1>>)
      /\ opt.state = "ok" =>
           /\ NotAhead(<<opt.of, opt.at>>, <<live.of["model"], live.model>>)
           /\ opt.drops + opt.of <= live.of["model"] + Due(epoch + 1)

\* The three parts, by their place in the save.
LEMMA PartIs ==
  ASSUME TypeOK
  PROVE  /\ Len(SaveOrder) = 3
         /\ save.part = 1 => Part = "ema"
         /\ save.part = 2 => Part = "model"
         /\ save.part = 3 => Part = "opt"
         /\ save.part \in {1, 2, 3}
         /\ save.tag \in {"last", "best"}
  BY DEF TypeOK, Part, SaveOrder, Tags

\* A save that has nothing of "last" changed keeps what is known of it.
LEMMA DiskUnchanged ==
  ASSUME TypeOK, RunInv, proc = "save", UNCHANGED <<disk, runs>>
  PROVE  DiskAfter
  <1>1. FileInv'
    BY DEF RunInv, FileInv
  <1>2. LastInv'
    BY DEF RunInv, LastInv
  <1> QED
    BY <1>1, <1>2 DEF DiskAfter, RunInv, LastLiveInv, Trained

\* Opening a file tears it; a torn file is never read.
LEMMA DiskTorn ==
  ASSUME TypeOK, RunInv, proc = "save", UNCHANGED runs,
         disk' = [disk EXCEPT ![save.tag][Part] = Torn]
  PROVE  DiskAfter
  <1>1. /\ \A t \in Tags, p \in Parts :
             disk'[t][p] = IF t = save.tag /\ p = Part THEN Torn ELSE disk[t][p]
    BY PartType DEF TypeOK
  <1>2. Torn.state = "torn" /\ Torn.at = 0 /\ Torn.of = 0
    BY DEF Torn, Hollow
  <1>3. FileInv'
    BY <1>1, <1>2 DEF RunInv, FileInv, Tags, Parts
  <1>4. LastInv'
    BY <1>1, <1>2 DEF RunInv, LastInv, Tags, Parts
  <1> QED
    BY <1>1, <1>2, <1>3, <1>4
    DEF DiskAfter, RunInv, LastLiveInv, Trained, Tags, Parts

\* A completed file holds what the trainer holds, under the saved epoch.
LEMMA DiskWritten ==
  ASSUME TypeOK, RunInv, proc = "save", UNCHANGED runs,
         disk' = [disk EXCEPT ![save.tag][Part] = Content(Part)]
  PROVE  DiskAfter
  <1>1. \A t \in Tags, p \in Parts :
          disk'[t][p] = IF t = save.tag /\ p = Part THEN Content(Part) ELSE disk[t][p]
    BY PartType DEF TypeOK
  <1>2. /\ EmaFile.state = "ok" /\ EmaFile.epoch = epoch + 1 /\ EmaFile.drops = 0
        /\ EmaFile.of = live.of["ema"]
        /\ ModelFile.state = "ok" /\ ModelFile.epoch = epoch + 1
        /\ ModelFile.drops = 0 /\ ModelFile.of = live.of["model"]
        /\ ModelFile.at = epoch + 1 /\ ModelFile.buffers = epoch + 1
        /\ OptFile.state = "ok" /\ OptFile.at = live.opt /\ OptFile.drops = live.drops
        /\ OptFile.of = live.of["opt"]
    BY DEF EmaFile, ModelFile, OptFile, Torn, Hollow, RunInv, LiveInv, SaveInv, Trained
  <1>3. /\ live.model = epoch + 1
        /\ NotAhead(<<live.of["opt"], live.opt>>, <<live.of["model"], live.model>>)
        /\ live.of["model"] <= live.of["ema"] /\ live.of["ema"] <= runs
        /\ live.drops + live.of["opt"] <= live.of["model"] + Due(epoch + 1)
    BY DEF RunInv, LiveInv, Trained, Begun
  <1>4. /\ epoch \in Nat /\ live.opt \in Nat /\ live.drops \in Nat /\ runs \in Nat
        /\ live.of["ema"] \in Nat /\ live.of["model"] \in Nat /\ live.of["opt"] \in Nat
        /\ Due(epoch + 1) \in {0, 1}
    BY Numbers DEF Parts
  <1>5. \A p \in Parts : disk["last"][p].of \in Nat /\ disk["last"][p].epoch \in Nat
                         /\ disk["last"][p].at \in Nat /\ disk["last"][p].drops \in Nat
    BY Numbers DEF Tags
  <1>6. FileInv'
    <2>1. /\ \A t \in Tags : LET f == disk[t]["model"] IN
               f.state = "ok" => f.at = f.epoch /\ f.buffers = f.epoch
          /\ \A p \in Parts : LET f == disk["last"][p] IN
               f.state = "ok" => f.of <= runs /\ f.drops + f.of <= runs + 1
          /\ LET f == disk["last"]["model"] IN f.state # "ok" => f.at = 0 /\ f.of = 0
      BY DEF RunInv, FileInv
    <2>2. /\ EmaFile.of <= runs /\ EmaFile.drops + EmaFile.of <= runs + 1
          /\ ModelFile.of <= runs /\ ModelFile.drops + ModelFile.of <= runs + 1
          /\ OptFile.of <= runs /\ OptFile.drops + OptFile.of <= runs + 1
      BY <1>2, <1>3, <1>4 DEF NotAhead
    <2>3. \/ Part = "ema" /\ Content(Part) = EmaFile
          \/ Part = "model" /\ Content(Part) = ModelFile
          \/ Part = "opt" /\ Content(Part) = OptFile
      BY PartIs DEF Content
    <2>4. \A t \in Tags : LET f == disk'[t]["model"] IN
               f.state = "ok" => f.at = f.epoch /\ f.buffers = f.epoch
      BY <1>1, <1>2, <2>1, <2>3 DEF Parts
    <2>5. \A p \in Parts : LET f == disk'["last"][p] IN
               f.state = "ok" => f.of <= runs /\ f.drops + f.of <= runs + 1
      BY <1>1, <2>1, <2>2, <2>3 DEF Tags
    <2>6. LET f == disk'["last"]["model"] IN f.state # "ok" => f.at = 0 /\ f.of = 0
      BY <1>1, <1>2, <2>1, <2>3 DEF Tags, Parts
    <2> QED
      BY <2>4, <2>5, <2>6 DEF FileInv
  <1>7. CASE save.tag = "best"
    <2>1. \A p \in Parts : disk'["last"][p] = disk["last"][p]
      BY <1>1, <1>7 DEF Tags
    <2>2. LastInv'
      BY <2>1 DEF RunInv, LastInv, Parts
    <2> QED
      BY <1>6, <2>1, <2>2 DEF DiskAfter, RunInv, LastLiveInv, Trained, Parts
  <1>8. CASE save.tag = "last"
    <2>1. \A p \in Parts : disk'["last"][p] = IF p = Part THEN Content(Part) ELSE disk["last"][p]
      BY <1>1, <1>8 DEF Tags
    <2>2. /\ disk["last"]["model"].state = "ok" =>
               NotAhead(<<disk["last"]["model"].of, disk["last"]["model"].epoch>>,
                        <<live.of["model"], epoch + 1>>)
          /\ disk["last"]["opt"].state = "ok" =>
               /\ NotAhead(<<disk["last"]["opt"].of, disk["last"]["opt"].at>>,
                           <<live.of["model"], live.model>>)
               /\ disk["last"]["opt"].drops + disk["last"]["opt"].of
                    <= live.of["model"] + Due(epoch + 1)
      BY DEF RunInv, LastLiveInv, Trained
    <2>3. CASE save.part = 1
      <3>1. /\ disk'["last"]["ema"] = EmaFile
            /\ disk'["last"]["model"] = disk["last"]["model"]
            /\ disk'["last"]["opt"] = disk["last"]["opt"]
        BY <2>1, <2>3, PartIs DEF Content, Parts
      <3>2. disk["last"]["model"].state = "ok" =>
              /\ disk["last"]["model"].of <= live.of["ema"]
              /\ NotAhead(<<disk["last"]["model"].of, disk["last"]["model"].epoch>>,
                          <<live.of["ema"], epoch + 1>>)
        BY <1>3, <1>4, <1>5, <2>2 DEF NotAhead, Parts
      <3>3. LastInv'
        BY <1>2, <3>1, <3>2 DEF RunInv, LastInv
      <3> QED
        BY <1>6, <2>2, <3>1, <3>3 DEF DiskAfter
    <2>4. CASE save.part = 2
      <3>1. /\ disk'["last"]["ema"] = disk["last"]["ema"]
            /\ disk'["last"]["model"] = ModelFile
            /\ disk'["last"]["opt"] = disk["last"]["opt"]
        BY <2>1, <2>4, PartIs DEF Content, Parts
      <3>2. /\ disk["last"]["ema"].epoch = epoch + 1
            /\ disk["last"]["ema"].of = live.of["ema"]
        BY <1>8, <2>4 DEF RunInv, SaveInv
      <3>3. /\ live.of["model"] <= live.of["ema"]
            /\ NotAhead(<<live.of["model"], epoch + 1>>, <<live.of["ema"], epoch + 1>>)
            /\ NotAhead(<<live.of["model"], epoch + 1>>, <<live.of["model"], epoch + 1>>)
        BY <1>3, <1>4 DEF NotAhead
      <3>4. LastInv'
        BY <1>2, <1>3, <2>2, <3>1, <3>2, <3>3 DEF LastInv
      <3> QED
        BY <1>2, <1>6, <2>2, <3>1, <3>3, <3>4 DEF DiskAfter
    <2>5. CASE save.part = 3
      <3>1. /\ disk'["last"]["ema"] = disk["last"]["ema"]
            /\ disk'["last"]["model"] = disk["last"]["model"]
            /\ disk'["last"]["opt"] = OptFile
        BY <2>1, <2>5, PartIs DEF Content, Parts
      <3>2. /\ disk["last"]["model"].state = "ok"
            /\ disk["last"]["model"].epoch = epoch + 1
            /\ disk["last"]["model"].at = epoch + 1
            /\ disk["last"]["model"].of = live.of["model"]
        BY <1>8, <2>5 DEF RunInv, SaveInv, FileInv, Tags
      <3>3. LastInv'
        BY <1>2, <1>3, <3>1, <3>2 DEF RunInv, LastInv
      <3> QED
        BY <1>2, <1>3, <1>6, <2>2, <3>1, <3>3 DEF DiskAfter
    <2> QED
      BY <2>3, <2>4, <2>5, PartIs
  <1> QED
    BY <1>7, <1>8, PartIs

\* The end of a save, successful or not.
LEMMA AfterSaveInv ==
  ASSUME TypeOK, RunInv, proc = "save", AfterSave, UNCHANGED <<live, runs>>, DiskAfter
  PROVE  RunInv'
  <1>1. epoch \in Nat
    BY DEF TypeOK
  <1>2. LiveInv /\ SaveInv
    BY DEF RunInv
  <1>3. FileInv' /\ LastInv'
    BY DEF DiskAfter
  <1>4. CASE save.tag = "last" /\ Less(avg, best)
    <2>1. /\ proc' = "save" /\ epoch' = epoch
          /\ save'.tag = "best" /\ save'.epoch = save.epoch
      BY <1>4 DEF AfterSave
    <2>2. LiveInv'
      BY <1>2, <2>1 DEF LiveInv, Trained, Begun, Due
    <2>3. LastLiveInv'
      BY <2>1 DEF LastLiveInv, DiskAfter, Trained, Due
    <2>4. SaveInv'
      BY <1>2, <2>1 DEF SaveInv
    <2> QED
      BY <1>3, <2>2, <2>3, <2>4 DEF RunInv
  <1>5. CASE ~(save.tag = "last" /\ Less(avg, best))
    <2>1. proc' = "epoch" /\ epoch' = epoch + 1
      BY <1>5 DEF AfterSave
    <2>2. LiveInv'
      BY <1>2, <2>1 DEF LiveInv, Trained, Begun, Due
    <2>3. LastLiveInv'
      BY <2>1 DEF LastLiveInv, DiskAfter, Trained, Due
    <2>4. SaveInv'
      BY <2>1 DEF SaveInv
    <2> QED
      BY <1>3, <2>2, <2>3, <2>4 DEF RunInv
  <1> QED
    BY <1>4, <1>5

-----------------------------------------------------------------------------
(* The inductive invariant. *)

LEMMA InitRunInv == Init => RunInv
  BY DEF Init, RunInv, LiveInv, FileInv, LastInv, LastLiveInv, SaveInv, Absent,
         Hollow, Tags, Parts

\* A step that leaves the files and what the trainer holds as they are.
LEMMA QuietStep ==
  ASSUME RunInv, UNCHANGED <<proc, epoch, live, disk, runs, save>>
  PROVE  RunInv'
  BY DEF RunInv, LiveInv, FileInv, LastInv, LastLiveInv, SaveInv, Trained, Begun, Due

\* A new run is newer than all that is on disk.
LEMMA StartInv == ASSUME TypeOK, RunInv, NEW n, StartFresh(n) PROVE RunInv'
  <1>1. /\ disk' = disk /\ runs' = runs + 1 /\ proc' = "epoch" /\ epoch' = 0
        /\ live' = Untrained(runs + 1)
    BY DEF StartFresh
  <1>2. /\ live'.model = 0 /\ live'.buffers = 0 /\ live'.opt = 0 /\ live'.drops = 0
        /\ \A p \in Parts : live'.of[p] = runs + 1
    BY <1>1 DEF Untrained
  <1>3. runs \in Nat /\ LrDrop \in Nat
    BY Numbers
  <1>4. \A p \in Parts : LET f == disk["last"][p] IN
          /\ f.of \in Nat /\ f.drops \in Nat /\ f.epoch \in Nat /\ f.at \in Nat
          /\ f.state = "ok" => f.of <= runs /\ f.drops + f.of <= runs + 1
    BY Numbers DEF Tags, RunInv, FileInv
  <1>5. Due(0) = 0
    BY <1>3 DEF Due
  <1>6. LiveInv'
    BY <1>1, <1>2, <1>3, <1>5 DEF LiveInv, Trained, Begun, NotAhead, Parts, Due
  <1>7. FileInv'
    BY <1>1, <1>3, <1>4 DEF RunInv, FileInv
  <1>8. LastInv'
    BY <1>1 DEF RunInv, LastInv, Due
  <1>9. LastLiveInv'
    BY <1>1, <1>2, <1>3, <1>4, <1>5 DEF LastLiveInv, Trained, NotAhead, Parts, Due
  <1> QED
    BY <1>1, <1>6, <1>7, <1>8, <1>9 DEF RunInv, SaveInv

\* A resumed process holds what is on disk.
LEMMA ResumeInv == ASSUME TypeOK, RunInv, NEW n, Resume(n) PROVE RunInv'
  <1>1. /\ \A p \in Parts : disk["last"][p].state = "ok"
        /\ epoch' = disk["last"]["model"].epoch
        /\ proc' = "epoch" /\ disk' = disk /\ runs' = runs
        /\ live' = LoadedTrainer
    BY DEF Resume, Intact, ResumeTag, LoadedState
  <1>2. /\ live'.model = disk["last"]["model"].at
        /\ live'.buffers = disk["last"]["model"].buffers
        /\ live'.opt = disk["last"]["opt"].at
        /\ live'.drops = disk["last"]["opt"].drops
        /\ \A p \in Parts : live'.of[p] = disk["last"][p].of
    BY <1>1 DEF LoadedTrainer, ResumeTag
  <1>3. live'.model = epoch' /\ live'.buffers = epoch'
    BY <1>1, <1>2 DEF RunInv, FileInv, Tags, Parts
  <1>4. /\ disk["last"]["model"].of <= disk["last"]["ema"].of
        /\ NotAhead(<<disk["last"]["opt"].of, disk["last"]["opt"].at>>,
                    <<disk["last"]["model"].of, disk["last"]["model"].at>>)
        /\ disk["last"]["opt"].drops + disk["last"]["opt"].of
             <= disk["last"]["model"].of + Due(disk["last"]["model"].epoch)
    BY <1>1 DEF RunInv, LastInv, Parts
  <1>5. disk["last"]["ema"].of <= runs
    BY <1>1 DEF RunInv, FileInv, Parts
  <1>6. LiveInv'
    BY <1>1, <1>2, <1>3, <1>4, <1>5 DEF LiveInv, Trained, Begun, Parts, Due
  <1>7. NotAhead(<<disk["last"]["model"].of, disk["last"]["model"].epoch>>,
                 <<disk["last"]["model"].of, disk["last"]["model"].epoch>>)
    BY Numbers DEF NotAhead, Tags, Parts
  <1>8. LastLiveInv'
    BY <1>1, <1>2, <1>3, <1>4, <1>7 DEF LastLiveInv, Trained, Parts, Due
  <1>9. FileInv' /\ LastInv' /\ SaveInv'
    BY <1>1 DEF RunInv, FileInv, LastInv, SaveInv, Due
  <1> QED
    BY <1>6, <1>8, <1>9 DEF RunInv

\* The LR drops at most once in the epoch in which it is due.
LEMMA EpochStartInv == ASSUME TypeOK, RunInv, EpochStart PROVE RunInv'
  <1>1. /\ proc = "epoch" /\ proc' = "batches" /\ epoch' = epoch /\ disk' = disk
        /\ runs' = runs
        /\ live' = IF LrDrop > 0 /\ epoch = LrDrop
                   THEN [live EXCEPT !.drops = @ + 1] ELSE live
    BY DEF EpochStart
  <1>2. live \in Trainer /\ epoch \in Nat /\ LrDrop \in Nat
    BY Numbers DEF TypeOK
  <1>3. /\ live'.model = live.model /\ live'.buffers = live.buffers
        /\ live'.opt = live.opt /\ live'.of = live.of
        /\ live'.drops = live.drops + (IF LrDrop > 0 /\ epoch = LrDrop THEN 1 ELSE 0)
    BY <1>1, <1>2 DEF Trainer
  <1>4. live.drops + live.of["opt"] <= live.of["model"] + Due(epoch)
    BY <1>1 DEF RunInv, LiveInv, Begun
  <1>5. live.drops \in Nat /\ live.of["opt"] \in Nat /\ live.of["model"] \in Nat
    BY Numbers DEF Parts
  <1>6. live'.drops + live.of["opt"] <= live.of["model"] + Due(epoch + 1)
    BY <1>2, <1>3, <1>4, <1>5 DEF Due
  <1>7. LiveInv'
    BY <1>1, <1>3, <1>6 DEF RunInv, LiveInv, Trained, Begun, Due
  <1>8. LastLiveInv'
    BY <1>1, <1>3 DEF RunInv, LastLiveInv, Trained, Due
  <1>9. FileInv' /\ LastInv' /\ SaveInv'
    BY <1>1 DEF RunInv, FileInv, LastInv, SaveInv, Due
  <1> QED
    BY <1>7, <1>8, <1>9 DEF RunInv

\* One more epoch of training moves the trainer further from what is on disk.
LEMMA EpochEndInv == ASSUME TypeOK, RunInv, NEW a, EpochEnd(a) PROVE RunInv'
  <1>1. /\ proc = "batches" /\ proc' = "save" /\ epoch' = epoch /\ disk' = disk
        /\ runs' = runs
        /\ live' = [live EXCEPT !.model = @ + 1, !.buffers = @ + 1,
                                !.ema = @ + 1, !.opt = @ + 1]
        /\ save'.epoch = epoch + 1 /\ save'.part = 1
    BY DEF EpochEnd
  <1>2. live \in Trainer
    BY DEF TypeOK
  <1>3. /\ live'.model = live.model + 1 /\ live'.buffers = live.buffers + 1
        /\ live'.opt = live.opt + 1 /\ live'.of = live.of /\ live'.drops = live.drops
    BY <1>1, <1>2 DEF Trainer
  <1>4. /\ live.model \in Nat /\ live.opt \in Nat /\ live.drops \in Nat /\ epoch \in Nat
        /\ live.of["opt"] \in Nat /\ live.of["model"] \in Nat
        /\ Due(epoch) \in {0, 1} /\ Due(epoch + 1) \in {0, 1}
        /\ Due(epoch) <= Due(epoch + 1)
    BY Numbers DEF Parts
  <1>5. \A p \in Parts : LET f == disk["last"][p] IN
          f.of \in Nat /\ f.drops \in Nat /\ f.epoch \in Nat /\ f.at \in Nat
    BY Numbers DEF Tags
  <1>6. LiveInv'
    <2>1. /\ live.model = epoch /\ live.buffers = epoch
          /\ NotAhead(<<live.of["opt"], live.opt>>, <<live.of["model"], live.model>>)
          /\ live.of["model"] <= live.of["ema"] /\ live.of["ema"] <= runs
          /\ live.drops + live.of["opt"] <= live.of["model"] + Due(epoch + 1)
      BY <1>1 DEF RunInv, LiveInv, Trained, Begun
    <2>2. NotAhead(<<live.of["opt"], live.opt + 1>>, <<live.of["model"], live.model + 1>>)
      BY <1>4, <2>1 DEF NotAhead
    <2> QED
      BY <1>1, <1>3, <2>1, <2>2 DEF LiveInv, Trained, Begun, Due
  <1>7. LastLiveInv'
    <2>1. disk["last"]["model"].state = "ok" =>
            NotAhead(<<disk["last"]["model"].of, disk["last"]["model"].epoch>>,
                     <<live.of["model"], epoch>>)
      BY <1>1 DEF RunInv, LastLiveInv, Trained
    <2>2. disk["last"]["opt"].state = "ok" =>
            /\ NotAhead(<<disk["last"]["opt"].of, disk["last"]["opt"].at>>,
                        <<live.of["model"], live.model>>)
            /\ disk["last"]["opt"].drops + disk["last"]["opt"].of
                 <= live.of["model"] + Due(epoch)
      BY <1>1 DEF RunInv, LastLiveInv, Trained
    <2>3. disk["last"]["model"].state = "ok" =>
            NotAhead(<<disk["last"]["model"].of, disk["last"]["model"].epoch>>,
                     <<live.of["model"], epoch + 1>>)
      BY <1>4, <1>5, <2>1 DEF NotAhead, Parts
    <2>4. disk["last"]["opt"].state = "ok" =>
            NotAhead(<<disk["last"]["opt"].of, disk["last"]["opt"].at>>,
                     <<live.of["model"], live.model + 1>>)
      BY <1>4, <1>5, <2>2 DEF NotAhead, Parts
    <2>5. disk["last"]["opt"].state = "ok" =>
            disk["last"]["opt"].drops + disk["last"]["opt"].of
              <= live.of["model"] + Due(epoch + 1)
      BY <1>4, <1>5, <2>2 DEF Parts
    <2> QED
      BY <1>1, <1>3, <2>3, <2>4, <2>5 DEF LastLiveInv, Trained, Due
  <1>8. FileInv' /\ LastInv'
    BY <1>1 DEF RunInv, FileInv, LastInv, Due
  <1>9. SaveInv'
    BY <1>1 DEF SaveInv
  <1> QED
    BY <1>6, <1>7, <1>8, <1>9 DEF RunInv

\* A process that ends keeps nothing but the files.
LEMMA StopInv ==
  ASSUME RunInv, proc' = "idle", live' = NoTrainer, UNCHANGED <<disk, runs>>
  PROVE  RunInv'
  BY DEF RunInv, LiveInv, FileInv, LastInv, LastLiveInv, SaveInv, Due

\* A write in the middle of a save.
LEMMA MidSaveInv ==
  ASSUME RunInv, proc = "save", DiskAfter, SaveInv',
         UNCHANGED <<proc, epoch, live, runs>>
  PROVE  RunInv'
  <1>1. LiveInv'
    BY DEF RunInv, LiveInv, Trained, Begun, Due
  <1>2. LastLiveInv'
    BY DEF DiskAfter, LastLiveInv, Trained, Due
  <1> QED
    BY <1>1, <1>2 DEF RunInv, DiskAfter

LEMMA NextRunInv == TypeOK /\ RunInv /\ [Next]_vars => RunInv'
  <1> SUFFICES ASSUME TypeOK, RunInv, [Next]_vars PROVE RunInv'
    OBVIOUS
  <1>1. CASE \E n \in 1..MaxEpochs : StartFresh(n)
    BY <1>1, StartInv
  <1>2. CASE \E n \in 1..MaxEpochs : Resume(n)
    BY <1>2, ResumeInv
  <1>3. CASE \E t \in Tags : Evaluate(t)
    BY <1>3, QuietStep DEF Evaluate
  <1>4. CASE EpochStart
    BY <1>4, EpochStartInv
  <1>5. CASE Finish
    BY <1>5, StopInv DEF Finish
  <1>6. CASE TrainStep
    BY <1>6, QuietStep DEF TrainStep
  <1>7. CASE \E a \in Losses \cup {NaN} : EpochEnd(a)
    BY <1>7, EpochEndInv
  <1>8. CASE OpenFile
    <2>1. DiskAfter
      BY <1>8, DiskTorn DEF OpenFile
    <2>2. /\ proc = "save" /\ UNCHANGED <<proc, epoch, live, runs>>
          /\ save'.part = save.part /\ save'.tag = save.tag /\ save'.epoch = save.epoch
          /\ disk' = [disk EXCEPT ![save.tag][Part] = Torn]
      BY <1>8 DEF OpenFile, TypeOK
    <2>3. \A p \in Parts : p # Part => disk'["last"][p] = disk["last"][p]
      BY <2>2, PartType DEF TypeOK, Tags
    <2>4. SaveInv'
      BY <2>2, <2>3, PartIs DEF Parts, RunInv, SaveInv
    <2> QED
      BY <2>1, <2>2, <2>4, MidSaveInv
  <1>9. CASE CloseFile
    <2>1. DiskAfter
      BY <1>9, DiskWritten DEF CloseFile
    <2>2. CASE save.part = Len(SaveOrder)
      BY <1>9, <2>1, <2>2, AfterSaveInv DEF CloseFile
    <2>3. CASE save.part # Len(SaveOrder)
      <3>1. /\ proc = "save" /\ UNCHANGED <<proc, epoch, live, runs>>
            /\ save'.part = save.part + 1 /\ save'.tag = save.tag
            /\ save'.epoch = save.epoch
            /\ disk' = [disk EXCEPT ![save.tag][Part] = Content(Part)]
        BY <1>9, <2>3 DEF CloseFile, TypeOK
      <3>2. /\ \A p \in Parts : p # Part => disk'[save.tag][p] = disk[save.tag][p]
            /\ disk'[save.tag][Part] = Content(Part)
        BY <3>1, PartType DEF TypeOK
      <3>3. /\ EmaFile.state = "ok" /\ EmaFile.epoch = epoch + 1
            /\ EmaFile.of = live.of["ema"]
            /\ ModelFile.state = "ok" /\ ModelFile.epoch = epoch + 1
            /\ ModelFile.of = live.of["model"]
        BY <3>1 DEF EmaFile, ModelFile, Torn, Hollow, RunInv, SaveInv
      <3>4. SaveInv'
        BY <2>3, <3>1, <3>2, <3>3, PartIs DEF Parts, Content, RunInv, SaveInv
      <3> QED
        BY <2>1, <3>1, <3>4, MidSaveInv
    <2> QED
      BY <2>2, <2>3
  <1>10. CASE FailFile
    <2>1. proc = "save" /\ UNCHANGED <<live, runs>> /\ AfterSave
      BY <1>10 DEF FailFile
    <2>2. DiskAfter
      BY <1>10, <2>1, DiskUnchanged, DiskWritten DEF FailFile
    <2> QED
      BY <2>1, <2>2, AfterSaveInv
  <1>11. CASE Crash
    BY <1>11, StopInv DEF Crash
  <1>12. CASE UNCHANGED vars
    BY <1>12, QuietStep DEF vars
  <1> QED
    BY <1>1, <1>2, <1>3, <1>4, <1>5, <1>6, <1>7, <1>8, <1>9, <1>10, <1>11, <1>12
    DEF Next, Running

\* The loop, the trainer in memory, the save in progress and the files of
\* "last" agree in every reachable state, whichever runs wrote the files.
THEOREM RunInvariant == Spec => [](TypeOK /\ RunInv)
  <1>1. Spec => []TypeOK
    BY TypeCorrect
  <1> QED
    BY <1>1, InitRunInv, NextRunInv, PTL DEF Spec

\* However often the run crashes and resumes, no epoch is trained twice into
\* the same weights and none is skipped.
THEOREM EpochsTrainedOnce == Spec => []WeightsMatchEpoch
  <1>1. TypeOK /\ RunInv => WeightsMatchEpoch
    BY DEF RunInv, LiveInv, FileInv, Trained, WeightsMatchEpoch
  <1> QED
    BY <1>1, RunInvariant, PTL

\* Within a run the learning rate is never dropped twice nor before its epoch;
\* an optimizer left by earlier runs has dropped at most once for each.
THEOREM LrDroppedOncePerRun == Spec => []DropOncePerRun
  <1>1. TypeOK /\ RunInv => DropOncePerRun
    BY DEF RunInv, LiveInv, LastInv, DropOncePerRun
  <1> QED
    BY <1>1, RunInvariant, PTL

\* No file of a resumable checkpoint is ahead of one written before it.
THEOREM SavedInOrder == Spec => []NoPartAhead
  <1>1. TypeOK /\ RunInv => NoPartAhead
    BY DEF RunInv, LastInv, NoPartAhead, Intact, Parts
  <1> QED
    BY <1>1, RunInvariant, PTL

-----------------------------------------------------------------------------
(* The best averages in memory and on disk. *)

\* The types of the averages.
LEMMA BestTypes ==
  ASSUME TypeOK, NEW t \in Tags, NEW p \in Parts
  PROVE  /\ disk[t][p] \in File /\ disk[t][p].best \in Nat
         /\ best \in Nat /\ best > 0 /\ fails \in Nat
  BY BoundsAssumption DEF TypeOK, File

\* Writing a file changes the best average it records, and no other file.
LEMMA FilesAfter ==
  ASSUME TypeOK, proc = "save", NEW f, disk' = [disk EXCEPT ![save.tag][Part] = f]
  PROVE  \A t \in Tags, p \in Parts :
           disk'[t][p] = IF t = save.tag /\ p = Part THEN f ELSE disk[t][p]
  BY PartType DEF TypeOK

\* Opening a file of the save tears it.
LEMMA OpenKeepsBest == ASSUME TypeOK, BestInv, OpenFile PROVE BestInv'
  <1> SUFFICES ASSUME fails = 0 PROVE BestOnDisk' /\ BestInLoop'
    BY DEF BestInv, OpenFile
  <1>1. BestOnDisk /\ BestInLoop
    BY DEF BestInv
  <1>2. /\ proc = "save" /\ proc' = "save" /\ best' = best
        /\ save'.tag = save.tag /\ save'.part = save.part /\ save'.best = save.best
    BY DEF OpenFile, TypeOK
  <1>3. \A t \in Tags, p \in Parts :
          disk'[t][p] = IF t = save.tag /\ p = Part THEN Torn ELSE disk[t][p]
    BY FilesAfter DEF OpenFile
  <1>4. Torn.state = "torn" /\ Torn.best = 0 /\ 0 <= DblMax
    BY LossesAssumption DEF Torn, Hollow
  <1>5. CASE save.tag = "last"
    <2>1. Written("last")'
      BY <1>3, <1>4, <1>5, PartType DEF Written, Tags, Parts
    <2>2. disk'["best"]["model"] = disk["best"]["model"]
      BY <1>3, <1>5 DEF Tags, Parts
    <2>3. disk'["last"]["model"] = Torn \/ (disk'["last"]["model"] = disk["last"]["model"])
      BY <1>3, <1>5 DEF Tags, Parts
    <2>4. save.part = 3 => disk'["last"]["model"] = disk["last"]["model"]
      BY <1>3, PartIs DEF Tags, Parts
    <2>5. BestOnDisk'
      BY <1>1, <1>4, <2>1, <2>2, <2>3 DEF BestOnDisk
    <2>6. BestInLoop'
      BY <1>1, <1>2, <1>5, <2>2, <2>4 DEF BestInLoop
    <2> QED
      BY <2>5, <2>6
  <1>6. CASE save.tag = "best"
    <2>1. \A p \in Parts : disk'["last"][p] = disk["last"][p]
      BY <1>3, <1>6 DEF Tags
    <2>2. disk["last"]["model"].state = "ok"
      BY <1>1, <1>2, <1>6 DEF BestInLoop
    <2>3. Written("last")'
      BY <2>1, <2>2 DEF Written, Parts
    <2>4. disk'["best"]["model"] = Torn \/ (disk'["best"]["model"] = disk["best"]["model"])
      BY <1>3, <1>6 DEF Tags, Parts
    <2>5. save.part = 3 => disk'["best"]["model"] = disk["best"]["model"]
      BY <1>3, PartIs DEF Tags, Parts
    <2>6. BestOnDisk'
      BY <1>1, <1>4, <2>1, <2>3, <2>4 DEF BestOnDisk, Parts
    <2>7. BestInLoop'
      BY <1>1, <1>2, <1>6, <2>1, <2>5 DEF BestInLoop, Parts
    <2> QED
      BY <2>6, <2>7
  <1> QED
    BY <1>5, <1>6, PartIs

\* Completing a file of the save: the model's file records the best average.
LEMMA CloseKeepsBest == ASSUME TypeOK, BestInv, CloseFile PROVE BestInv'
  <1> SUFFICES ASSUME fails = 0 PROVE BestOnDisk' /\ BestInLoop'
    BY DEF BestInv, CloseFile
  <1>1. BestOnDisk /\ BestInLoop
    BY DEF BestInv
  <1>2. /\ proc = "save" /\ save.best = best /\ best \in Nat /\ best > 0
        /\ best <= DblMax /\ DblMax \in Nat
    BY <1>1, LossesAssumption DEF CloseFile, BestInLoop, TypeOK
  <1>3. \A t \in Tags, p \in Parts :
          disk'[t][p] = IF t = save.tag /\ p = Part THEN Content(Part) ELSE disk[t][p]
    BY FilesAfter DEF CloseFile
  <1>4. \A p \in Parts : Content(p).state = "ok"
    BY DEF Content, EmaFile, ModelFile, OptFile, Torn, Hollow
  <1>5. Content("model").best = best
    BY <1>2 DEF Content, ModelFile, Torn, Hollow
  <1>6. disk["last"]["model"].best \in Nat /\ disk["best"]["model"].best \in Nat
    BY BestTypes DEF Tags, Parts
  <1>7. CASE save.tag = "last"
    <2>1. Written("last")'
      BY <1>3, <1>4, <1>7, PartType DEF Written, Tags, Parts
    <2>2. disk'["best"]["model"] = disk["best"]["model"]
      BY <1>3, <1>7 DEF Tags, Parts
    <2>3. disk'["last"]["model"] = IF save.part = 2 THEN Content("model") ELSE disk["last"]["model"]
      BY <1>3, <1>7, PartIs DEF Tags, Parts
    <2>4. disk["best"]["model"].state = "ok" => disk["best"]["model"].best <= best
      BY <1>1, <1>2, <1>7 DEF BestInLoop
    <2>5. BestOnDisk'
      BY <1>1, <1>2, <1>5, <2>1, <2>2, <2>3, <2>4 DEF BestOnDisk
    <2>6. CASE save.part = 3
      <3>1. AfterSave
        BY <2>6, PartIs DEF CloseFile
      <3>2. disk'["last"]["model"].state = "ok" /\ disk'["last"]["model"].best = best
        BY <1>1, <1>2, <1>7, <2>3, <2>6 DEF BestInLoop
      <3>3. CASE Less(avg, best)
        <4>1. /\ best' = avg /\ proc' = "save" /\ save'.tag = "best" /\ save'.part = 1
              /\ save'.best = avg /\ avg \in Nat /\ avg < best
          BY <1>2, <1>7, <3>1, <3>3, LossesAssumption DEF AfterSave, Less, TypeOK
        <4> QED
          BY <1>2, <2>5, <3>2, <4>1 DEF BestInLoop
      <3>4. CASE ~Less(avg, best)
        <4>1. best' = best /\ proc' = "epoch"
          BY <3>1, <3>4 DEF AfterSave
        <4> QED
          BY <1>2, <2>2, <2>4, <2>5, <4>1 DEF BestInLoop
      <3> QED
        BY <3>3, <3>4
    <2>7. CASE save.part # 3
      <3>1. /\ proc' = "save" /\ best' = best /\ save'.part = save.part + 1
            /\ save'.tag = save.tag /\ save'.best = save.best
        BY <1>2, <2>7, PartIs DEF CloseFile, TypeOK
      <3>2. save'.part = 3 => /\ disk'["last"]["model"].state = "ok"
                              /\ disk'["last"]["model"].best = best
        BY <1>4, <1>5, <2>3, <3>1, PartIs DEF Parts
      <3> QED
        BY <1>2, <1>7, <2>2, <2>4, <2>5, <3>1, <3>2 DEF BestInLoop
    <2> QED
      BY <2>6, <2>7
  <1>8. CASE save.tag = "best"
    <2>1. \A p \in Parts : disk'["last"][p] = disk["last"][p]
      BY <1>3, <1>8 DEF Tags
    <2>2. disk["last"]["model"].state = "ok" /\ best <= disk["last"]["model"].best
      BY <1>1, <1>2, <1>8 DEF BestInLoop
    <2>3. Written("last")'
      BY <2>1, <2>2 DEF Written, Parts
    <2>4. disk'["best"]["model"] = IF save.part = 2 THEN Content("model") ELSE disk["best"]["model"]
      BY <1>3, <1>8, PartIs DEF Tags, Parts
    <2>5. BestOnDisk'
      BY <1>1, <1>2, <1>5, <2>1, <2>2, <2>3, <2>4 DEF BestOnDisk, Parts
    <2>6. CASE save.part = 3
      <3>1. proc' = "epoch" /\ best' = best
        BY <1>8, <2>6, PartIs DEF CloseFile, AfterSave
      <3>2. disk'["best"]["model"].best = best
        BY <1>1, <1>2, <1>8, <2>4, <2>6 DEF BestInLoop
      <3> QED
        BY <1>2, <2>5, <3>1, <3>2 DEF BestInLoop
    <2>7. CASE save.part # 3
      <3>1. /\ proc' = "save" /\ best' = best /\ save'.part = save.part + 1
            /\ save'.tag = save.tag /\ save'.best = save.best
        BY <1>2, <2>7, PartIs DEF CloseFile, TypeOK
      <3>2. save'.part = 3 => /\ disk'["best"]["model"].state = "ok"
                              /\ disk'["best"]["model"].best = best
        BY <1>4, <1>5, <2>4, <3>1, PartIs DEF Parts
      <3> QED
        BY <1>2, <1>8, <2>1, <2>2, <2>5, <3>1, <3>2 DEF BestInLoop, Parts
    <2> QED
      BY <2>6, <2>7
  <1> QED
    BY <1>7, <1>8, PartIs

\* The best averages while no write has failed.
LEMMA NextBestInv == TypeOK /\ BestInv /\ [Next]_vars => BestInv'
  <1> SUFFICES ASSUME TypeOK, BestInv, [Next]_vars PROVE BestInv'
    OBVIOUS
  <1>1. CASE OpenFile
    BY <1>1, OpenKeepsBest
  <1>2. CASE CloseFile
    BY <1>2, CloseKeepsBest
  <1>3. CASE FailFile
    <2>1. fails \in Nat /\ fails' = fails + 1
      BY <1>3, BoundsAssumption DEF TypeOK, FailFile
    <2> QED
      BY <2>1 DEF BestInv
  <1>4. ASSUME UNCHANGED <<disk, fails>>, fails = 0 => BestInLoop' PROVE BestInv'
    BY <1>4 DEF BestInv, BestOnDisk, Written
  <1>5. CASE \E n \in 1..MaxEpochs : StartFresh(n)
    <2>1. /\ disk' = disk /\ fails' = fails /\ proc' = "epoch" /\ best' = DblMax
      BY <1>5 DEF StartFresh
    <2>2. fails = 0 => disk["best"]["model"].best <= DblMax
      BY DEF BestInv, BestOnDisk
    <2> QED
      BY <1>4, <2>1, <2>2, LossesAssumption DEF BestInLoop
  <1>6. CASE \E n \in 1..MaxEpochs : Resume(n)
    <2>1. /\ disk' = disk /\ fails' = fails /\ proc' = "epoch"
          /\ disk["last"]["model"].state = "ok"
          /\ best' = IF disk["last"]["model"].best > 0 THEN disk["last"]["model"].best ELSE DblMax
      BY <1>6 DEF Resume, Intact, ResumeTag, LoadedState, Parts
    <2>2. fails = 0 => best' <= DblMax
      BY <2>1, LossesAssumption DEF BestInv, BestOnDisk, Resume
    <2>3. fails = 0 /\ disk["best"]["model"].state = "ok" =>
            disk["best"]["model"].best <= best'
      BY <2>1 DEF BestInv, BestOnDisk
    <2>4. fails = 0 => BestInLoop'
      BY <2>1, <2>2, <2>3 DEF BestInLoop
    <2>5. UNCHANGED <<disk, fails>>
      BY <2>1
    <2> QED
      BY <1>4, <2>4, <2>5
  <1>7. CASE \E t \in Tags : Evaluate(t)
    BY <1>4, <1>7 DEF Evaluate, BestInv, BestInLoop
  <1>8. CASE EpochStart
    BY <1>4, <1>8 DEF EpochStart, BestInv, BestInLoop
  <1>9. CASE Finish
    BY <1>4, <1>9 DEF Finish, BestInv, BestInLoop
  <1>10. CASE TrainStep
    BY <1>4, <1>10 DEF TrainStep, BestInv, BestInLoop
  <1>11. CASE \E a \in Losses \cup {NaN} : EpochEnd(a)
    <2>1. /\ proc = "batches" /\ proc' = "save" /\ disk' = disk /\ fails' = fails /\ best' = best
          /\ save'.tag = "last" /\ save'.part = 1 /\ save'.best = best
      BY <1>11 DEF EpochEnd, RecordedBest
    <2> QED
      BY <1>4, <2>1 DEF BestInv, BestInLoop
  <1>12. CASE Crash
    BY <1>4, <1>12 DEF Crash, BestInv, BestInLoop
  <1>13. CASE UNCHANGED vars
    BY <1>4, <1>13 DEF vars, BestInv, BestInLoop
  <1> QED
    BY <1>1, <1>2, <1>3, <1>5, <1>6, <1>7, <1>8, <1>9, <1>10, <1>11, <1>12, <1>13
    DEF Next, Running

\* While no write has failed, the best average that "last" records is never
\* below that of the checkpoint kept under "best".
THEOREM BestIsOnDisk == Spec => []RecordedBestIsOnDisk
  <1>1. Init => BestInv
    BY LossesAssumption
    DEF Init, BestInv, BestOnDisk, BestInLoop, Written, Absent, Hollow, Tags, Parts
  <1>2. TypeOK /\ BestInv => RecordedBestIsOnDisk
    BY DEF BestInv, BestOnDisk, RecordedBestIsOnDisk
  <1> QED
    BY <1>1, <1>2, NextBestInv, TypeCorrect, PTL DEF Spec

-----------------------------------------------------------------------------
(* The refinement. *)

LEMMA StepImplements ==
  TypeOK /\ RunInv /\ [Next]_vars => [Abstract!Next]_(Abstract!vars)
  <1> SUFFICES ASSUME TypeOK, RunInv, [Next]_vars
               PROVE  [Abstract!Next]_(Abstract!vars)
    OBVIOUS
  <1> DEFINE file == disk["last"]["model"]
             Same == file' = file
             Write == \/ Same
                      \/ file'.state = "torn" /\ file'.at = 0 /\ file'.of = 0
                      \/ /\ file'.state = "ok" /\ file'.at = live.model
                         /\ file'.of = live.of["model"]
  <1> USE DEF Abstract!Next, Abstract!vars, Abstract!Weights, Abstract!NoWeights
  <1>a. ASSUME proc # "idle", proc' # "idle", runs' = runs,
               live'.model = live.model, live'.of = live.of, Write
        PROVE  [Abstract!Next]_(Abstract!vars)
    BY <1>a DEF Abstract!Overwrite, Abstract!Commit
  <1>b. ASSUME proc = "save",
               \/ disk' = disk
               \/ disk' = [disk EXCEPT ![save.tag][Part] = Torn]
               \/ disk' = [disk EXCEPT ![save.tag][Part] = Content(Part)]
        PROVE  Write
    <2>1. \/ file' = file
          \/ file' = Torn
          \/ Part = "model" /\ file' = Content(Part)
      BY <1>b, PartType DEF TypeOK, Tags, Parts
    <2>2. Torn.state = "torn" /\ Torn.at = 0 /\ Torn.of = 0
      BY DEF Torn, Hollow
    <2>3. /\ ModelFile.state = "ok" /\ ModelFile.at = live.model
          /\ ModelFile.of = live.of["model"]
      BY DEF ModelFile, Torn, Hollow
    <2>4. Part = "model" => Content(Part) = ModelFile
      BY DEF Content
    <2> QED
      BY <2>1, <2>2, <2>3, <2>4
  <1>1. CASE \E n \in 1..MaxEpochs : StartFresh(n)
    <2>1. live'.model = 0 /\ live'.of["model"] = runs + 1
      BY <1>1 DEF StartFresh, Untrained, Parts
    <2> QED
      BY <1>1, <2>1 DEF StartFresh, Abstract!Start
  <1>2. CASE \E n \in 1..MaxEpochs : Resume(n)
    BY <1>2 DEF Resume, Intact, ResumeTag, LoadedTrainer, Parts, Abstract!Recover
  <1>3. CASE \E t \in Tags : Evaluate(t)
    BY <1>3 DEF Evaluate
  <1>4. CASE EpochStart
    <2>1. live'.model = live.model /\ live'.of = live.of
      BY <1>4 DEF EpochStart, TypeOK, Trainer
    <2> QED
      BY <1>4, <1>a, <2>1 DEF EpochStart
  <1>5. CASE Finish
    BY <1>5 DEF Finish, NoTrainer, Untrained, Parts, Abstract!Stop
  <1>6. CASE TrainStep
    BY <1>6 DEF TrainStep
  <1>7. CASE \E a \in Losses \cup {NaN} : EpochEnd(a)
    <2>1. live'.model = live.model + 1 /\ live'.of = live.of
      BY <1>7 DEF EpochEnd, TypeOK, Trainer
    <2> QED
      BY <1>7, <2>1 DEF EpochEnd, Abstract!Train
  <1>8. CASE OpenFile
    BY <1>8, <1>a, <1>b DEF OpenFile
  <1>9. CASE CloseFile
    <2>1. proc' # "idle" /\ live' = live
      BY <1>9 DEF CloseFile, AfterSave
    <2> QED
      BY <1>9, <1>a, <1>b, <2>1 DEF CloseFile
  <1>10. CASE FailFile
    <2>1. proc' # "idle" /\ live' = live
      BY <1>10 DEF FailFile, AfterSave
    <2> QED
      BY <1>10, <1>a, <1>b, <2>1 DEF FailFile
  <1>11. CASE Crash
    BY <1>11 DEF Crash, NoTrainer, Untrained, Parts, Abstract!Stop
  <1>12. CASE UNCHANGED vars
    BY <1>12 DEF vars
  <1> QED
    BY <1>1, <1>2, <1>3, <1>4, <1>5, <1>6, <1>7, <1>8, <1>9, <1>10, <1>11, <1>12
    DEF Next, Running

\* With its files written in place, one after the other, and any of them lost
\* to a crash or an error, the program still implements the abstract run:
\* what it resumes from is what it committed, and a new run over old files
\* leaves what is committed as it is until it writes its own.
THEOREM Refinement == Spec => ImplementsResumableRun
  <1>1. Init => Abstract!Init
    BY DEF Init, Abstract!Init, Abstract!NoWeights, Abstract!Weights, NoTrainer, Untrained,
           Absent, Hollow, Tags, Parts
  <1> QED
    BY <1>1, RunInvariant, StepImplements, PTL
    DEF Spec, ImplementsResumableRun, Abstract!Spec
=============================================================================
