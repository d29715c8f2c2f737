---------------------------- MODULE MCTrainingRun ----------------------------
(* TrainingRun on a run of three epochs with the LR drop in the middle.     *)
EXTENDS TrainingRun
=============================================================================
