---------------------------- MODULE ResumableRun ----------------------------
(***************************************************************************)
(* What resumable training promises about its weights, without the files,  *)
(* phases and counters of the program that implements it: a run starts     *)
(* from nothing, training advances one epoch at a time, a commit makes     *)
(* durable exactly what is in memory, and a recovery continues exactly     *)
(* what is durable, of whichever run that is.  A run that starts leaves    *)
(* the checkpoint as it is until it writes its own.                        *)
(***************************************************************************)
EXTENDS Naturals

VARIABLES alive,    \* is a training process running?
          runs,     \* runs started so far
          live,     \* the run and the epochs of training of the weights in memory
          state,    \* of the checkpoint: "absent", "torn" or "ok"
          durable   \* the run and the epochs of training it contains

vars == <<alive, runs, live, state, durable>>

Weights(r, e) == [run |-> r, epochs |-> e]
NoWeights == Weights(0, 0)

Init == /\ alive = FALSE /\ runs = 0 /\ live = NoWeights
        /\ state = "absent" /\ durable = NoWeights

Start == /\ ~alive
         /\ alive' = TRUE /\ runs' = runs + 1 /\ live' = Weights(runs + 1, 0)
         /\ UNCHANGED <<state, durable>>

Recover == /\ ~alive /\ state = "ok"
           /\ alive' = TRUE /\ live' = durable
           /\ UNCHANGED <<runs, state, durable>>

Train == /\ alive /\ live' = Weights(live.run, live.epochs + 1)
         /\ UNCHANGED <<alive, runs, state, durable>>

\* The checkpoint is replaced in place, so it is damaged until a commit.
Overwrite == /\ alive
             /\ state' = "torn" /\ durable' = NoWeights
             /\ UNCHANGED <<alive, runs, live>>

Commit == /\ alive /\ state' = "ok" /\ durable' = live
          /\ UNCHANGED <<alive, runs, live>>

Stop == /\ alive
        /\ alive' = FALSE /\ live' = NoWeights
        /\ UNCHANGED <<runs, state, durable>>

Next == Start \/ Recover \/ Train \/ Overwrite \/ Commit \/ Stop

Spec == Init /\ [][Next]_vars
=============================================================================
