------------------------------ MODULE TrackLives -----------------------------
(***************************************************************************)
(* What the tracker promises for its identities: one is given to a single  *)
(* track, that track coasts at most Buffer frames without a correction,    *)
(* and once it is reaped the identity is never seen again.                 *)
(***************************************************************************)
EXTENDS Naturals

CONSTANTS Ids, Buffer

VARIABLES phase,   \* id -> "unused", "live" or "retired"
          idle     \* id -> the frames its live track has coasted

vars == <<phase, idle>>

Init == /\ phase = [k \in Ids |-> "unused"]
        /\ idle  = [k \in Ids |-> 0]

(* A frame, for one id. *)

Stay(k) == /\ phase[k] # "live"
           /\ phase'[k] = phase[k] /\ idle'[k] = 0

Appear(k) == /\ phase[k] = "unused"
             /\ phase'[k] = "live" /\ idle'[k] = 0

Correct(k) == /\ phase[k] = "live"
              /\ phase'[k] = "live" /\ idle'[k] = 0

Coast(k) == /\ phase[k] = "live" /\ idle[k] < Buffer
            /\ phase'[k] = "live" /\ idle'[k] = idle[k] + 1

Reap(k) == /\ phase[k] = "live" /\ idle[k] = Buffer
           /\ phase'[k] = "retired" /\ idle'[k] = 0

Frame == \A k \in Ids :
           Stay(k) \/ Appear(k) \/ Correct(k) \/ Coast(k) \/ Reap(k)

\* Another sequence of frames: the numbering starts again.
Reset == /\ phase' = [k \in Ids |-> "unused"]
         /\ idle'  = [k \in Ids |-> 0]

Next == Frame \/ Reset

Spec == Init /\ [][Next]_vars
=============================================================================
