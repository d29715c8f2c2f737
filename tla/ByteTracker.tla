----------------------------- MODULE ByteTracker -----------------------------
(***************************************************************************)
(* track::ByteTracker (src/track/bytetrack.cpp): the lifecycle of tracks,  *)
(* fed one frame of detections per Update.                                 *)
(*                                                                         *)
(* The Kalman filter and the boxes are abstracted to what they decide:     *)
(* which pairs of the assignment are close enough for the gate, and        *)
(* whether the correction of a matched track is numerically possible.      *)
(* tracks_ is kept as a function from ids: ids grow along the vector, and  *)
(* remove_if keeps its order.                                              *)
(***************************************************************************)
EXTENDS Naturals, Sequences, FiniteSets

CONSTANTS HighThresh, LowThresh, NewThresh,   \* ByteTrackConfig, as ranks
          TrackBuffer,                        \* ByteTrackConfig::track_buffer
          Scores, Labels,
          MaxDets,    \* bound: detections of a frame
          MaxId,      \* bound: ids given between two resets
          MaxFrames   \* bound: frames between two resets

ASSUME ThreshAssumption == /\ {HighThresh, LowThresh, NewThresh} \subseteq Nat
                           /\ Scores \subseteq Nat
ASSUME BufferAssumption == TrackBuffer \in Nat
ASSUME BoundsAssumption == {MaxDets, MaxId, MaxFrames} \subseteq Nat

VARIABLES per_class,  \* ByteTrackConfig::per_class
          tracks,     \* tracks_: id -> track
          next_id,    \* next_id_
          frame,      \* frame_
          dets,       \* the detections of the last frame
          used,       \* <<id, detection>>: which of them went into which track
          skipped,    \* the tracks whose correction was skipped
          out         \* the ids Update returned

vars == <<per_class, tracks, next_id, frame, dets, used, skipped, out>>

Frames == UNION {[1..n -> [score : Scores, label : Labels]] : n \in 0..MaxDets}

Rows(m) == {p[1] : p \in m}
Cols(m) == {p[2] : p \in m}

\* No track and no detection is in two pairs.
IsPairing(m) == \A p, q \in m : p # q => p[1] # q[1] /\ p[2] # q[2]

-----------------------------------------------------------------------------
(* The steps of Update. *)

\* KalmanBoxTracker: idle is time_since_update.
Trk(label, state, age, hits, idle) ==
  [label |-> label, state |-> state, age |-> age, hits |-> hits, idle |-> idle]

\* KalmanBoxTracker::Predict
Predicted(t) == Trk(t.label, t.state, t.age + 1, t.hits, t.idle + 1)
Predict(ts) == [i \in DOMAIN ts |-> Predicted(ts[i])]

\* The score bands.
High(ds) == {d \in DOMAIN ds : ds[d].score >= HighThresh}
Low(ds)  == {d \in DOMAIN ds \ High(ds) : ds[d].score >= LowThresh}

\* A pair of different classes costs kBig when per_class is set.
Blocked(ts, ds, p) == per_class /\ ts[p[1]].label # ds[p[2]].label

\* core::LinearSumAssignment: as many pairs as there are of the scarcer kind,
\* at least cost.  kBig outweighs every sum of 1 - IoU, so the fewest pairs
\* are blocked; which of these assignments is the cheapest is up to the boxes.
Assignments(rows, cols, ts, ds) ==
  LET size == IF Cardinality(rows) < Cardinality(cols)
              THEN Cardinality(rows) ELSE Cardinality(cols)
      full == {m \in SUBSET (rows \X cols) : Cardinality(m) = size /\ IsPairing(m)}
      Cost(m) == Cardinality({p \in m : Blocked(ts, ds, p)})
  IN  {m \in full : \A n \in full : Cost(m) <= Cost(n)}

\* Mutant: a gate that lets a forbidden pair pass.
AnyPair(m, ts, ds) == SUBSET m
\* The gate: kBig is beyond it, every other pair may be within it.
InGate(m, ts, ds) == SUBSET {p \in m : ~Blocked(ts, ds, p)}

\* What a round of Associate can match.
Associate(rows, cols, ts, ds) ==
  UNION {InGate(m, ts, ds) : m \in Assignments(rows, cols, ts, ds)}

\* Mutant: the second round takes every track again.
AllRows(ts, m) == DOMAIN ts
\* The tracks the first round left unmatched.
RemRows(ts, m) == DOMAIN ts \ Rows(m)

\* KalmanBoxTracker::Update with a detection of class c, and the return it
\* takes early, with only the class taken over by Associate, when the
\* innovation is not positive definite.
Corrected(t, c) == Trk(c, "tracked", t.age, t.hits + 1, 0)
Relabelled(t, c) == Trk(c, t.state, t.age, t.hits, t.idle)

\* The tracks after the rounds matched m and skipped the corrections of skip.
Correct(ts, ds, m, skip) ==
  [i \in DOMAIN ts |->
     IF i \notin Rows(m) THEN ts[i]
     ELSE LET c == ds[CHOOSE d \in Cols(m) : <<i, d>> \in m].label
          IN  IF i \in skip THEN Relabelled(ts[i], c) ELSE Corrected(ts[i], c)]

\* Mutant: one frame too many.
ExpiredLate(t) == t.idle > TrackBuffer + 1
Expired(t) == t.idle > TrackBuffer

\* Expired tracks are marked for removal, other coasting ones as lost.
Marked(t) == Trk(t.label, IF Expired(t) THEN "removed"
                          ELSE IF t.idle > 0 THEN "lost" ELSE t.state,
                 t.age, t.hits, t.idle)
Mark(ts) == [i \in DOMAIN ts |-> Marked(ts[i])]

\* Mutant: the rest of the second round, instead of the first, is spawned.
SpawnLow(ds, m) == {d \in Low(ds) \ Cols(m) : ds[d].score >= NewThresh}
\* The detections that start a track: high, unmatched and above the spawn gate.
Spawning(ds, m) == {d \in High(ds) \ Cols(m) : ds[d].score >= NewThresh}

\* Mutant: ids counted by the size of the vector.
SizeId(d, new) == Cardinality(DOMAIN tracks) + 1 + Cardinality({e \in new : e < d})
\* next_id_++, in the order of the detections.
NewId(d, new) == next_id + Cardinality({e \in new : e < d})

\* The KalmanBoxTracker constructor.
NewTrack(det) == Trk(det.label, "tracked", 0, 1, 0)

\* The tracks that are not erased.
Kept(ts) == {i \in DOMAIN ts : ts[i].state # "removed"}

\* The new tracks are added and the removed ones reaped.
SpawnAndReap(ts, ds, new) ==
  LET ids == {NewId(d, new) : d \in new}
  IN  [i \in Kept(ts) \cup ids |->
         IF i \in ids THEN NewTrack(ds[CHOOSE d \in new : NewId(d, new) = i])
         ELSE ts[i]]

-----------------------------------------------------------------------------
NoTracks == [i \in {} |-> {}]

Init == /\ per_class \in BOOLEAN
        /\ tracks = NoTracks /\ next_id = 1 /\ frame = 0
        /\ dets = <<>> /\ used = {} /\ skipped = {} /\ out = {}

\* The effect of a frame, once the two rounds have matched m1 and m2.
Apply(ds, m1, m2, skip) ==
  LET m   == m1 \cup m2
      new == Spawning(ds, m)
  IN  /\ next_id + Cardinality(new) <= MaxId + 1
      /\ tracks' = SpawnAndReap(Mark(Correct(Predict(tracks), ds, m, skip)), ds, new)
      /\ next_id' = next_id + Cardinality(new)
      /\ frame' = frame + 1
      /\ dets' = ds
      /\ used' = m \cup {<<NewId(d, new), d>> : d \in new}
      /\ skipped' = skip
      /\ out' = {i \in DOMAIN tracks' : tracks'[i].idle = 0}
      /\ UNCHANGED per_class

Update(ds) ==
  LET ts == Predict(tracks) IN
  /\ frame < MaxFrames
  /\ \E m1 \in Associate(DOMAIN ts, High(ds), ts, ds) :
     \E m2 \in Associate(RemRows(ts, m1), Low(ds), ts, ds) :
     \E skip \in SUBSET Rows(m1 \cup m2) : Apply(ds, m1, m2, skip)

Reset == /\ tracks' = NoTracks /\ next_id' = 1 /\ frame' = 0
         /\ dets' = <<>> /\ used' = {} /\ skipped' = {} /\ out' = {}
         /\ UNCHANGED per_class

Next == (\E ds \in Frames : Update(ds)) \/ Reset

Spec == Init /\ [][Next]_vars

-----------------------------------------------------------------------------
(* Properties. *)

Track == [label : Labels, state : {"tracked", "lost"}, age : Nat, hits : Nat,
          idle : Nat]

\* Every variable keeps its type; ids are below next_id_, and no removed track
\* survives a frame.
TypeOK ==
  /\ per_class \in BOOLEAN
  /\ next_id \in Nat \ {0} /\ frame \in Nat
  /\ DOMAIN tracks \subseteq 1..(next_id - 1)
  /\ tracks \in [DOMAIN tracks -> Track]
  /\ dets \in Frames
  /\ skipped \subseteq 1..(next_id - 1)
  /\ out \subseteq DOMAIN tracks

\* A detection is taken by at most one track and a track by at most one
\* detection, over both rounds and the spawning together.
OneDetectionOneTrack == IsPairing(used)

\* A detection that exceeds what it takes to start a track is returned as a
\* track, its own or a matched one, unless the correction of its track was
\* skipped.
ConfidentIsReturned ==
  \A d \in DOMAIN dets :
    dets[d].score >= HighThresh /\ dets[d].score > NewThresh =>
      \E i \in out \cup skipped : <<i, d>> \in used

\* No surviving track has coasted longer than the buffer, it is lost exactly
\* when it coasts, and each of its frames was at most one of: a hit, a coast.
CoastBounded ==
  \A i \in DOMAIN tracks :
    /\ tracks[i].idle <= TrackBuffer
    /\ tracks[i].state = (IF tracks[i].idle = 0 THEN "tracked" ELSE "lost")
    /\ tracks[i].hits + tracks[i].idle <= tracks[i].age + 1

\* With per_class set a track never changes its class.
ClassesKept ==
  [][per_class => \A i \in DOMAIN tracks \cap DOMAIN tracks' :
                    tracks'[i].label = tracks[i].label]_vars

\* Every id lives as TrackLives says: it is never given twice between two
\* resets, and its track is reaped after exactly TrackBuffer coasted frames.
Phase(k) == IF k \in DOMAIN tracks THEN "live"
            ELSE IF k < next_id THEN "retired" ELSE "unused"
Idle(k)  == IF k \in DOMAIN tracks THEN tracks[k].idle ELSE 0
Lives == INSTANCE TrackLives WITH
           Ids    <- 1..MaxId,
           Buffer <- TrackBuffer,
           phase  <- [k \in 1..MaxId |-> Phase(k)],
           idle   <- [k \in 1..MaxId |-> Idle(k)]
ImplementsTrackLives == Lives!Spec

=============================================================================
