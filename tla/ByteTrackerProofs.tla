-------------------------- MODULE ByteTrackerProofs --------------------------
(***************************************************************************)
(* What holds of ByteTracker for every number of detections and tracks,    *)
(* every threshold and every outcome of the geometry.                      *)
(***************************************************************************)
EXTENDS ByteTracker, FiniteSetTheorems, TLAPS

\* A track between the steps of Update.
AnyTrack == [label : Labels, state : {"tracked", "lost", "removed"}, age : Nat,
             hits : Nat, idle : Nat]

-----------------------------------------------------------------------------
(* The steps of Update, field by field. *)

LEMMA PredictFields ==
  ASSUME NEW ts, ts \in [DOMAIN ts -> AnyTrack]
  PROVE  /\ Predict(ts) \in [DOMAIN ts -> AnyTrack]
         /\ \A i \in DOMAIN ts :
              /\ Predict(ts)[i].age = ts[i].age + 1
              /\ Predict(ts)[i].idle = ts[i].idle + 1
              /\ Predict(ts)[i].hits = ts[i].hits
              /\ Predict(ts)[i].label = ts[i].label
  BY DEF Predict, Predicted, Trk, AnyTrack

LEMMA MarkFields ==
  ASSUME NEW ts, ts \in [DOMAIN ts -> AnyTrack]
  PROVE  /\ Mark(ts) \in [DOMAIN ts -> AnyTrack]
         /\ \A i \in DOMAIN ts :
              /\ Mark(ts)[i].age = ts[i].age
              /\ Mark(ts)[i].idle = ts[i].idle
              /\ Mark(ts)[i].hits = ts[i].hits
              /\ Mark(ts)[i].label = ts[i].label
              /\ Mark(ts)[i].state = IF ts[i].idle > TrackBuffer THEN "removed"
                                     ELSE IF ts[i].idle > 0 THEN "lost" ELSE ts[i].state
  BY BufferAssumption DEF Mark, Marked, Trk, Expired, AnyTrack

\* A round matches unblocked pairs of its rows and columns, no one twice.
LEMMA AssociatePairs ==
  ASSUME NEW rows, NEW cols, NEW ts, NEW ds, NEW m \in Associate(rows, cols, ts, ds)
  PROVE  /\ m \subseteq rows \X cols
         /\ IsPairing(m)
         /\ \A p \in m : ~Blocked(ts, ds, p)
  <1>1. PICK n \in Assignments(rows, cols, ts, ds) : m \in InGate(n, ts, ds)
    BY DEF Associate
  <1>2. n \in SUBSET (rows \X cols) /\ IsPairing(n)
    BY DEF Assignments
  <1>3. m \subseteq n /\ \A p \in m : ~Blocked(ts, ds, p)
    BY <1>1 DEF InGate
  <1> QED
    BY <1>2, <1>3 DEF IsPairing

LEMMA PairMembers ==
  ASSUME NEW X, NEW Y, NEW p \in X \X Y
  PROVE  p = <<p[1], p[2]>> /\ p[1] \in X /\ p[2] \in Y
  OBVIOUS

LEMMA PairOfRow ==
  ASSUME NEW X, NEW Y, NEW m, m \subseteq X \X Y, NEW i \in Rows(m)
  PROVE  \E d \in Y : d \in Cols(m) /\ <<i, d>> \in m
  <1>1. PICK p \in m : p[1] = i
    BY DEF Rows
  <1>2. p = <<p[1], p[2]>> /\ p[2] \in Y
    BY <1>1, PairMembers
  <1>3. p[2] \in Cols(m)
    BY DEF Cols
  <1> QED
    BY <1>1, <1>2, <1>3

LEMMA Between ==
  ASSUME NEW a \in Nat, NEW b \in Nat, NEW x \in Nat, ~(x < a), x < b
  PROVE  x \in a..(b - 1)
  OBVIOUS

LEMMA PairingUnion ==
  ASSUME NEW m, NEW n, IsPairing(m), IsPairing(n),
         Rows(m) \cap Rows(n) = {}, Cols(m) \cap Cols(n) = {}
  PROVE  IsPairing(m \cup n)
  <1> SUFFICES ASSUME NEW p \in m \cup n, NEW q \in m \cup n, p # q
               PROVE  p[1] # q[1] /\ p[2] # q[2]
    BY DEF IsPairing
  <1>1. CASE p \in m /\ q \in m
    BY <1>1 DEF IsPairing
  <1>2. CASE p \in n /\ q \in n
    BY <1>2 DEF IsPairing
  <1>3. CASE (p \in m /\ q \in n) \/ (p \in n /\ q \in m)
    BY <1>3 DEF Rows, Cols
  <1> QED
    BY <1>1, <1>2, <1>3

\* What a correction leaves and what it changes, for a pairing m.
LEMMA CorrectFields ==
  ASSUME NEW ts, ts \in [DOMAIN ts -> AnyTrack],
         NEW ds \in Frames, NEW m, NEW skip,
         m \subseteq (DOMAIN ts) \X (DOMAIN ds), IsPairing(m)
  PROVE  /\ Correct(ts, ds, m, skip) \in [DOMAIN ts -> AnyTrack]
         /\ \A i \in DOMAIN ts :
              LET c == Correct(ts, ds, m, skip)[i] IN
              /\ c.age = ts[i].age
              /\ i \in Rows(m) \ skip =>
                   c.idle = 0 /\ c.hits = ts[i].hits + 1 /\ c.state = "tracked"
              /\ i \notin Rows(m) \ skip =>
                   c.idle = ts[i].idle /\ c.hits = ts[i].hits /\ c.state = ts[i].state
              /\ i \notin Rows(m) => c.label = ts[i].label
              /\ \A d : <<i, d>> \in m => c.label = ds[d].label
  <1> DEFINE C(i) == CHOOSE d \in Cols(m) : <<i, d>> \in m
  <1>1. ASSUME NEW i \in Rows(m)
        PROVE  /\ <<i, C(i)>> \in m /\ C(i) \in DOMAIN ds
               /\ \A d : <<i, d>> \in m => d = C(i)
    <2>1. PICK c \in DOMAIN ds : c \in Cols(m) /\ <<i, c>> \in m
      BY PairOfRow
    <2>2. <<i, C(i)>> \in m
      BY <2>1
    <2> HIDE DEF C
    <2>3. ASSUME NEW d, <<i, d>> \in m PROVE d = C(i)
      <3> DEFINE q == <<i, d>>
                 r == <<i, C(i)>>
      <3>1. q = r
        BY <2>2, <2>3 DEF IsPairing
      <3> QED
        BY <3>1
    <2> QED
      BY <2>1, <2>2, <2>3
  <1>2. \A d \in DOMAIN ds : ds[d].label \in Labels
    BY DEF Frames
  <1> HIDE DEF C
  <1>3. \A i \in DOMAIN ts :
          Correct(ts, ds, m, skip)[i] =
            IF i \notin Rows(m) THEN ts[i]
            ELSE IF i \in skip THEN Relabelled(ts[i], ds[C(i)].label)
                 ELSE Corrected(ts[i], ds[C(i)].label)
    BY DEF Correct, C
  <1>4. DOMAIN Correct(ts, ds, m, skip) = DOMAIN ts
    BY DEF Correct
  <1>5. ASSUME NEW i \in DOMAIN ts
        PROVE  /\ Correct(ts, ds, m, skip)[i] \in AnyTrack
               /\ Correct(ts, ds, m, skip)[i].age = ts[i].age
               /\ i \in Rows(m) \ skip =>
                    /\ Correct(ts, ds, m, skip)[i].idle = 0
                    /\ Correct(ts, ds, m, skip)[i].hits = ts[i].hits + 1
                    /\ Correct(ts, ds, m, skip)[i].state = "tracked"
               /\ i \notin Rows(m) \ skip =>
                    /\ Correct(ts, ds, m, skip)[i].idle = ts[i].idle
                    /\ Correct(ts, ds, m, skip)[i].hits = ts[i].hits
                    /\ Correct(ts, ds, m, skip)[i].state = ts[i].state
               /\ i \notin Rows(m) => Correct(ts, ds, m, skip)[i].label = ts[i].label
               /\ i \in Rows(m) => Correct(ts, ds, m, skip)[i].label = ds[C(i)].label
    <2>1. i \in Rows(m) => ds[C(i)].label \in Labels
      BY <1>1, <1>2
    <2>2. ts[i] \in AnyTrack
      OBVIOUS
    <2>3. CASE i \notin Rows(m)
      <3>1. Correct(ts, ds, m, skip)[i] = ts[i]
        BY <1>3, <2>3
      <3> QED
        BY <2>2, <2>3, <3>1
    <2>4. CASE i \in Rows(m) /\ i \in skip
      <3>1. Correct(ts, ds, m, skip)[i] = Relabelled(ts[i], ds[C(i)].label)
        BY <1>3, <2>4
      <3> QED
        BY <2>1, <2>2, <2>4, <3>1 DEF Relabelled, Trk, AnyTrack
    <2>5. CASE i \in Rows(m) /\ i \notin skip
      <3>1. Correct(ts, ds, m, skip)[i] = Corrected(ts[i], ds[C(i)].label)
        BY <1>3, <2>5
      <3> QED
        BY <2>1, <2>2, <2>5, <3>1 DEF Corrected, Trk, AnyTrack
    <2> QED
      BY <2>3, <2>4, <2>5
  <1>6. Correct(ts, ds, m, skip) \in [DOMAIN ts -> AnyTrack]
    BY <1>4, <1>5 DEF Correct
  <1>7. ASSUME NEW i, NEW d, <<i, d>> \in m
        PROVE  i \in Rows(m) /\ d = C(i)
    <2>1. i = <<i, d>>[1]
      OBVIOUS
    <2>2. i \in Rows(m)
      BY <1>7, <2>1 DEF Rows
    <2> QED
      BY <1>1, <1>7, <2>2
  <1> QED
    BY <1>5, <1>6, <1>7

-----------------------------------------------------------------------------
(* New ids. *)

\* The ids of a frame's new tracks are consecutive from next_id_, one each.
LEMMA NewIds ==
  ASSUME next_id \in Nat \ {0}, NEW n \in Nat, NEW new \in SUBSET (1..n)
  PROVE  /\ Cardinality(new) \in Nat
         /\ \A d \in new : NewId(d, new) \in next_id..(next_id + Cardinality(new) - 1)
         /\ \A d, e \in new : d # e => NewId(d, new) # NewId(e, new)
         /\ \A i \in next_id..(next_id + Cardinality(new) - 1) :
              \E d \in new : i = NewId(d, new)
  <1> DEFINE Before(d) == {e \in new : e < d}
  <1>1. IsFiniteSet(new) /\ Cardinality(new) \in Nat
    <2>1. IsFiniteSet(1..n)
      BY FS_Interval
    <2> QED
      BY <2>1, FS_Subset, FS_CardinalityType
  <1>2. ASSUME NEW d \in new
        PROVE  /\ Before(d) \subseteq new /\ d \notin Before(d)
               /\ IsFiniteSet(Before(d)) /\ Cardinality(Before(d)) \in Nat
               /\ Cardinality(Before(d) \cup {d}) = Cardinality(Before(d)) + 1
               /\ IsFiniteSet(Before(d) \cup {d})
    <2>1. Before(d) \subseteq new /\ d \notin Before(d)
      OBVIOUS
    <2>2. IsFiniteSet(Before(d))
      BY <1>1, <2>1, FS_Subset
    <2> QED
      BY <2>1, <2>2, FS_CardinalityType, FS_AddElement
  <1>3. ASSUME NEW d \in new PROVE Cardinality(Before(d)) + 1 <= Cardinality(new)
    <2>1. Before(d) \cup {d} \subseteq new
      OBVIOUS
    <2>2. Cardinality(Before(d) \cup {d}) <= Cardinality(new)
      BY <1>1, <2>1, FS_Subset
    <2> QED
      BY <1>2, <2>2
  <1>4. ASSUME NEW d \in new, NEW e \in new, d < e
        PROVE  Cardinality(Before(d)) < Cardinality(Before(e))
    <2>1. Before(d) \cup {d} \subseteq Before(e)
      <3>1. \A x \in new : x \in Nat
        OBVIOUS
      <3>2. ASSUME NEW x \in new, x < d PROVE x < e
        BY <1>4, <3>1, <3>2
      <3> QED
        BY <1>4, <3>2
    <2>2. Cardinality(Before(d) \cup {d}) <= Cardinality(Before(e))
      <3>1. IsFiniteSet(Before(e))
        BY <1>2
      <3> QED
        BY <2>1, <3>1, FS_Subset
    <2>3. Cardinality(Before(d) \cup {d}) = Cardinality(Before(d)) + 1
          /\ Cardinality(Before(d)) \in Nat /\ Cardinality(Before(e)) \in Nat
      BY <1>2
    <2> QED
      BY <2>2, <2>3
  <1>5. \A d \in new : NewId(d, new) = next_id + Cardinality(Before(d))
    BY DEF NewId
  <1> HIDE DEF Before
  <1>6. ASSUME NEW d \in new PROVE NewId(d, new) \in next_id..(next_id + Cardinality(new) - 1)
    <2>1. Cardinality(Before(d)) \in Nat /\ Cardinality(Before(d)) + 1 <= Cardinality(new)
      BY <1>2, <1>3
    <2> QED
      BY <1>1, <1>5, <2>1
  <1>7. ASSUME NEW d \in new, NEW e \in new, d # e PROVE NewId(d, new) # NewId(e, new)
    <2>1. d < e \/ e < d
      BY <1>7
    <2>2. Cardinality(Before(d)) # Cardinality(Before(e))
      <3>1. Cardinality(Before(d)) \in Nat /\ Cardinality(Before(e)) \in Nat
        BY <1>2
      <3> QED
        BY <1>4, <2>1, <3>1
    <2>3. next_id \in Nat /\ Cardinality(Before(d)) \in Nat /\ Cardinality(Before(e)) \in Nat
      BY <1>2
    <2>4. NewId(d, new) = next_id + Cardinality(Before(d))
          /\ NewId(e, new) = next_id + Cardinality(Before(e))
      BY <1>5
    <2> QED
      BY <2>2, <2>3, <2>4
  <1> DEFINE T == next_id..(next_id + Cardinality(new) - 1)
             f == [d \in new |-> NewId(d, new)]
  <1>8. f \in Surjection(new, T)
    <2>1. f \in Injection(new, T)
      BY <1>6, <1>7 DEF Injection, IsInjective
    <2>2. IsFiniteSet(T) /\ Cardinality(T) = Cardinality(new)
      <3> DEFINE b == next_id + Cardinality(new) - 1
      <3>1. next_id \in Int /\ b \in Int
        BY <1>1
      <3>2. IsFiniteSet(next_id..b)
            /\ Cardinality(next_id..b) = IF next_id > b THEN 0 ELSE b - next_id + 1
        BY <3>1, FS_Interval
      <3> QED
        BY <1>1, <3>2
    <2> QED
      BY <2>1, <2>2, FS_Injection
  <1>9. ASSUME NEW i \in T PROVE \E d \in new : i = NewId(d, new)
    BY <1>8 DEF Surjection
  <1> QED
    BY <1>1, <1>6, <1>7, <1>9

-----------------------------------------------------------------------------
(* A frame as a whole. *)

LEMMA FrameShape ==
  ASSUME NEW ds \in Frames
  PROVE  /\ \E n \in Nat : DOMAIN ds = 1..n
         /\ \A d \in DOMAIN ds : ds[d].score \in Nat /\ ds[d].label \in Labels
  <1>1. PICK n \in 0..MaxDets : ds \in [1..n -> [score : Scores, label : Labels]]
    BY DEF Frames
  <1>2. n \in Nat
    BY <1>1
  <1> QED
    BY <1>1, <1>2, ThreshAssumption

\* The two rounds together match every track and every detection at most once,
\* and no pair the class constraint forbids.
LEMMA RoundsMatch ==
  ASSUME NEW ts, NEW ds,
         NEW m1 \in Associate(DOMAIN ts, High(ds), ts, ds),
         NEW m2 \in Associate(RemRows(ts, m1), Low(ds), ts, ds)
  PROVE  /\ m1 \cup m2 \subseteq (DOMAIN ts) \X (DOMAIN ds)
         /\ IsPairing(m1 \cup m2)
         /\ \A p \in m1 \cup m2 : ~Blocked(ts, ds, p)
  <1>1. /\ m1 \subseteq (DOMAIN ts) \X High(ds) /\ IsPairing(m1)
        /\ \A p \in m1 : ~Blocked(ts, ds, p)
    BY AssociatePairs
  <1>2. /\ m2 \subseteq RemRows(ts, m1) \X Low(ds) /\ IsPairing(m2)
        /\ \A p \in m2 : ~Blocked(ts, ds, p)
    BY AssociatePairs
  <1>3. /\ High(ds) \subseteq DOMAIN ds /\ Low(ds) \subseteq DOMAIN ds
        /\ High(ds) \cap Low(ds) = {}
    BY DEF High, Low
  <1>4. RemRows(ts, m1) \subseteq DOMAIN ts /\ RemRows(ts, m1) \cap Rows(m1) = {}
    BY DEF RemRows
  <1>5. Rows(m2) \subseteq RemRows(ts, m1) /\ Cols(m2) \subseteq Low(ds)
    BY <1>2 DEF Rows, Cols
  <1>6. Cols(m1) \subseteq High(ds)
    BY <1>1 DEF Cols
  <1>7. IsPairing(m1 \cup m2)
    BY <1>1, <1>2, <1>3, <1>4, <1>5, <1>6, PairingUnion
  <1> QED
    BY <1>1, <1>2, <1>3, <1>4, <1>7

\* What the tracks are between the correction and the spawning of new ones.
LEMMA FrameFields ==
  ASSUME TypeOK, NEW ds \in Frames, NEW m, NEW skip,
         m \subseteq (DOMAIN tracks) \X (DOMAIN ds), IsPairing(m),
         NEW L, L = Mark(Correct(Predict(tracks), ds, m, skip))
  PROVE  /\ L \in [DOMAIN tracks -> AnyTrack]
         /\ \A i \in DOMAIN tracks :
              /\ L[i].age = tracks[i].age + 1
              /\ i \in Rows(m) \ skip =>
                   L[i].idle = 0 /\ L[i].hits = tracks[i].hits + 1 /\ L[i].state = "tracked"
              /\ i \notin Rows(m) \ skip =>
                   /\ L[i].idle = tracks[i].idle + 1 /\ L[i].hits = tracks[i].hits
                   /\ L[i].state = IF tracks[i].idle + 1 > TrackBuffer THEN "removed" ELSE "lost"
              /\ i \notin Rows(m) => L[i].label = tracks[i].label
              /\ \A d : <<i, d>> \in m => L[i].label = ds[d].label
  <1> DEFINE P == Predict(tracks)
             C == Correct(P, ds, m, skip)
  <1>1. tracks \in [DOMAIN tracks -> AnyTrack]
    BY DEF TypeOK, Track, AnyTrack
  <1>2. /\ P \in [DOMAIN tracks -> AnyTrack]
        /\ \A i \in DOMAIN tracks :
              /\ P[i].age = tracks[i].age + 1
              /\ P[i].idle = tracks[i].idle + 1
              /\ P[i].hits = tracks[i].hits
              /\ P[i].label = tracks[i].label
    BY <1>1, PredictFields
  <1>3. DOMAIN P = DOMAIN tracks
    BY <1>2
  <1>4. m \subseteq (DOMAIN P) \X (DOMAIN ds) /\ P \in [DOMAIN P -> AnyTrack]
    BY <1>2, <1>3
  <1> HIDE DEF P
  <1>5. /\ C \in [DOMAIN P -> AnyTrack]
        /\ \A i \in DOMAIN P :
              /\ C[i].age = P[i].age
              /\ i \in Rows(m) \ skip =>
                   C[i].idle = 0 /\ C[i].hits = P[i].hits + 1 /\ C[i].state = "tracked"
              /\ i \notin Rows(m) \ skip =>
                   C[i].idle = P[i].idle /\ C[i].hits = P[i].hits /\ C[i].state = P[i].state
              /\ i \notin Rows(m) => C[i].label = P[i].label
              /\ \A d : <<i, d>> \in m => C[i].label = ds[d].label
    BY <1>4, CorrectFields
  <1> HIDE DEF C
  <1>6. DOMAIN C = DOMAIN tracks /\ C \in [DOMAIN C -> AnyTrack]
    BY <1>3, <1>5
  <1>7. /\ Mark(C) \in [DOMAIN C -> AnyTrack]
        /\ \A i \in DOMAIN C :
              /\ Mark(C)[i].age = C[i].age
              /\ Mark(C)[i].idle = C[i].idle
              /\ Mark(C)[i].hits = C[i].hits
              /\ Mark(C)[i].label = C[i].label
              /\ Mark(C)[i].state = IF C[i].idle > TrackBuffer THEN "removed"
                                    ELSE IF C[i].idle > 0 THEN "lost" ELSE C[i].state
    BY <1>6, MarkFields
  <1>8. \A i \in DOMAIN tracks : tracks[i].idle \in Nat
    BY DEF TypeOK, Track
  <1>9. L = Mark(C)
    BY DEF C, P
  <1>10. L \in [DOMAIN tracks -> AnyTrack]
    BY <1>6, <1>7, <1>9
  <1>11. ASSUME NEW i \in DOMAIN tracks
         PROVE  /\ L[i].age = tracks[i].age + 1
                /\ i \in Rows(m) \ skip =>
                     L[i].idle = 0 /\ L[i].hits = tracks[i].hits + 1 /\ L[i].state = "tracked"
                /\ i \notin Rows(m) \ skip =>
                     /\ L[i].idle = tracks[i].idle + 1 /\ L[i].hits = tracks[i].hits
                     /\ L[i].state = IF tracks[i].idle + 1 > TrackBuffer THEN "removed" ELSE "lost"
                /\ i \notin Rows(m) => L[i].label = tracks[i].label
                /\ \A d : <<i, d>> \in m => L[i].label = ds[d].label
    <2>1. /\ L[i].age = C[i].age /\ L[i].idle = C[i].idle /\ L[i].hits = C[i].hits
          /\ L[i].label = C[i].label
          /\ L[i].state = IF C[i].idle > TrackBuffer THEN "removed"
                          ELSE IF C[i].idle > 0 THEN "lost" ELSE C[i].state
      BY <1>6, <1>7, <1>9
    <2>2. i \in DOMAIN P
      BY <1>3
    <2>3. tracks[i].idle \in Nat
      BY <1>8
    <2>4. CASE i \in Rows(m) \ skip
      BY <1>2, <1>5, <2>1, <2>2, <2>4, BufferAssumption
    <2>5. CASE i \notin Rows(m) \ skip
      BY <1>2, <1>5, <2>1, <2>2, <2>3, <2>5
    <2> QED
      BY <2>4, <2>5
  <1> QED
    BY <1>10, <1>11

\* The tracks after a frame: those kept, with what FrameFields says of them,
\* and the new ones under fresh ids.
LEMMA SpawnFields ==
  ASSUME NEW L, NEW ds, NEW new,
         \A d, e \in new : d # e => NewId(d, new) # NewId(e, new),
         \A d \in new : NewId(d, new) \notin DOMAIN L,
         NEW N, N = SpawnAndReap(L, ds, new)
  PROVE  /\ DOMAIN N = Kept(L) \cup {NewId(d, new) : d \in new}
         /\ N = [i \in DOMAIN N |-> N[i]]
         /\ \A i \in Kept(L) : N[i] = L[i]
         /\ \A d \in new : N[NewId(d, new)] = NewTrack(ds[d])
  <1> DEFINE ids == {NewId(d, new) : d \in new}
             D(i) == CHOOSE d \in new : NewId(d, new) = i
  <1>1. Kept(L) \cap ids = {}
    BY DEF Kept
  <1>2. DOMAIN N = Kept(L) \cup ids /\ N = [i \in DOMAIN N |-> N[i]]
    BY DEF SpawnAndReap
  <1>3. \A i \in Kept(L) : N[i] = L[i]
    BY <1>1 DEF SpawnAndReap
  <1>4. ASSUME NEW d \in new PROVE N[NewId(d, new)] = NewTrack(ds[d])
    <2> DEFINE i == NewId(d, new)
    <2>1. i \in ids /\ D(i) = d
      OBVIOUS
    <2>2. N[i] = NewTrack(ds[D(i)])
      BY <2>1 DEF SpawnAndReap
    <2> QED
      BY <2>1, <2>2
  <1> QED
    BY <1>1, <1>2, <1>3, <1>4

-----------------------------------------------------------------------------
(* The step a frame takes, read off the lemmas above. *)

\* A frame that matches m, skips the corrections of skip and spawns new.
Matching(ds, m, skip, new) ==
  /\ m \subseteq (DOMAIN tracks) \X (DOMAIN ds) /\ IsPairing(m)
  /\ \A p \in m : ~Blocked(Predict(tracks), ds, p)
  /\ skip \subseteq Rows(m)
  /\ new = {d \in High(ds) \ Cols(m) : ds[d].score >= NewThresh}
  /\ \A d \in new : NewId(d, new) \in next_id..(next_id' - 1)
  /\ \A d, e \in new : d # e => NewId(d, new) # NewId(e, new)
  /\ \A i \in next_id..(next_id' - 1) : \E d \in new : i = NewId(d, new)
  /\ next_id' \in Nat \ {0} /\ next_id <= next_id' /\ next_id' <= MaxId + 1

\* Of a track there was: it stays or is reaped, and coasts or is corrected.
Survived(i, ds, m, skip) ==
  /\ i \in DOMAIN tracks' <=> i \in Rows(m) \ skip \/ tracks[i].idle + 1 <= TrackBuffer
  /\ i \in DOMAIN tracks' =>
       /\ tracks'[i] \in AnyTrack
       /\ tracks'[i].age = tracks[i].age + 1
       /\ i \in Rows(m) \ skip =>
            /\ tracks'[i].idle = 0 /\ tracks'[i].hits = tracks[i].hits + 1
            /\ tracks'[i].state = "tracked"
       /\ i \notin Rows(m) \ skip =>
            /\ tracks'[i].idle = tracks[i].idle + 1 /\ tracks'[i].hits = tracks[i].hits
            /\ tracks'[i].state = "lost"
       /\ i \notin Rows(m) => tracks'[i].label = tracks[i].label
       /\ \A d : <<i, d>> \in m => tracks'[i].label = ds[d].label

Outcome(ds, m, skip, new) ==
  /\ tracks' = [i \in DOMAIN tracks' |-> tracks'[i]]
  /\ \A i \in DOMAIN tracks : Survived(i, ds, m, skip)
  /\ \A i \in DOMAIN tracks' : i \in DOMAIN tracks \/ \E d \in new : i = NewId(d, new)
  /\ \A d \in new : /\ NewId(d, new) \in DOMAIN tracks'
                    /\ tracks'[NewId(d, new)] = NewTrack(ds[d])
  /\ frame' = frame + 1 /\ dets' = ds /\ skipped' = skip /\ per_class' = per_class
  /\ used' = m \cup {<<NewId(d, new), d>> : d \in new}
  /\ out' = {i \in DOMAIN tracks' : tracks'[i].idle = 0}

LEMMA UpdateStep ==
  ASSUME TypeOK, NEW ds \in Frames, Update(ds)
  PROVE  \E m, skip, new : Matching(ds, m, skip, new) /\ Outcome(ds, m, skip, new)
  <1> DEFINE P == Predict(tracks)
  <1>1. PICK m1 \in Associate(DOMAIN P, High(ds), P, ds) :
               \E m2 \in Associate(RemRows(P, m1), Low(ds), P, ds) :
                 \E skip \in SUBSET Rows(m1 \cup m2) : Apply(ds, m1, m2, skip)
    <2>1. DOMAIN P = DOMAIN tracks
      BY DEF Predict
    <2> QED
      BY <2>1 DEF Update
  <1>2. PICK m2 \in Associate(RemRows(P, m1), Low(ds), P, ds) :
               \E skip \in SUBSET Rows(m1 \cup m2) : Apply(ds, m1, m2, skip)
    BY <1>1
  <1>3. PICK skip \in SUBSET Rows(m1 \cup m2) : Apply(ds, m1, m2, skip)
    BY <1>2
  <1> DEFINE m   == m1 \cup m2
             new == Spawning(ds, m)
             L   == Mark(Correct(P, ds, m, skip))
             ids == {NewId(d, new) : d \in new}
  <1>4. /\ m \subseteq (DOMAIN tracks) \X (DOMAIN ds) /\ IsPairing(m)
        /\ \A p \in m : ~Blocked(P, ds, p)
    <2>1. DOMAIN P = DOMAIN tracks
      BY DEF Predict
    <2> QED
      BY <2>1, RoundsMatch
  <1>5. /\ next_id + Cardinality(new) <= MaxId + 1
        /\ tracks' = SpawnAndReap(L, ds, new)
        /\ next_id' = next_id + Cardinality(new)
        /\ frame' = frame + 1 /\ dets' = ds /\ skipped' = skip /\ per_class' = per_class
        /\ used' = m \cup {<<NewId(d, new), d>> : d \in new}
        /\ out' = {i \in DOMAIN tracks' : tracks'[i].idle = 0}
    BY <1>3 DEF Apply
  <1>6. new = {d \in High(ds) \ Cols(m) : ds[d].score >= NewThresh}
    BY DEF Spawning
  <1>7. L = Mark(Correct(Predict(tracks), ds, m, skip))
    OBVIOUS
  <1> HIDE DEF L, m
  <1>8. L \in [DOMAIN tracks -> AnyTrack] /\ DOMAIN L = DOMAIN tracks
    <2>1. L \in [DOMAIN tracks -> AnyTrack]
      BY <1>4, <1>7, FrameFields
    <2> QED
      BY <2>1
  <1>9. \A i \in DOMAIN tracks :
               /\ L[i].age = tracks[i].age + 1
               /\ i \in Rows(m) \ skip =>
                    L[i].idle = 0 /\ L[i].hits = tracks[i].hits + 1 /\ L[i].state = "tracked"
               /\ i \notin Rows(m) \ skip =>
                    /\ L[i].idle = tracks[i].idle + 1 /\ L[i].hits = tracks[i].hits
                    /\ L[i].state = IF tracks[i].idle + 1 > TrackBuffer THEN "removed" ELSE "lost"
               /\ i \notin Rows(m) => L[i].label = tracks[i].label
               /\ \A d : <<i, d>> \in m => L[i].label = ds[d].label
    BY <1>4, <1>7, FrameFields
  <1> HIDE DEF P, new
  <1>10. next_id \in Nat \ {0} /\ DOMAIN tracks \subseteq 1..(next_id - 1)
        /\ \A i \in DOMAIN tracks : tracks[i].idle \in Nat
    BY DEF TypeOK, Track
  <1>11. /\ Cardinality(new) \in Nat
         /\ \A d \in new : NewId(d, new) \in next_id..(next_id + Cardinality(new) - 1)
         /\ \A d, e \in new : d # e => NewId(d, new) # NewId(e, new)
         /\ \A i \in next_id..(next_id + Cardinality(new) - 1) :
              \E d \in new : i = NewId(d, new)
    <2>1. PICK n \in Nat : DOMAIN ds = 1..n
      BY FrameShape
    <2>2. new \in SUBSET (1..n)
      BY <1>6, <2>1 DEF High
    <2> QED
      BY <1>10, <2>2, NewIds
  <1>12. \A d \in new : NewId(d, new) \notin DOMAIN tracks
    BY <1>10, <1>11
  <1> HIDE DEF ids
  <1>13. /\ DOMAIN tracks' = Kept(L) \cup ids
         /\ tracks' = [i \in DOMAIN tracks' |-> tracks'[i]]
         /\ \A i \in Kept(L) : tracks'[i] = L[i]
         /\ \A d \in new : tracks'[NewId(d, new)] = NewTrack(ds[d])
    <2>1. \A d \in new : NewId(d, new) \notin DOMAIN L
      BY <1>8, <1>12
    <2>2. \A d, e \in new : d # e => NewId(d, new) # NewId(e, new)
      BY <1>11
    <2> QED
      BY <1>5, <2>1, <2>2, SpawnFields DEF ids
  <1>14. Matching(ds, m, skip, new)
    <2>1. skip \subseteq Rows(m)
      BY DEF m
    <2>2. /\ \A d \in new : NewId(d, new) \in next_id..(next_id' - 1)
          /\ \A i \in next_id..(next_id' - 1) : \E d \in new : i = NewId(d, new)
      <3>1. next_id' = next_id + Cardinality(new)
        BY <1>5
      <3> QED
        BY <1>10, <1>11, <3>1
    <2>3. next_id' \in Nat \ {0} /\ next_id <= next_id' /\ next_id' <= MaxId + 1
      BY <1>5, <1>10, <1>11
    <2>4. \A d, e \in new : d # e => NewId(d, new) # NewId(e, new)
      BY <1>11
    <2> QED
      BY <1>4, <1>6, <2>1, <2>2, <2>3, <2>4 DEF Matching, P
  <1>15. ASSUME NEW i \in DOMAIN tracks PROVE Survived(i, ds, m, skip)
    <2>1. i \in DOMAIN tracks' <=> L[i].state # "removed"
      <3>1. i \notin ids
        BY <1>12 DEF ids
      <3> QED
        BY <1>8, <1>13, <3>1 DEF Kept
    <2>2. i \in DOMAIN tracks' => tracks'[i] = L[i]
      BY <1>8, <1>13, <2>1 DEF Kept
    <2>3. L[i].state # "removed"
            <=> i \in Rows(m) \ skip \/ tracks[i].idle + 1 <= TrackBuffer
      BY <1>9, <1>10, BufferAssumption
    <2>4. L[i] \in AnyTrack
      BY <1>8
    <2> QED
      BY <1>9, <2>1, <2>2, <2>3, <2>4 DEF Survived
  <1>16. \A i \in DOMAIN tracks' : i \in DOMAIN tracks \/ \E d \in new : i = NewId(d, new)
    BY <1>8, <1>13 DEF Kept, ids
  <1>17. \A d \in new : NewId(d, new) \in DOMAIN tracks'
    BY <1>13 DEF ids
  <1>18. Outcome(ds, m, skip, new)
    BY <1>5, <1>13, <1>15, <1>16, <1>17 DEF Outcome
  <1> QED
    BY <1>14, <1>18

-----------------------------------------------------------------------------
(* The inductive invariant. *)

\* What the tracks are between two frames: typed, paired one to one with the
\* detections of the last frame, coasting within the buffer, and their ids
\* within the numbers a run may give.
TrackerInv == /\ TypeOK
              /\ OneDetectionOneTrack
              /\ ConfidentIsReturned
              /\ CoastBounded
              /\ next_id <= MaxId + 1

LEMMA EmptyInv ==
  ASSUME per_class \in BOOLEAN, tracks = NoTracks, next_id = 1, frame = 0,
         dets = <<>>, used = {}, skipped = {}, out = {}
  PROVE  TrackerInv
  <1>1. DOMAIN tracks = {} /\ tracks \in [{} -> Track]
    BY DEF NoTracks
  <1>2. dets \in Frames
    <2>1. dets \in [1..0 -> [score : Scores, label : Labels]]
      OBVIOUS
    <2>2. 0 \in 0..MaxDets
      BY BoundsAssumption
    <2> QED
      BY <2>1, <2>2 DEF Frames
  <1>3. TypeOK
    BY <1>1, <1>2 DEF TypeOK
  <1>4. OneDetectionOneTrack
    BY DEF OneDetectionOneTrack, IsPairing, Rows
  <1>5. DOMAIN dets = {}
    OBVIOUS
  <1>6. ConfidentIsReturned
    BY <1>5 DEF ConfidentIsReturned
  <1>7. CoastBounded
    BY <1>1 DEF CoastBounded
  <1> QED
    BY <1>3, <1>4, <1>6, <1>7, BoundsAssumption DEF TrackerInv

LEMMA InitInv == Init => TrackerInv
  BY EmptyInv DEF Init

LEMMA ResetInv ==
  ASSUME TypeOK, Reset
  PROVE  TrackerInv'
  <1>1. DOMAIN tracks' = {} /\ tracks' \in [{} -> Track]
    BY DEF NoTracks, Reset
  <1>2. dets' \in Frames
    <2>1. dets' \in [1..0 -> [score : Scores, label : Labels]]
      BY DEF Reset
    <2>2. 0 \in 0..MaxDets
      BY BoundsAssumption
    <2> QED
      BY <2>1, <2>2 DEF Frames
  <1>3. TypeOK'
    BY <1>1, <1>2 DEF TypeOK, Reset
  <1>4. OneDetectionOneTrack'
    BY DEF OneDetectionOneTrack, IsPairing, Rows, Reset
  <1>5. DOMAIN dets' = {}
    BY DEF Reset
  <1>6. ConfidentIsReturned'
    BY <1>5 DEF ConfidentIsReturned
  <1>7. CoastBounded'
    BY <1>1 DEF CoastBounded
  <1> QED
    BY <1>3, <1>4, <1>6, <1>7, BoundsAssumption DEF TrackerInv, Reset

\* A track after the frame is one there was, still typed and within the
\* buffer, or one just born.
LEMMA TracksAfter ==
  ASSUME TypeOK, CoastBounded, NEW ds \in Frames, NEW m, NEW skip, NEW new,
         Matching(ds, m, skip, new), Outcome(ds, m, skip, new),
         NEW i \in DOMAIN tracks'
  PROVE  /\ tracks'[i] \in Track /\ i \in 1..(next_id' - 1)
         /\ tracks'[i].idle <= TrackBuffer
         /\ tracks'[i].state = (IF tracks'[i].idle = 0 THEN "tracked" ELSE "lost")
         /\ tracks'[i].hits + tracks'[i].idle <= tracks'[i].age + 1
  <1>1. CASE i \in DOMAIN tracks
    <2>1. Survived(i, ds, m, skip)
      BY <1>1 DEF Outcome
    <2>2. /\ tracks[i].age \in Nat /\ tracks[i].hits \in Nat /\ tracks[i].idle \in Nat
          /\ tracks[i].hits + tracks[i].idle <= tracks[i].age + 1
      BY <1>1 DEF TypeOK, Track, CoastBounded
    <2>3. i \in 1..(next_id' - 1)
      BY <1>1 DEF TypeOK, Matching
    <2>4. tracks'[i] \in AnyTrack /\ tracks'[i].age = tracks[i].age + 1
      BY <2>1 DEF Survived
    <2>5. CASE i \in Rows(m) \ skip
      <3>1. tracks'[i].idle = 0 /\ tracks'[i].hits = tracks[i].hits + 1
            /\ tracks'[i].state = "tracked"
        BY <2>1, <2>5 DEF Survived
      <3> QED
        BY <2>2, <2>3, <2>4, <3>1, BufferAssumption DEF AnyTrack, Track
    <2>6. CASE i \notin Rows(m) \ skip
      <3>1. tracks'[i].idle = tracks[i].idle + 1 /\ tracks'[i].hits = tracks[i].hits
            /\ tracks'[i].state = "lost" /\ tracks[i].idle + 1 <= TrackBuffer
        BY <2>1, <2>6 DEF Survived
      <3> QED
        BY <2>2, <2>3, <2>4, <3>1, BufferAssumption DEF AnyTrack, Track
    <2> QED
      BY <2>5, <2>6
  <1>2. CASE i \notin DOMAIN tracks
    <2>1. PICK d \in new : i = NewId(d, new)
      BY <1>2 DEF Outcome
    <2>2. tracks'[i] = NewTrack(ds[d])
      BY <2>1 DEF Outcome
    <2>3. ds[d].label \in Labels
      BY FrameShape DEF Matching, High
    <2>4. i \in 1..(next_id' - 1)
      BY <2>1 DEF Matching, TypeOK
    <2> QED
      BY <2>2, <2>3, <2>4, BufferAssumption DEF NewTrack, Trk, Track
  <1> QED
    BY <1>1, <1>2

\* The pairs of a frame, new tracks included, match no one twice.
LEMMA UsedAfter ==
  ASSUME TypeOK, NEW ds, NEW m, NEW skip, NEW new,
         Matching(ds, m, skip, new), Outcome(ds, m, skip, new)
  PROVE  OneDetectionOneTrack'
  <1> DEFINE born == {<<NewId(d, new), d>> : d \in new}
  <1>1. IsPairing(born)
    <2> SUFFICES ASSUME NEW d \in new, NEW e \in new,
                        <<NewId(d, new), d>> # <<NewId(e, new), e>>
                 PROVE  NewId(d, new) # NewId(e, new) /\ d # e
      BY DEF IsPairing
    <2>1. d # e
      OBVIOUS
    <2> QED
      BY <2>1 DEF Matching
  <1>2. Rows(m) \subseteq DOMAIN tracks
    BY DEF Matching, Rows
  <1>3. Rows(born) \cap DOMAIN tracks = {}
    BY DEF Matching, Rows, TypeOK
  <1>4. Cols(born) \subseteq new
    BY DEF Cols
  <1>5. IsPairing(m \cup born)
    BY <1>1, <1>2, <1>3, <1>4, PairingUnion DEF Matching
  <1>6. used' = m \cup born
    BY DEF Outcome
  <1> QED
    BY <1>5, <1>6 DEF OneDetectionOneTrack

\* A detection that was matched is returned unless its correction was skipped,
\* and one that was not matched starts a track.
LEMMA ConfidentAfter ==
  ASSUME TypeOK, NEW ds \in Frames, NEW m, NEW skip, NEW new,
         Matching(ds, m, skip, new), Outcome(ds, m, skip, new)
  PROVE  ConfidentIsReturned'
  <1> SUFFICES ASSUME NEW d \in DOMAIN ds,
                      ds[d].score >= HighThresh /\ ds[d].score > NewThresh
               PROVE  \E i \in out' \cup skipped' : <<i, d>> \in used'
    BY DEF ConfidentIsReturned, Outcome
  <1>1. CASE d \in Cols(m)
    <2>1. PICK p \in m : p[2] = d
      BY <1>1 DEF Cols
    <2>2. p = <<p[1], d>> /\ p[1] \in DOMAIN tracks /\ p[1] \in Rows(m)
      BY <2>1, PairMembers DEF Matching, Rows
    <2>3. <<p[1], d>> \in used'
      BY <2>1, <2>2 DEF Outcome
    <2>4. CASE p[1] \in skip
      BY <2>3, <2>4 DEF Outcome
    <2>5. CASE p[1] \notin skip
      <3>1. Survived(p[1], ds, m, skip)
        BY <2>2 DEF Outcome
      <3>2. p[1] \in DOMAIN tracks' /\ tracks'[p[1]].idle = 0
        BY <2>2, <2>5, <3>1 DEF Survived
      <3> QED
        BY <2>3, <3>2 DEF Outcome
    <2> QED
      BY <2>4, <2>5
  <1>2. CASE d \notin Cols(m)
    <2>1. d \in new
      <3>1. ds[d].score \in Nat /\ NewThresh \in Nat
        BY FrameShape, ThreshAssumption
      <3> QED
        BY <1>2, <3>1 DEF Matching, High
    <2>2. NewId(d, new) \in DOMAIN tracks' /\ <<NewId(d, new), d>> \in used'
      BY <2>1 DEF Outcome
    <2>3. NewId(d, new) \in out'
      <3>1. tracks'[NewId(d, new)] = NewTrack(ds[d])
        BY <2>1 DEF Outcome
      <3>2. tracks'[NewId(d, new)].idle = 0
        BY <3>1 DEF NewTrack, Trk
      <3> QED
        BY <2>2, <3>2 DEF Outcome
    <2> QED
      BY <2>2, <2>3
  <1> QED
    BY <1>1, <1>2

LEMMA UpdateInv ==
  ASSUME TrackerInv, NEW ds \in Frames, Update(ds)
  PROVE  TrackerInv'
  <1>1. TypeOK /\ CoastBounded
    BY DEF TrackerInv
  <1>2. PICK m, skip, new : Matching(ds, m, skip, new) /\ Outcome(ds, m, skip, new)
    BY <1>1, UpdateStep
  <1>3. \A i \in DOMAIN tracks' :
           /\ tracks'[i] \in Track /\ i \in 1..(next_id' - 1)
           /\ tracks'[i].idle <= TrackBuffer
           /\ tracks'[i].state = (IF tracks'[i].idle = 0 THEN "tracked" ELSE "lost")
           /\ tracks'[i].hits + tracks'[i].idle <= tracks'[i].age + 1
    BY <1>1, <1>2, TracksAfter
  <1>4. TypeOK'
    <2>1. tracks' \in [DOMAIN tracks' -> Track] /\ DOMAIN tracks' \subseteq 1..(next_id' - 1)
      BY <1>2, <1>3 DEF Outcome
    <2>2. skipped' \subseteq 1..(next_id' - 1)
      <3>1. Rows(m) \subseteq DOMAIN tracks
        BY <1>2 DEF Matching, Rows
      <3>2. DOMAIN tracks \subseteq 1..(next_id' - 1)
        BY <1>1, <1>2 DEF TypeOK, Matching
      <3> QED
        BY <1>2, <3>1, <3>2 DEF Matching, Outcome
    <2>3. per_class' \in BOOLEAN /\ frame' \in Nat /\ dets' \in Frames
          /\ out' \subseteq DOMAIN tracks'
      BY <1>1, <1>2 DEF TypeOK, Outcome
    <2>4. next_id' \in Nat \ {0}
      BY <1>2 DEF Matching
    <2> QED
      BY <2>1, <2>2, <2>3, <2>4 DEF TypeOK
  <1>5. CoastBounded'
    BY <1>3 DEF CoastBounded
  <1>6. OneDetectionOneTrack' /\ ConfidentIsReturned'
    BY <1>1, <1>2, UsedAfter, ConfidentAfter
  <1> QED
    BY <1>2, <1>4, <1>5, <1>6 DEF TrackerInv, Matching

LEMMA NextInv == TrackerInv /\ [Next]_vars => TrackerInv'
  <1> SUFFICES ASSUME TrackerInv, [Next]_vars PROVE TrackerInv'
    OBVIOUS
  <1>1. ASSUME NEW ds \in Frames, Update(ds) PROVE TrackerInv'
    BY <1>1, UpdateInv
  <1>2. CASE Reset
    BY <1>2, ResetInv DEF TrackerInv
  <1>3. CASE UNCHANGED vars
    BY <1>3 DEF vars, TrackerInv, TypeOK, OneDetectionOneTrack, ConfidentIsReturned,
                CoastBounded
  <1> QED
    BY <1>1, <1>2, <1>3 DEF Next

\* Whatever the detections, the classes and the geometry of the frames, the
\* tracker's invariant holds.
THEOREM TrackerInvariant == Spec => []TrackerInv
  BY InitInv, NextInv, PTL DEF Spec

\* Every variable of the tracker keeps its type.
THEOREM TypeCorrect == Spec => []TypeOK
  <1>1. TrackerInv => TypeOK
    BY DEF TrackerInv
  <1> QED
    BY <1>1, TrackerInvariant, PTL

\* Over both rounds and the spawning, no detection feeds two tracks and no
\* track two detections.
THEOREM NoDetectionTwice == Spec => []OneDetectionOneTrack
  <1>1. TrackerInv => OneDetectionOneTrack
    BY DEF TrackerInv
  <1> QED
    BY <1>1, TrackerInvariant, PTL

\* A detection that exceeds what it takes to start a track is returned as a
\* track unless the correction it went into was skipped.
THEOREM NoConfidentDetectionLost == Spec => []ConfidentIsReturned
  <1>1. TrackerInv => ConfidentIsReturned
    BY DEF TrackerInv
  <1> QED
    BY <1>1, TrackerInvariant, PTL

\* No track outlives its buffer, and lost means coasting.
THEOREM CoastingIsBounded == Spec => []CoastBounded
  <1>1. TrackerInv => CoastBounded
    BY DEF TrackerInv
  <1> QED
    BY <1>1, TrackerInvariant, PTL

-----------------------------------------------------------------------------
(* What a frame does to a single id. *)

\* With per_class set a track that survives a frame keeps its class.
LEMMA NextKeepsClass ==
  ASSUME TrackerInv, [Next]_vars, per_class,
         NEW i \in DOMAIN tracks, i \in DOMAIN tracks'
  PROVE  tracks'[i].label = tracks[i].label
  <1>1. ASSUME NEW ds \in Frames, Update(ds)
        PROVE  tracks'[i].label = tracks[i].label
    <2>1. PICK m, skip, new : Matching(ds, m, skip, new) /\ Outcome(ds, m, skip, new)
      BY <1>1, UpdateStep DEF TrackerInv
    <2>2. Survived(i, ds, m, skip)
      BY <2>1 DEF Outcome
    <2>3. CASE i \notin Rows(m)
      BY <2>2, <2>3 DEF Survived
    <2>4. CASE i \in Rows(m)
      <3>1. PICK d \in DOMAIN ds : <<i, d>> \in m
        BY <2>1, <2>4, PairOfRow DEF Matching
      <3>2. tracks'[i].label = ds[d].label
        BY <2>2, <3>1 DEF Survived
      <3>3. Predict(tracks)[i].label = tracks[i].label
        BY DEF Predict, Predicted, Trk
      <3>4. ~Blocked(Predict(tracks), ds, <<i, d>>)
        BY <2>1, <3>1 DEF Matching
      <3> QED
        BY <3>2, <3>3, <3>4 DEF Blocked
    <2> QED
      BY <2>3, <2>4
  <1>2. CASE Reset
    BY <1>2 DEF Reset, NoTracks
  <1>3. CASE UNCHANGED vars
    BY <1>3 DEF vars
  <1> QED
    BY <1>1, <1>2, <1>3 DEF Next

\* The class constraint holds across frames, not only within one.
THEOREM ClassesAreKept == Spec => ClassesKept
  <1>1. TrackerInv /\ [Next]_vars =>
          [per_class => \A i \in DOMAIN tracks \cap DOMAIN tracks' :
                          tracks'[i].label = tracks[i].label]_vars
    BY NextKeepsClass
  <1> QED
    BY <1>1, TrackerInvariant, PTL DEF Spec, ClassesKept

-----------------------------------------------------------------------------
(* Refinement. *)

\* The life of one id over a frame.
LEMMA FrameOfId ==
  ASSUME TrackerInv, NEW ds \in Frames, Update(ds), NEW k, k \in 1..MaxId
  PROVE  \/ Phase(k) # "live" /\ Phase(k)' = Phase(k) /\ Idle(k)' = 0
         \/ Phase(k) = "unused" /\ Phase(k)' = "live" /\ Idle(k)' = 0
         \/ Phase(k) = "live" /\ Phase(k)' = "live" /\ Idle(k)' = 0
         \/ /\ Phase(k) = "live" /\ Idle(k) < TrackBuffer
            /\ Phase(k)' = "live" /\ Idle(k)' = Idle(k) + 1
         \/ /\ Phase(k) = "live" /\ Idle(k) = TrackBuffer
            /\ Phase(k)' = "retired" /\ Idle(k)' = 0
  <1>1. TypeOK /\ CoastBounded
    BY DEF TrackerInv
  <1>2. PICK m, skip, new : Matching(ds, m, skip, new) /\ Outcome(ds, m, skip, new)
    BY <1>1, UpdateStep
  <1>3. next_id \in Nat /\ next_id' \in Nat /\ next_id <= next_id' /\ k \in Nat
    BY <1>1, <1>2 DEF TypeOK, Matching
  <1>4. \A d \in new : ~(NewId(d, new) < next_id) /\ NewId(d, new) < next_id'
    <2>1. \A d \in new : NewId(d, new) \in next_id..(next_id' - 1)
      BY <1>2 DEF Matching
    <2> QED
      BY <1>3, <2>1
  <1>5. k \in DOMAIN tracks' => k \in DOMAIN tracks \/ \E d \in new : k = NewId(d, new)
    BY <1>2 DEF Outcome
  <1>6. CASE k \in DOMAIN tracks
    <2>1. Survived(k, ds, m, skip)
      BY <1>2, <1>6 DEF Outcome
    <2>2. tracks[k].idle \in Nat /\ tracks[k].idle <= TrackBuffer /\ k < next_id
      BY <1>1, <1>6 DEF TypeOK, Track, CoastBounded
    <2>3. Phase(k) = "live" /\ Idle(k) = tracks[k].idle
      BY <1>6 DEF Phase, Idle
    <2>4. CASE k \in DOMAIN tracks' /\ k \in Rows(m) \ skip
      <3>1. tracks'[k].idle = 0
        BY <2>1, <2>4 DEF Survived
      <3> QED
        BY <2>3, <2>4, <3>1 DEF Phase, Idle
    <2>5. CASE k \in DOMAIN tracks' /\ k \notin Rows(m) \ skip
      <3>1. tracks'[k].idle = tracks[k].idle + 1 /\ tracks[k].idle + 1 <= TrackBuffer
        BY <2>1, <2>5 DEF Survived
      <3>2. tracks[k].idle < TrackBuffer
        BY <2>2, <3>1, BufferAssumption
      <3> QED
        BY <2>3, <2>5, <3>1, <3>2 DEF Phase, Idle
    <2>6. CASE k \notin DOMAIN tracks'
      <3>1. ~(tracks[k].idle + 1 <= TrackBuffer)
        BY <2>1, <2>6 DEF Survived
      <3>2. tracks[k].idle = TrackBuffer
        BY <2>2, <3>1, BufferAssumption
      <3>3. k < next_id'
        BY <1>3, <2>2
      <3> QED
        BY <2>3, <2>6, <3>2, <3>3 DEF Phase, Idle
    <2> QED
      BY <2>4, <2>5, <2>6
  <1>7. CASE k \notin DOMAIN tracks /\ k < next_id
    <2>1. k \notin DOMAIN tracks'
      BY <1>7, <1>4, <1>5
    <2>2. k < next_id'
      BY <1>3, <1>7
    <2> QED
      BY <1>7, <2>1, <2>2 DEF Phase, Idle
  <1>8. CASE k \notin DOMAIN tracks /\ ~(k < next_id) /\ k < next_id'
    <2>1. k \in next_id..(next_id' - 1)
      BY <1>3, <1>8, Between
    <2>2. PICK d \in new : k = NewId(d, new)
      BY <1>2, <2>1 DEF Matching
    <2>3. k \in DOMAIN tracks' /\ tracks'[k] = NewTrack(ds[d])
      BY <1>2, <2>2 DEF Outcome
    <2>4. tracks'[k].idle = 0
      BY <2>3 DEF NewTrack, Trk
    <2> QED
      BY <1>8, <2>3, <2>4 DEF Phase, Idle
  <1>9. CASE k \notin DOMAIN tracks /\ ~(k < next_id')
    <2>1. ~(k < next_id)
      BY <1>3, <1>9
    <2>2. k \notin DOMAIN tracks'
      BY <1>9, <1>4, <1>5
    <2> QED
      BY <1>9, <2>1, <2>2 DEF Phase, Idle
  <1> QED
    BY <1>6, <1>7, <1>8, <1>9

LEMMA InitRefines == Init => Lives!Init
  <1> SUFFICES ASSUME Init PROVE Lives!Init
    OBVIOUS
  <1>1. DOMAIN tracks = {} /\ next_id = 1
    BY DEF Init, NoTracks
  <1>2. \A k \in 1..MaxId : Phase(k) = "unused" /\ Idle(k) = 0
    BY <1>1, BoundsAssumption DEF Phase, Idle
  <1> QED
    BY <1>2 DEF Lives!Init

LEMMA StepRefines == TrackerInv /\ [Next]_vars => [Lives!Next]_Lives!vars
  <1> SUFFICES ASSUME TrackerInv, [Next]_vars PROVE [Lives!Next]_Lives!vars
    OBVIOUS
  <1>1. ASSUME NEW ds \in Frames, Update(ds) PROVE Lives!Frame
    <2> SUFFICES ASSUME NEW k \in 1..MaxId
                 PROVE  \/ Lives!Stay(k) \/ Lives!Appear(k) \/ Lives!Correct(k)
                        \/ Lives!Coast(k) \/ Lives!Reap(k)
      BY DEF Lives!Frame
    <2> QED
      BY <1>1, FrameOfId
      DEF Lives!Stay, Lives!Appear, Lives!Correct, Lives!Coast, Lives!Reap
  <1>2. ASSUME Reset PROVE Lives!Reset
    <2>1. DOMAIN tracks' = {} /\ next_id' = 1
      BY <1>2 DEF Reset, NoTracks
    <2>2. \A k \in 1..MaxId : Phase(k)' = "unused" /\ Idle(k)' = 0
      BY <2>1, BoundsAssumption DEF Phase, Idle
    <2> QED
      BY <2>2 DEF Lives!Reset
  <1>3. ASSUME UNCHANGED vars PROVE UNCHANGED Lives!vars
    BY <1>3 DEF vars, Lives!vars, Phase, Idle
  <1> QED
    BY <1>1, <1>2, <1>3 DEF Next, Lives!Next

\* The tracker implements the lives of identities: between two resets an id is
\* given once, and its track is reaped after exactly track_buffer coasted frames.
THEOREM Refinement == Spec => ImplementsTrackLives
  BY InitRefines, StepRefines, TrackerInvariant, PTL
  DEF Spec, Lives!Spec, ImplementsTrackLives
=============================================================================
