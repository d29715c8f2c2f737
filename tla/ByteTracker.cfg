SPECIFICATION Spec
CONSTANTS
  HighThresh = 2
  LowThresh = 1
  NewThresh = 3
  TrackBuffer = 1
  Scores = {0, 1, 2, 3, 4}
  Labels = {cat, dog}
  MaxDets = 2
  MaxId = 2
  MaxFrames = 4
SYMMETRY Symmetry
INVARIANTS
  OneDetectionOneTrack
  ConfidentIsReturned
  CoastBounded
PROPERTIES
  ClassesKept
  ImplementsTrackLives
