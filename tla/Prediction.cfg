SPECIFICATION Spec
CONSTANTS
  SliceW = 3
  SliceH = 2
  OverlapW = 4
  OverlapH = 10
  IouNum = 1
  IouDen = 4
  Sources <- MCSources
  Configs <- MCConfigs
  Scenes <- MCScenes
  Readable <- MCReadable
  Width <- MCWidth
  Height <- MCHeight
  IsImage <- MCIsImage
  Stem <- MCStem
  ConfTile = 2
  ConfShown = 3
INVARIANT WholeInSomeTile
INVARIANT SmallObjectIsFound
PROPERTY PredictEnds
CHECK_DEADLOCK FALSE
