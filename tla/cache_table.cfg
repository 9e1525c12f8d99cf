CONSTANTS
  CacheBlockCount = 3
  Frames = {f1, f2, f3, f4, h1}
  HighFrames = {h1}
  None = None
SPECIFICATION Spec
INVARIANTS TypeOK LeftIsClear OneMapping
PROPERTIES RightFrame LastPageKept
