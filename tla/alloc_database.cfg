SPECIFICATION Spec
CONSTANTS
  MaxBlocks = 7
  Sizes = {1, 2}
INVARIANT TypeOK
INVARIANT LiveDisjoint
INVARIANT FreeBehindLive
PROPERTY RegionSpec
