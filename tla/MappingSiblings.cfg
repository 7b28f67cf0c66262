SPECIFICATION LoaderSpec
CONSTANTS
  v1 = v1
  v2 = v2
  v3 = v3
  v4 = v4
  v5 = v5
  NoTag = NoTag
  NoFile = NoFile
  Release <- Releases
  OverrideFiles <- Files
  Persisted <- Caches
  FloorDivisor = 2
  RefreshWindow = 1
  MaxOverrides = 2
  MaxAge = 1
  MaxStreak = 1
INVARIANT SiblingsAreOthers
