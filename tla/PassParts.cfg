SPECIFICATION PartsSpec
CONSTANTS
  v1 = v1
  v2 = v2
  v3 = v3
  v4 = v4
  v5 = v5
  NoTag = NoTag
  NoFile = NoFile
  Release <- Releases
  OverrideFiles <- Files
  Persisted <- Caches
  FloorDivisor = 2
  RefreshWindow = 1
  MaxOverrides = 2
  MaxAge = 1
  MaxStreak = 1
  Series = {1, 2, 3, 4}
  Filtered = {4}
  Unofficial = {2, 4}
  EpisodeConcurrency = 2
  FailureBudget = 2
  Untagged = FALSE
  Record <- Records
  PerPage = 2
  MaxPages = 3
  MaxPageWeight = 3
  MaxTotalWeight = 6
  MaxChanges = 1
  Ids = {0, 1, 2, 3, 4}
  RoutedIds = {3}
  Medias <- BothMedias
  Absent = Absent
  Unusable = Unusable
  AniLists <- SomeAniLists
  Windows <- SomeWindows
  Library <- Items3
  PersistedMemos <- SomeMemos
  MinTTL = 2
  MaxTTL = 2
  BatchSize = 2
  TransientFailureCap = 2
  h1 = h1
  h3 = h3
  NoKey = NoKey
  NoHash = NoHash
  NoCursor = NoCursor
  Journals <- SomeJournals
  Known = {1, 2, 3, 4, 5}
  Wordings <- SomeWordings
  Searched = {1, 2}
  Replies <- SomeReplies
  Cursors <- SomeCursors
  MalformedLatch = 2
  RejectedLatch = 2
  NoGroup = NoGroup
  NoLink = NoLink
  NoId = NoId
  AnimeBytes = AnimeBytes
  TvdbSeasons = {0, 1, 2}
  Targets = {1, 2}
  MaxBytes = 12
  MaxSpan = 3
  MapEntries <- MCMapEntries
  Alignments <- MCAlignments
  Comparisons <- MCComparisons
INVARIANTS MapSound WalkSound CatalogueSound LookupsSound HarvestSound EntryFactsSound DecisionSound FindingsSound
PROPERTIES  LoaderConverges
CHECK_DEADLOCK FALSE
