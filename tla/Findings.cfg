SPECIFICATION FairSpec
CONSTANTS
  film = film
  show = show
  old = old
  new = new
  Entries <- MCEntries
  Releases = {old, new}
  TitleArr <- MCTitleArr
  Walks <- MCWalks
  Sites <- MCSites
  Maps <- MCMaps
  ExcludeSpecials = FALSE
PROPERTIES NoFalseResolve RowsHaveEvidence Converges
