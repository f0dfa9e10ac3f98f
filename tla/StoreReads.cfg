SPECIFICATION ReadsSpec
CONSTANTS
  Sources = {s1, s2}
  RunIds = {r1, r2}
  Keys = {k1}
  Contents = {post}
  post = post
  Tracked <- MCTracked
  UserStatuses = {"new"}
  Counts = {0}
  MaxCards = 1
  Instants <- MCInstants
  Filters <- MCFilters
  Limits <- MCLimits
  Offsets <- MCOffsets
  DefaultLimit = 1
  MaxLimit = 2
  RunLimit = 1
  Unset = Unset
  NoRow = NoRow
  NoKey = NoKey
INVARIANTS
  LockMatchesRun
  RunOwnsItsRows
  PageMatchesTotal
  DashboardNamesVacancies
PROPERTIES
  LatestRunsAreNewest
  LockSpec
SYMMETRY ReadsSymmetry
