SPECIFICATION LifecycleSpec
CONSTANTS
  Sources <- MCSources
  RunIds = {r1, r2}
  Keys = {k1, k2}
  Contents <- MCContents
  Tracked <- MCTracked
  UserStatuses = {"new"}
  Counts <- MCCounts
  MaxCards = 2
  Servers <- MCTwoServers
  Handlers <- MCHandlers
  ServerOf <- MCOneOnEach
  Paginations <- MCUnpaginated
  Listings <- MCTwoPosts
  Matching <- MCMatching
  Narrowings = {FALSE}
  MaxFaults = 0
  DefaultHeadMaxIterations = 0
  DefaultFullEvery = 2
  s1 = s1
  k1 = k1
  k2 = k2
  post = post
  other = other
  h1 = h1
  h2 = h2
  sv1 = sv1
  sv2 = sv2
  NoRow = NoRow
  NoKey = NoKey
  NoPagination = NoPagination
INVARIANTS
  LiveRunStaysOpen
