SPECIFICATION CollectionSpec
CONSTANTS
  Sources <- MCSources
  RunIds = {r1, r2}
  Keys <- MCKeys
  Contents <- MCContents
  Tracked <- MCTracked
  UserStatuses = {"new"}
  Counts = {0}
  MaxCards = 4
  DefaultHeadMaxIterations = 1
  DefaultFullEvery = 2
  Hosts <- MCHosts
  ParamNames <- MCParamNames
  BaseHost = "relative"
  Handlers <- MCHandlers
  Texts <- MCTexts
  FirstTexts <- MCFirstTexts
  Postings <- MCPostings
  Matching <- MCMatching
  Sites <- MCSites
  Hrefs <- MCHrefs
  ListedValues <- MCListedValues
  DetailValues <- MCDetailValues
  s1 = s1
  p1 = p1
  p2 = p2
  p3 = p3
  h1 = h1
  h2 = h2
  NoHost = NoHost
  NoBlock = NoBlock
  NoRow = NoRow
  NoKey = NoKey
  NoPagination = NoPagination
INVARIANTS
  LinkNamesPosting
  RefusedForDataOnly
PROPERTIES
  CompleteRunMirrorsSite
SYMMETRY Symmetry
CHECK_DEADLOCK FALSE
