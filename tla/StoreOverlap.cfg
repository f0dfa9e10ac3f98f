SPECIFICATION Spec
CONSTANTS
  Sources = {s1}
  RunIds = {r1, r2, r3}
  Keys = {k1}
  Counts = {0}
  MaxCards = 1
  senior = senior
  seniorRemote = seniorRemote
  junior = junior
  Contents <- MCContents
  Tracked <- MCTracked
  UserStatuses <- MCUserStatuses
  NoRow = NoRow
  NoKey = NoKey
INVARIANTS
  TypeOK
  ArchivedHasWitness
  LastRunSawVacancy
  SourceRunningHasRun
  AddedOnce
  HistoryChain
PROPERTIES
  TerminalIsFinal
  CompleteSuccessLeavesOnlySeen
SYMMETRY Symmetry
