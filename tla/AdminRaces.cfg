SPECIFICATION AdminSpec
CONSTANTS
  Sources = {s1, s2}
  Slugs = {a, b}
  Configs = {c1, c2}
  Names = {own}
  Actives = {}
  Schedules <- MCSchedules
  Refused <- MCRefused
  Tokens = {t1, t2}
  Requests = {q1, q2}
  TTL = 0
  MaxTime = 1
  NoRow = NoRow
  NoToken = NoToken
  Omitted = Omitted
INVARIANTS
  StoredConfigWasTested
  TokenLetsOneWriteThrough
  NameFollowsText
  StatusIsTheRuns
SYMMETRY Symmetry
