SPECIFICATION AdminSpec
CONSTANTS
  Sources = {s1}
  Slugs = {a}
  Configs = {c1, c2}
  Names = {own}
  Actives = {FALSE}
  Schedules <- MCSchedules
  Refused <- MCRefused
  Tokens = {t1, t2}
  Requests = {q1, q2}
  TTL = 0
  MaxTime = 1
  NoRow = NoRow
  NoToken = NoToken
  Omitted = Omitted
PROPERTIES
  ConfigChangeSpendsToken
SYMMETRY Symmetry
