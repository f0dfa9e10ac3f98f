SPECIFICATION MigrationsSpec
CONSTANTS
  Processes = {p1, p2}
  Vacancies = {v1, v2}
  Links = {a, b}
  Fingerprints = {f}
  MaxStops = 2
  NoRow = NoRow
  NoColumn = NoColumn
INVARIANTS
  LedgerMatchesSchema
  OpenedIsReady
  RebuiltIsChecked
PROPERTIES
  IdentitySurvives
  EventuallyOpens
