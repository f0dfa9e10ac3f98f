SPECIFICATION PageSpec
CONSTANTS
  MaxIterations = 4
  MaxAttemptsWithoutNewData = 2
  PageSize = 2
  Listing <- MCListing
  Found <- MCFound
  HasStopSelector = TRUE
  HasDetailPage = TRUE
  DetailLimits = {0, 4}
  NoPagination = NoPagination
INVARIANTS
  DeadlineIsFailure
CHECK_DEADLOCK FALSE
