CONSTANTS
  File = {f}
  MaxRecords = 3
SPECIFICATION AcceptanceSpec
CHECK_DEADLOCK FALSE
INVARIANTS CompletedMeansTested NothingHidden ClaimsAreProven
