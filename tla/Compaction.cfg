CONSTANTS
  Keep = {1, 2}
  Kind <- MCKind
  MaxCalls = 3
  MaxUsers = 1
  MaxAnswers = 1
  MaxCrash = 1
SPECIFICATION Spec
INVARIANTS HandlesSound EvidenceKept
PROPERTIES OffersStand
