CONSTANTS
  MaxTexts = 3
  MaxTurns = 3
  MaxScreens = 2
  None = None
  Act = Act
  Recalled = Recalled
  Id <- MCId
  Word <- MCWord
  Blank = ""
  FullId <- MCFullId
  Begins <- MCBegins
  Occurs <- MCOccurs
  Short = {}
  Naming = {"id2"}
  Speech = {"word"}
  Query = {"cafe", "word"}
  Most <- MCMost
  MostAll = 4
  Nil = Nil
SPECIFICATION MCSpec
CHECK_DEADLOCK FALSE
INVARIANTS TurnsStand
PROPERTIES TextsKept Settles PointedAt NamesStand
