CONSTANTS
  Absent = Absent
  Torn = Torn
  Broken = Broken
  Garbled = Garbled
  Second = {t1, t2}
  None = None
  Nothing = Nothing
  Session = {s1, s2}
  MaxCommands = 2
  MaxEdits = 1
  MaxDeaths = 1
  MaxProject = 1
  MaxSoul = 2
  MaxStarts = 2
  MaxTurn = 2
  MaxStep = 3
  MaxText = 1
  MaxPieces = 4
  MaxCalls = 2
  MaxSlips = 1
  MaxId = 2
  MaxVerify = 2
  ReplayLimit = 3
SPECIFICATION MCSpec
SYMMETRY Sym
CHECK_DEADLOCK FALSE
INVARIANTS ProjectTightens ScreenTrue
PROPERTIES SettingsStand PrefixStands RolesStand
