CONSTANTS
  MaxCall = 2
  Path = {a}
  Content = {c1, c2}
  Initial = {c1, Absent}
  Allowed = {"python", "other"}
  Role <- MCRole
  Ceiling = {0, 2}
  MaxOutside = 1
  MaxUndo = 1
  MaxFail = 1
  Absent = Absent
  Torn = Torn
  Wrong = Wrong
  None = None
SPECIFICATION FairSpec
INVARIANTS RunsAsJudged
PROPERTIES ReplacesSeen CallsSound CallsSettle
