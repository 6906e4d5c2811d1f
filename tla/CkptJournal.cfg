CONSTANTS
  Proc = {p1}
  Session = {s1}
  File = {a, b}
  Content = {c1, c2}
  Absent = Absent
  Unreadable = Unreadable
  None = None
  Gone = Gone
  MaxTurn = 1
  MaxUndo = 2
  MaxWrite = 3
  MaxCrash = 2
  MaxFail = 1
  MaxDbFail = 1
  MaxBlock = 1
  MaxDelete = 1
  EditsInPass = FALSE
SPECIFICATION Spec
SYMMETRY Sym
PROPERTIES UndoAllOrNothing NoEditOverwritten RecoverySettles
