CONSTANTS
  Proc = {p1}
  Session = {s1}
  File = {a, b}
  Content = {c1}
  Absent = Absent
  Unreadable = Unreadable
  None = None
  Gone = Gone
  MaxTurn = 2
  MaxUndo = 2
  MaxWrite = 3
  MaxCrash = 1
  MaxFail = 0
  MaxDbFail = 0
  MaxBlock = 0
  MaxDelete = 0
  EditsInPass = FALSE
SPECIFICATION FairSpec
PROPERTIES ImplementsAtomicUndo UndoIsLatest InterruptedUndoResolved
