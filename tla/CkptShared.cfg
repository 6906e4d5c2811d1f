CONSTANTS
  Proc = {p1,p2}
  Session = {s1,s2}
  File = {a}
  Content = {c1}
  Absent = Absent
  Unreadable = Unreadable
  None = None
  Gone = Gone
  MaxTurn = 2
  MaxUndo = 1
  MaxWrite = 1
  MaxCrash = 1
  MaxFail = 0
  MaxDbFail = 0
  MaxBlock = 0
  MaxDelete = 1
  EditsInPass = TRUE
SPECIFICATION Spec
SYMMETRY Sym
INVARIANTS IndInv
