CONSTANTS
  Session = {s1, s2}
  Cli = {r1}
  Tui = {w1, w2}
  Remote = {w2}
  Nobody = Nobody
  TTL = 1
  WhenStalled = {s1}
SPECIFICATION FairSpec
INVARIANTS OneRunner WriteOwned
PROPERTIES DeleteSparesActive DeadHolderReplaced
