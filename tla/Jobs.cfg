CONSTANTS
  Children = 2
  Backend = {"host", "docker"}
  HeadBytes = 1
  TailBytes = 2
  MarkerBytes = 1
  MaxOutput = 4
  None = None
SPECIFICATION FairSpec
INVARIANTS NothingLeft EndTold
PROPERTIES Ends
