CONSTANTS
  Dialects = {"ollama", "openai"}
  MaxCalls = 2
  AtOnce = 3
  MaxLines = 4
  MaxLine = 1
  MaxTotal = 9
  None = None
  Mapping = Mapping
  Newline = Newline
SPECIFICATION FairStreamSpec
INVARIANTS TurnSound
PROPERTIES TurnSettles
