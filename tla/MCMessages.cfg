CONSTANTS
  Client = {"board", "slashed", "controller", "logger", "braced", "foreign", "page"}
  Page = {"page"}
  ClassOf <- MCClass
  NameOf <- MCName
  Texts = {"text"}
  Braced = {}
  BracedNames <- MCBracedNames
  LogLevels = {"Error"}
  States = {"Stopped"}
  Actions = {"Stop"}
  MaxCame = 4
  MaxSent = 1
SPECIFICATION Spec
INVARIANTS NobodyEnds Understood
CHECK_DEADLOCK FALSE
