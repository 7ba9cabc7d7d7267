CONSTANTS
  Chars = {"a", "$", "&"}
  MaxText = 3
  MaxArg = 2
SPECIFICATION ToolsSpec
INVARIANT EditDoesWhatItSays
CHECK_DEADLOCK FALSE
