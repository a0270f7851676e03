SPECIFICATION Spec
CONSTANTS
  Letters = {"s", "l"}
  Digits = {"1"}
  Symbols = {":", "'"}
  Blanks = {" ", "tab"}
  Newlines = {"newline"}
  NonAscii = {"high"}
  MaxText = 3
  MaxMergeText = 5
  MaxMerges = 0
  Inputs <- MCInputs
INVARIANT SplitFollowsPattern
CHECK_DEADLOCK FALSE
