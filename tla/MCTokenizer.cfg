SPECIFICATION Spec
CONSTANTS
  Letters = {"s", "l"}
  Digits = {"1"}
  Symbols = {":", "'"}
  Blanks = {" ", "tab"}
  Newlines = {"newline"}
  NonAscii = {"high"}
  MaxText = 5
  MaxMergeText = 5
  MaxMerges = 3
  Inputs <- MCInputs
INVARIANTS TypeOK MergeInv DecodesToText SplitFollowsPatternUpToIndents
PROPERTY MergesLikeReference
CHECK_DEADLOCK FALSE
