SPECIFICATION Spec
CONSTANTS
  BgCap = 2
  MaxErrors = 10
  Levels = {2}
  Types = {"warn"}
  Texts = {1}
  Emitters = {"redundant", "unused"}
  MaxSent <- MCMaxSent
INVARIANT ClosedMeansFinished
CHECK_DEADLOCK FALSE
