SPECIFICATION FairSpec
CONSTANTS
  BgCap = 1
  MaxErrors = 2
  Levels = {1, 2}
  Types = {"err", "warn"}
  Texts = {1, 2}
  Emitters = {"read", "setup", "owner", "redundant", "overlap", "unused", "print"}
  MaxSent <- MCMaxSent
INVARIANTS TypeOK Conservation ExitOK CleanChecks OutputOrder
PROPERTIES Termination
CHECK_DEADLOCK FALSE
