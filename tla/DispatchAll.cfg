SPECIFICATION Spec
CONSTANTS
  OnErrors = {0, 1, 2, 3}
  MaxStack = 4
  MaxActs = 6
  Ops = {"execute", "ioerror", "catch", "cancel", "stop", "retall", "reset", "event", "skip"}
INVARIANTS TypeOK InOwnEnv EnabledOutside
PROPERTIES HandledByRules
CONSTRAINT Explored
