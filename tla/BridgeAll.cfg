SPECIFICATION FairSpec
CONSTANTS
  Clients = {1, 2}
  Served = {2}
  WithCallback = {2}
  Spies = {1, 2}
  MaxCommands = 2
  MaxDepth = 2
  Ops = {"nowait", "wait", "status", "abort", "exit", "halt", "stop", "die"}
INVARIANTS TypeOK AnswersLastCommand BusyIsKnown
PROPERTIES WaitEnds AnswerReported
CHECK_DEADLOCK FALSE
