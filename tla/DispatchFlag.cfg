SPECIFICATION Spec
CONSTANTS
  OnErrors = {0, 1, 2, 3}
  MaxStack = 3
  MaxActs = 3
  Ops = {"catch", "stop"}
PROPERTIES OnlyTypedIgnored
