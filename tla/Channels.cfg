SPECIFICATION Spec
CONSTANTS
  Channels = {1, 2}
  Tickets = {"w1"}
  Weight <- Equal
  Configs <- AllConfigs
INVARIANTS  TurnBound NoLostWakeup
CHECK_DEADLOCK FALSE
