\* How two nodes come to a session, and replace its transport.
CONSTANTS
  None = None
  ConnectLoads <- MCConnectLoads
  RestartLoads <- MCRestartLoads
SPECIFICATION Spec
INVARIANTS NothingLeftOver 
PROPERTIES DialsMeet SessionOwnsTransport RestartEnds
CHECK_DEADLOCK FALSE
