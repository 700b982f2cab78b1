\* Both nodes restart their session at once.
CONSTANTS
  None = None
  ConnectLoads <- NoDials
  RestartLoads <- GlareLoads
SPECIFICATION Spec
INVARIANT SessionKept
CHECK_DEADLOCK FALSE
