\* The link to the relay, and pairing on a session.
CONSTANTS
  None = None
  Nothing = Nothing
  LinkLoads <- MCLinkLoads
  SendCapacity = 2
  MissedLimit = 2
  PairingLoads <- MCPairingLoads
  MaxPairingAttempts = 2
  MaxPairings = 2
  Threshold = 1
  MaxFailures = 2
SPECIFICATION Spec
INVARIANTS  ExactlyOneOutcome PairingAgrees PairingKeepsSession
PROPERTY LinkRecovers
CHECK_DEADLOCK FALSE
