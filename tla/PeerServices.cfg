SPECIFICATION FairSpec
CONSTANTS
  Ids = {1, 2, 3}
  Acked = {1, 2}
  Contents = {"a", "b"}
  AckCap = 1
  DedupCap = 2
  MaxSends = 3
  NumSubs = 3
  Topics = {"x", "y"}
  Matches <- Patterns
  Latest = {2}
  Covered = {1, 2, 3}
  MaxSubs = 2
  QueueItems = 1
  ChannelCap = 2
  MaxEvents = 3
  Shells = {1, 2}
  Peers = {"p", "q"}
  ScriptLoads <- MCScripts
INVARIANTS MessagesSound EventsSound StreamsInOrder 
PROPERTIES NewestArrives ShellsEnd
CHECK_DEADLOCK FALSE
