CONSTANTS
  Keys = {"k1", "k2", "k3"}
  Values = {"v", "w"}
  Ttls = {1, 2}
  Capacity = 2
  None = None
  RateKeys = {"r1", "r2"}
  RateCapacity = 3
  Window = 2
  Unit = 3
  MaxKeys = 1
  EntryTtl = 2
  Ips = {"i1", "i2", "i3"}
  MaxTracked = 2
  Base = 1
  Maximum = 3
  MaxShift = 2
  StreakCap = 4
  ThrottleTtl = 4
  Signers = {"s1", "s2"}
  Ids = {1, 2, 3}
  ReplayTtl = 2
  ReplayCapacity = 3
  PerPeer = 2
  SweepEvery = 2
  LanKeys = {"a", "b", "c"}
  Known = {"a"}
  Boots = {1, 2}
  Seqs = {1, 2}
  RelayIds = {"own", "other"}
  Lease = 1
  Directory = 2
  Reserve = 1
  PerSource = 2
  Unknown = 1
  ReplaySlots = 1
  BootHistory = 2
  Rate = 1
  NoHint = NoHint
  Word = 8
  Top = 2
  MaxChanges = 2
SPECIFICATION MCSpec
INVARIANTS LimitsHold PeerCountsExact  
PROPERTIES ImplementsTtlMap AcceptedOnce
