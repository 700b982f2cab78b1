CONSTANTS
  Conns = {"c1", "c2"}
  Devices = {"d1", "d2"}
  Tenants = {"A"}
  None = None
  Loads <- MCLoads
  LeaseTime = 1
  ChallengeTime = 1
  ChallengeCapacity = 1
  DirectoryCapacity = 1
  RecordTime = 1
  WriteFrames = 1
  QueryMax = 1
  Uses = 1
  MaxGen = 3
  LeaseCapacity = 2
  DeviceEndpointCapacity = 2
  TenantDeviceCapacity = 1
SPECIFICATION Spec
INVARIANTS NoOrphans TokenUsesHonoured
PROPERTY RevocationHolds
