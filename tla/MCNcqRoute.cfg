CONSTANTS
  NPIU = 2
  QueueDepth = 1
  WoqDepth = 5
  DsqDepth = 5
  SidDepth = 1
  ReadCap = 2
  WriteCap = 6
SPECIFICATION Spec
INVARIANT DataFollowsAddress OnePathAtATime
PROPERTY DsqNeverOverflows
