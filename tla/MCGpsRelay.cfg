SPECIFICATION FairSpec
CONSTANTS
  NumHosts = 2
  Connection <- MCConnection
  Output <- MCOutput
  Rate <- MCRate
  NumSlots = 2
  Clients = {c1, c2, c3}
  Backlog = 1
  Bursts <- MCBursts
  NUM_GPS_MESSAGES = 2
  RetryDelay = 0
  ClockSteps <- MCClockSteps
  MaxAge = 1
  MinAge <- MCMinAge
  MaxFaults = 2
  NoFd = NoFd
  NoLink = NoLink
INVARIANTS TypeOK ParsedBurst DescriptorHasOneOwner NoDescriptorLeak FixReachesClients
PROPERTIES BacklogMoves HostServed
