SPECIFICATION FairSpec
CONSTANTS
  latestAsync = latestAsync
  dropAsync = dropAsync
  dropSync = dropSync
  Sinks <- CrowdSinks
  AsyncSinks = {latestAsync, dropAsync}
  LatestSinks = {latestAsync}
  Requeuers = {dropAsync}
  NSlots = 2
  MaxSinks = 2
  MaxGen = 2
INVARIANTS
  ZeroMeansOut
  RefcountExact
  MailboxFree
PROPERTIES
  PinnedFrameStable
  DrainsHome
