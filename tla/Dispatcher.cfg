SPECIFICATION FairSpec
CONSTANTS
  k1 = k1
  k2 = k2
  Sessions = {s1, s2}
  Kinds = {k1, k2}
  Blank = Blank
  Lists <- SomeLists
  Urls = {"good", "bad"}
  Events = {1, 2}
  Hooks = {h1}
  Workers = {w1}
  Capacity = 1
  Attempts = 2
  NoWorker = NoWorker
  NoRow = NoRow
  NoEnvelope = NoEnvelope
  Faults = {"db"}
  MaxDeaths = 1
INVARIANTS TypeOK DeletedHookHearsNothing SubscribersAddressed
PROPERTIES DeliveryPromises QueuedIsHandled SendersEnd
CHECK_DEADLOCK FALSE
