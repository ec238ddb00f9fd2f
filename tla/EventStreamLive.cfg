SPECIFICATION FairSpec
CONSTANTS
  Names = {n1}
  Senders = {b1, b2}
  Clients = {c1, c2}
  Requests = {r1}
  Notes = {k1}
  Main = main
  NoActor = NoActor
  Buffer = 1
INVARIANTS TypeOK NoPanic ListenersAreConnections
PROPERTIES ListIsStable BroadcastsEnd LeaversLeave
CHECK_DEADLOCK FALSE
