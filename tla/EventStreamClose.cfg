SPECIFICATION FairSpec
CONSTANTS
  Names = {n1}
  Senders = {b1}
  Clients = {c1}
  Requests = {r1}
  Notes = {k1}
  Main = main
  NoActor = NoActor
  Buffer = 1
PROPERTIES CloseReleases
CHECK_DEADLOCK FALSE
