SPECIFICATION FairSpec
CONSTANTS
  Names = {n1}
  Jids = {j1, j2}
  Objects = {o1, o2}
  Callers = {c1}
  Main = main
  Notes = {k1, k2}
  NoName = NoName
  NoJid = NoJid
  NoRow = NoRow
  NoObj = NoObj
  Ops = {"create", "delete", "start", "stop", "logout"}
  Faults = {"device", "connect", "logout"}
  MaxCrashes = 1
INVARIANTS SessionHasRow
PROPERTIES BindingKept PairingReachesRow BootCompletes
