SPECIFICATION Spec
CONSTANTS
  Names = {n1}
  Jids = {j1}
  Objects = {o1, o2}
  Callers = {c1}
  Main = main
  Notes = {k1, k2}
  NoName = NoName
  NoJid = NoJid
  NoRow = NoRow
  NoObj = NoObj
  Ops = {"create", "delete", "start"}
  Faults = {"logout"}
  MaxCrashes = 0
SYMMETRY Symmetric
INVARIANTS NoOrphanClient
