SPECIFICATION Spec
CONSTANTS
  Names = {n1}
  Jids = {j1}
  Objects = {o1, o2, o3}
  Callers = {c1, c2}
  Main = main
  Notes = {k1, k2}
  NoName = NoName
  NoJid = NoJid
  NoRow = NoRow
  NoObj = NoObj
  Ops = {"create", "delete"}
  Faults = {}
  MaxCrashes = 0
SYMMETRY Symmetric
PROPERTIES NeverReplaced
