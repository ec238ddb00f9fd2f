SPECIFICATION Spec
CONSTANTS
  Names = {n1, n2}
  Jids = {j1}
  Objects = {o1, o2}
  Callers = {c1, c2}
  Main = main
  Notes = {k1}
  NoName = NoName
  NoJid = NoJid
  NoRow = NoRow
  NoObj = NoObj
  Ops = {"create", "delete", "start"}
  Faults = {"db", "logout", "drop"}
  MaxCrashes = 0
SYMMETRY Symmetric
INVARIANTS TypeOK AccountIsolation OrphansAreLeft OneClientPerDevice
PROPERTIES RowOnlyFromCreate
