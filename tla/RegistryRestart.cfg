SPECIFICATION Spec
CONSTANTS
  Names = {n1}
  Jids = {j1}
  Objects = {o1, o2}
  Callers = {c1}
  Main = main
  Notes = {k1, k2}
  NoName = NoName
  NoJid = NoJid
  NoRow = NoRow
  NoObj = NoObj
  Ops = {"create", "start"}
  Faults = {}
  MaxCrashes = 1
SYMMETRY Symmetric
INVARIANTS PairingSurvivesRestart
