SPECIFICATION Spec
CONSTANTS
  Threads = {t1, t2}
  Keys = {k1, k2, k3}
  Names = {Admin, Other}
  AdminName = Admin
  NoKey = NoKey
  NoName = NoName
  Faults = {"db"}
  MaxCrashes = 1
SYMMETRY Symmetric
INVARIANTS TypeOK LoginsSupersede
PROPERTIES OthersKeepTheirKeys KeysHaveOneLife
CHECK_DEADLOCK FALSE
