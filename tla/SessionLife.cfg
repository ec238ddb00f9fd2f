SPECIFICATION Spec
CONSTANTS
  Callers = {t1}
  Handlers = {h1}
  Chans = {x1, x2}
  Buffer = 1
  Codes = {q1}
  NoCode = NoCode
  NoChan = NoChan
SYMMETRY Symmetric
INVARIANTS TypeOK StatusAgrees QRCancellable NoStuckConsumer
