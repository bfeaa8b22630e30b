SPECIFICATION Spec
CONSTANTS
  Pids = {p1}
  f1 = f1
  f2 = f2
  t1 = t1
  t2 = t2
  Fds = {f1}
  Tuples = {t1, t2}
  MaxSockets = 2
  MaxTracked = 1
  MaxParsers = 1
  MaxPending = 2
  ParseFailThreshold = 2
  Worlds <- CutWorlds
INVARIANTS ParserOneSocket
SYMMETRY Symmetry
