\* Two threads, no nesting, no exceptions, no log but stdout: the claim of Log.h:88.
SPECIFICATION Spec
CONSTANTS
  Threads = {t1, t2}
  Severities <- MCSeverities
  Printers = {p1, p2}
  Files = {}
  MaxDepth = 1
  MaxLost = 0
  Nothing = Nothing
SYMMETRY Symmetry
INVARIANT OneShot
CHECK_DEADLOCK FALSE
