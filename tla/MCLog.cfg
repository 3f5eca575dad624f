\* One thread, statements nested two deep, exceptions.  abort() ends a run.
SPECIFICATION Spec
CONSTANTS
  Threads = {t1}
  Severities <- MCSeverities
  Printers = {p1, p2, p3}
  Files = {f1}
  MaxDepth = 2
  MaxLost = 1
  Nothing = Nothing
SYMMETRY Symmetry
INVARIANTS TypeOK OneShot NoPrinterLeaks OwnRecord StreamOwned WritesWhatPasses
CHECK_DEADLOCK FALSE
