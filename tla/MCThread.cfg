\* Two objects, two threads started from the main one or from each other.
SPECIFICATION FairSpec
CONSTANTS
  Objects = {o1, o2}
  Pthreads = {p1, p2}
  Main = Main
  Results = {r1, r2}
  Nothing = Nothing
INVARIANTS TypeOK NoUseAfterDestroy JoinReturnsOwnResult JoinableOnce
PROPERTY JoinTerminates
CHECK_DEADLOCK FALSE
