\* Two threads, two descriptors for up to three objects.
SPECIFICATION Spec
CONSTANTS
  Threads = {t1, t2}
  Objects = {1, 2, 3}
  Fds = {3, 4}
  Names = {n1, n2}
  QueueLen = 1
  Nothing = Nothing
SYMMETRY Symmetry
INVARIANTS TypeOK DescriptorsOwned ReadyWhenBuilt AddressAsked
