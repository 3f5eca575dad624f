\* Two threads, the cache of four, an index that wraps at eight.
SPECIFICATION Spec
CONSTANTS
  Threads = {"main", "other"}
  Main = "main"
  CACHE_SZ = 4
  IxMod = 8
  Parameters <- MCParameters
  Unset = Unset
INVARIANTS TypeOK DrawsSound ZipfOfArguments
