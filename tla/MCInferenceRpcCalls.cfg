CONSTANTS
  f = f
  g = g
  bad = bad
  Callers = {c1, c2}
  Frames = {f, g, bad}
  Readable = {f, g}
  Batches <- MCBatches
  MaxBatch = 2
  Timeout = 1
  Nums = {n1, n2}
  MaxInFlight = 2
  Faults = TRUE
SPECIFICATION FairSpec
INVARIANTS InOnePlace
PROPERTIES ImplementsRemoteCall FreshAnswered CallsEnd
