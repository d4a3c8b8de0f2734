SPECIFICATION IndexSpec
CONSTANTS
  p1 = p1
  d2 = d2
  p3 = p3
  a1 = a1
  a3 = a3
  b3 = b3
  None = None
  Workers = {w1, w2, w3}
  Replaces = {p1, p3}
  Deletes = {d2}
  Chunks = {a1, a3, b3}
  Version <- MCVersion
  ChunksOf <- MCChunksOf
  ChunkVersion <- MCChunkVersion
  Overlap = FALSE
  FailAt = {"read", "claim", "bulk", "publish", "bury", "clean", "takeback", "purge"}
SYMMETRY Symmetry
INVARIANTS
  IndexTypeOK
  NewestServed
  StraysComeFromFailures
PROPERTIES
  ServesDocument
