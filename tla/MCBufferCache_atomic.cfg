SPECIFICATION PromptSpec
CONSTANTS
  c1 = c1
  c2 = c2
  pf = pf
  None = None
  Client <- Clients2
  Prefetcher <- Empty
  Flusher <- Empty
  CACHE_SIZE = 1
  SectorCount = 2
  Cell <- TwoCells
  Chunk <- PartAndWhole
  Value <- Bits
  Contents0 <- Contents2
  QueueSize = 1
INVARIANT FlushDurable
PROPERTIES
  ReadsAndWritesAtomic
SYMMETRY ClientSymmetry
