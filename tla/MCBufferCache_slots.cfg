SPECIFICATION FairSpec
CONSTANTS
  c1 = c1
  c2 = c2
  pf = pf
  None = None
  Client <- Clients1
  Prefetcher <- ThePrefetcher
  Flusher <- Empty
  CACHE_SIZE = 2
  SectorCount = 3
  Cell <- OneCell
  Chunk <- WholeOnly
  Value <- Zero
  Contents0 <- Blank
  QueueSize = 2
INVARIANTS UniqueSector SlotsSound
PROPERTY LoadsEnd
