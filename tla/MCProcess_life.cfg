CONSTANTS
  MaxTid = 4
  MAX_FILE_DESCRIPTOR = 2
  MaxOfd = 2
  MAX_THREADS = 3
  MAX_LOCKS = 1
  MAX_SEMAS = 1
  ExitCodes <- Codes
  Watched = {1, 2}
  Programs <- AllPrograms
SPECIFICATION FairSpec
CHECK_DEADLOCK FALSE
INVARIANTS  OpenFilesExact 
PROPERTY ExitCompletes
