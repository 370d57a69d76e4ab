SPECIFICATION FairSpec
CONSTANTS
    ChunkSize = 2
    ReadAhead = 2
    Attempts = 2
    MaxStream = 99
    FileSize = 5
    Recorded = {0, 5, 9}
    Headers <- SomeHeaders
    MaxExpiries = 1
CHECK_DEADLOCK FALSE
INVARIANTS TypeOK HonestHeaders CompleteOnSuccess ReadAheadBounded
  
