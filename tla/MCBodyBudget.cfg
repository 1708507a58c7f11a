SPECIFICATION Spec
CONSTANTS
  Streams = {s1, s2}
  Limit = 3
  MaxBody = 2
  MaxDecoded = 3
  ChunkLens = {1, 3}
  MaxReceived = 3
INVARIANTS TypeOK Accounted WithinLimit ResidentIsCharged NoSilentTruncation
PROPERTIES ImplementsAtomic AcquireLockFree
