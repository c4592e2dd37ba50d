SPECIFICATION Spec
CONSTANTS
  Crc8 <- River2Crc8
  Crc16 <- River2Crc16
  MaxField = 6
  Streams <- CleanStreams
  MaxChunk = 9
  MaxFailures = 1
INVARIANTS TypeOK BufferIsSuffix BufferBounded DrainBounded ChunkingIrrelevant SentArrives
PROPERTIES ImplementsFrameStream
CHECK_DEADLOCK FALSE
