CONSTANTS
  Window = 3
  MaxChunk = 2
  Sizes <- SomeSizes
  MaxCancels = 1
SPECIFICATION FairSpec
INVARIANTS TypeOK InstalledIsWhole
PROPERTIES BridgeSpec ProducerIsReleased CancelEndsProducer ConsumerEnds
CHECK_DEADLOCK FALSE
