SPECIFICATION StreamSpec
CONSTANTS
  BlockSize = 4
  TableOffset = 1
  EntrySize = 1
  DataOffset = 4
  ThresholdGain = 50
  MinFileGain = 10
  RawSize = 14
  CompressedLens <- MC_Lens
  Variant = "stream"
  SourceLens <- MC_StreamLens
  Workers = {w1, w2}
  WindowFactor = 1
  MaxDeaths = 0
  StatSizes <- MC_StatSizes
  PfsBlock = 8
INVARIANTS
  TypeOK
  MemoryBounded
  ImageIsSourcePrefix
PROPERTIES
  ImplementsSerial
CHECK_DEADLOCK FALSE
