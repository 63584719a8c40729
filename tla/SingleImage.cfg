SPECIFICATION StreamSpec
CONSTANTS
  BlockSize = 4
  TableOffset = 1
  EntrySize = 1
  DataOffset = 6
  ThresholdGain = 0
  MinFileGain = 5
  RawSize = 14
  CompressedLens <- MC_FileCompressed
  Variant = "file"
  SourceLens <- MC_FileLens
  Workers = {w1, w2}
  WindowFactor = 1
  MaxDeaths = 1
  StatSizes <- MC_StatSizes
  PfsBlock = 4
INVARIANTS
  PackedPayloadDecodes
  SpoolWithinEstimate
  PublishedReadsBack
  NoTmpAfterEnd
  DryRunForetells
PROPERTIES
  StreamEnds
CHECK_DEADLOCK FALSE
