CONSTANTS
  Dirs <- MC_Dirs
  Files <- MC_Files
  Parent <- MC_Parent
  Ignored <- MC_Ignored
  NonAscii = {8}
  Hashes = {1, 2}
  Sources <- MC_Sources
  Modes = {"verify", "unpack"}
  DamageKinds = {"none", "entry", "table", "resolver", "super"}
  Occupants <- MC_Occupants
SPECIFICATION Spec
INVARIANTS
  BuilderAccepted
  DamageReported
  TableFindsEveryPath
  CleanMeansSame
  ExtractedWhole
  ForeignKept
PROPERTIES
  CheckEnds
CHECK_DEADLOCK FALSE
