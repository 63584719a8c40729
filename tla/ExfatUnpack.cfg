CONSTANTS
  Files <- MC_Files
  Dirs <- MC_Dirs
  Parent <- MC_Parent
  Key <- MC_Key
  Options <- MC_Options
  Folders <- MC_Folders
  Earlier <- MC_Folders
  Edits <- MC_Edits
  Modes <- MC_Modes
  Selections <- MC_Selections
  DamagedBlocks <- MC_DamagedBlocks
  Occupants <- MC_Occupants
  Links = {6}
  Ignored = {10}
  Marker = 8
  Metadata = {3}
  Sorted <- MC_Sorted
  IndexNode = 1
  TmpNode = 2
  HashValues = {7}
  C = 2
  BitmapPerCluster = 8
  K = 2
  Cap = 2
SPECIFICATION UnpackSpec
INVARIANTS
  CacheSound
  SelectedWhole
  OnlyMatchingRead
  VerifyRight
PROPERTIES
  UnpackEnds
CHECK_DEADLOCK FALSE
