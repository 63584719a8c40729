CONSTANTS
  Files <- MC_Files
  Dirs <- MC_Dirs
  Parent <- MC_Parent
  Key <- MC_Key
  Options <- MC_Options
  Folders <- MC_Folders
  Earlier <- MC_Earlier
  Edits <- MC_Edits
  Links = {5}
  Ignored = {8}
  Marker = 7
  IndexNode = 1
  TmpNode = 2
  HashValues = {7, 8}
  C = 2
  BitmapPerCluster = 3
SPECIFICATION FolderSpec
INVARIANTS
  VolumeReadsBack
  PackedFilesFound
CHECK_DEADLOCK FALSE
