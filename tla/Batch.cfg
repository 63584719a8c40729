SPECIFICATION Spec
CONSTANTS
  Entries <- MC_Entries
  FolderFiles = {"eboot.bin"}
INVARIANTS
  EveryItemRecorded
  
  CancelStopsBuilding
CHECK_DEADLOCK FALSE
