SPECIFICATION Spec
CONSTANTS
  Entries <- MC_Entries
  FolderFiles = {"eboot.bin"}
PROPERTY VerifyAcceptsOwnImage
CHECK_DEADLOCK FALSE
