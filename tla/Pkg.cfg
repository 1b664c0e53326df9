CONSTANTS VFS_MAX_NODES = 16  VFS_MAX_FILE_SIZE = 5  InitialCapacity = 2  Slack = 1
          PkgName = "P"  PkgFiles <- MCFiles  FileSize <- MCSize
          FileBuf = 3  SourcesBuf = 4  UserCommands <- MCCommands  MaxCommands = 4  MaxFaults = 1
SPECIFICATION Spec
CHECK_DEADLOCK FALSE
INVARIANT TreeOK
 
 
INVARIANT ReportsTruly
 
PROPERTY EspUntouched
