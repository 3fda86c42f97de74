\* A table of five files, three of them there at the start, with restarts and a drive
\* that may not answer; mounted filesystems as in MCStorage; queues of three.
SPECIFICATION MCSpec
CONSTANTS
  MAX_FILES = 5
  Names = {"home", "long", "longer"}
  Clip <- ClipLong
  Texts = {"", "x"}
  EmptyText = ""
  SECTOR_NODES = 2
  DriveMayFail = TRUE
  Path <- MCPath
  MountPoint <- MCMountPoint
  MountOrder <- MCMountOrder
  Cluster = {2, 3, 4, 5, 6}
  ClusterSize = 2
  RootCluster = 2
  DiskFat <- MCDiskFat
  DiskDir <- MCDiskDir
  DiskData <- MCDiskData
  JunkLink = {3}
  SysData <- MCSysData
  ProcData <- MCProcData
  Pid <- MCPid
  FirstFd = 3
  LastFd = 4
  MaxRead = 2
  Unit <- MCUnit
  WriteData <- MCWriteData
  MaxSize = 3
  Size = 3
  MaxCalls = 6
INVARIANTS CwdIsAttached NamesAreUnique ContentsAreOwned SavedIsCurrent AnswersMatch
PROPERTIES RefinesFileStore
