SPECIFICATION Spec
CONSTANTS
  Arrays <- MCArrays
  TICK_FREQ_HZ = 2
  Dates <- MCDates
  Window = 7
  Period = 9
  MaxTicks = 5
  Disks <- MCDisks
  TableSizes = {0, 4, 8}
  Items = {"x", "y"}
  Junk = junk
  MaxElem = 6
  Texts <- MCTexts
  Beyond = {"a", "cr"}
  TxCols = 4
  TxRows = 2
  HexBytes = 2
  Keys = {"k1", "k2"}
  Values = {1, 2}
  CfgFiles <- MCCfgFiles
  MaxOpt = 4
  Dirs <- MCDirs
  Child <- MCChild
  Above <- MCAbove
  Root = "/"
  num_vis = 2
  Letters = {1, 2}
  MAX_SEARCH_LEN = 1
  NCOLS = 2
  NROWS = 2
  VIRT_ROWS = 5
  TAB = 2
  Printable = {"a", "b"}
  INBUF_SIZE = 5
  MaxLines = 2
  RING = 3
  LINEBUF = 5
  Ends = {2}
  MaxSent = 4
  Moves <- MCMoves
  BoundSets <- MCBounds
  MaxMoves = 4
  LongNames <- MCLongNames
  ShortNames <- MCShortNames
  Dot = 7
  PART = 2
  MAX_NAME = 5
  PerCluster = 3
  MaxEnt = 5
  Labels = {"none", "volid"}
  Erasers = {"aware"}
  Formats <- KernelFormats
  WIDTH = 16
  LibCalls <- MCLibCalls
  SECT = 4
  CHUNK = 2
  Boot2Size = 16
  MainSize = 18
  DefaultDrive <- MCDefaultDrive
  Drives <- MCBootDrives
  MemoryMaps <- MCMemoryMaps
  MAP_MAX = 4
  M1 = 2
  M16 = 5
  LIMIT = 10
  Sizes = {1, 2}
  CLUSTER = 2
  Vectors = {9, 28, 33, 41}
  Volumes <- MCVolumes
  MaxPart = 3
  Partitions <- MCPartitions
  Spare = 0
  Buses = 2
  Slots = 3
  Boards <- MCBoards
  Tiles <- MCTiles
  Margins <- MCMargins
  Pictures <- MCPictures
  Frames = {700, 1100}
  pmax = 2
  Lives = {750, 1249}
  MaxRuns = 2
  CommandLines <- MCCommandLines
  MAX_ARGV = 4
  Listings <- MCListings
  Contents <- MCContents
  MaxTyped = 2
  Cards <- MCCards
  Chunks = {1, 256, 65536}
  MaxChunks = 2
  MaxCalls = 1
INVARIANTS StdlibRight ClockRight VolumesRight ListsRight ScreensRight ShellRight BytesRight DirRight
  BootRight RunRight DevicesRight PicturesRight
PROPERTY CallsEnd
CHECK_DEADLOCK FALSE
