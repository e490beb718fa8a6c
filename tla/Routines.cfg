SPECIFICATION Spec
CONSTANTS
  Boots <- MCBoots
  PageSize = 8
  FirstMB = 16
  FourGB = 128
  MaxPages = 15
  NumEntries = 2
  StackPage = 8
  DefaultMem = 96
  ProcList = 5
  PageRecord = 2
  CachePer = 8
  MaxCache = 1
  \* Two lines of three cells, CONSOLE_SIZE as if video.lines were set; a letter and a control character.
  Columns = 3
  Rows = 2
  Lines = 2
  PutChars = {97, 8}
  MaxOps = 4
  Machines <- MCMachines
  PerCall = 2
  Paras = 3
  First = 1
  Where = 7
  Sector = 2
  InSector = 2
  Own = {3, 22}
  Megabyte = 8
  Memory <- MCMemory
  \* SIGTERM and SIGCHLD.
  NUM_PROCS = 3
  Signals = {15, 17}
  Handlers <- MCHandlers
  GroupOf <- MCGroupOf
INVARIANTS
  LibraryExact
  MemoryMapExact
  ProcTableExact
  ScreenExact
  Ps2Exact
  BootLoaderExact
\* A function returns, the boot is over: nothing is left to do.
CHECK_DEADLOCK FALSE
