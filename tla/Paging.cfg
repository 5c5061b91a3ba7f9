SPECIFICATION PagingSpec
CONSTANTS
  PAGE_SIZE = 2
  WORD = 2
  MAX_PAGES = 10
  ADDRESS_SPACE = 32
  KB = 1
  LOW_MEMORY = 2
  kernel_start = 2
  kernel_end = 6
  MemoryMaps <- MCMemoryMaps
  MemUppers = {}
  Addrs = {}
  Sizes = {}
  Counts <- MCCounts
  USED_BOUND = 0
  ENTRIES = 4
  StaticTables <- MCStaticTables
  VirtPages <- MCVirtPages
  Frames <- MCFrames
  Starts = {19}
  Lengths = {6, 13}
INVARIANTS TablesConserved SoftwareAgreesWithWalk OnlyUsableMemory
PROPERTIES MapIsSeen ImplementsAddressSpace HandedOutOnce
\* An access to a page that is not mapped stops the kernel.
CHECK_DEADLOCK FALSE
