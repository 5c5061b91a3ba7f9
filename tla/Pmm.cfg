SPECIFICATION PmmSpec
CONSTANTS
  PAGE_SIZE = 2
  WORD = 2
  MAX_PAGES = 8
  ADDRESS_SPACE = 32
  KB = 1
  LOW_MEMORY = 2
  kernel_start = 2
  kernel_end = 5
  MemoryMaps <- MCMemoryMaps
  MemUppers <- MCMemUppers
  Addrs <- MCAddrs
  Sizes <- MCSizes
  Counts <- MCCounts
  USED_BOUND = 6
INVARIANTS WritesStayInBitmap FreeMemoryReported
PROPERTIES UsedPagesCounted AllocationIsFirstFit
