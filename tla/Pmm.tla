-------------------------------- MODULE Pmm ---------------------------------
(***************************************************************************)
(* The physical page allocator of kernel/mm/pmm.c, under any sequence of   *)
(* calls of its header's functions, in or out of range.                    *)
(*                                                                         *)
(* The bitmap is the set of the pages whose bit is 1.  Without a memory    *)
(* map nothing keeps total_pages within the bitmap: pages beyond it have   *)
(* their bits in the memory behind the array, which belongs to others      *)
(* (OtherData).  A call that writes there sets overrun, and what happens   *)
(* afterwards is not modelled.                                             *)
(*                                                                         *)
(* uint32_t sums of addresses wrap at ADDRESS_SPACE.  linker.ld defines    *)
(* neither _kernel_start nor _kernel_end, so where the kernel lies is a    *)
(* parameter.                                                              *)
(***************************************************************************)
EXTENDS Integers, FiniteSets, Sequences, TLC

CONSTANTS
  PAGE_SIZE,      \* bytes of a page (4096)
  WORD,           \* bits of a bitmap word (32)
  MAX_PAGES,      \* bits of the bitmap (2^18)
  ADDRESS_SPACE,  \* 2^32
  KB,             \* 1024
  LOW_MEMORY,     \* 0x100000, the memory that is never handed out
  kernel_start, kernel_end,
  MemoryMaps,     \* the multiboot maps: sequences of regions
  MemUppers,      \* the values of mem_upper, in KB, when there is no map
  Addrs,          \* the addresses callers pass
  Sizes,          \* the sizes in bytes callers pass
  Counts,         \* the page counts callers pass
  USED_BOUND      \* bound: pmm_mark_region_free is called up to this used_pages

Regions == [addr : Nat, len : Nat, available : BOOLEAN]

ASSUME PmmAssumption ==
  /\ PAGE_SIZE \in Nat \ {0} /\ WORD \in Nat \ {0} /\ MAX_PAGES \in Nat \ {0}
  /\ ADDRESS_SPACE \in Nat \ {0}
  /\ MAX_PAGES * PAGE_SIZE < ADDRESS_SPACE
  /\ KB \in Nat \ {0} /\ LOW_MEMORY \in Nat
  /\ kernel_start \in Nat /\ kernel_end \in Nat /\ kernel_start <= kernel_end
  /\ MemoryMaps \subseteq Seq(Regions) /\ MemUppers \subseteq Nat
  /\ USED_BOUND \in Nat /\ Addrs \subseteq Nat /\ Sizes \subseteq Nat /\ Counts \subseteq Nat

VARIABLES
  bitmap,         \* the pages whose bit is 1
  total_pages, used_pages,
  ready,          \* pmm_init has run
  ret,            \* the address the last allocation returned
  with_map,       \* pmm_init was given a memory map
  region_freed,   \* pmm_mark_region_free has cleared the bit of a managed page
  overrun         \* a call wrote behind the bitmap: the model ends there

pmmVars == <<bitmap, total_pages, used_pages, ready, ret, with_map, region_freed, overrun>>

\* The bits of pmm_bitmap, and those one finds by indexing it with any page.
Pages == 0..(MAX_PAGES - 1)
Bits == 0..(ADDRESS_SPACE \div PAGE_SIZE - 1)

Managed == {p \in Bits : p < total_pages}

PmmTypeOK ==
  /\ bitmap \subseteq Bits
  /\ total_pages \in 0..(ADDRESS_SPACE \div PAGE_SIZE) /\ used_pages \in Int
  /\ ret \in Nat /\ ready \in BOOLEAN /\ with_map \in BOOLEAN
  /\ region_freed \in BOOLEAN /\ overrun \in BOOLEAN

-----------------------------------------------------------------------------
Wrap(n) == n % ADDRESS_SPACE
AlignDown(addr) == addr - (addr % PAGE_SIZE)
AlignUp(addr) == AlignDown(Wrap(addr + PAGE_SIZE - 1))
ADDR_TO_PAGE(addr) == addr \div PAGE_SIZE
PAGE_TO_ADDR(page) == page * PAGE_SIZE

\* The pages a loop from lo up to hi, both aligned, visits.
PagesBetween(lo, hi) == {p \in Bits : lo <= PAGE_TO_ADDR(p) /\ PAGE_TO_ADDR(p) < hi}

\* What pmm_mark_region_used and pmm_mark_region_free loop over.
Touched(start, size) == PagesBetween(AlignDown(start), AlignUp(Wrap(start + size)))
\* Mutant: pages that lie in the region only in part are freed too.
InsideRoundedOut(start, size) == Touched(start, size) \cap Pages
Inside(start, size) ==
  PagesBetween(AlignUp(start), AlignDown(Wrap(start + size))) \cap Pages

First(S) == CHOOSE p \in S : \A q \in S : p <= q

-----------------------------------------------------------------------------
(* pmm_init                                                                *)

\* An available region, cut to what lies between LOW_MEMORY and MAX_MEMORY.
CutStart(region) == IF region.addr < LOW_MEMORY THEN LOW_MEMORY ELSE region.addr
\* Mutant: regions beyond MAX_MEMORY are not cut.
CutEndUncapped(region) == region.addr + region.len
CutEnd(region) ==
  LET end == region.addr + region.len
  IN  IF end > MAX_PAGES * PAGE_SIZE THEN MAX_PAGES * PAGE_SIZE ELSE end

Usable(map) ==
  {map[k] : k \in {n \in DOMAIN map : map[n].available /\ CutStart(map[n]) < CutEnd(map[n])}}

FreedAtInit(map) ==
  UNION {Inside(CutStart(r), CutEnd(r) - CutStart(r)) : r \in Usable(map)}

\* total_memory, the highest end of a usable region.
TotalMemory(map) ==
  IF Usable(map) = {} THEN 0
  ELSE CutEnd(CHOOSE r \in Usable(map) : \A q \in Usable(map) : CutEnd(q) <= CutEnd(r))

\* The pages pmm_init marks used again: the kernel's and the first megabyte's.
Kept == Touched(kernel_start, kernel_end - kernel_start) \cup Touched(0, LOW_MEMORY)

\* memset covers the array: the bits behind it stay as they are.
pmm_init(map) ==
  /\ total_pages' = TotalMemory(map) \div PAGE_SIZE
  /\ bitmap' = (((Pages \cup bitmap) \ FreedAtInit(map)) \cup (Kept \cap Managed'))
  /\ used_pages' = Cardinality(bitmap' \cap Managed')
  /\ with_map' = TRUE

\* Without MULTIBOOT_INFO_MEM_MAP every page stays marked used, and total_pages is
\* whatever mem_upper makes it, modulo 2^32 bytes.
pmm_init_without_map(mem_upper) ==
  /\ total_pages' = Wrap((mem_upper + LOW_MEMORY \div KB) * KB) \div PAGE_SIZE
  /\ bitmap' = Pages \cup bitmap
  /\ used_pages' = total_pages'
  /\ with_map' = FALSE

Boot ==
  /\ ~ready
  /\ ready' = TRUE
  /\ \/ \E map \in MemoryMaps : pmm_init(map)
     \/ \E mem_upper \in MemUppers : pmm_init_without_map(mem_upper)
  /\ UNCHANGED <<ret, region_freed, overrun>>

\* What lies behind the bitmap changes as its owners please.
OtherData ==
  /\ total_pages > MAX_PAGES
  /\ \E bits \in SUBSET (Managed \ Pages) :
       bitmap' = (bitmap \ (Managed \ Pages)) \cup bits
  /\ UNCHANGED <<total_pages, used_pages, ready, ret, with_map, region_freed, overrun>>

-----------------------------------------------------------------------------
(* Allocation                                                              *)

None == -1

\* The words bitmap_find_free looks at, and their bits.
Words == 0..(total_pages \div WORD - 1)
WordBits(i) == (i * WORD)..(i * WORD + WORD - 1)

\* The first word that is not full, and its first bit that is 0.
bitmap_find_free ==
  LET open == {i \in Words : ~(WordBits(i) \subseteq bitmap)}
  IN  IF open = {} THEN None ELSE First(WordBits(First(open)) \ bitmap)

\* A round of bitmap_find_free_contiguous, for page i.
\* Mutant: a used page does not end the run.
RoundKeepsRun(s, i, count) ==
  IF s.found = count \/ i \in bitmap THEN s
  ELSE [start |-> IF s.found = 0 THEN i ELSE s.start, found |-> s.found + 1]

Round(s, i, count) ==
  IF s.found = count THEN s
  ELSE IF i \in bitmap THEN [start |-> s.start, found |-> 0]
  ELSE [start |-> IF s.found = 0 THEN i ELSE s.start, found |-> s.found + 1]

\* The loop's start and found after the pages below i.
bitmap_find_free_contiguous(count) ==
  LET scan[i \in 0..total_pages] ==
        IF i = 0 THEN [start |-> 0, found |-> 0] ELSE Round(scan[i - 1], i - 1, count)
      last == scan[total_pages]
  IN  IF last.found = count THEN last.start ELSE None

\* A call writes the bits of these pages.
Writes(pages) == overrun' = (overrun \/ ~(pages \subseteq Pages))

\* Mutant: the pages stay marked free.
TakeUnmarked(start, count) ==
  /\ used_pages' = used_pages + count
  /\ ret' = PAGE_TO_ADDR(start)
  /\ Writes(start..(start + count - 1))
  /\ UNCHANGED <<bitmap, total_pages, ready, with_map, region_freed>>

\* Mark the pages used and return the first one's address.
Take(start, count) ==
  /\ bitmap' = bitmap \cup start..(start + count - 1)
  /\ used_pages' = used_pages + count
  /\ ret' = PAGE_TO_ADDR(start)
  /\ Writes(start..(start + count - 1))
  /\ UNCHANGED <<total_pages, ready, with_map, region_freed>>

Fail ==
  /\ ret' = 0
  /\ UNCHANGED <<bitmap, total_pages, used_pages, ready, with_map, region_freed, overrun>>

TakeOrFail(start, count) == IF start = None THEN Fail ELSE Take(start, count)

pmm_alloc_page == TakeOrFail(bitmap_find_free, 1)

pmm_alloc_pages(count) ==
  \/ count = 0 /\ Fail
  \/ count = 1 /\ pmm_alloc_page
  \/ count > 1 /\ TakeOrFail(bitmap_find_free_contiguous(count), count)

-----------------------------------------------------------------------------
(* Freeing and marking                                                     *)

\* Mutant: a page that was free already is counted.
ClearRecount(pages) ==
  /\ bitmap' = bitmap \ pages
  /\ used_pages' = used_pages - Cardinality(pages)
  /\ Writes(pages \cap bitmap)
  /\ UNCHANGED <<total_pages, ready, ret, with_map, region_freed>>

Clear(pages) ==
  /\ bitmap' = bitmap \ pages
  /\ used_pages' = used_pages - Cardinality(pages \cap bitmap)
  /\ Writes(pages \cap bitmap)
  /\ UNCHANGED <<total_pages, ready, ret, with_map, region_freed>>

\* Mutant: a page that was used already is counted.
MarkRecount(pages) ==
  /\ bitmap' = bitmap \cup pages
  /\ used_pages' = used_pages + Cardinality(pages)
  /\ Writes(pages \ bitmap)
  /\ UNCHANGED <<total_pages, ready, ret, with_map, region_freed>>

Mark(pages) ==
  /\ bitmap' = bitmap \cup pages
  /\ used_pages' = used_pages + Cardinality(pages \ bitmap)
  /\ Writes(pages \ bitmap)
  /\ UNCHANGED <<total_pages, ready, ret, with_map, region_freed>>

pmm_free_pages(addr, count) ==
  Clear({ADDR_TO_PAGE(Wrap(addr + i * PAGE_SIZE)) : i \in 0..(count - 1)} \cap Managed)

pmm_free_page(addr) == Clear({ADDR_TO_PAGE(addr)} \cap Managed)

pmm_mark_used(addr) == Mark({ADDR_TO_PAGE(addr)} \cap Managed)

pmm_mark_region_used(start, size) == Mark(Touched(start, size) \cap Managed)

\* The one operation that leaves used_pages alone, and that tests a page against
\* MAX_PAGES.
pmm_mark_region_free(start, size) ==
  /\ bitmap' = bitmap \ Inside(start, size)
  /\ region_freed' = (region_freed \/ Inside(start, size) \cap Managed \cap bitmap # {})
  /\ UNCHANGED <<total_pages, used_pages, ready, ret, with_map, overrun>>

pmm_get_free_memory == Wrap((total_pages - used_pages) * PAGE_SIZE)

-----------------------------------------------------------------------------
PmmInit ==
  /\ bitmap = {} /\ total_pages = 0 /\ used_pages = 0 /\ ready = FALSE /\ ret = 0
  /\ with_map = FALSE /\ region_freed = FALSE /\ overrun = FALSE

Usual == ready /\ ~overrun

AllocPage == Usual /\ pmm_alloc_page
AllocPages(count) == Usual /\ pmm_alloc_pages(count)
FreePage(addr) == Usual /\ pmm_free_page(addr)
FreePages(addr, count) == Usual /\ pmm_free_pages(addr, count)
MarkUsed(addr) == Usual /\ pmm_mark_used(addr)
MarkRegionUsed(start, size) == Usual /\ pmm_mark_region_used(start, size)
MarkRegionFree(start, size) ==
  Usual /\ used_pages <= USED_BOUND /\ pmm_mark_region_free(start, size)

PmmNext ==
  \/ Boot
  \/ OtherData
  \/ AllocPage
  \/ \E count \in Counts : AllocPages(count)
  \/ \E addr \in Addrs : FreePage(addr) \/ MarkUsed(addr)
  \/ \E addr \in Addrs, count \in Counts : FreePages(addr, count)
  \/ \E start \in Addrs, size \in Sizes :
       MarkRegionUsed(start, size) \/ MarkRegionFree(start, size)

PmmSpec == PmmInit /\ [][PmmNext]_pmmVars

-----------------------------------------------------------------------------
\* Given a memory map, pmm_init sets the bounds so that no call, whatever address
\* or size it is passed, writes a bit that is not in the bitmap.  Without a map the
\* code gives no such bound.
WritesStayInBitmap == overrun => ~with_map

\* pmm_get_free_memory says how much is free, from used_pages, which is kept by
\* increments and decrements in six functions.  Once pmm_mark_region_free, which
\* leaves used_pages alone, has freed a page it says less, and only then: until
\* used_pages is above total_pages and the difference wraps.
FreeMemoryReported ==
  ready /\ total_pages <= MAX_PAGES =>
    LET free == Cardinality(Managed \ bitmap) * PAGE_SIZE
    IN  \/ pmm_get_free_memory = free
        \/ region_freed /\ (used_pages <= total_pages => pmm_get_free_memory < free)

\* Every other call keeps used_pages in step with the bits, whatever is freed
\* twice, marked twice or out of range, and wherever the bits are.
UsedPagesCounted ==
  [][ ready => \/ used_pages' - used_pages =
                    Cardinality(bitmap' \cap Managed) - Cardinality(bitmap \cap Managed)
               \/ OtherData
               \/ \E start \in Addrs, size \in Sizes : MarkRegionFree(start, size) ]_pmmVars

\* The places where count pages lie free side by side; single pages are looked for
\* in whole words only.
Places(count) ==
  {p \in Managed : /\ \A q \in p..(p + count - 1) : q \in Managed \ bitmap
                   /\ count = 1 => p < (total_pages \div WORD) * WORD}

FirstFit(count) == First(Places(count))

\* An allocation takes the first place there is, changes no other bit, and fails
\* when there is none, wherever the used pages lie and wherever memory ends.
AllocationIsFirstFit ==
  [][ \A count \in Counts \ {0} : AllocPages(count) =>
        IF Places(count) = {} THEN ret' = 0 /\ bitmap' = bitmap
        ELSE /\ ret' = PAGE_TO_ADDR(FirstFit(count))
             /\ bitmap' = bitmap \cup FirstFit(count)..(FirstFit(count) + count - 1) ]_pmmVars
=============================================================================
